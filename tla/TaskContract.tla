---------------------------- MODULE TaskContract ----------------------------
(***************************************************************************)
(* The requirements a task's objective is taken apart into, and when the   *)
(* state of the workspace satisfies them: derive_task_contract and         *)
(* RequirementAssessmentEngine (local_agent/task_contract.py).  All        *)
(* operators are pure; MultiTurn uses them.                                *)
(*                                                                         *)
(* Texts are sets of content words (stop words removed), a line of code    *)
(* the set of words on it; that a word occurs in a text is membership.     *)
(* The files whose path contains a path the user wrote, or is contained in *)
(* it, in any letter case, stand for that path.                            *)
(***************************************************************************)
EXTENDS Naturals, Sequences, FiniteSets

CONSTANTS MaxRequirements,   \* MAX_REQUIREMENTS
          MaxObligations     \* MAX_OBLIGATIONS_PER_REQUIREMENT

ASSUME ContractAssumption == MaxRequirements \in Nat /\ MaxObligations \in Nat

NoWord == "none"

-----------------------------------------------------------------------------
(* Derivation.  An objective is a record of its clauses in order, the      *)
(* constraints ("do not modify X", as the files X stands for) and the      *)
(* phrases that ask to preserve something.  A clause has its words, the    *)
(* items of the list it enumerates, whether it is specific (a number, a    *)
(* quoted name, from-to) and the value it asks for; doc and test mark the  *)
(* clauses that ask for documentation or tests.                            *)

\* Requirement, for the kinds of clause below
Requirement(kind, words) ==
    [kind |-> kind, words |-> words, paths |-> {}, scope |-> {}, specific |-> FALSE,
     value |-> NoWord, items |-> <<>>, pin |-> NoWord]

Counted(s, n) == SubSeq(s, 1, IF Len(s) < n THEN Len(s) ELSE n)

\* One requirement for a clause, with an obligation for each item it enumerates
OfClause(c, planned) ==
    [Requirement("functional", c.words) EXCEPT
        !.scope = planned, !.specific = c.specific, !.value = c.value,
        !.items = Counted(c.items, MaxObligations)]

OfConstraint(files) == [Requirement("constraint", {}) EXCEPT !.paths = files]

\* derive_task_contract: functional clauses, constraints, compatibility clauses,
\* documentation, tests; what comes after MaxRequirements is dropped
DeriveContract(objective, planned) ==
    LET plain(c) == ~c.doc /\ ~c.test
        clauses  == SelectSeq(Counted(objective.clauses, MaxRequirements), plain)
        asked(Hint(_)) == \E i \in DOMAIN objective.clauses : Hint(objective.clauses[i])
        doc(c)   == c.doc
        test(c)  == c.test
    IN  Counted([ i \in DOMAIN clauses |-> OfClause(clauses[i], planned) ]
                \o [ i \in DOMAIN objective.constraints |->
                        OfConstraint(objective.constraints[i]) ]
                \o [ i \in DOMAIN objective.preserve |->
                        Requirement("compatibility", objective.preserve[i]) ]
                \o (IF asked(doc) THEN <<Requirement("documentation", {})>> ELSE <<>>)
                \o (IF asked(test) THEN <<Requirement("testing", {})>> ELSE <<>>),
                MaxRequirements)

-----------------------------------------------------------------------------
(* Assessment.  Facts are what the engine is given: ops, the paths of the  *)
(* applied operations; pathWords, the words of those paths; docs, whether  *)
(* one of them looks like documentation; lines, the lines the diff adds;   *)
(* review, the live verdict; passing and failing, whether valid test       *)
(* evidence of either kind exists; tests, the synthesized tests among it   *)
(* with their exercised words and paths; answered, the clarifications.     *)

Changed(facts) == facts.ops # {} \/ facts.lines # {}
Haystack(facts) == facts.pathWords \cup UNION facts.lines

\* All words of a short text, three quarters (rounded up) of a longer one
Correlates(words, facts) ==
    LET n == Cardinality(words)
        required == IF n <= 4 THEN n ELSE (3 * n + 3) \div 4
    IN  Cardinality(words \cap Haystack(facts)) >= required

\* A text without content words asks for applied operations
Shown(words, facts) ==
    Changed(facts) /\ IF words = {} THEN facts.ops # {} ELSE Correlates(words, facts)

\* A line that sets the value also names what the requirement is about
Colocated(value, words, facts) ==
    words = {} \/ \E l \in facts.lines : value \in l /\ l \cap words # {}

\* Candidates: synthesized tests whose symbols share a word with the item and
\* whose paths meet the scope, where both are known
Candidates(r, item, facts) ==
    { t \in facts.tests : /\ r.scope = {} \/ t.paths = {} \/ r.scope \cap t.paths # {}
                          /\ t.words \cap item # {} }

\* Mutant: a test that matches several obligations counts for each
CandidatesOfAny(contract, r, item, facts) == Candidates(r, item, facts)

\* A test that is a candidate of several obligations of the contract proves none
Unambiguous(contract, r, item, facts) ==
    { t \in Candidates(r, item, facts) :
        Cardinality({ p \in (DOMAIN contract) \X (1..MaxObligations) :
                        /\ p[2] \in DOMAIN contract[p[1]].items
                        /\ t \in Candidates(contract[p[1]], contract[p[1]].items[p[2]], facts) })
            = 1 }

\* _assess_obligation: a failing test dominates, a passing one that is not
\* trivial proves the item (without a scope only if its symbol is in the diff);
\* otherwise the words must be in the change
ObligationState(contract, r, item, facts) ==
    LET tests  == Unambiguous(contract, r, item, facts)
        proofs == { t \in tests : t.ok /\ ~t.trivial /\ (r.scope # {} \/ t.added) }
    IN  CASE \E t \in tests : ~t.ok -> "FAILED"
          [] (\A t \in tests : t.ok) /\ proofs # {} -> "SATISFIED"
          [] (\A t \in tests : t.ok) /\ proofs = {} /\ Shown(item, facts) -> "SATISFIED"
          [] OTHER -> "UNVERIFIED"

\* _rollup_obligations
RollUp(states) ==
    CASE "FAILED" \in states -> "FAILED"
      [] "FAILED" \notin states /\ states \subseteq {"SATISFIED"} -> "SATISFIED"
      [] OTHER -> "UNVERIFIED"

\* A vague clause without functional siblings is satisfied by any change
IsFunctional(r) == r.kind = "functional"
Lenient(contract, r) ==
    /\ Cardinality({ i \in DOMAIN contract : IsFunctional(contract[i]) }) <= 1
    /\ ~r.specific

\* _assess_one, for a clause without obligations
ClauseState(contract, r, facts) ==
    CASE ~Changed(facts) -> IF facts.review = "APPROVED" THEN "SATISFIED" ELSE "UNVERIFIED"
      [] Changed(facts) /\ Lenient(contract, r) -> "SATISFIED"
      [] OTHER -> IF /\ Shown(r.words, facts)
                     /\ r.words # {} /\ r.value # NoWord => Colocated(r.value, r.words, facts)
                  THEN "SATISFIED" ELSE "UNVERIFIED"

\* The state of requirement i of the contract
StateOf(contract, i, facts) ==
    LET r == contract[i]
        met(b) == IF b THEN "SATISFIED" ELSE "UNVERIFIED"
    IN  CASE r.items # <<>> ->
                RollUp({ ObligationState(contract, r, r.items[j], facts) : j \in DOMAIN r.items })
          [] r.items = <<>> /\ r.pin # NoWord /\ r.pin \notin facts.answered -> "BLOCKED"
          [] r.items = <<>> /\ (r.pin = NoWord \/ r.pin \in facts.answered) ->
                CASE r.kind = "constraint" ->
                        IF r.paths \cap facts.ops # {} THEN "FAILED" ELSE "SATISFIED"
                  [] r.kind = "testing" ->
                        IF facts.failing THEN "FAILED" ELSE met(facts.passing)
                  [] r.kind = "documentation" ->
                        IF Changed(facts) THEN met(facts.docs)
                        ELSE met(facts.review = "APPROVED")
                  [] r.kind = "functional" -> ClauseState(contract, r, facts)
                  [] OTHER -> "UNVERIFIABLE"

\* RequirementAssessmentEngine.assess: every requirement is a MUST
Satisfied(contract, facts) ==
    \A i \in DOMAIN contract : StateOf(contract, i, facts) = "SATISFIED"
=============================================================================
