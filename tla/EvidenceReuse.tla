---------------------------- MODULE EvidenceReuse ----------------------------
(***************************************************************************)
(* When the result of a command that was run on a candidate tree may stand  *)
(* in for a new run on the project: EvidenceLedger (local_agent/evidence.py) *)
(* and ValidationDecisionEngine (local_agent/validation_decision.py).       *)
(* All operators are pure; CandidateRun drives them.                        *)
(*                                                                         *)
(* A fingerprint is the restriction of a tree to the files it covers.       *)
(* Durations, trimmed outputs and explanations are left out.  The field     *)
(* "ran" is not in the code: it is the tree the command really saw.         *)
(***************************************************************************)
EXTENDS Naturals, Sequences, FiniteSets, SequencesExt

CONSTANTS
    Files,          \* paths, of sources and of tests
    Contents,       \* what a file may hold
    Absent,         \* the content of a file that does not exist
    Commands,       \* the validation commands there are
    TestFile,       \* the file a command names last; NoFile when it names none
    NoFile,
    MinConfidence,  \* validation_confidence_threshold
    MaxLedger       \* EvidenceLedger.max_entries

ASSUME ReuseAssumption ==
    /\ IsFiniteSet(Files) /\ Absent \in Contents
    /\ TestFile \in [Commands -> Files \cup {NoFile}] /\ NoFile \notin Files
    /\ MinConfidence \in {"low", "medium", "high"} /\ MaxLedger \in Nat \ {0}

Trees == [Files -> Contents]
Levels == <<"low", "medium", "high">>
AtLeast(level, min) ==
    \E i, j \in DOMAIN Levels : Levels[i] = level /\ Levels[j] = min /\ i >= j

\* What is in S of a sequence, in its order (SelectSeq for a set, in a form that can
\* be reasoned about)
Among(s, S) ==
    LET first[n \in 0..Len(s)] ==
            IF n = 0 THEN <<>>
            ELSE IF s[n] \in S THEN Append(first[n - 1], s[n]) ELSE first[n - 1]
    IN first[Len(s)]

\* compute_state_fingerprint
ContentOf(tree, P) == [f \in P |-> tree[f]]

\* What identifies the surroundings of a run, and what they are now
IdentityChecks == {"policy", "executable", "analyzer"}
NotRecorded == "not recorded"
Now == "as configured"

-----------------------------------------------------------------------------
(* The ledger.                                                             *)

EmptyLedger == [entries |-> <<>>, grants |-> 0, denials |-> 0]

\* EvidenceLedger.record, for entries in their order
RecordEntries(ledger, es) ==
    LET n == Len(ledger.entries) + Len(es) IN
    [ledger EXCEPT !.entries =
        SubSeq(@ \o es, IF n > MaxLedger THEN n - MaxLedger + 1 ELSE 1, n)]

\* Ledger entries as ImplementationResult carries them, and back (to_dict,
\* from_dict): the counters start again
Reloaded(entries) == RecordEntries(EmptyLedger, entries)

\* The conditions of find_reusable on one entry, in the code's order; the last
\* compares the files as they are now.  A query says which of the optional
\* checks are made (the keyword arguments that are not None)
Unchanged(e, q) ==
    /\ e.status = "passed" /\ e.files = q.files /\ e.symbols = q.symbols
    /\ AtLeast(e.confidence, MinConfidence)
    /\ ~("age" \in q.checks /\ q.expired)
    /\ \A k \in IdentityChecks \cap q.checks : e.identity[k] = Now
Reusable(e, q, tree) == Unchanged(e, q) /\ ContentOf(tree, q.files) = e.print

\* Mutant: the fingerprint is not compared with the files as they are now
FindReusableBlind(ledger, q, tree) ==
    LET ok == { i \in DOMAIN ledger.entries :
                  q.enabled /\ ledger.entries[i].cmd = q.cmd /\ Unchanged(ledger.entries[i], q) }
    IN { ledger.entries[i] : i \in { i \in ok : \A j \in ok : j <= i } }
\* find_reusable: the newest entry of the command that satisfies everything, or none.
\* Why there is none is left out
FindReusable(ledger, q, tree) ==
    LET ok == { i \in DOMAIN ledger.entries :
                  /\ q.enabled /\ ledger.entries[i].cmd = q.cmd
                  /\ Reusable(ledger.entries[i], q, tree) }
    IN { ledger.entries[i] : i \in { i \in ok : \A j \in ok : j <= i } }

-----------------------------------------------------------------------------
(* The decision.                                                           *)

\* _semantic_commands: the targets of the impact report whose file exists
SemanticCommands(impact, tree) ==
    Among(impact.targets, { c \in Commands : TestFile[c] = NoFile \/ tree[TestFile[c]] # Absent })

\* decide: only high confidence at targeted scope drops the commands found by
\* file name
NarrowAllowed(impact, tree) ==
    /\ AtLeast(impact.confidence, MinConfidence) /\ impact.scope = "targeted"
    /\ SemanticCommands(impact, tree) # <<>>
Decide(impact, tree, lexical) ==
    LET semantic == SemanticCommands(impact, tree) IN
    IF NarrowAllowed(impact, tree) THEN semantic
    ELSE semantic \o Among(lexical, Commands \ ToSet(semantic))

\* What a command is taken to depend on
Relevant(cmd, impact) ==
    impact.changed \cup impact.affected \cup ({TestFile[cmd]} \ {NoFile})

\* apply_reuse: one question per selected command; those that are not
\* satisfied remain to be run
Query(cmd, impact, checks, expired) ==
    [cmd |-> cmd, files |-> Relevant(cmd, impact), symbols |-> impact.symbols,
     checks |-> checks, expired |-> expired, enabled |-> TRUE]
ApplyReuse(selected, impact, tree, ledger, checks, expired) ==
    LET answer == [ i \in DOMAIN selected |->
                      FindReusable(ledger, Query(selected[i], impact, checks, expired), tree) ]
        granted == { i \in DOMAIN selected : answer[i] # {} }
    IN [remaining |-> Among(selected, Commands \ { selected[i] : i \in granted }),
        reused    |-> UNION { answer[i] : i \in granted },
        ledger    |-> [ledger EXCEPT !.grants = @ + Cardinality(granted),
                                     !.denials = @ + Len(selected) - Cardinality(granted)]]
=============================================================================
