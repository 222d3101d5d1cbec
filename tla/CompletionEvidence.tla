------------------------- MODULE CompletionEvidence -------------------------
(***************************************************************************)
(* The evidence a task collects and the gates that decide from it whether  *)
(* the task is complete: CompletionEvidenceStore and                       *)
(* CompletionDecisionEngine (local_agent/completion.py).  All operators    *)
(* are pure; MultiTurn drives them.                                        *)
(*                                                                         *)
(* A fingerprint is the restriction of the tree to the paths it covers, so *)
(* that two fingerprints are equal exactly when the files are (SHA-256 is  *)
(* taken to be injective).  Ids, trust tiers, timestamps, redaction and    *)
(* the texts of the assessment are left out: no gate reads them.           *)
(***************************************************************************)
EXTENDS Naturals, Sequences, FiniteSets

CONSTANTS
    Files,          \* paths of the project
    Contents,       \* what a file may hold
    Absent,         \* the content of a file that does not exist
    Unparsable,     \* contents ast.parse rejects, in files whose name ends in .py
    Guarded,        \* paths gate 1 refuses: approval.py, tool_engine.py, secrets
    MaxEntries      \* CompletionEvidenceStore.max_entries

ASSUME EvidenceAssumption ==
    /\ IsFiniteSet(Files) /\ Absent \in Contents
    /\ Unparsable \subseteq Contents \ {Absent} /\ Guarded \subseteq Files
    /\ MaxEntries \in Nat \ {0}

Trees == [Files -> Contents]
Prints == UNION { [P -> Contents] : P \in SUBSET Files }

\* EvidenceType, as far as the agents record it
GlobalKinds == {"test", "review", "diff"}
Kinds == GlobalKinds \cup {"syntax", "safety", "clarification", "repair", "compliance"}

\* The text of a diff.  The diff of a repository shows what differs from BASE;
\* elsewhere, and when git reports nothing, every operation is shown against an
\* empty original
Diffs == [git : BOOLEAN, lines : SUBSET (Files \X Contents)]
NoDiff == [git |-> FALSE, lines |-> {}]
NoRequirement == 0

-----------------------------------------------------------------------------
(* The store.                                                              *)

\* compute_state_fingerprint
Fingerprint(tree, P) == [f \in P |-> tree[f]]

\* StructuredEvidence: ok is exit code 0, or the verdict APPROVED, or the state
\* SATISFIED of requirement number req
Evidence(kind, ok, P, tree) ==
    [kind |-> kind, ok |-> ok, paths |-> P, print |-> Fingerprint(tree, P),
     diff |-> NoDiff, req |-> NoRequirement, valid |-> TRUE]
EmptyStore == [entries |-> <<>>, ever |-> {}]

\* FIFO eviction: the oldest entries go
Evict(s) == IF Len(s) > MaxEntries THEN SubSeq(s, Len(s) - MaxEntries + 1, Len(s)) ELSE s

\* CompletionEvidenceStore.record, for the entries es one after the other
RecordAll(store, es) ==
    [entries |-> Evict(store.entries \o es),
     ever    |-> store.ever \cup { es[i].kind : i \in DOMAIN es }]
Record(store, e) == RecordAll(store, <<e>>)

\* was_ever_recorded
WasEverRecorded(store, kind) == kind \in store.ever

Stale(e, tree) == e.paths # {} /\ Fingerprint(tree, e.paths) # e.print

\* invalidate_on_file_mutation: test, review and diff entries certify the whole
\* tree, the others the paths they name
InvalidateOnFileMutation(store, modified, tree) ==
    [store EXCEPT !.entries = [ i \in DOMAIN store.entries |->
        LET e == store.entries[i] IN
        [e EXCEPT !.valid = e.valid /\ ~(/\ modified # {}
                                         /\ \/ e.kind \in GlobalKinds
                                            \/ e.paths \cap modified # {} /\ Stale(e, tree))] ]]

\* revalidate_against_disk
Revalidate(store, tree) ==
    [store EXCEPT !.entries = [ i \in DOMAIN store.entries |->
        LET e == store.entries[i] IN
        [e EXCEPT !.valid = e.valid /\ ~Stale(e, tree)] ]]

\* get_valid_evidence
ValidEvidence(store, kind) ==
    { store.entries[i] : i \in { j \in DOMAIN store.entries :
                                    store.entries[j].valid /\ store.entries[j].kind = kind } }
Passing(store) == { e \in ValidEvidence(store, "test") : e.ok }
Failing(store) == { e \in ValidEvidence(store, "test") : ~e.ok }

-----------------------------------------------------------------------------
(* CompletionDecisionEngine.evaluate on a store that was just revalidated: *)
(* ops are the paths of the applied operations, review the live verdict,   *)
(* failure whether a failure with a cause is on record, pending whether a  *)
(* clarification is.  Gate 8 compares worktree ids no caller passes.       *)

ProtectedFilesIntact(ops) == ops \cap Guarded = {}

NoChangesNeeded(ops, diff, review) == ops = {} /\ diff.lines = {} /\ review = "APPROVED"
DiffNonEmpty(ops, diff, review) ==
    ops # {} \/ diff.lines # {} \/ NoChangesNeeded(ops, diff, review)

SyntaxClean(ops, tree) == \A f \in ops : tree[f] \notin Unparsable

\* Gate 4: a failing run blocks, a passing one passes; without either, a store
\* that ever saw a test run needs a new one
ValidationPassed(store, tree, ops, diff, review) ==
    /\ Failing(store) = {}
    /\ \/ Passing(store) # {}
       \/ /\ ~WasEverRecorded(store, "test")
          /\ \/ SyntaxClean(ops, tree) /\ ops # {}
             \/ NoChangesNeeded(ops, diff, review)

Approvals(store) == { e \in ValidEvidence(store, "review") : e.ok }

\* Mutant: the live verdict is enough
ReviewApprovedLive(store, diff, review) == review = "APPROVED"

\* Gate 5: the live verdict and a recorded approval of this very diff; an empty
\* diff has no hash to compare
ReviewApproved(store, diff, review) ==
    /\ review = "APPROVED" /\ Approvals(store) # {}
    /\ diff.lines # {} => \E e \in Approvals(store) : e.diff = diff

NoUnresolvedFailures(store, tree, ops, diff, review, failure) ==
    failure => /\ ValidationPassed(store, tree, ops, diff, review)
               /\ SyntaxClean(ops, tree) /\ Passing(store) # {}

\* The readiness level
Readiness(store, tree, ops, diff, review, failure, pending) ==
    CASE ~ProtectedFilesIntact(ops) \/ ~SyntaxClean(ops, tree) -> "BLOCKED"
      [] /\ ProtectedFilesIntact(ops) /\ SyntaxClean(ops, tree)
         /\ DiffNonEmpty(ops, diff, review)
         /\ ValidationPassed(store, tree, ops, diff, review)
         /\ ReviewApproved(store, diff, review)
         /\ NoUnresolvedFailures(store, tree, ops, diff, review, failure)
         /\ ~pending -> "READY"
      [] OTHER -> "NOT_READY"
=============================================================================
