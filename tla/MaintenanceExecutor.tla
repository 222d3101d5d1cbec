------------------------ MODULE MaintenanceExecutor ------------------------
(***************************************************************************)
(* MaintenanceExecutor.execute: one work order of autonomous maintenance,  *)
(* from the freshness check to the release or completion of its claim in   *)
(* the execution journal, by several processes on one repository, while    *)
(* the user edits the files.  A step ends where the code reads or writes   *)
(* the repository or the journal, so that others may act in between.       *)
(*                                                                         *)
(* A file is known by its content: the revision of the user it goes back   *)
(* to, the defects the oracles see in it, and who wrote it.  What the      *)
(* agent, the validation and the approval answer is any answer.            *)
(***************************************************************************)
EXTENDS Integers, FiniteSets

CONSTANTS
    Procs,              \* the processes that execute work orders
    Files,
    Candidates, FileOf, \* the defects that are known, and the file of each
    Drafts,             \* what tells two repairs of one content apart
    Events,             \* the disturbances that may happen
    MaxDisturbances,    \* how many of them (bound)
    MaxOrders           \* how many work orders are begun (bound), 0 for any number

ASSUME FileAssumption == FileOf \in [Candidates -> Files]
ASSUME DraftAssumption == {"user", "absent", "torn"} \cap Drafts = {}
ASSUME BoundAssumption == MaxDisturbances \in Nat /\ MaxOrders \in Nat

VARIABLES
    tree,       \* the content of every file
    claimed,    \* the keys the journal has as in_progress
    closed,     \* the keys it has with a final status
    pc, job,    \* where a process is, and the candidate of its order
    seen,       \* the content it last read and goes by: of the plan, then the
                \* base of the workspace, then the original of the change
    key,        \* the key it has claimed
    new,        \* the content it has prepared
    status,     \* what its result's status means
    written,    \* ghost: the keys under which a file was written
    abandoned,  \* ghost: the keys whose execution was cut short
    accepted,   \* ghost: the contents an execution has COMPLETED with
    alarm,      \* the files of which "ROLLBACK FAILED" was reported
    exposed,    \* ghost: the files left unprotected, see the README
    disturbed, ordered

journal    == <<claimed, closed>>
orderVars  == <<job, seen, key, new, status>>
ghosts     == <<written, abandoned, accepted, alarm, exposed>>
bounds     == <<disturbed, ordered>>
vars == <<tree, journal, pc, orderVars, ghosts, bounds>>

None == "none"
RETRYABLE_STATUSES == {"PROVIDER_FAILURE", "IMPLEMENTATION_FAILURE",
    "PROSPECTIVE_VALIDATION_FAILED", "BUDGET_EXHAUSTED", "APPROVAL_REQUIRED",
    "SEMANTIC_VERIFICATION_FAILED"}
Meaning(result) ==
    IF result = "COMPLETED" THEN "completed"
    ELSE IF result \in RETRYABLE_STATUSES THEN "retryable" ELSE "final"
Meanings == {"completed", "retryable", "final"}

DefectsOf(f) == {c \in Candidates : FileOf[c] = f}
Contents == [rev : Nat, broken : SUBSET Candidates,
             by : {"user", "absent", "torn"} \cup Drafts]
Keys == [cand : Candidates, content : Contents]
NoContent == [rev |-> 0, broken |-> {}, by |-> "absent"]
NoKey == [cand |-> None, content |-> NoContent]

Points == {"idle", "check", "claim", "implement", "prepare", "approve", "apply",
           "applied", "rollback", "refused", "finished"}

\* The processes that hold a claim, and those that have changed their file and
\* do not know yet whether the change stays
Holding == {p \in Procs : pc[p] \notin {"idle", "check", "claim"}}
Unsettled == {p \in Procs : pc[p] \in {"applied", "rollback"}}

MyFile(p) == FileOf[job[p]]
Now(p)    == tree[MyFile(p)]
Exists(content) == content.by # "absent"
ByAgent(content) == content.by \notin {"user", "absent"}

-----------------------------------------------------------------------------
Init ==
    /\ tree = [f \in Files |-> [rev |-> 0, broken |-> DefectsOf(f), by |-> "user"]]
    /\ claimed = {} /\ closed = {}
    /\ pc = [p \in Procs |-> "idle"] /\ job = [p \in Procs |-> None]
    /\ seen = [p \in Procs |-> NoContent] /\ key = [p \in Procs |-> NoKey]
    /\ new = [p \in Procs |-> NoContent] /\ status = [p \in Procs |-> None]
    /\ written = {} /\ abandoned = {} /\ accepted = {} /\ alarm = {} /\ exposed = {}
    /\ disturbed = 0 /\ ordered = 0

Disturb(event) ==
    /\ event \in Events /\ disturbed < MaxDisturbances
    /\ disturbed' = disturbed + 1 /\ UNCHANGED ordered

\* The process is done with the order
End(p) ==
    /\ pc' = [pc EXCEPT ![p] = "idle"] /\ job' = [job EXCEPT ![p] = None]
    /\ seen' = [seen EXCEPT ![p] = NoContent] /\ key' = [key EXCEPT ![p] = NoKey]
    /\ new' = [new EXCEPT ![p] = NoContent] /\ status' = [status EXCEPT ![p] = None]

Goto(p, point) == pc' = [pc EXCEPT ![p] = point]

\* The order has its status; what is left is to settle the claim
Settle(p, point, meaning) ==
    /\ Goto(p, point) /\ status' = [status EXCEPT ![p] = meaning]
    /\ UNCHANGED <<job, key>>
    /\ seen' = [seen EXCEPT ![p] = NoContent] /\ new' = [new EXCEPT ![p] = NoContent]

-----------------------------------------------------------------------------
\* build_work_order for a candidate some scan has found: the fingerprint is that
\* of the file now, whatever the scan saw
Begin(p, c) ==
    /\ pc[p] = "idle" 
    /\ \/ MaxOrders = 0 /\ UNCHANGED ordered
       \/ ordered < MaxOrders /\ ordered' = ordered + 1
    /\ Goto(p, "check") /\ job' = [job EXCEPT ![p] = c]
    /\ seen' = [seen EXCEPT ![p] = tree[FileOf[c]]]
    /\ UNCHANGED <<tree, journal, key, new, status, ghosts, disturbed>>

\* _validate_order, the policy decided again, _effective_limits
RefuseEarly(p) ==
    /\ pc[p] = "check" /\ End(p)
    /\ UNCHANGED <<tree, journal, ghosts, bounds>>

\* _check_freshness
Fresh(p) == Exists(Now(p)) /\ Now(p) = seen[p] /\ job[p] \in Now(p).broken

CheckFresh(p) ==
    /\ pc[p] = "check" /\ Fresh(p) /\ Goto(p, "claim")
    /\ UNCHANGED <<tree, journal, orderVars, ghosts, bounds>>

Stale(p) ==
    /\ pc[p] = "check" /\ ~Fresh(p) /\ End(p)
    /\ UNCHANGED <<tree, journal, ghosts, bounds>>

\* _execution_key: the content is read once more, and what the policy adds to
\* the key does not change here
ExecutionKey(p) == [cand |-> job[p], content |-> Now(p)]

\* ExecutionJournal.claim creates the file of the key or fails
Taken(k) == k \in claimed \cup closed

Claim(p) ==
    /\ pc[p] = "claim" /\ ~Taken(ExecutionKey(p))
    /\ claimed' = claimed \cup {ExecutionKey(p)} /\ UNCHANGED closed
    /\ key' = [key EXCEPT ![p] = ExecutionKey(p)]
    /\ seen' = [seen EXCEPT ![p] = NoContent]
    /\ Goto(p, "implement")
    /\ UNCHANGED <<tree, job, new, status, ghosts, bounds>>

Duplicate(p) ==
    /\ pc[p] = "claim" /\ Taken(ExecutionKey(p)) /\ End(p)
    /\ UNCHANGED <<tree, journal, ghosts, bounds>>

-----------------------------------------------------------------------------
\* _implement: the agent works in a copy of the repository
Implement(p) ==
    /\ pc[p] = "implement" /\ Goto(p, "prepare")
    /\ seen' = [seen EXCEPT ![p] = Now(p)]
    /\ UNCHANGED <<tree, journal, job, key, new, status, ghosts, bounds>>

ImplementFails(p) ==
    /\ pc[p] = "implement"
    /\ \E result \in {"PROVIDER_FAILURE", "IMPLEMENTATION_FAILURE", "NO_CHANGE",
                      "PROSPECTIVE_VALIDATION_FAILED", "BUDGET_EXHAUSTED",
                      "SCOPE_VIOLATION"} : Settle(p, "refused", Meaning(result))
    /\ UNCHANGED <<tree, journal, ghosts, bounds>>

\* What the file may become.  An operation that carries the whole content makes
\* of it what the agent made of its copy; a patch is applied to the file as it is
\* now, with any effect if that is not what the agent worked on.  The agent may
\* also write what was there.
Results(p) ==
    {seen[p]} \cup
    [rev : {seen[p].rev, Now(p).rev}, broken : SUBSET DefectsOf(MyFile(p)), by : Drafts]

\* _prepare.  The action write does without the file, modify does not.
Prepare(p) ==
    /\ pc[p] = "prepare" /\ Goto(p, "approve")
    /\ \E content \in {r \in Results(p) : Exists(r)} : new' = [new EXCEPT ![p] = content]
    /\ seen' = [seen EXCEPT ![p] = Now(p)]
    /\ exposed' = IF \E q \in Unsettled \ {p} : MyFile(q) = MyFile(p)
                  THEN exposed \cup {MyFile(p)} ELSE exposed
    /\ UNCHANGED <<tree, journal, job, key, status, written, abandoned, accepted, alarm,
                   bounds>>

PrepareFails(p) ==
    /\ pc[p] = "prepare" /\ Settle(p, "refused", Meaning("APPLY_FAILED"))
    /\ UNCHANGED <<tree, journal, ghosts, bounds>>

\* The diff limit, the approval gate and the last look at the clock
Approve(p) ==
    /\ pc[p] = "approve" /\ Goto(p, "apply")
    /\ UNCHANGED <<tree, journal, orderVars, ghosts, bounds>>

\* Mutant: a refusal after the claim returns no key
NotApprovedReturns(p) ==
    /\ pc[p] = "approve" /\ End(p)
    /\ UNCHANGED <<tree, journal, ghosts, bounds>>

NotApproved(p) ==
    /\ pc[p] = "approve"
    /\ \E result \in {"BUDGET_EXHAUSTED", "APPROVAL_REQUIRED"} : Settle(p, "refused", Meaning(result))
    /\ UNCHANGED <<tree, journal, ghosts, bounds>>

-----------------------------------------------------------------------------
\* write_text truncates the file and then writes: what may be left of it
Torn(p) == [rev : {new[p].rev}, broken : SUBSET DefectsOf(MyFile(p)), by : {"torn"}]

\* _apply_and_validate, up to the write
Apply(p) ==
    /\ pc[p] = "apply" /\ Goto(p, "applied")
    /\ tree' = [tree EXCEPT ![MyFile(p)] = new[p]]
    /\ written' = written \cup {key[p]}
    /\ UNCHANGED <<journal, orderVars, abandoned, accepted, alarm, exposed, bounds>>

\* apply_prepared restores the files written before the one that failed, which in
\* a change of one file is none
ApplyFails(p) ==
    /\ pc[p] = "apply" /\ Settle(p, "refused", Meaning("APPLY_FAILED"))
    /\ UNCHANGED <<tree, journal, ghosts, bounds>>

ApplyTears(p) ==
    /\ pc[p] = "apply" /\ Settle(p, "refused", Meaning("APPLY_FAILED")) /\ Disturb("torn")
    /\ \E content \in Torn(p) : tree' = [tree EXCEPT ![MyFile(p)] = content]
    /\ written' = written \cup {key[p]} /\ exposed' = exposed \cup {MyFile(p)}
    /\ UNCHANGED <<journal, abandoned, accepted, alarm>>

\* Validation, oracle and semantic verification look at the file as it is now.
\* Only the first two are true of the content; the rest is any answer.
Passes(p) ==
    /\ pc[p] = "applied" /\ Exists(Now(p)) /\ job[p] \notin Now(p).broken
    /\ Settle(p, "finished", Meaning("COMPLETED"))
    /\ accepted' = accepted \cup {<<MyFile(p), Now(p)>>}
    /\ UNCHANGED <<tree, journal, written, abandoned, alarm, exposed, bounds>>

\* Mutant: a failed verification does not put the tree back
FailsKept(p) ==
    /\ pc[p] = "applied"
    /\ \E result \in {"POST_VALIDATION_FAILED", "SIGNAL_NOT_RESOLVED",
                      "SEMANTIC_VERIFICATION_FAILED"} : Settle(p, "finished", Meaning(result))
    /\ UNCHANGED <<tree, journal, ghosts, bounds>>

Fails(p) ==
    /\ pc[p] = "applied" /\ Goto(p, "rollback")
    /\ \E result \in {"POST_VALIDATION_FAILED", "SIGNAL_NOT_RESOLVED"}
                     \cup IF job[p] \in Now(p).broken THEN {}
                          ELSE {"SEMANTIC_VERIFICATION_FAILED"} :
          status' = [status EXCEPT ![p] = Meaning(result)]
    /\ UNCHANGED <<tree, journal, job, seen, key, new, ghosts, bounds>>

\* _rollback: nothing when there was no file, else the file gets the original back,
\* if there is a file
RolledBack(p) ==
    /\ pc[p] = "rollback" /\ Settle(p, "finished", status[p])
    /\ \/ /\ Exists(seen[p]) /\ Exists(Now(p))
          /\ tree' = [tree EXCEPT ![MyFile(p)] = seen[p]] /\ UNCHANGED exposed
       \/ /\ ~Exists(seen[p])
          /\ exposed' = exposed \cup {MyFile(p)} /\ UNCHANGED tree
    /\ UNCHANGED <<journal, written, abandoned, accepted, alarm, bounds>>

RollbackFails(p) ==
    /\ pc[p] = "rollback" /\ Exists(seen[p]) /\ Settle(p, "finished", status[p])
    /\ \/ ~Exists(Now(p)) /\ UNCHANGED <<tree, bounds>>
       \/ /\ Exists(Now(p)) /\ Disturb("rollback")
          /\ \E content \in {Now(p)} \cup Torn(p) : tree' = [tree EXCEPT ![MyFile(p)] = content]
    /\ alarm' = alarm \cup {MyFile(p)}
    /\ UNCHANGED <<journal, written, abandoned, accepted, exposed>>

-----------------------------------------------------------------------------
\* Mutant: a retryable status releases the key whatever was done under it
ToReleaseAlways(p) == pc[p] \in {"refused", "finished"} /\ status[p] = "retryable"

\* The end of execute: only an execution that has not applied gives the key back
ToRelease(p) == pc[p] = "refused" /\ status[p] = "retryable"

Release(p) ==
    /\ ToRelease(p) /\ End(p)
    /\ claimed' = claimed \ {key[p]} /\ UNCHANGED closed
    /\ UNCHANGED <<tree, ghosts, bounds>>

Complete(p) ==
    /\ pc[p] \in {"refused", "finished"} /\ ~ToRelease(p) /\ End(p)
    /\ claimed' = claimed \ {key[p]} /\ closed' = closed \cup {key[p]}
    /\ UNCHANGED <<tree, ghosts, bounds>>

\* An exception _run does not handle: execute never learns the key.  After the
\* write every exception is one of the answers of Fails.
Raise(p) ==
    /\ pc[p] \in {"implement", "prepare", "approve", "apply"} /\ End(p)
    /\ Disturb("raise")
    /\ abandoned' = abandoned \cup {key[p]}
    /\ UNCHANGED <<tree, journal, written, accepted, alarm, exposed>>

\* The process dies, or Ctrl-C ends it, which no handler of the executor catches
Kill(p) ==
    /\ pc[p] # "idle" /\ End(p) /\ Disturb("kill")
    /\ abandoned' = IF p \in Holding THEN abandoned \cup {key[p]} ELSE abandoned
    /\ \/ UNCHANGED <<tree, written>>
       \/ /\ pc[p] \in {"apply", "rollback"} /\ written' = written \cup {key[p]}
          /\ \E content \in Torn(p) : tree' = [tree EXCEPT ![MyFile(p)] = content]
    /\ UNCHANGED <<journal, accepted, alarm, exposed>>

\* The user writes, reverts or deletes a file at any time
UserEdit(f) ==
    /\ Disturb("edit")
    /\ \E content \in [rev : {tree[f].rev + 1}, broken : SUBSET DefectsOf(f), by : {"user"}]
                 \cup {[rev |-> 0, broken |-> DefectsOf(f), by |-> "user"],
                       [rev |-> tree[f].rev, broken |-> {}, by |-> "absent"]} :
          content # tree[f] /\ tree' = [tree EXCEPT ![f] = content]
    /\ UNCHANGED <<journal, pc, orderVars, ghosts>>

-----------------------------------------------------------------------------
Gates(p) == RefuseEarly(p) \/ CheckFresh(p) \/ Stale(p) \/ Claim(p) \/ Duplicate(p)
Work(p)  == \/ Implement(p) \/ ImplementFails(p) \/ Prepare(p) \/ PrepareFails(p)
            \/ Approve(p) \/ NotApproved(p)
Change(p) == \/ Apply(p) \/ ApplyFails(p) \/ ApplyTears(p) \/ Passes(p) \/ Fails(p)
             \/ RolledBack(p) \/ RollbackFails(p)
Step(p)  == Gates(p) \/ Work(p) \/ Change(p) \/ Release(p) \/ Complete(p)

Next ==
    \/ \E p \in Procs : \/ \E c \in Candidates : Begin(p, c)
                        \/ Step(p) \/ Raise(p) \/ Kill(p)
    \/ \E f \in Files : UserEdit(f)

Spec == Init /\ [][Next]_vars

-----------------------------------------------------------------------------
\* Types, and a process holds a key exactly from the claim to the end.
TypeOK ==
    /\ tree \in [Files -> Contents]
    /\ claimed \subseteq Keys /\ closed \subseteq Keys
    /\ pc \in [Procs -> Points] /\ job \in [Procs -> Candidates \cup {None}]
    /\ seen \in [Procs -> Contents] /\ key \in [Procs -> Keys \cup {NoKey}]
    /\ new \in [Procs -> Contents]
    /\ status \in [Procs -> Meanings \cup {None}]
    /\ written \subseteq Keys /\ abandoned \subseteq Keys
    /\ accepted \subseteq Files \X Contents
    /\ alarm \subseteq Files /\ exposed \subseteq Files
    /\ disturbed \in 0..MaxDisturbances /\ ordered \in 0..MaxOrders
    /\ \A p \in Procs : /\ pc[p] # "idle" => job[p] \in Candidates
                        /\ p \in Holding => key[p] \in Keys

\* The journal's promise: whatever processes run, die or raise, and whatever the
\* user does to the files, nobody is about to write a file for a candidate on a
\* content for which it was already written.  An execution that was cut short or
\* rolled back after its write is not tried again.
AppliedOnce == \A p \in Procs : pc[p] = "apply" => key[p] \notin written

\* Every way out of _run after the claim hands the key back: a claim that nobody
\* works on belongs to an execution that was cut short.
HandedBack ==
    \A k \in claimed : k \in abandoned \/ \E p \in Holding : key[p] = k

\* A content of the agent that no execution has completed with is in the tree only
\* while the journal has an execution of that file in progress that wrote it, or
\* after a rollback was reported to have failed.  Excepted are the files a write
\* has torn, files the user deleted before they were written, and changes prepared
\* on top of a change that was not settled.
Marked(f) == f \in alarm \/ \E k \in claimed \cap written : FileOf[k.cand] = f
UnvalidatedIsMarked ==
    \A f \in Files \ exposed :
        ByAgent(tree[f]) => <<f, tree[f]>> \in accepted \/ Marked(f)
=============================================================================
