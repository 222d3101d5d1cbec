----------------------------- MODULE SubtaskRun -----------------------------
(***************************************************************************)
(* Orchestrator.run executing one subtask at a time: planning, the loop of *)
(* generate, amend the scope, prepare, apply, validate, review and assess, *)
(* the pauses, the checkpoints it is resumed from, and the record of the   *)
(* validation lifecycle (local_agent/orchestrator.py, coding_agent.py,     *)
(* completion.py, validation_lifecycle.py).  Scheduler.run_once appears    *)
(* only with what decides whether a subtask is run again, for a plan made  *)
(* by an earlier call; TaskScheduler models it.                            *)
(*                                                                         *)
(* A file has no contents here, only the history the properties need:      *)
(* whether it was written since the last passing validation (dirty) or     *)
(* since the test evidence was fingerprinted (drift).  Completion evidence *)
(* restored from a checkpoint is left out: it can only turn a completion   *)
(* into a refusal, and Refused is possible anyway.                         *)
(***************************************************************************)
EXTENDS Integers, FiniteSets

CONSTANTS
    Subtasks, Deps, Rank,   \* the plan of the task, Rank as under dag_order_keys
    Files,                  \* the files of the project
    Planned,                \* [Subtasks -> SUBSET Files], the planner's allowed_paths
    HasTests,               \* validation commands were discovered
    MaxIterations,          \* config.max_iterations
    MaxAmendments,          \* config.max_plan_amendments
    Providers,              \* how many providers run_once tries in turn
    MaxDisturbances,        \* bound of the model: pauses, raised errors, edits
    Events                  \* the disturbances the environment may produce

AllEvents == {"planLimit", "codeLimit", "reviewLimit", "refuse", "raise",
              "proposal", "commitOnCompletion", "edit", "editDuringTests"}
None == "none"

ASSUME PlanAssumption ==
    /\ IsFiniteSet(Subtasks) /\ None \notin Subtasks
    /\ Deps \in [Subtasks -> SUBSET Subtasks]
    /\ Rank \in [Subtasks -> Nat]
    /\ \A s, t \in Subtasks : Rank[s] = Rank[t] => s = t
ASSUME FilesAssumption ==
    IsFiniteSet(Files) /\ Planned \in [Subtasks -> SUBSET Files]
ASSUME LimitsAssumption ==
    /\ MaxIterations \in Nat \ {0} /\ MaxAmendments \in Nat
    /\ Providers \in Nat \ {0} /\ MaxDisturbances \in Nat
    /\ HasTests \in BOOLEAN /\ Events \subseteq AllEvents

VARIABLES
    \* stored: the task record, the checkpoints, the lifecycle record
    taskStatus, status, checkpoint, latest, trace,
    \* the working tree
    written, dirty, drift,
    \* memory of the run
    pc, cur, tries, mem, iter, scope, amendments, initial, preexisting,
    recovery, changed, ops, tested, reported, completed,
    \* observations: what the planner and the guard allowed, what pauses kept
    granted, earned,
    disturbed

storedVars  == <<taskStatus, status, checkpoint, latest>>
treeVars    == <<written, dirty, drift>>
callVars    == <<cur, tries, preexisting>>
planVars    == <<scope, amendments, initial>>
verdictVars == <<tested, reported, completed>>
ghostVars   == <<granted, earned>>
vars == <<storedVars, trace, treeVars, pc, callVars, mem, iter,
          planVars, recovery, changed, ops, verdictVars, ghostVars, disturbed>>

-----------------------------------------------------------------------------
(* The data of a run.                                                      *)

\* RecoveryState: completed iterations, same failures in a row and the kind
\* of the last one, rejected reviews
NoRecovery == [iters |-> 0, same |-> 0, last |-> None, rejects |-> 0]
Kinds == {"patch", "unsafe", "other"}
RecoveryType == [iters : 0..MaxIterations, same : Nat, last : Kinds \cup {None},
                 rejects : Nat]

\* RecoveryState.record_failure: a failure is the same as the last one when its
\* category is (patch, unsafe), or when the analysis words it equally
Failed(r, kind) ==
    { [iters |-> iter, same |-> n, last |-> kind, rejects |-> r.rejects] :
        n \in CASE kind # r.last -> {1}
                [] kind = r.last /\ kind = "other" -> {1, r.same + 1}
                [] OTHER -> {r.same + 1} }

\* A checkpoint taken from the run's own report
Live(r, files, number) ==
    [scope |-> files, amendments |-> number, recovery |-> r]

\* Mutant: the recovery state is not carried over into the pause checkpoint
DummyForgetting == Live(NoRecovery, {}, 0)

\* The checkpoint of _handle_temporary_provider_error: _build_run_report puts
\* a dummy plan into it, and the recovery state of the task's last checkpoint
Dummy == Live(IF latest = None THEN NoRecovery ELSE checkpoint[latest].recovery,
              {}, 0)

NoCheckpoint == [scope |-> {}, amendments |-> -1, recovery |-> NoRecovery]
HasCheckpoint(s) == checkpoint[s] # NoCheckpoint
CheckpointType == [scope : SUBSET Files, amendments : -1..MaxAmendments,
                   recovery : RecoveryType]

\* ScopeAmendmentGuard.evaluate: k more paths are within both budgets
Fits(k) ==
    /\ amendments + k <= MaxAmendments
    /\ Cardinality(scope) + k <= 2 * (IF initial > 1 THEN initial ELSE 1) + 2

\* The paths, of those asked for one after the other, that the guard admits
Admitted(asked) ==
    { X \in SUBSET asked : /\ X = {} \/ Fits(Cardinality(X))
                           /\ X = asked \/ ~Fits(Cardinality(X) + 1) }

\* find_unlisted_operations: a plan without paths lists everything
Unlisted(O) == IF scope = {} THEN {} ELSE O \ scope

\* Mutant: only files that existed before are held against the plan
PermittedNew(O) == O \cap preexisting \subseteq scope

\* CodingAgent._validate_path for all operations of a batch
Permitted(O) ==
    /\ O \cap preexisting \subseteq scope
    /\ scope # {} => O \subseteq scope

LifecycleStates == {"none", "created", "candidate_generated", "validated", "approved",
                    "applied", "post_validated", "repair_required", "repaired",
                    "completed", "abandoned"}

\* ALLOWED_TRANSITIONS, without the terminal state failed that no run reaches
Follows(from) ==
    CASE from = "created" -> {"candidate_generated", "abandoned"}
      [] from = "candidate_generated" -> {"validated", "repair_required", "abandoned"}
      [] from = "validated" -> {"approved", "repair_required", "abandoned"}
      [] from = "approved" -> {"applied", "abandoned"}
      [] from = "applied" -> {"post_validated", "repair_required", "abandoned"}
      [] from = "post_validated" -> {"completed", "repair_required", "abandoned"}
      [] from = "repair_required" -> {"repaired", "abandoned"}
      [] from = "repaired" -> {"candidate_generated", "completed", "abandoned"}
      [] OTHER -> {}

\* _lifecycle_advance: a state the record cannot go to is skipped
Advance(from, to) == IF to \in Follows(from) THEN to ELSE from

\* Mutant: a repair is not recorded before the next candidate
AppliedUnrepaired(from) ==
    Advance(Advance(Advance(Advance(from,
        "candidate_generated"), "validated"), "approved"), "applied")

\* What _lifecycle_begin_iteration and the applying of a batch record
Applied(from) ==
    Advance(Advance(Advance(Advance(Advance(from,
        "repaired"), "candidate_generated"), "validated"), "approved"), "applied")

\* _lifecycle_finish
Finished(from, target) ==
    IF target \in Follows(from) THEN target ELSE Advance(from, "abandoned")

\* identify_runnable_subtasks, and the one the serial scheduler takes
Runnable(s) ==
    status[s] \in {"PENDING", "PAUSED"} /\ \A d \in Deps[s] : status[d] = "COMPLETED"
NextSubtask(s) ==
    Runnable(s) /\ \A t \in Subtasks : Runnable(t) => Rank[s] <= Rank[t]

Selectable == taskStatus \in {"PENDING", "RUNNING", "PAUSED"}

Disturb(event) ==
    event \in Events /\ disturbed < MaxDisturbances /\ disturbed' = disturbed + 1

\* What a run holds in memory is gone when it ends
Forget ==
    /\ pc' = "idle" /\ cur' = None /\ tries' = 0 /\ preexisting' = {}
    /\ mem' = "PENDING" /\ iter' = 0
    /\ scope' = {} /\ amendments' = 0 /\ initial' = 0
    /\ recovery' = NoRecovery /\ changed' = {} /\ ops' = {}
    /\ tested' = FALSE /\ reported' = FALSE /\ completed' = FALSE

-----------------------------------------------------------------------------
Init ==
    /\ taskStatus = "PENDING" /\ status = [s \in Subtasks |-> "PENDING"]
    /\ checkpoint = [s \in Subtasks |-> NoCheckpoint] /\ latest = None
    /\ trace = "none"
    /\ written = {} /\ dirty = {} /\ drift = {}
    /\ pc = "idle" /\ cur = None /\ tries = 0 /\ mem = "PENDING" /\ iter = 0
    /\ scope = {} /\ amendments = 0 /\ initial = 0 /\ preexisting = {}
    /\ recovery = NoRecovery /\ changed = {} /\ ops = {}
    /\ tested = FALSE /\ reported = FALSE /\ completed = FALSE
    /\ granted = [s \in Subtasks |-> {}] /\ earned = [s \in Subtasks |-> 0]
    /\ disturbed = 0

-----------------------------------------------------------------------------
(* The scheduler and the beginning of a run.                               *)

\* run_once takes the next subtask
Start ==
    /\ pc = "idle" /\ Selectable
    /\ \E s \in Subtasks : NextSubtask(s) /\ cur' = s /\ mem' = status[s]
    /\ taskStatus' = "RUNNING" /\ tries' = Providers /\ pc' = "plan"
    /\ UNCHANGED <<status, checkpoint, latest, trace, treeVars,
                   preexisting, iter, planVars, recovery, changed, ops,
                   verdictVars, ghostVars, disturbed>>

\* run_once finds no runnable subtask: _check_and_complete_task
Settle ==
    /\ pc = "idle" /\ Selectable /\ \A s \in Subtasks : ~Runnable(s)
    /\ \E s \in Subtasks : status[s] = "FAILED"
    /\ taskStatus' = "FAILED"
    /\ UNCHANGED <<status, checkpoint, latest, trace, treeVars, pc,
                   callVars, mem, iter, planVars, recovery, changed, ops,
                   verdictVars, ghostVars, disturbed>>

\* Planning succeeds.  The subtask's own checkpoint replaces the fresh plan and
\* recovery state; a checkpoint of another subtask is ignored.
PlanMade ==
    /\ pc = "plan"
    /\ LET own == IF HasCheckpoint(cur) THEN checkpoint[cur]
                  ELSE Live(NoRecovery, Planned[cur], 0)
       IN /\ scope' = own.scope /\ amendments' = own.amendments
          /\ initial' = Cardinality(own.scope)
          /\ recovery' = own.recovery
          /\ IF own.recovery.iters < MaxIterations
             THEN iter' = own.recovery.iters + 1 /\ pc' = "generate"
             ELSE iter' = iter /\ pc' = "close"
    /\ preexisting' = written /\ changed' = {} /\ ops' = {}
    /\ tested' = FALSE /\ reported' = FALSE /\ completed' = FALSE
    /\ trace' = "created"
    /\ granted' = [granted EXCEPT ![cur] = @ \cup Planned[cur]]
    /\ UNCHANGED <<storedVars, treeVars, cur, tries, mem, earned,
                   disturbed>>

\* Planning is rate limited: the subtask is paused with a dummy plan
PlanPaused ==
    /\ pc = "plan" /\ Disturb("planLimit")
    /\ checkpoint' = [checkpoint EXCEPT ![cur] = Dummy] /\ latest' = cur
    /\ status' = [status EXCEPT ![cur] = "PAUSED"] /\ taskStatus' = "PAUSED"
    /\ Forget
    /\ UNCHANGED <<trace, treeVars, ghostVars>>

\* The preflight check blocks, or the planner fails: FAILED, but not stored
Refuse ==
    /\ pc = "plan" /\ "refuse" \in Events
    /\ mem' = "FAILED" /\ pc' = "returned"
    /\ UNCHANGED <<storedVars, trace, treeVars, callVars, iter,
                   planVars, recovery, changed, ops, verdictVars, ghostVars,
                   disturbed>>

\* Any other exception of planning leaves run, and run_once with it
PlanRaises ==
    /\ pc = "plan" /\ Disturb("raise")
    /\ Forget
    /\ UNCHANGED <<storedVars, trace, treeVars, ghostVars>>

-----------------------------------------------------------------------------
(* The loop.                                                               *)

\* Mutant: a failed iteration is not counted
IterateUncounted == iter' = iter /\ pc' = "generate"

Iterate ==
    IF iter < MaxIterations THEN iter' = iter + 1 /\ pc' = "generate"
                            ELSE iter' = iter /\ pc' = "close"

\* The provider answers with operations; the guard admits what it can of the
\* unlisted paths
Generate ==
    /\ pc = "generate"
    /\ \E O \in SUBSET Files : \E X \in Admitted(Unlisted(O)) :
          /\ ops' = O
          /\ scope' = scope \cup X /\ amendments' = amendments + Cardinality(X)
          /\ granted' = [granted EXCEPT ![cur] = @ \cup X]
    /\ pc' = "prepare"
    /\ UNCHANGED <<storedVars, trace, treeVars, callVars, mem, iter,
                   initial, recovery, changed, verdictVars, earned, disturbed>>

\* Code generation is rate limited: checkpoint, break, end of the run
GeneratePaused ==
    /\ pc = "generate" /\ Disturb("codeLimit")
    /\ checkpoint' = [checkpoint EXCEPT ![cur] = Live(recovery, scope, amendments)]
    /\ latest' = cur /\ earned' = [earned EXCEPT ![cur] = recovery.iters]
    /\ status' = [status EXCEPT ![cur] = "PAUSED"] /\ taskStatus' = "PAUSED"
    /\ trace' = Finished(trace, "abandoned") /\ Forget
    /\ UNCHANGED <<treeVars, granted>>

\* The run breaks off: another provider error, an exception, a patch already
\* tried, a dry run, changes that are not approved
BreakOff ==
    /\ pc \in {"generate", "prepare", "analyze", "review", "assess"}
    /\ pc' = "close"
    /\ UNCHANGED <<storedVars, trace, treeVars, callVars, mem, iter,
                   planVars, recovery, changed, ops, verdictVars, ghostVars,
                   disturbed>>

\* CodingAgent.prepare refuses the batch, or a patch in it does not apply
Reject ==
    /\ pc = "prepare"
    /\ \E kind \in {"patch", "unsafe"} :
          /\ Permitted(ops) => ops # {}
          /\ ~Permitted(ops) => kind = "unsafe"
          /\ recovery' \in Failed(recovery, kind)
    /\ reported' = TRUE /\ ops' = {} /\ Iterate
    /\ UNCHANGED <<storedVars, trace, treeVars, callVars, mem,
                   planVars, changed, tested, completed, ghostVars,
                   disturbed>>

\* The batch is written, older evidence invalidated, a checkpoint taken; the task
\* is stored as it is in memory, FAILED after the failure of another provider
Apply ==
    /\ pc = "prepare" /\ Permitted(ops)
    /\ written' = written \cup ops
    /\ dirty' = dirty \cup ops /\ drift' = drift \cup ops
    /\ changed' = changed \cup ops /\ ops' = {}
    /\ tested' = (tested /\ changed \cup ops = {})
    /\ trace' = Applied(trace)
    /\ checkpoint' = [checkpoint EXCEPT ![cur] = Live(recovery, scope, amendments)]
    /\ latest' = cur /\ status' = [status EXCEPT ![cur] = mem]
    /\ taskStatus' = IF mem = "FAILED" THEN "FAILED" ELSE taskStatus
    /\ pc' = "validate"
    /\ UNCHANGED <<callVars, mem, iter, planVars,
                   recovery, reported, completed, ghostVars, disturbed>>

\* The validation commands run; without commands nothing can fail
Validate ==
    /\ pc = "validate"
    /\ \/ pc' = "passed" /\ dirty' = IF HasTests THEN {} ELSE dirty
       \/ HasTests /\ pc' = "failed" /\ dirty' = dirty
    /\ UNCHANGED <<storedVars, trace, written, drift, callVars, mem,
                   iter, planVars, recovery, changed, ops, verdictVars,
                   ghostVars, disturbed>>

\* The evidence of a passing run is recorded with the fingerprint of the files
\* as they are now; without commands a behavioural fixture may still pass.  A
\* fixture that fails turns success into failure.
RecordPassed ==
    /\ pc = "passed"
    /\ tested' \in {HasTests, HasTests \/ changed # {}}
    /\ drift' = IF tested' THEN {} ELSE drift
    /\ trace' = Advance(trace, "post_validated")
    /\ \/ /\ pc' = "review"
          /\ checkpoint' = [checkpoint EXCEPT ![cur] = Live(recovery, scope, amendments)]
          /\ latest' = cur
       \/ changed # {} /\ pc' = "analyze" /\ UNCHANGED <<checkpoint, latest>>
    /\ UNCHANGED <<taskStatus, status, written, dirty, callVars,
                   mem, iter, planVars, recovery, changed, ops, reported,
                   completed, ghostVars, disturbed>>

RecordFailed ==
    /\ pc = "failed"
    /\ trace' = Advance(trace, "repair_required")
    /\ pc' = "analyze"
    /\ UNCHANGED <<storedVars, treeVars, callVars, mem, iter, planVars,
                   recovery, changed, ops, verdictVars, ghostVars, disturbed>>

\* The failure is analysed, files it names may enter the scope; the third equal
\* failure in a row ends the run
Analyze ==
    /\ pc = "analyze"
    /\ \E F \in SUBSET Files : \E X \in Admitted(F \ scope) :
          /\ scope' = scope \cup X /\ amendments' = amendments + Cardinality(X)
          /\ granted' = [granted EXCEPT ![cur] = @ \cup X]
    /\ recovery' \in Failed(recovery, "other")
    /\ reported' = TRUE
    /\ IF recovery'.same >= 3 THEN iter' = iter /\ pc' = "close" ELSE Iterate
    /\ UNCHANGED <<storedVars, trace, treeVars, callVars, mem, initial,
                   changed, ops, tested, completed, earned, disturbed>>

\* The analysis proposes another plan.  run_once discards it and pauses the
\* task, or the task goes on once it is amended; the subtask is not settled.
Propose ==
    /\ pc = "analyze" /\ Disturb("proposal")
    /\ status' = [status EXCEPT ![cur] = mem]
    /\ taskStatus' \in {"PENDING", "PAUSED"}
    /\ trace' = Finished(trace, "abandoned") /\ Forget
    /\ UNCHANGED <<checkpoint, latest, treeVars, ghostVars>>

\* The verdict of the review; the third rejection in a row ends the run
Approve ==
    /\ pc = "review"
    /\ recovery' = [iters |-> iter, same |-> recovery.same,
                    last |-> recovery.last, rejects |-> recovery.rejects]
    /\ pc' = "assess"
    /\ UNCHANGED <<storedVars, trace, treeVars, callVars, mem, iter,
                   planVars, changed, ops, verdictVars, ghostVars, disturbed>>

RequestChanges ==
    /\ pc = "review"
    /\ recovery' = [iters |-> iter, same |-> recovery.same,
                    last |-> recovery.last, rejects |-> recovery.rejects + 1]
    /\ IF recovery'.rejects >= 3 THEN iter' = iter /\ pc' = "close" ELSE Iterate
    /\ UNCHANGED <<storedVars, trace, treeVars, callVars, mem,
                   planVars, changed, ops, verdictVars, ghostVars, disturbed>>

\* The review is rate limited: paused with a dummy plan, the trace left open
ReviewPaused ==
    /\ pc = "review" /\ Disturb("reviewLimit")
    /\ checkpoint' = [checkpoint EXCEPT ![cur] = Dummy] /\ latest' = cur
    /\ earned' = [earned EXCEPT ![cur] = recovery.iters]
    /\ status' = [status EXCEPT ![cur] = "PAUSED"] /\ taskStatus' = "PAUSED"
    /\ Forget
    /\ UNCHANGED <<trace, treeVars, granted>>

\* Mutant: evidence is not compared with the files on disk
GatesPassStale == HasTests \/ reported => tested

\* CompletionDecisionEngine.evaluate, gates 4 and 6: passing evidence that the
\* files on disk still match, when there are tests or was a failure
GatesPass == HasTests \/ reported => tested /\ drift \cap changed = {}

Complete ==
    /\ pc = "assess" /\ GatesPass
    /\ completed' = TRUE /\ pc' = "close"
    /\ UNCHANGED <<storedVars, trace, treeVars, callVars, mem, iter,
                   planVars, recovery, changed, ops, tested, reported, ghostVars,
                   disturbed>>

\* A gate fails or the task contract is not satisfied
RefuseCompletion ==
    /\ pc = "assess"
    /\ recovery' \in Failed(recovery, "other")
    /\ Iterate
    /\ UNCHANGED <<storedVars, trace, treeVars, callVars, mem, planVars,
                   changed, ops, verdictVars, ghostVars, disturbed>>

-----------------------------------------------------------------------------
(* The end of a run.                                                       *)

CloseCompleted ==
    /\ pc = "close" /\ completed
    /\ status' = [status EXCEPT ![cur] = "COMPLETED"]
    /\ taskStatus' = IF \A s \in Subtasks : status'[s] = "COMPLETED"
                     THEN "COMPLETED" ELSE "PENDING"
    /\ trace' = Finished(trace, "completed") /\ Forget
    /\ UNCHANGED <<checkpoint, latest, treeVars, ghostVars, disturbed>>

\* With git_commit_on_completion an autonomous run raises in its finally clause
\* (_create_memories_from_run calls _perform_git_commit without a branch name):
\* the outcome is not stored
CloseRaises ==
    /\ pc = "close" /\ completed /\ Disturb("commitOnCompletion")
    /\ Forget
    /\ UNCHANGED <<storedVars, trace, treeVars, ghostVars>>

CloseFailed ==
    /\ pc = "close" /\ ~completed
    /\ mem' = "FAILED" /\ status' = [status EXCEPT ![cur] = "FAILED"]
    /\ taskStatus' = "FAILED"
    /\ trace' = Finished(trace, "abandoned") /\ pc' = "returned" /\ ops' = {}
    /\ UNCHANGED <<checkpoint, latest, treeVars, callVars, iter,
                   planVars, recovery, changed, verdictVars, ghostVars,
                   disturbed>>

\* run_once: the next provider gets the same task, or the task fails
TryNextProvider ==
    /\ pc = "returned" /\ tries > 1
    /\ tries' = tries - 1 /\ pc' = "plan"
    /\ UNCHANGED <<storedVars, trace, treeVars, cur, preexisting, mem,
                   iter, planVars, recovery, changed, ops, verdictVars,
                   ghostVars, disturbed>>

GiveUp ==
    /\ pc = "returned" /\ tries = 1
    /\ taskStatus' = "FAILED" /\ Forget
    /\ UNCHANGED <<status, checkpoint, latest, trace, treeVars,
                   ghostVars, disturbed>>

\* Somebody edits a file in the meantime
Edit(f) ==
    /\ \/ pc # "passed" /\ Disturb("edit")
       \/ pc = "passed" /\ Disturb("editDuringTests")
    /\ written' = written \cup {f}
    /\ dirty' = dirty \cup {f} /\ drift' = drift \cup {f}
    /\ UNCHANGED <<storedVars, trace, pc, callVars, mem, iter, planVars,
                   recovery, changed, ops, verdictVars, ghostVars>>

Scheduling == Start \/ Settle \/ TryNextProvider \/ GiveUp
Planning == PlanMade \/ PlanPaused \/ Refuse \/ PlanRaises
Implementing == Generate \/ GeneratePaused \/ BreakOff \/ Reject \/ Apply
Validating == Validate \/ RecordPassed \/ RecordFailed \/ Analyze \/ Propose
Reviewing == \/ Approve \/ RequestChanges \/ ReviewPaused
             \/ Complete \/ RefuseCompletion
Closing == CloseCompleted \/ CloseRaises \/ CloseFailed
Run == \/ Scheduling \/ Planning \/ Implementing
       \/ Validating \/ Reviewing \/ Closing
Next == Run \/ \E f \in Files : Edit(f)

Spec == Init /\ [][Next]_vars /\ WF_vars(Run)

-----------------------------------------------------------------------------
(* Properties.                                                             *)

Statuses == {"PENDING", "RUNNING", "PAUSED", "COMPLETED", "FAILED"}
Points == {"idle", "plan", "generate", "prepare", "validate", "passed", "failed",
           "analyze", "review", "assess", "close", "returned"}

VerdictsOK == tested \in BOOLEAN /\ reported \in BOOLEAN /\ completed \in BOOLEAN
DataOK ==
    /\ taskStatus \in Statuses
    /\ status \in [Subtasks -> Statuses \ {"RUNNING"}]
    /\ checkpoint \in [Subtasks -> CheckpointType]
    /\ latest \in Subtasks \cup {None} /\ trace \in LifecycleStates
    /\ written \in SUBSET Files /\ dirty \in SUBSET Files /\ drift \in SUBSET Files
    /\ pc \in Points /\ cur \in Subtasks \cup {None} /\ tries \in 0..Providers
    /\ mem \in Statuses \ {"RUNNING"} /\ iter \in 0..MaxIterations
    /\ scope \in SUBSET Files /\ amendments \in 0..MaxAmendments
    /\ initial \in Nat /\ preexisting \in SUBSET Files
    /\ recovery \in RecoveryType /\ changed \in SUBSET Files /\ ops \in SUBSET Files
    /\ granted \in [Subtasks -> SUBSET Files]
    /\ earned \in [Subtasks -> 0..MaxIterations] /\ disturbed \in 0..MaxDisturbances

\* Every variable has its type; no run goes beyond the iterations and the
\* amendments it is allowed, however often it was resumed.
TypeOK == DataOK /\ VerdictsOK

\* A run that is declared complete has changed no file since the validation
\* that passed, nor has anybody else edited a file it changed, except while
\* the commands were running.
CompletedWasTested ==
    [][~completed /\ completed' /\ HasTests => changed \cap dirty = {}]_vars

\* As long as its plan has a scope, a run writes only files that the planner
\* or the amendment guard granted to this subtask, in this or an earlier run.
WritesWithinPlan ==
    [][changed' # changed /\ scope # {} => changed' \subseteq changed \cup granted[cur]]_vars

\* A pause never loses a completed iteration: the checkpoint a subtask will be
\* resumed from counts those of every run of it that was paused.
PauseKeepsProgress ==
    \A s \in Subtasks : checkpoint[s].recovery.iters >= earned[s]

\* A subtask that ends COMPLETED has a lifecycle record that ends completed.
CompletedIsTraced ==
    [][\A s \in Subtasks : status[s] # "COMPLETED" /\ status'[s] = "COMPLETED"
          => trace' = "completed"]_vars

\* With finitely many pauses, errors and edits, the task ends.
TaskEnds == <>(pc = "idle" /\ taskStatus \in {"COMPLETED", "FAILED"})

\* No run writes a file outside the approved plan.
ScopeKept == cur # None => changed \subseteq granted[cur]

\* A subtask that was never planned before starts without a history: neither
\* iterations nor failures nor rejections are counted against it.
OwnProgress ==
    [][pc = "plan" /\ pc' \in {"generate", "close"} /\ granted[cur] = {}
          => recovery' = NoRecovery]_vars

\* Every run closes its lifecycle record.
TraceIsClosed == pc = "idle" => trace \in {"none", "completed", "abandoned"}
=============================================================================
