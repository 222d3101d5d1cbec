--------------------------- MODULE DagCoordinator ---------------------------
(***************************************************************************)
(* The parallel execution of one task: the scheduler hands a task to       *)
(* ParallelExecutionCoordinator.reconcile_and_resume, which reconciles the *)
(* stored record with Git, runs batches of subtasks in worktrees (one      *)
(* thread each), merges their branches into the integration branch, runs   *)
(* the Tier-2 validation and stores the outcome (local_agent/scheduler.py, *)
(* coordinator.py, worktree.py, git.py).                                   *)
(*                                                                         *)
(* What survives a stop: the task record, the Git repository with its      *)
(* worktrees, and the knowledge graph.  Everything else is memory of the   *)
(* running process.  A branch tip is the set of commits it reaches, so     *)
(* "is an ancestor of" is \subseteq.                                       *)
(***************************************************************************)
EXTENDS Integers, FiniteSets

CONSTANTS
    Subtasks,               \* subtask ids of the plan
    Deps,                   \* [Subtasks -> SUBSET Subtasks], Subtask.dependencies
    Rank,                   \* [Subtasks -> Nat], position under dag_order_keys
    Files,                  \* predicted files of each subtask
    SerializeOverlapping,   \* config.serialize_overlapping_subtasks
    MaxWorkers,             \* max(1, min(max_parallel_subtasks, 4))
    Recoverable,            \* subtasks whose edits are to tracked, unprotected files
    Events                  \* the disturbances the environment may produce

AllEvents ==
    { "workerFail", "workerPause", "workerBlocked", "workerError",
      "commitFail", "conflict", "checkoutFail", "verifyFail",
      "interrupt", "crash", "userCheckout", "userMerge" }

ASSUME SubtasksAssumption == IsFiniteSet(Subtasks)
ASSUME DepsAssumption == Deps \in [Subtasks -> SUBSET Subtasks]
ASSUME RankAssumption ==
    /\ Rank \in [Subtasks -> Nat]
    /\ \A s, t \in Subtasks : Rank[s] = Rank[t] => s = t
    /\ \A s \in Subtasks : \A d \in Deps[s] : Rank[d] < Rank[s]
ASSUME WorkersAssumption == MaxWorkers \in 1..4
ASSUME OptionAssumption ==
    /\ SerializeOverlapping \in BOOLEAN
    /\ Recoverable \subseteq Subtasks
    /\ Events \subseteq AllEvents

VARIABLES
    \* the stored task record
    taskStatus, assigned, status, integrated, session, base,
    \* the Git repository: subtask branches, integration branch, user's branch
    hasBranch, tip, integExists, integTip, userTip, head, merging,
    \* the subtask worktrees and the knowledge graph
    worktree, promoted,
    \* memory of the process
    alive, pc, phase, pool, batch, wpc, wres, todo, merged, conflicted,
    \* observation: what the last passed Tier-2 validation saw
    verifiedTip

recordVars == <<taskStatus, assigned, status, integrated, session, base>>
branchVars == <<hasBranch, tip>>
integVars  == <<integExists, integTip>>
repoVars   == <<integVars, userTip, head, merging>>
workerVars == <<wpc, wres>>
mergeVars  == <<todo, merged, conflicted>>
vars == <<recordVars, branchVars, repoVars, worktree, promoted, alive, pc,
          phase, pool, batch, workerVars, mergeVars, verifiedTip>>

-----------------------------------------------------------------------------

SubtaskStatus == {"PENDING", "RUNNING", "COMPLETED", "FAILED", "PAUSED"}
TaskStatus    == {"PENDING", "RUNNING", "COMPLETED", "FAILED"}

\* A commit on a subtask branch holds the finished work of a worker that was
\* accepted ("full") or what a refused or interrupted worker left ("part").
Commit    == Subtasks \X {"part", "full"}
Full(s)   == <<s, "full">>
HeadTip   == IF head = "integ" THEN integTip ELSE userTip

\* identify_runnable_subtasks: subtasks waiting for a worker whose
\* dependencies are all COMPLETED
Waiting == {"PENDING", "PAUSED"}
NoDepChecked(s) == TRUE                                     \* mutant
DepsNeverFound(s) == Deps[s] = {}                         \* mutant
DepsDone(s) == \A d \in Deps[s] : status[d] = "COMPLETED"
Runnable == {s \in Subtasks : status[s] \in Waiting /\ DepsDone(s)}

HasRoom(taken) == Cardinality(taken) < MaxWorkers

\* The first batch that partition_parallel_batches cuts from P: each subtask
\* in rank order enters it while there is room and its files are untouched.
IsFirstBatch(B, P) ==
    \A s \in P :
        LET before == {t \in B : Rank[t] < Rank[s]}
        IN s \in B <=> /\ HasRoom(before)
                       /\ SerializeOverlapping =>
                            \A t \in before : Files[t] \cap Files[s] = {}

\* GitIntegration.ensure_branch for the integration branch, with outcome ok.
EnsureBranch(ok) ==
    /\ IF ok THEN merging # "user"
             ELSE merging = "user" \/ "checkoutFail" \in Events
    /\ head' = IF ok THEN "integ" ELSE head
    /\ integExists' = (integExists \/ ok)
    /\ integTip' = IF ok /\ ~integExists THEN HeadTip ELSE integTip

Idle == [s \in Subtasks |-> "off"]
NoResult == [s \in Subtasks |-> "none"]

\* the process forgets the pass it was in
ForgetRun ==
    /\ pc' = "idle" /\ phase' = 1 /\ pool' = {} /\ batch' = {}
    /\ wpc' = Idle /\ wres' = NoResult
    /\ todo' = {} /\ merged' = {} /\ conflicted' = {}

-----------------------------------------------------------------------------

Init ==
    /\ taskStatus = "PENDING" /\ assigned = FALSE
    /\ status = [s \in Subtasks |-> "PENDING"]
    /\ integrated = [s \in Subtasks |-> FALSE]
    /\ session = [s \in Subtasks |-> FALSE]
    /\ base = [s \in Subtasks |-> {}]
    /\ hasBranch = [s \in Subtasks |-> FALSE]
    /\ tip = [s \in Subtasks |-> {}]
    /\ integExists = FALSE /\ integTip = {} /\ userTip = {}
    /\ head = "user" /\ merging = "none"
    /\ worktree = [s \in Subtasks |-> "absent"]
    /\ promoted = {} /\ alive = FALSE
    /\ pc = "idle" /\ phase = 1 /\ pool = {} /\ batch = {}
    /\ wpc = Idle /\ wres = NoResult
    /\ todo = {} /\ merged = {} /\ conflicted = {}
    /\ verifiedTip = {}

\* Scheduler.run_once picks the task, marks and stores it.  A new process
\* first builds a Scheduler, whose constructor removes every worktree.
RunOnce(fresh) ==
    /\ pc = "idle" /\ ~assigned /\ taskStatus \in {"PENDING", "RUNNING"}
    /\ fresh \/ alive
    /\ alive' = TRUE
    /\ worktree' = IF fresh THEN [s \in Subtasks |-> "absent"] ELSE worktree
    /\ taskStatus' = "RUNNING" /\ assigned' = TRUE
    /\ pc' = "reconcile"
    /\ UNCHANGED <<status, integrated, session, base, branchVars, repoVars,
                   promoted, phase, pool, batch, workerVars, mergeVars,
                   verifiedTip>>

\* reconcile_dag_state reads each subtask's fate from Git.
IsIntegrationHead(s) ==                                     \* mutant
    integExists /\ hasBranch[s] /\ tip[s] = integTip
AlreadyMerged(s) == integExists /\ hasBranch[s] /\ tip[s] \subseteq integTip
BaseCommit(s)    == IF session[s] THEN base[s] ELSE HeadTip
CommitsAhead(s)  == hasBranch[s] /\ ~(tip[s] \subseteq BaseCommit(s))
DirtyRecoverable(s) ==
    /\ ~AlreadyMerged(s) /\ ~CommitsAhead(s)
    /\ worktree[s] \in {"part", "full"} /\ s \in Recoverable

\* a merge in progress is aborted on the integration branch only
MergingAbortedAnywhere == "none"                            \* mutant
MergingAfterAbort == IF head = "integ" THEN "none" ELSE merging

\* reconcile_dag_state, then the integration branch is created if missing.
\* Neither the result of that checkout (ok) nor the exit code of the recovery
\* commit of a dirty worktree (committed) is looked at.
Reconcile(ok, committed) ==
    /\ pc = "reconcile"
    /\ committed \/ "commitFail" \in Events
    /\ merging' = MergingAfterAbort
    /\ status' = [s \in Subtasks |->
          IF AlreadyMerged(s) \/ CommitsAhead(s) \/ DirtyRecoverable(s)
          THEN "COMPLETED"
          ELSE IF status[s] = "RUNNING" THEN "PENDING" ELSE status[s]]
    /\ integrated' = [s \in Subtasks |-> integrated[s] \/ AlreadyMerged(s)]
    /\ session' = [s \in Subtasks |->
          session[s] \/ (~AlreadyMerged(s) /\ CommitsAhead(s)) \/ DirtyRecoverable(s)]
    /\ base' = [s \in Subtasks |->
          IF (~AlreadyMerged(s) /\ CommitsAhead(s)) \/ DirtyRecoverable(s)
          THEN BaseCommit(s) ELSE base[s]]
    /\ tip' = [s \in Subtasks |->
          IF committed /\ DirtyRecoverable(s) THEN tip[s] \cup {<<s, worktree[s]>>} ELSE tip[s]]
    /\ worktree' = [s \in Subtasks |->
          IF DirtyRecoverable(s) THEN IF committed THEN "clean" ELSE worktree[s]
          ELSE IF status[s] = "RUNNING" /\ ~AlreadyMerged(s) /\ ~CommitsAhead(s)
               THEN "absent" ELSE worktree[s]]
    /\ IF integExists THEN ok /\ UNCHANGED <<integVars, head>>
                      ELSE EnsureBranch(ok)
    /\ pc' = "owed"
    /\ UNCHANGED <<taskStatus, assigned, hasBranch, userTip,
                   promoted, alive, phase, pool, batch, workerVars, mergeVars,
                   verifiedTip>>

\* Step 1 of reconcile_and_resume: branches completed earlier and not merged.
FindOwed ==
    /\ pc = "owed"
    /\ todo' = {s \in Subtasks : status[s] = "COMPLETED" /\ ~integrated[s]}
    /\ phase' = 1
    /\ pc' = IF todo' = {} THEN "select" ELSE "integrate"
    /\ UNCHANGED <<recordVars, branchVars, repoVars, worktree, promoted, alive,
                   pool, batch, workerVars, merged, conflicted, verifiedTip>>

BeginIntegrationAnyway(ok) ==                               \* mutant
    /\ pc = "integrate"
    /\ EnsureBranch(ok)
    /\ pc' = "merge"
    /\ UNCHANGED <<recordVars, branchVars, userTip, merging,
                   worktree, promoted, alive, phase, pool, batch, workerVars,
                   mergeVars, verifiedTip>>

\* integrate_branches: HEAD must be on the integration branch, or every
\* subtask of the pass is returned as failed with its status untouched.
BeginIntegration(ok) ==
    /\ pc = "integrate"
    /\ EnsureBranch(ok)
    /\ pc' = IF ok THEN "merge" ELSE "persist"
    /\ todo' = IF ok THEN todo ELSE {}
    /\ UNCHANGED <<recordVars, branchVars, userTip, merging,
                   worktree, promoted, alive, phase, pool, batch, workerVars,
                   merged, conflicted, verifiedTip>>

IsAnyLeft(s) == s \in todo                                  \* mutant
IsNext(s) == s \in todo /\ \A t \in todo : Rank[s] <= Rank[t]

\* The next branch in DAG order is an ancestor of HEAD already or merges cleanly.
MergeNext(s) ==
    /\ pc = "merge" /\ IsNext(s)
    /\ todo' = todo \ {s}
    /\ merged' = merged \cup {s}
    /\ integTip' = IF head = "integ" THEN integTip \cup tip[s] ELSE integTip
    /\ userTip' = IF head = "integ" THEN userTip ELSE userTip \cup tip[s]
    /\ UNCHANGED <<recordVars, branchVars, integExists, head,
                   merging, worktree, promoted, alive, pc, phase, pool, batch,
                   workerVars, conflicted, verifiedTip>>

\* git merge stops on a conflict ...
MergeConflict(s) ==
    /\ pc = "merge" /\ IsNext(s) /\ "conflict" \in Events
    /\ ~(tip[s] \subseteq HeadTip) /\ ~(HeadTip \subseteq tip[s])
    /\ merging' = "agent"
    /\ pc' = "abort"
    /\ UNCHANGED <<recordVars, branchVars, integVars, userTip,
                   head, worktree, promoted, alive, phase, pool, batch,
                   workerVars, mergeVars, verifiedTip>>

\* ... and is aborted; the subtask is to be PAUSED.
AbortMerge(s) ==
    /\ pc = "abort" /\ IsNext(s)
    /\ merging' = "none"
    /\ todo' = todo \ {s}
    /\ conflicted' = conflicted \cup {s}
    /\ pc' = "merge"
    /\ UNCHANGED <<recordVars, branchVars, integVars, userTip,
                   head, worktree, promoted, alive, phase, pool, batch,
                   workerVars, merged, verifiedTip>>

EndMerges ==
    /\ pc = "merge" /\ todo = {}
    /\ pc' = "persist"
    /\ UNCHANGED <<recordVars, branchVars, repoVars, worktree, promoted, alive,
                   phase, pool, batch, workerVars, mergeVars, verifiedTip>>

AfterPass == IF phase = 1 THEN "select" ELSE "batches"

AfterPersistUnverified == AfterPass                         \* mutant
AfterPersist == IF merged = {} THEN AfterPass ELSE "verify"
Recorded(s) == integrated[s] \/ s \in merged

\* persist_integration_state
Persist ==
    /\ pc = "persist"
    /\ status' = [s \in Subtasks |-> IF s \in merged THEN "COMPLETED"
                                     ELSE IF s \in conflicted THEN "PAUSED"
                                     ELSE status[s]]
    /\ integrated' = [s \in Subtasks |-> Recorded(s)]
    /\ pc' = AfterPersist
    /\ conflicted' = {}
    /\ UNCHANGED <<taskStatus, assigned, session, base, branchVars, repoVars,
                   worktree, promoted, alive, phase, pool, batch, workerVars,
                   todo, merged, verifiedTip>>

\* verify_integration succeeds: contracts are promoted, worktrees removed.
VerifyPass ==
    /\ pc = "verify"
    /\ promoted' = promoted \cup merged
    /\ worktree' = [s \in Subtasks |-> IF s \in merged THEN "absent" ELSE worktree[s]]
    /\ verifiedTip' = HeadTip
    /\ merged' = {}
    /\ pc' = AfterPass
    /\ UNCHANGED <<recordVars, branchVars, repoVars, alive, phase, pool, batch,
                   workerVars, todo, conflicted>>

\* verify_integration fails.  In step 1 the result is only checkpointed; in
\* step 2 the merged subtasks are stored as PAUSED and the call returns.
VerifyFail ==
    /\ pc = "verify" /\ "verifyFail" \in Events
    /\ status' = [s \in Subtasks |-> IF phase = 2 /\ s \in merged THEN "PAUSED"
                                     ELSE status[s]]
    /\ merged' = {}
    /\ pc' = IF phase = 1 THEN "select" ELSE "return"
    /\ UNCHANGED <<taskStatus, assigned, integrated, session, base, branchVars,
                   repoVars, worktree, promoted, alive, phase, pool, batch,
                   workerVars, todo, conflicted, verifiedTip>>

\* Step 2: read the record and collect the subtasks that are ready.
SelectRunnable ==
    /\ pc = "select"
    /\ pool' = Runnable
    /\ pc' = IF Runnable = {} THEN "finalize" ELSE "batches"
    /\ phase' = 2
    /\ UNCHANGED <<recordVars, branchVars, repoVars, worktree, promoted, alive,
                   batch, workerVars, mergeVars, verifiedTip>>

StartBatch(B) ==
    /\ pc = "batches" /\ pool # {}
    /\ B # {} /\ IsFirstBatch(B, pool)
    /\ batch' = B
    /\ pool' = pool \ B
    /\ wpc' = [s \in Subtasks |-> IF s \in B THEN "create" ELSE wpc[s]]
    /\ pc' = "working"
    /\ UNCHANGED <<recordVars, branchVars, repoVars, worktree, promoted, alive,
                   phase, wres, mergeVars, verifiedTip>>

EndBatches ==
    /\ pc = "batches" /\ pool = {}
    /\ pc' = "select"
    /\ UNCHANGED <<recordVars, branchVars, repoVars, worktree, promoted, alive,
                   phase, pool, batch, workerVars, mergeVars, verifiedTip>>

-----------------------------------------------------------------------------
(* One worker thread: execute_subtask_in_worktree                          *)

SetWorker(s, at) == wpc' = [wpc EXCEPT ![s] = at]

\* A branch left by an earlier attempt is attached again with its commits.
WorkerCreate(s) ==
    /\ pc = "working" /\ wpc[s] = "create"
    /\ worktree' = [worktree EXCEPT ![s] = "clean"]
    /\ hasBranch' = [hasBranch EXCEPT ![s] = TRUE]
    /\ tip' = [tip EXCEPT ![s] = IF hasBranch[s] THEN @ ELSE HeadTip]
    /\ SetWorker(s, "run")
    /\ UNCHANGED <<recordVars, repoVars, promoted, alive, pc, phase, pool,
                   batch, wres, mergeVars, verifiedTip>>

\* What Orchestrator.run leaves in the worker's copy of the record and in the
\* worktree; a run blocked by preflight leaves the subtask RUNNING.
RunOutcomes ==
    {<<"COMPLETED", "full">>}
    \cup (IF "workerFail" \in Events THEN {"FAILED"} \X {"clean", "part"} ELSE {})
    \cup (IF "workerPause" \in Events THEN {"PAUSED"} \X {"clean", "part"} ELSE {})
    \cup (IF "workerBlocked" \in Events THEN {<<"RUNNING", "clean">>} ELSE {})

WorkerRun(s) ==
    /\ pc = "working" /\ wpc[s] = "run"
    /\ \E r \in RunOutcomes :
          /\ wres' = [wres EXCEPT ![s] = r[1]]
          /\ worktree' = [worktree EXCEPT ![s] = r[2]]
    /\ SetWorker(s, "store")
    /\ UNCHANGED <<recordVars, branchVars, repoVars, promoted, alive, pc,
                   phase, pool, batch, mergeVars, verifiedTip>>

\* An exception before the result is stored: FAILED in memory only.
WorkerError(s) ==
    /\ pc = "working" /\ wpc[s] = "run" /\ "workerError" \in Events
    /\ \E left \in {"clean", "part"} : worktree' = [worktree EXCEPT ![s] = left]
    /\ wres' = [wres EXCEPT ![s] = "FAILED"]
    /\ SetWorker(s, "done")
    /\ UNCHANGED <<recordVars, branchVars, repoVars, promoted, alive, pc,
                   phase, pool, batch, mergeVars, verifiedTip>>

\* _merge_subtask_into_canonical_task
WorkerStore(s) ==
    /\ pc = "working" /\ wpc[s] = "store"
    /\ status' = [status EXCEPT ![s] = wres[s]]
    /\ session' = [session EXCEPT ![s] = TRUE]
    /\ base' = [base EXCEPT ![s] = HeadTip]
    /\ SetWorker(s, "commit")
    /\ UNCHANGED <<taskStatus, assigned, integrated, branchVars, repoVars,
                   worktree, promoted, alive, pc, phase, pool, batch, wres,
                   mergeVars, verifiedTip>>

\* The worktree is committed when dirty; the exit codes of git add and git
\* commit are not looked at.
WorkerCommit(s) ==
    /\ pc = "working" /\ wpc[s] = "commit"
    /\ \/ /\ worktree[s] \in {"part", "full"}
          /\ tip' = [tip EXCEPT ![s] = @ \cup {<<s, worktree[s]>>}]
          /\ worktree' = [worktree EXCEPT ![s] = "clean"]
       \/ /\ worktree[s] \in {"part", "full"} => "commitFail" \in Events
          /\ UNCHANGED <<tip, worktree>>
    /\ SetWorker(s, "done")
    /\ UNCHANGED <<recordVars, hasBranch, repoVars, promoted, alive, pc, phase,
                   pool, batch, wres, mergeVars, verifiedTip>>

AcceptedAnyResult == batch                                  \* mutant
AcceptedLater == {}                                         \* mutant
Accepted == {s \in batch : wres[s] = "COMPLETED"}

\* All futures are done: the COMPLETED ones go to integration.
EndBatch ==
    /\ pc = "working" /\ \A s \in batch : wpc[s] = "done"
    /\ todo' = Accepted
    /\ pc' = IF todo' = {} THEN "batches" ELSE "integrate"
    /\ batch' = {} /\ wpc' = Idle /\ wres' = NoResult
    /\ UNCHANGED <<recordVars, branchVars, repoVars, worktree, promoted, alive,
                   phase, pool, merged, conflicted, verifiedTip>>

-----------------------------------------------------------------------------
(* The end of a call, and what may stop it                                 *)

\* Step 3 of reconcile_and_resume
Finalize ==
    /\ pc = "finalize"
    /\ taskStatus' =
          IF \A s \in Subtasks : status[s] = "COMPLETED" /\ integrated[s]
          THEN "COMPLETED"
          ELSE IF \E s \in Subtasks : status[s] = "FAILED" THEN "FAILED"
          ELSE taskStatus
    /\ pc' = "return"
    /\ UNCHANGED <<assigned, status, integrated, session, base, branchVars,
                   repoVars, worktree, promoted, alive, phase, pool, batch,
                   workerVars, mergeVars, verifiedTip>>

Unassign == assigned' = FALSE

\* Scheduler._check_and_complete_task and the finally block of run_once
Return ==
    /\ pc = "return"
    /\ taskStatus' =
          IF \A s \in Subtasks : status[s] = "COMPLETED" THEN "COMPLETED"
          ELSE IF /\ \E s \in Subtasks : status[s] = "FAILED"
                  /\ \A s \in Subtasks : status[s] # "RUNNING"
                  /\ Runnable = {}
               THEN "FAILED"
          ELSE taskStatus
    /\ Unassign
    /\ ForgetRun
    /\ UNCHANGED <<status, integrated, session, base, branchVars, repoVars,
                   worktree, promoted, alive, verifiedTip>>

\* An exception or Ctrl-C leaves run_once through its finally block.  A batch
\* of several workers is left only when all its threads have ended; a batch
\* of one runs in the interrupted thread itself.
Interrupt ==
    /\ pc # "idle" /\ "interrupt" \in Events
    /\ pc = "working" => \/ Cardinality(batch) = 1
                         \/ \A s \in batch : wpc[s] = "done"
    /\ Unassign
    /\ ForgetRun
    /\ UNCHANGED <<taskStatus, status, integrated, session, base, branchVars,
                   repoVars, worktree, promoted, alive, verifiedTip>>

\* The process is killed: nothing runs its finally blocks.
Crash ==
    /\ pc # "idle" /\ "crash" \in Events
    /\ alive' = FALSE
    /\ ForgetRun
    /\ UNCHANGED <<recordVars, branchVars, repoVars, worktree, promoted,
                   verifiedTip>>

\* The user works in the repository between two runs.
UserCheckout ==
    /\ pc = "idle" /\ "userCheckout" \in Events
    /\ head = "integ" /\ merging = "none"
    /\ head' = "user"
    /\ UNCHANGED <<recordVars, branchVars, integVars, userTip,
                   merging, worktree, promoted, alive, pc, phase, pool, batch,
                   workerVars, mergeVars, verifiedTip>>

UserMerge ==
    /\ pc = "idle" /\ "userMerge" \in Events /\ head = "user"
    /\ merging' = IF merging = "none" THEN "user" ELSE "none"
    /\ UNCHANGED <<recordVars, branchVars, integVars, userTip,
                   head, worktree, promoted, alive, pc, phase, pool, batch,
                   workerVars, mergeVars, verifiedTip>>

Worker(s) == \/ WorkerCreate(s) \/ WorkerRun(s)
             \/ WorkerError(s) \/ WorkerStore(s) \/ WorkerCommit(s)

Coordinator ==
    \/ \E ok, committed \in BOOLEAN : Reconcile(ok, committed)
    \/ \E ok \in BOOLEAN : BeginIntegration(ok)
    \/ FindOwed \/ EndMerges \/ Persist \/ VerifyPass \/ VerifyFail
    \/ \E s \in Subtasks : MergeNext(s) \/ MergeConflict(s) \/ AbortMerge(s)
    \/ SelectRunnable \/ EndBatches \/ EndBatch
    \/ \E B \in SUBSET pool : StartBatch(B)
    \/ Finalize \/ Return

Next ==
    \/ \E fresh \in BOOLEAN : RunOnce(fresh)
    \/ Coordinator
    \/ \E s \in Subtasks : Worker(s)
    \/ Interrupt \/ Crash \/ UserCheckout \/ UserMerge

Spec == Init /\ [][Next]_vars

\* The interpreter keeps running the coordinator and each worker thread.  A
\* task is run again when somebody calls run-once again.
Fairness ==
    /\ WF_vars(Coordinator)
    /\ \A s \in Subtasks : WF_vars(Worker(s))
    /\ WF_vars(\E fresh \in BOOLEAN : RunOnce(fresh))

LiveSpec == Spec /\ Fairness
-----------------------------------------------------------------------------
(* Properties                                                              *)

\* Types of every variable.
TypeOK ==
    /\ taskStatus \in TaskStatus /\ assigned \in BOOLEAN
    /\ status \in [Subtasks -> SubtaskStatus]
    /\ integrated \in [Subtasks -> BOOLEAN]
    /\ session \in [Subtasks -> BOOLEAN]
    /\ base \in [Subtasks -> SUBSET Commit]
    /\ hasBranch \in [Subtasks -> BOOLEAN]
    /\ tip \in [Subtasks -> SUBSET Commit]
    /\ integExists \in BOOLEAN /\ integTip \subseteq Commit
    /\ userTip \subseteq Commit
    /\ head \in {"user", "integ"} /\ merging \in {"none", "agent", "user"}
    /\ worktree \in [Subtasks -> {"absent", "clean", "part", "full"}]
    /\ promoted \subseteq Subtasks /\ alive \in BOOLEAN
    /\ pc \in {"idle", "reconcile", "owed", "integrate", "merge", "abort",
               "persist", "verify", "select", "batches", "working",
               "finalize", "return"}
    /\ phase \in {1, 2} /\ pool \subseteq Subtasks /\ batch \subseteq Subtasks
    /\ wpc \in [Subtasks -> {"off", "create", "run", "store", "commit", "done"}]
    /\ wres \in [Subtasks -> SubtaskStatus \cup {"none"}]
    /\ todo \subseteq Subtasks /\ merged \subseteq Subtasks
    /\ conflicted \subseteq Subtasks /\ verifiedTip \subseteq Commit

\* A stored integration_commit is never stale: whatever was interrupted or
\* resumed since, the subtask's branch is still contained in the integration
\* branch (a re-run worker would add commits that nobody merges again).
IntegratedMeansAncestor ==
    \A s \in Subtasks :
        integrated[s] => integExists /\ hasBranch[s] /\ tip[s] \subseteq integTip

\* The knowledge graph holds contracts of stored integrations only ("no
\* premature knowledge promotion", coordinator.py _WorkerScopedStorage).
PromotedImpliesIntegrated == \A s \in promoted : integrated[s]

\* Every dependency of a running worker is COMPLETED in the record, also after
\* conflicts and failures in the batches before its own.
WorkersRunOnCompletedDeps ==
    \A s \in Subtasks : wpc[s] # "off" =>
        \A d \in Deps[s] : status[d] = "COMPLETED" /\ wpc[d] = "off"

\* No subtask branch lands on the branch the user had checked out, whatever
\* checkouts failed (the reason integrate_branches gives for ensure_branch).
UserBranchUntouched == [][userTip' = userTip]_vars

\* A merge the user has in progress is neither aborted nor completed by a run.
UserMergeUntouched ==
    [][merging = "user" /\ pc # "idle" => merging' = "user"]_vars

\* Within one integration pass no subtask is merged before a subtask it
\* depends on, in whatever order they completed.
MergesFollowDag ==
    [][(pc = "merge" \/ pc = "abort") /\ pc' # "idle" =>
          \A s \in todo \ todo' : Deps[s] \cap todo = {}]_vars

\* A worker that starts a new branch starts it from a HEAD that holds the
\* finished work of every dependency.
DependenciesVisible ==
    [][\A s \in Subtasks : ~hasBranch[s] /\ hasBranch'[s] =>
          \A d \in Deps[s] : Full(d) \in tip'[s]]_vars

\* A task stored as COMPLETED has the finished work of every subtask on its
\* integration branch.
CompletedWorkIsIntegrated ==
    taskStatus = "COMPLETED" => \A s \in Subtasks : Full(s) \in integTip

\* A task stored as COMPLETED has every subtask's integration recorded.
CompletedIsIntegrated ==
    taskStatus = "COMPLETED" => \A s \in Subtasks : integrated[s]

\* A task stored as COMPLETED has passed Tier-2 validation on the final tree.
CompletedIsVerified == taskStatus = "COMPLETED" => integTip \subseteq verifiedTip

\* A worker that left neither commits nor edits is to be run again: the
\* reconciliation does not make its subtask COMPLETED.
EmptyRunIsRepeated ==
    [][pc = "reconcile" /\ pc' = "owed" =>
          \A s \in Subtasks :
             /\ status[s] = "RUNNING" /\ worktree[s] \in {"absent", "clean"}
             /\ tip[s] \cap {<<s, "part">>, Full(s)} = {}
             => status'[s] = "PENDING"]_vars

\* A worker paused or raised before its result was stored, or a merge stopped
\* on a conflict: the subtask is runnable again within the same call.
Setback ==
    \/ conflicted' \ conflicted # {}
    \/ \E s \in Subtasks : wpc[s] = "run" /\ (wres'[s] = "PAUSED" \/ wpc'[s] = "done")

\* Run again and again, the task ends, unless setbacks recur for ever (there is
\* no bound on them in the loop of reconcile_and_resume).
TaskEnds == <>(taskStatus \in {"COMPLETED", "FAILED"}) \/ []<><<Setback>>_vars
=============================================================================
