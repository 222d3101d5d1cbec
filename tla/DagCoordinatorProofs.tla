------------------------ MODULE DagCoordinatorProofs ------------------------
(***************************************************************************)
(* What holds of DagCoordinator for every plan, every number of workers    *)
(* and every set of disturbances.  The safety properties follow from one   *)
(* inductive invariant IInv.  None is inductive alone: that an integrated  *)
(* branch is never stale needs that the pass works only on subtasks that   *)
(* are not integrated (Ledger), which needs that pools, batches and merge  *)
(* sets are empty at the right program points (Control), that what is      *)
(* merged has a branch and HEAD is where it should be (Branches), and that *)
(* the merges of a pass leave the dependencies of its waiting subtasks     *)
(* alone (Dependencies).                                                   *)
(***************************************************************************)
EXTENDS DagCoordinator, WellFoundedInduction, TLAPS

\* A worker whose run ended has a result.
ResultKnown ==
    \A s \in Subtasks : wpc[s] \in {"store", "commit"} => wres[s] \in SubtaskStatus

\* Where the sets of a pass may be non-empty.
Control ==
    /\ pc # "working" => batch = {}
    /\ \A s \in Subtasks : wpc[s] # "off" <=> s \in batch
    /\ todo # {} => pc \in {"integrate", "merge", "abort"}
    /\ merged # {} => pc \in {"merge", "abort", "persist", "verify"}
    /\ conflicted # {} => pc \in {"merge", "abort", "persist"}
    /\ pc \in {"idle", "reconcile", "owed", "select", "finalize"} => pool = {}
    /\ phase = 1 => pool = {}

\* Every subtask that has work, a worktree or a merge to come has a branch, and
\* merges happen on the integration branch.
Branches ==
    /\ head = "integ" => integExists
    /\ pc \in {"merge", "abort"} => head = "integ"
    /\ \A s \in Subtasks :
          /\ worktree[s] # "absent" => hasBranch[s]
          /\ status[s] = "COMPLETED" => hasBranch[s]
          /\ wpc[s] \notin {"off", "create"} => hasBranch[s]
          /\ s \in todo => hasBranch[s]
          /\ s \in merged => integExists /\ hasBranch[s] /\ tip[s] \subseteq integTip

\* The pass works on subtasks that are not integrated; an integrated one is
\* COMPLETED except between a failed validation and the next reconciliation.
Ledger ==
    /\ IntegratedMeansAncestor
    /\ \A s \in pool \cup batch \cup todo \cup conflicted : ~integrated[s]
    /\ pc \notin {"idle", "reconcile", "return"} =>
          \A s \in Subtasks : integrated[s] => status[s] = "COMPLETED"
    /\ PromotedImpliesIntegrated
    /\ pc = "verify" => \A s \in merged : integrated[s]

\* Dependencies of what waits or runs in this pass are COMPLETED, and the pass
\* itself does not touch them.
InPass == pool \cup batch \cup todo \cup merged \cup conflicted
Dependencies ==
    /\ pool \cap (batch \cup todo \cup merged \cup conflicted) = {}
    /\ \A s \in pool \cup batch : \A d \in Deps[s] :
          status[d] = "COMPLETED" /\ d \notin InPass

\* The inductive invariant.
TypeInv == TypeOK /\ ResultKnown
PassInv == Control /\ Branches /\ Ledger /\ Dependencies
IInv == TypeInv /\ PassInv

-----------------------------------------------------------------------------

\* Types, one action at a time.
LEMMA TypeStep ==
    ASSUME TypeOK, ResultKnown, [Next]_vars
    PROVE  TypeInv'
<1>. USE DepsAssumption DEF TypeInv, TypeOK, TaskStatus, SubtaskStatus, ResultKnown,
         recordVars, branchVars, integVars, repoVars, workerVars, mergeVars
<1>1. ASSUME NEW fresh \in BOOLEAN, RunOnce(fresh) PROVE TypeInv'
  BY <1>1 DEF RunOnce
<1>2. ASSUME NEW ok \in BOOLEAN, NEW committed \in BOOLEAN, Reconcile(ok, committed) PROVE TypeInv'
  BY <1>2 DEF Reconcile, AlreadyMerged, CommitsAhead, DirtyRecoverable,
       BaseCommit, MergingAfterAbort, EnsureBranch, HeadTip, Commit, integVars
<1>3. ASSUME NEW ok \in BOOLEAN, BeginIntegration(ok) PROVE TypeInv'
  BY <1>3 DEF BeginIntegration, EnsureBranch, HeadTip
<1>4. CASE FindOwed
  BY <1>4 DEF FindOwed
<1>5. CASE EndMerges
  BY <1>5 DEF EndMerges
<1>6. CASE Persist
  BY <1>6 DEF Persist, AfterPersist, AfterPass, Recorded
<1>7. CASE VerifyPass
  BY <1>7 DEF VerifyPass, AfterPass, HeadTip
<1>8. CASE VerifyFail
  BY <1>8 DEF VerifyFail
<1>9. ASSUME NEW s \in Subtasks, MergeNext(s) PROVE TypeInv'
  BY <1>9 DEF MergeNext, IsNext
<1>10. ASSUME NEW s \in Subtasks, MergeConflict(s) PROVE TypeInv'
  BY <1>10 DEF MergeConflict, IsNext
<1>11. ASSUME NEW s \in Subtasks, AbortMerge(s) PROVE TypeInv'
  BY <1>11 DEF AbortMerge, IsNext
<1>12. CASE SelectRunnable
  BY <1>12 DEF SelectRunnable, Runnable, Waiting, DepsDone
<1>13. CASE EndBatches
  BY <1>13 DEF EndBatches
<1>14. CASE EndBatch
  BY <1>14 DEF EndBatch, Accepted, Idle, NoResult
<1>15. ASSUME NEW B \in SUBSET pool, StartBatch(B) PROVE TypeInv'
  BY <1>15 DEF StartBatch
<1>16. CASE Finalize
  BY <1>16 DEF Finalize
<1>17. CASE Return
  BY <1>17 DEF Return, Unassign, ForgetRun, Idle, NoResult
<1>18. ASSUME NEW s \in Subtasks, WorkerCreate(s) PROVE TypeInv'
  BY <1>18 DEF WorkerCreate, SetWorker, HeadTip
<1>19. ASSUME NEW s \in Subtasks, WorkerRun(s) PROVE TypeInv'
  BY <1>19 DEF WorkerRun, SetWorker, RunOutcomes
<1>21. ASSUME NEW s \in Subtasks, WorkerError(s) PROVE TypeInv'
  BY <1>21 DEF WorkerError, SetWorker
<1>22. ASSUME NEW s \in Subtasks, WorkerStore(s) PROVE TypeInv'
  BY <1>22 DEF WorkerStore, SetWorker, HeadTip
<1>23. ASSUME NEW s \in Subtasks, WorkerCommit(s) PROVE TypeInv'
  BY <1>23 DEF WorkerCommit, SetWorker, Commit
<1>24. CASE Interrupt
  BY <1>24 DEF Interrupt, Unassign, ForgetRun, Idle, NoResult
<1>25. CASE Crash
  BY <1>25 DEF Crash, ForgetRun, Idle, NoResult
<1>26. CASE UserCheckout
  BY <1>26 DEF UserCheckout
<1>27. CASE UserMerge
  BY <1>27 DEF UserMerge
<1>28. CASE UNCHANGED vars
  BY <1>28 DEF vars
<1>. QED
  BY <1>1, <1>2, <1>3, <1>4, <1>5, <1>6, <1>7, <1>8, <1>9, <1>10, <1>11, <1>12,
       <1>13, <1>14, <1>15, <1>16, <1>17, <1>18, <1>19, <1>21, <1>22,
       <1>23, <1>24, <1>25, <1>26, <1>27, <1>28 DEF Next, Coordinator, Worker

\* The rest of IInv, one action at a time; the actions that move the pass along
\* are split by conjunct.
LEMMA PassStep ==
    ASSUME IInv, [Next]_vars
    PROVE  PassInv'
<1>. USE DepsAssumption DEF IInv, TypeInv, PassInv, TypeOK, recordVars, branchVars, integVars,
         repoVars, workerVars, mergeVars
<1>1. ASSUME NEW fresh \in BOOLEAN, RunOnce(fresh) PROVE PassInv'
  BY <1>1 DEF RunOnce, Control, Branches, Ledger, Dependencies, InPass,
       IntegratedMeansAncestor, PromotedImpliesIntegrated
<1>2. ASSUME NEW ok \in BOOLEAN, NEW committed \in BOOLEAN, Reconcile(ok, committed) PROVE PassInv'
  <2>1. Control'
    BY <1>2 DEF Reconcile, AlreadyMerged, CommitsAhead, DirtyRecoverable,
         BaseCommit, MergingAfterAbort, EnsureBranch, HeadTip, Commit,
         integVars, Control
  <2>2. Branches'
    BY <1>2 DEF Reconcile, AlreadyMerged, CommitsAhead, DirtyRecoverable,
         BaseCommit, MergingAfterAbort, EnsureBranch, HeadTip, Commit,
         integVars, Control, Branches
  <2>3. Ledger'
    BY <1>2 DEF Reconcile, AlreadyMerged, CommitsAhead, DirtyRecoverable,
         BaseCommit, MergingAfterAbort, EnsureBranch, HeadTip, Commit,
         integVars, Control, Branches, Ledger, Dependencies,
         IntegratedMeansAncestor, PromotedImpliesIntegrated
  <2>4. Dependencies'
    BY <1>2 DEF Reconcile, AlreadyMerged, CommitsAhead, DirtyRecoverable,
         BaseCommit, MergingAfterAbort, EnsureBranch, HeadTip, Commit,
         integVars, Control, Ledger, Dependencies, InPass
  <2>. QED
    BY <2>1, <2>2, <2>3, <2>4
<1>3. ASSUME NEW ok \in BOOLEAN, BeginIntegration(ok) PROVE PassInv'
  BY <1>3 DEF BeginIntegration, EnsureBranch, HeadTip, Control, Branches,
       Ledger, Dependencies, InPass, IntegratedMeansAncestor,
       PromotedImpliesIntegrated
<1>4. CASE FindOwed
  BY <1>4 DEF FindOwed, Control, Branches, Ledger, Dependencies, InPass,
       IntegratedMeansAncestor, PromotedImpliesIntegrated
<1>5. CASE EndMerges
  BY <1>5 DEF EndMerges, Control, Branches, Ledger, Dependencies, InPass,
       IntegratedMeansAncestor, PromotedImpliesIntegrated
<1>6. CASE Persist
  <2>1. Control'
    BY <1>6 DEF Persist, AfterPersist, AfterPass, Recorded, Control
  <2>2. Branches'
    BY <1>6 DEF Persist, AfterPersist, AfterPass, Recorded, Control, Branches
  <2>3. Ledger'
    BY <1>6 DEF Persist, AfterPersist, AfterPass, Recorded, Control, Branches,
         Ledger, Dependencies, IntegratedMeansAncestor,
         PromotedImpliesIntegrated
  <2>4. Dependencies'
    BY <1>6 DEF Persist, AfterPersist, AfterPass, Recorded, Control, Ledger,
         Dependencies, InPass
  <2>. QED
    BY <2>1, <2>2, <2>3, <2>4
<1>7. CASE VerifyPass
  BY <1>7 DEF VerifyPass, AfterPass, HeadTip, Control, Branches, Ledger,
       Dependencies, InPass, IntegratedMeansAncestor, PromotedImpliesIntegrated
<1>8. CASE VerifyFail
  <2>1. Control'
    BY <1>8 DEF VerifyFail, Control
  <2>2. Branches'
    BY <1>8 DEF VerifyFail, Control, Branches
  <2>3. Ledger'
    BY <1>8 DEF VerifyFail, Control, Branches, Ledger, Dependencies,
         IntegratedMeansAncestor, PromotedImpliesIntegrated
  <2>4. Dependencies'
    BY <1>8 DEF VerifyFail, Control, Ledger, Dependencies, InPass
  <2>. QED
    BY <2>1, <2>2, <2>3, <2>4
<1>9. ASSUME NEW s \in Subtasks, MergeNext(s) PROVE PassInv'
  <2>1. Control'
    BY <1>9 DEF MergeNext, IsNext, Control
  <2>2. Branches'
    BY <1>9 DEF MergeNext, IsNext, Control, Branches
  <2>3. Ledger'
    BY <1>9 DEF MergeNext, IsNext, Control, Branches, Ledger, Dependencies,
         IntegratedMeansAncestor, PromotedImpliesIntegrated
  <2>4. Dependencies'
    BY <1>9 DEF MergeNext, IsNext, Control, Ledger, Dependencies, InPass
  <2>. QED
    BY <2>1, <2>2, <2>3, <2>4
<1>10. ASSUME NEW s \in Subtasks, MergeConflict(s) PROVE PassInv'
  BY <1>10 DEF MergeConflict, IsNext, Control, Branches, Ledger, Dependencies,
       InPass, IntegratedMeansAncestor, PromotedImpliesIntegrated
<1>11. ASSUME NEW s \in Subtasks, AbortMerge(s) PROVE PassInv'
  BY <1>11 DEF AbortMerge, IsNext, Control, Branches, Ledger, Dependencies,
       InPass, IntegratedMeansAncestor, PromotedImpliesIntegrated
<1>12. CASE SelectRunnable
  <2>1. Control'
    BY <1>12 DEF SelectRunnable, Runnable, Waiting, DepsDone, Control
  <2>2. Branches'
    BY <1>12 DEF SelectRunnable, Runnable, Waiting, DepsDone, Control, Branches
  <2>3. Ledger'
    BY <1>12 DEF SelectRunnable, Runnable, Waiting, DepsDone, Control,
         Branches, Ledger, Dependencies, IntegratedMeansAncestor,
         PromotedImpliesIntegrated
  <2>4. Dependencies'
    BY <1>12 DEF SelectRunnable, Runnable, Waiting, DepsDone, Control, Ledger,
         Dependencies, InPass
  <2>. QED
    BY <2>1, <2>2, <2>3, <2>4
<1>13. CASE EndBatches
  BY <1>13 DEF EndBatches, Control, Branches, Ledger, Dependencies, InPass,
       IntegratedMeansAncestor, PromotedImpliesIntegrated
<1>14. CASE EndBatch
  <2>1. Control'
    BY <1>14 DEF EndBatch, Accepted, Idle, NoResult, Control
  <2>2. Branches'
    BY <1>14 DEF EndBatch, Accepted, Idle, NoResult, Control, Branches
  <2>3. Ledger'
    BY <1>14 DEF EndBatch, Accepted, Idle, NoResult, Control, Branches, Ledger,
         Dependencies, IntegratedMeansAncestor, PromotedImpliesIntegrated
  <2>4. Dependencies'
    BY <1>14 DEF EndBatch, Accepted, Idle, NoResult, Control, Ledger,
         Dependencies, InPass
  <2>. QED
    BY <2>1, <2>2, <2>3, <2>4
<1>15. ASSUME NEW B \in SUBSET pool, StartBatch(B) PROVE PassInv'
  <2>1. Control'
    BY <1>15 DEF StartBatch, Control
  <2>2. Branches'
    BY <1>15 DEF StartBatch, Control, Branches
  <2>3. Ledger'
    BY <1>15 DEF StartBatch, Control, Branches, Ledger, Dependencies,
         IntegratedMeansAncestor, PromotedImpliesIntegrated
  <2>4. Dependencies'
    BY <1>15 DEF StartBatch, Control, Ledger, Dependencies, InPass
  <2>. QED
    BY <2>1, <2>2, <2>3, <2>4
<1>16. CASE Finalize
  BY <1>16 DEF Finalize, Control, Branches, Ledger, Dependencies, InPass,
       IntegratedMeansAncestor, PromotedImpliesIntegrated
<1>17. CASE Return
  BY <1>17 DEF Return, Unassign, ForgetRun, Idle, NoResult, Control, Branches,
       Ledger, Dependencies, InPass, IntegratedMeansAncestor,
       PromotedImpliesIntegrated
<1>18. ASSUME NEW s \in Subtasks, WorkerCreate(s) PROVE PassInv'
  BY <1>18 DEF WorkerCreate, SetWorker, HeadTip, Control, Branches, Ledger,
       Dependencies, InPass, IntegratedMeansAncestor, PromotedImpliesIntegrated
<1>19. ASSUME NEW s \in Subtasks, WorkerRun(s) PROVE PassInv'
  BY <1>19 DEF WorkerRun, SetWorker, RunOutcomes, Control, Branches, Ledger,
       Dependencies, InPass, IntegratedMeansAncestor, PromotedImpliesIntegrated
<1>21. ASSUME NEW s \in Subtasks, WorkerError(s) PROVE PassInv'
  BY <1>21 DEF WorkerError, SetWorker, Control, Branches, Ledger, Dependencies,
       InPass, IntegratedMeansAncestor, PromotedImpliesIntegrated
<1>22. ASSUME NEW s \in Subtasks, WorkerStore(s) PROVE PassInv'
  BY <1>22 DEF WorkerStore, SetWorker, HeadTip, Control, Branches, Ledger,
       Dependencies, InPass, IntegratedMeansAncestor, PromotedImpliesIntegrated
<1>23. ASSUME NEW s \in Subtasks, WorkerCommit(s) PROVE PassInv'
  BY <1>23 DEF WorkerCommit, SetWorker, Commit, Control, Branches, Ledger,
       Dependencies, InPass, IntegratedMeansAncestor, PromotedImpliesIntegrated
<1>24. CASE Interrupt
  BY <1>24 DEF Interrupt, Unassign, ForgetRun, Idle, NoResult, Control,
       Branches, Ledger, Dependencies, InPass, IntegratedMeansAncestor,
       PromotedImpliesIntegrated
<1>25. CASE Crash
  BY <1>25 DEF Crash, ForgetRun, Idle, NoResult, Control, Branches, Ledger,
       Dependencies, InPass, IntegratedMeansAncestor, PromotedImpliesIntegrated
<1>26. CASE UserCheckout
  BY <1>26 DEF UserCheckout, Control, Branches, Ledger, Dependencies, InPass,
       IntegratedMeansAncestor, PromotedImpliesIntegrated
<1>27. CASE UserMerge
  BY <1>27 DEF UserMerge, Control, Branches, Ledger, Dependencies, InPass,
       IntegratedMeansAncestor, PromotedImpliesIntegrated
<1>28. CASE UNCHANGED vars
  BY <1>28 DEF vars, Control, Branches, Ledger, Dependencies, InPass,
       IntegratedMeansAncestor, PromotedImpliesIntegrated
<1>. QED
  BY <1>1, <1>2, <1>3, <1>4, <1>5, <1>6, <1>7, <1>8, <1>9, <1>10, <1>11, <1>12,
       <1>13, <1>14, <1>15, <1>16, <1>17, <1>18, <1>19, <1>21, <1>22,
       <1>23, <1>24, <1>25, <1>26, <1>27, <1>28 DEF Next, Coordinator, Worker


LEMMA InitIInv == Init => IInv
<1>. SUFFICES ASSUME Init PROVE IInv
  OBVIOUS
<1>. USE DEF Init, Idle, NoResult
<1>1. TypeOK /\ ResultKnown
  BY DEF TypeOK, ResultKnown, TaskStatus, SubtaskStatus
<1>2. Control /\ Branches
  BY DEF Control, Branches
<1>3. Ledger /\ Dependencies
  BY DEF Ledger, Dependencies, InPass, IntegratedMeansAncestor,
       PromotedImpliesIntegrated
<1>. QED
  BY <1>1, <1>2, <1>3 DEF IInv, TypeInv, PassInv

\* IInv holds in every reachable state.
THEOREM Invariance == Spec => []IInv
<1>1. Init => IInv
  BY InitIInv
<1>2. IInv /\ [Next]_vars => IInv'
  BY TypeStep, PassStep DEF IInv, TypeInv, PassInv
<1>. QED
  BY <1>1, <1>2, PTL DEF Spec

\* Every variable keeps its type.
THEOREM TypeCorrect == Spec => []TypeOK
<1>1. IInv => TypeOK
  BY DEF IInv, TypeInv, PassInv
<1>. QED
  BY <1>1, Invariance, PTL

\* No interruption, crash or resumption makes a recorded integration stale.
THEOREM IntegrationIsNeverStale == Spec => []IntegratedMeansAncestor
<1>1. IInv => IntegratedMeansAncestor
  BY DEF IInv, TypeInv, PassInv, Ledger
<1>. QED
  BY <1>1, Invariance, PTL

\* No contract is promoted before its integration is recorded.
THEOREM PromotionFollowsIntegration == Spec => []PromotedImpliesIntegrated
<1>1. IInv => PromotedImpliesIntegrated
  BY DEF IInv, TypeInv, PassInv, Ledger
<1>. QED
  BY <1>1, Invariance, PTL

\* Workers run on completed dependencies.
THEOREM WorkersWait == Spec => []WorkersRunOnCompletedDeps
<1>1. IInv => WorkersRunOnCompletedDeps
  BY DepsAssumption DEF IInv, TypeInv, PassInv, TypeOK, Control, Dependencies, InPass,
       WorkersRunOnCompletedDeps
<1>. QED
  BY <1>1, Invariance, PTL

\* The user's branch is never merged into.
THEOREM UserBranchIsSafe == Spec => UserBranchUntouched
<1>1. ASSUME IInv, [Next]_vars PROVE [userTip' = userTip]_vars
  <2>. USE DEF repoVars
  <2>1. ASSUME NEW s \in Subtasks, MergeNext(s) PROVE userTip' = userTip
    BY <1>1, <2>1 DEF IInv, TypeInv, PassInv, Branches, MergeNext
  <2>2. CASE \E fresh \in BOOLEAN : RunOnce(fresh)
    BY <2>2 DEF RunOnce
  <2>3. CASE \E s \in Subtasks : Worker(s)
    BY <2>3 DEF Worker, WorkerCreate, WorkerRun,
                WorkerError, WorkerStore, WorkerCommit
  <2>4. CASE Interrupt \/ Crash \/ UserCheckout \/ UserMerge
    BY <2>4 DEF Interrupt, Crash, UserCheckout, UserMerge
  <2>5. CASE Coordinator
    BY <2>1, <2>5 DEF Coordinator, Reconcile, BeginIntegration, FindOwed,
          EndMerges, Persist, VerifyPass, VerifyFail, MergeConflict, AbortMerge,
          SelectRunnable, EndBatches, EndBatch, StartBatch, Finalize, Return
  <2>. QED
    BY <1>1, <2>2, <2>3, <2>4, <2>5 DEF Next, vars
<1>. QED
  BY <1>1, Invariance, PTL DEF Spec, UserBranchUntouched

\* A merge of the user stands on the user's branch, where no run aborts one.
MergeInv == merging = "user" => head # "integ"

LEMMA MergeStep ==
    ASSUME IInv, MergeInv, [Next]_vars
    PROVE  MergeInv' /\ (merging = "user" /\ pc # "idle" => merging' = "user")
<1>. USE DEF MergeInv, repoVars
<1>1. CASE \E ok, committed \in BOOLEAN : Reconcile(ok, committed)
  BY <1>1 DEF Reconcile, EnsureBranch, MergingAfterAbort
<1>2. CASE \E ok \in BOOLEAN : BeginIntegration(ok)
  BY <1>2 DEF BeginIntegration, EnsureBranch
<1>3. ASSUME NEW s \in Subtasks, MergeNext(s) \/ MergeConflict(s) \/ AbortMerge(s)
      PROVE  MergeInv' /\ (merging = "user" /\ pc # "idle" => merging' = "user")
  <2>1. merging # "user"
    BY <1>3 DEF IInv, PassInv, Branches, MergeNext, MergeConflict, AbortMerge
  <2>. QED
    BY <1>3, <2>1 DEF MergeNext, MergeConflict, AbortMerge
<1>4. CASE \E s \in Subtasks : Worker(s)
  BY <1>4 DEF Worker, WorkerCreate, WorkerRun, WorkerError, WorkerStore, WorkerCommit
<1>5. CASE Interrupt \/ Crash \/ UserCheckout
  BY <1>5 DEF Interrupt, Crash, UserCheckout
<1>6. CASE UserMerge
  BY <1>6 DEF UserMerge
<1>7. CASE \E fresh \in BOOLEAN : RunOnce(fresh)
  BY <1>7 DEF RunOnce
<1>8. CASE Coordinator
  BY <1>1, <1>2, <1>3, <1>8 DEF Coordinator, FindOwed, EndMerges, Persist, VerifyPass,
        VerifyFail, SelectRunnable, EndBatches, EndBatch, StartBatch, Finalize, Return
<1>. QED
  BY <1>4, <1>5, <1>6, <1>7, <1>8 DEF Next, vars

\* A merge the user has in progress when a run begins is there, as it was, when it ends,
\* whatever the run does in between and however it ends.
THEOREM UserMergeIsSafe == Spec => UserMergeUntouched
<1>1. Init => MergeInv
  BY DEF Init, MergeInv
<1>2. IInv /\ MergeInv /\ [Next]_vars => MergeInv'
  BY MergeStep
<1>3. IInv /\ MergeInv /\ [Next]_vars =>
        [merging = "user" /\ pc # "idle" => merging' = "user"]_vars
  BY MergeStep
<1>. QED
  BY <1>1, <1>2, <1>3, Invariance, PTL DEF Spec, UserMergeUntouched

\* Within a pass merges follow the dependency order.
THEOREM MergeOrder == Spec => MergesFollowDag
<1>. DEFINE Ordered == \A s \in todo \ todo' : Deps[s] \cap todo = {}
            Step == (pc = "merge" \/ pc = "abort") /\ pc' # "idle" => Ordered
<1>1. ASSUME IInv, [Next]_vars PROVE [Step]_vars
  <2>. USE DEF mergeVars, IInv, TypeInv, PassInv, TypeOK
  <2>1. ASSUME NEW s \in Subtasks, MergeNext(s) \/ AbortMerge(s) PROVE Ordered
    <3>1. s \in todo /\ todo' = todo \ {s} /\ \A t \in todo : Rank[s] <= Rank[t]
      BY <2>1 DEF MergeNext, AbortMerge, IsNext
    <3>2. \A d \in Deps[s] : d \in Subtasks /\ Rank[d] < Rank[s]
      BY DepsAssumption, RankAssumption
    <3>3. \A d \in Subtasks : Rank[d] \in Nat
      BY RankAssumption
    <3>. QED
      BY <1>1, <3>1, <3>2, <3>3
  <2>2. CASE \E s \in Subtasks : MergeConflict(s)
    BY <2>2 DEF MergeConflict
  <2>3. CASE EndMerges
    BY <2>3 DEF EndMerges
  <2>4. CASE Interrupt \/ Crash
    BY <2>4 DEF Interrupt, Crash, ForgetRun
  <2>5. CASE Coordinator
    BY <2>1, <2>2, <2>3, <2>5 DEF Coordinator, Reconcile, BeginIntegration,
          FindOwed, Persist, VerifyPass, VerifyFail, SelectRunnable, EndBatches,
          EndBatch, StartBatch, Finalize, Return
  <2>6. CASE (\E s \in Subtasks : Worker(s)) \/ UserCheckout \/ UserMerge
    BY <2>6 DEF Worker, WorkerCreate, WorkerRun,
                WorkerError, WorkerStore, WorkerCommit, UserCheckout, UserMerge
  <2>7. CASE \E fresh \in BOOLEAN : RunOnce(fresh)
    BY <2>7 DEF RunOnce
  <2>. QED
    BY <1>1, <2>4, <2>5, <2>6, <2>7 DEF Next, vars
<1>. QED
  BY <1>1, Invariance, PTL DEF Spec, MergesFollowDag

-----------------------------------------------------------------------------
(***************************************************************************)
(* That a COMPLETED task was verified.  An interrupted call forgets what   *)
(* it merged without having validated it, and a failed validation does the *)
(* same; nothing else does.  A killed call does too, but leaves the task   *)
(* assigned, so no later call picks it up.                                 *)
(***************************************************************************)

\* No call is interrupted and no Tier-2 validation fails.
ValidationEnds == {"interrupt", "verifyFail"} \cap Events = {}

\* Unless something is merged and not validated yet, the integration branch
\* is what the last passed validation saw.
VerifiedInv ==
    /\ userTip = {}
    /\ pc # "idle" => assigned
    /\ ~(pc = "idle" /\ assigned) /\ merged = {} => integTip \subseteq verifiedTip
    /\ merged # {} \/ pc = "verify" => head = "integ"
    /\ taskStatus = "COMPLETED" => pc \in {"return", "idle"}
    /\ CompletedIsVerified

LEMMA VerifiedStep ==
    ASSUME ValidationEnds, IInv, VerifiedInv, [Next]_vars
    PROVE  VerifiedInv'
<1>. USE DEF IInv, TypeInv, PassInv, TypeOK, Control, Branches, VerifiedInv, CompletedIsVerified,
         recordVars, branchVars, integVars, repoVars, workerVars, mergeVars
<1>1. ASSUME NEW fresh \in BOOLEAN, RunOnce(fresh) PROVE VerifiedInv'
  BY <1>1 DEF RunOnce
<1>2. ASSUME NEW ok \in BOOLEAN, NEW committed \in BOOLEAN, Reconcile(ok, committed)
      PROVE VerifiedInv'
  BY <1>2 DEF Reconcile, EnsureBranch, HeadTip
<1>3. ASSUME NEW ok \in BOOLEAN, BeginIntegration(ok) PROVE VerifiedInv'
  BY <1>3 DEF BeginIntegration, EnsureBranch, HeadTip
<1>4. CASE FindOwed \/ EndMerges \/ SelectRunnable \/ EndBatches \/ EndBatch
  BY <1>4 DEF FindOwed, EndMerges, SelectRunnable, EndBatches, EndBatch
<1>5. CASE Persist
  BY <1>5 DEF Persist, AfterPersist, AfterPass
<1>6. CASE VerifyPass
  BY <1>6 DEF VerifyPass, AfterPass, HeadTip
<1>7. CASE VerifyFail \/ Interrupt
  BY <1>7 DEF VerifyFail, Interrupt, ValidationEnds
<1>8. ASSUME NEW s \in Subtasks, MergeNext(s) PROVE VerifiedInv'
  BY <1>8 DEF MergeNext
<1>9. ASSUME NEW s \in Subtasks, MergeConflict(s) \/ AbortMerge(s) PROVE VerifiedInv'
  BY <1>9 DEF MergeConflict, AbortMerge
<1>10. ASSUME NEW B \in SUBSET pool, StartBatch(B) PROVE VerifiedInv'
  BY <1>10 DEF StartBatch
<1>11. CASE Finalize
  BY <1>11 DEF Finalize
<1>12. CASE Return
  BY <1>12 DEF Return, Unassign, ForgetRun
<1>13. ASSUME NEW s \in Subtasks, Worker(s) PROVE VerifiedInv'
  BY <1>13 DEF Worker, WorkerCreate, WorkerRun, WorkerError, WorkerStore, WorkerCommit
<1>14. CASE Crash
  BY <1>14 DEF Crash, ForgetRun
<1>15. CASE UserCheckout \/ UserMerge
  BY <1>15 DEF UserCheckout, UserMerge
<1>16. CASE UNCHANGED vars
  BY <1>16 DEF vars
<1>. QED
  BY <1>1, <1>2, <1>3, <1>4, <1>5, <1>6, <1>7, <1>8, <1>9, <1>10, <1>11, <1>12,
       <1>13, <1>14, <1>15, <1>16 DEF Next, Coordinator

\* Whatever else goes wrong - crashes, failed commits and checkouts, blocked
\* workers, a merge of the user's - a task is stored as COMPLETED only with an
\* integration branch that passed Tier-2 validation as it stands.
THEOREM CompletedWasVerified ==
    ASSUME ValidationEnds
    PROVE  Spec => []CompletedIsVerified
<1>1. Init => VerifiedInv
  BY DEF Init, VerifiedInv, CompletedIsVerified
<1>2. IInv /\ VerifiedInv /\ [Next]_vars => VerifiedInv'
  BY VerifiedStep
<1>3. VerifiedInv => CompletedIsVerified
  BY DEF VerifiedInv
<1>. QED
  BY <1>1, <1>2, <1>3, Invariance, PTL DEF Spec

-----------------------------------------------------------------------------
(***************************************************************************)
(* That a COMPLETED task is whole, and that workers see the work they      *)
(* depend on.  Both hold of a single call in which workers fail, pause or  *)
(* raise and merges conflict.  What makes one call enough: it ends the     *)
(* task or is killed, because the first subtask in rank order that is      *)
(* neither COMPLETED nor FAILED is always runnable.                        *)
(***************************************************************************)

OneCall == Events \subseteq {"workerFail", "workerPause", "workerError",
                             "conflict", "crash", "userCheckout"}

\* A task that is taken up once: no call starts on a record of an earlier one.
NotStarted ==
    /\ status = [s \in Subtasks |-> "PENDING"]
    /\ \A s \in Subtasks : ~integrated[s] /\ ~hasBranch[s] /\ worktree[s] = "absent"
    /\ ~integExists
TakenOnce ==
    /\ taskStatus = "PENDING" => pc = "idle" /\ ~assigned
    /\ pc # "idle" => assigned
    /\ pc = "idle" /\ ~assigned /\ taskStatus = "RUNNING" => FALSE
    /\ (pc = "idle" /\ taskStatus = "PENDING") \/ pc = "reconcile" => NotStarted
    /\ pc = "owed" => \A s \in Subtasks : status[s] = "PENDING"
    /\ merging # "user"
    /\ pc \notin {"idle", "reconcile"} => integExists /\ head = "integ"
    /\ \A s \in Subtasks : status[s] # "RUNNING" /\ wres[s] # "RUNNING"

\* The finished work of a COMPLETED subtask is on its branch, or about to be.
WorkKept ==
    \A s \in Subtasks :
        /\ wpc[s] = "store" /\ wres[s] = "COMPLETED" => worktree[s] = "full"
        /\ wpc[s] = "commit" /\ status[s] = "COMPLETED" => worktree[s] = "full"
        /\ pc # "idle" /\ status[s] = "COMPLETED" /\ wpc[s] # "commit" => Full(s) \in tip[s]
        /\ wpc[s] \in {"commit", "done"} /\ wres[s] = "COMPLETED" => status[s] = "COMPLETED"

\* A COMPLETED subtask is integrated, or this pass will see to it.
NothingOwed ==
    /\ pc # "idle" => \A s \in Subtasks : status[s] = "COMPLETED" =>
          integrated[s] \/ s \in batch \cup todo \cup merged \cup conflicted
    /\ \A s \in pool : status[s] \in Waiting
    /\ \A s \in batch : status[s] = "COMPLETED" =>
          wpc[s] \in {"commit", "done"} /\ wres[s] = "COMPLETED"
    /\ \A s \in todo \cup merged : status[s] = "COMPLETED"

\* How a call ends.
Ended ==
    /\ pc = "finalize" => Runnable = {}
    /\ taskStatus \in {"COMPLETED", "FAILED"} => pc \in {"return", "idle"}
    /\ pc = "return" => taskStatus = "COMPLETED" \/ \E s \in Subtasks : status[s] = "FAILED"
    /\ pc = "return" => taskStatus \in {"COMPLETED", "FAILED"}
    /\ CompletedWorkIsIntegrated

CallInv == TakenOnce /\ WorkKept /\ NothingOwed /\ Ended


LEMMA FirstInRankOrder ==
    ASSUME NEW T \in SUBSET Subtasks, T # {}
    PROVE  \E s \in T : \A t \in T : ~(Rank[t] < Rank[s])
<1>. DEFINE R == OpToRel(<, Nat)
            Ranks == {Rank[s] : s \in T}
<1>1. IsWellFoundedOn(R, Nat)
  BY NatLessThanWellFounded
<1>2. \A m, n \in Nat : <<m, n>> \in R <=> m < n
  BY DEF OpToRel
<1>3. Ranks \subseteq Nat /\ Ranks # {}
  BY RankAssumption
<1>. HIDE DEF R
<1>4. PICK n \in Ranks : \A m \in Ranks : ~(<<m, n>> \in R)
  <2>. HIDE DEF Ranks
  <2>. QED
    BY <1>1, <1>3, WFMin
<1>5. PICK s \in T : n = Rank[s]
  OBVIOUS
<1>6. \A t \in T : Rank[t] \in Ranks
  OBVIOUS
<1>. HIDE DEF Ranks
<1>. QED
  BY <1>2, <1>3, <1>4, <1>5, <1>6

\* While a subtask waits and none failed or runs, some subtask is runnable.
LEMMA NoneRunnableIsAllDone ==
    ASSUME TypeOK, \A s \in Subtasks : status[s] \notin {"RUNNING", "FAILED"}, Runnable = {}
    PROVE  \A s \in Subtasks : status[s] = "COMPLETED"
<1>. DEFINE T == {s \in Subtasks : status[s] \in Waiting}
<1>. SUFFICES ASSUME T # {} PROVE FALSE
  BY DEF TypeOK, SubtaskStatus, Waiting
<1>1. PICK s \in T : \A t \in T : ~(Rank[t] < Rank[s])
  BY FirstInRankOrder
<1>2. \A d \in Deps[s] : d \in Subtasks /\ Rank[d] < Rank[s]
  BY DepsAssumption, RankAssumption
<1>3. \A d \in Deps[s] : status[d] = "COMPLETED"
  BY <1>1, <1>2 DEF TypeOK, SubtaskStatus, Waiting
<1>. QED
  BY <1>1, <1>3 DEF Runnable, DepsDone

LEMMA TakenOnceStep ==
    ASSUME OneCall, IInv, CallInv, [Next]_vars
    PROVE  TakenOnce'
<1>. USE DEF IInv, TypeInv, PassInv, TypeOK, Control, CallInv, TakenOnce, NotStarted,
         recordVars, branchVars, integVars, repoVars, workerVars, mergeVars
<1>1. ASSUME NEW fresh \in BOOLEAN, RunOnce(fresh) PROVE TakenOnce'
  BY <1>1 DEF RunOnce
<1>2. ASSUME NEW ok \in BOOLEAN, NEW committed \in BOOLEAN, Reconcile(ok, committed)
      PROVE TakenOnce'
  BY <1>2 DEF Reconcile, AlreadyMerged, CommitsAhead, DirtyRecoverable,
       MergingAfterAbort, EnsureBranch, OneCall
<1>3. ASSUME NEW ok \in BOOLEAN, BeginIntegration(ok) PROVE TakenOnce'
  BY <1>3 DEF BeginIntegration, EnsureBranch
<1>4. CASE FindOwed \/ EndMerges \/ SelectRunnable \/ EndBatches \/ EndBatch \/ Finalize
  BY <1>4 DEF FindOwed, EndMerges, SelectRunnable, EndBatches, EndBatch, NoResult, Finalize
<1>5. CASE Persist \/ VerifyPass
  BY <1>5 DEF Persist, AfterPersist, AfterPass, VerifyPass
<1>6. CASE VerifyFail \/ Interrupt \/ UserMerge
  BY <1>6 DEF VerifyFail, Interrupt, UserMerge, OneCall
<1>7. ASSUME NEW s \in Subtasks, MergeNext(s) \/ MergeConflict(s) \/ AbortMerge(s)
      PROVE TakenOnce'
  BY <1>7 DEF MergeNext, MergeConflict, AbortMerge
<1>8. ASSUME NEW B \in SUBSET pool, StartBatch(B) PROVE TakenOnce'
  BY <1>8 DEF StartBatch
<1>9. CASE Return
  BY <1>9 DEF Return, Unassign, ForgetRun, NoResult, Ended
<1>10. ASSUME NEW s \in Subtasks, WorkerCreate(s) \/ WorkerError(s) \/ WorkerStore(s) \/ WorkerCommit(s)
       PROVE TakenOnce'
  BY <1>10 DEF WorkerCreate, WorkerError, WorkerStore, WorkerCommit, SetWorker
<1>11. ASSUME NEW s \in Subtasks, WorkerRun(s) PROVE TakenOnce'
  BY <1>11 DEF WorkerRun, RunOutcomes, OneCall
<1>12. CASE Crash \/ UserCheckout
  BY <1>12 DEF Crash, ForgetRun, NoResult, UserCheckout
<1>13. CASE UNCHANGED vars
  BY <1>13 DEF vars
<1>. QED
  BY <1>1, <1>2, <1>3, <1>4, <1>5, <1>6, <1>7, <1>8, <1>9, <1>10, <1>11, <1>12,
       <1>13 DEF Next, Coordinator, Worker

LEMMA WorkKeptStep ==
    ASSUME OneCall, IInv, CallInv, [Next]_vars
    PROVE  WorkKept'
<1>. USE DEF IInv, TypeInv, PassInv, TypeOK, Control, CallInv, WorkKept,
         recordVars, branchVars, integVars, repoVars, workerVars, mergeVars
<1>1. ASSUME NEW fresh \in BOOLEAN, RunOnce(fresh) PROVE WorkKept'
  BY <1>1 DEF RunOnce, TakenOnce, NotStarted
<1>2. ASSUME NEW ok \in BOOLEAN, NEW committed \in BOOLEAN, Reconcile(ok, committed)
      PROVE WorkKept'
  BY <1>2 DEF Reconcile, AlreadyMerged, CommitsAhead, DirtyRecoverable, TakenOnce, NotStarted
<1>3. ASSUME NEW ok \in BOOLEAN, BeginIntegration(ok) PROVE WorkKept'
  BY <1>3 DEF BeginIntegration
<1>4. CASE FindOwed \/ EndMerges \/ SelectRunnable \/ EndBatches \/ Finalize
  BY <1>4 DEF FindOwed, EndMerges, SelectRunnable, EndBatches, Finalize
<1>5. CASE EndBatch
  BY <1>5 DEF EndBatch, Idle, NoResult
<1>6. CASE Persist
  BY <1>6 DEF Persist, AfterPersist, AfterPass, NothingOwed
<1>7. CASE VerifyPass
  BY <1>7 DEF VerifyPass, AfterPass
<1>8. CASE VerifyFail \/ Interrupt \/ UserMerge
  BY <1>8 DEF VerifyFail, Interrupt, UserMerge, OneCall
<1>9. ASSUME NEW s \in Subtasks, MergeNext(s) \/ MergeConflict(s) \/ AbortMerge(s)
      PROVE WorkKept'
  BY <1>9 DEF MergeNext, MergeConflict, AbortMerge
<1>10. ASSUME NEW B \in SUBSET pool, StartBatch(B) PROVE WorkKept'
  BY <1>10 DEF StartBatch
<1>11. CASE Return \/ Crash
  BY <1>11 DEF Return, Crash, ForgetRun, Idle, NoResult
<1>12. ASSUME NEW s \in Subtasks, WorkerCreate(s) PROVE WorkKept'
  BY <1>12 DEF WorkerCreate, SetWorker, Branches, NothingOwed
<1>13. ASSUME NEW s \in Subtasks, WorkerRun(s) PROVE WorkKept'
  BY <1>13 DEF WorkerRun, SetWorker, RunOutcomes, OneCall
<1>14. ASSUME NEW s \in Subtasks, WorkerError(s) PROVE WorkKept'
  BY <1>14 DEF WorkerError, SetWorker
<1>15. ASSUME NEW s \in Subtasks, WorkerStore(s) PROVE WorkKept'
  BY <1>15 DEF WorkerStore, SetWorker
<1>16. ASSUME NEW s \in Subtasks, WorkerCommit(s) PROVE WorkKept'
  <2>1. wpc' = [wpc EXCEPT ![s] = "done"] /\ UNCHANGED <<status, wres, pc>>
    BY <1>16 DEF WorkerCommit, SetWorker
  <2>2. \A t \in Subtasks : tip[t] \subseteq tip'[t] /\ (t # s => worktree'[t] = worktree[t])
    BY <1>16 DEF WorkerCommit
  <2>3. worktree[s] = "full" => Full(s) \in tip'[s]
    BY <1>16 DEF WorkerCommit, Full, OneCall
  <2>4. wpc[s] = "commit"
    BY <1>16 DEF WorkerCommit
  <2>. QED
    BY <2>1, <2>2, <2>3, <2>4
<1>17. CASE UserCheckout
  BY <1>17 DEF UserCheckout
<1>18. CASE UNCHANGED vars
  BY <1>18 DEF vars
<1>. QED
  BY <1>1, <1>2, <1>3, <1>4, <1>5, <1>6, <1>7, <1>8, <1>9, <1>10, <1>11, <1>12,
       <1>13, <1>14, <1>15, <1>16, <1>17, <1>18 DEF Next, Coordinator, Worker


LEMMA NothingOwedStep ==
    ASSUME OneCall, IInv, CallInv, [Next]_vars
    PROVE  NothingOwed'
<1>. USE DEF IInv, TypeInv, PassInv, TypeOK, Control, CallInv, NothingOwed, Waiting,
         recordVars, branchVars, integVars, repoVars, workerVars, mergeVars
<1>1. ASSUME NEW fresh \in BOOLEAN, RunOnce(fresh) PROVE NothingOwed'
  BY <1>1 DEF RunOnce, TakenOnce, NotStarted
<1>2. ASSUME NEW ok \in BOOLEAN, NEW committed \in BOOLEAN, Reconcile(ok, committed)
      PROVE NothingOwed'
  BY <1>2 DEF Reconcile, AlreadyMerged, CommitsAhead, DirtyRecoverable, TakenOnce, NotStarted
<1>3. ASSUME NEW ok \in BOOLEAN, BeginIntegration(ok) PROVE NothingOwed'
  BY <1>3 DEF BeginIntegration, EnsureBranch, TakenOnce, OneCall
<1>4. CASE FindOwed
  BY <1>4 DEF FindOwed, TakenOnce
<1>5. CASE EndMerges \/ EndBatches \/ Finalize
  BY <1>5 DEF EndMerges, EndBatches, Finalize
<1>6. CASE SelectRunnable
  BY <1>6 DEF SelectRunnable, Runnable
<1>7. CASE EndBatch
  BY <1>7 DEF EndBatch, Accepted, WorkKept
<1>8. CASE Persist
  BY <1>8 DEF Persist, Recorded, Dependencies
<1>9. CASE VerifyPass
  BY <1>9 DEF VerifyPass, Ledger
<1>10. CASE VerifyFail \/ Interrupt \/ UserMerge
  BY <1>10 DEF VerifyFail, Interrupt, UserMerge, OneCall
<1>11. ASSUME NEW s \in Subtasks, MergeNext(s) \/ MergeConflict(s) PROVE NothingOwed'
  BY <1>11 DEF MergeNext, MergeConflict, IsNext
<1>12. ASSUME NEW s \in Subtasks, AbortMerge(s) PROVE NothingOwed'
  BY <1>12 DEF AbortMerge
<1>13. ASSUME NEW B \in SUBSET pool, StartBatch(B) PROVE NothingOwed'
  BY <1>13 DEF StartBatch
<1>14. CASE Return \/ Crash
  BY <1>14 DEF Return, Crash, ForgetRun
<1>15. ASSUME NEW s \in Subtasks, WorkerCreate(s) \/ WorkerRun(s) \/ WorkerError(s) PROVE NothingOwed'
  BY <1>15 DEF WorkerCreate, WorkerRun, WorkerError, SetWorker
<1>16. ASSUME NEW s \in Subtasks, WorkerStore(s) PROVE NothingOwed'
  BY <1>16 DEF WorkerStore, SetWorker, Dependencies
<1>17. ASSUME NEW s \in Subtasks, WorkerCommit(s) PROVE NothingOwed'
  BY <1>17 DEF WorkerCommit, SetWorker
<1>18. CASE UserCheckout
  BY <1>18 DEF UserCheckout
<1>19. CASE UNCHANGED vars
  BY <1>19 DEF vars
<1>. QED
  BY <1>1, <1>2, <1>3, <1>4, <1>5, <1>6, <1>7, <1>8, <1>9, <1>10, <1>11, <1>12,
       <1>13, <1>14, <1>15, <1>16, <1>17, <1>18, <1>19 DEF Next, Coordinator, Worker

\* With every subtask COMPLETED and integrated the integration branch is whole.
LEMMA IntegratedIsWhole ==
    ASSUME IInv, CallInv, pc # "idle", batch = {}, NEW s \in Subtasks,
           status[s] = "COMPLETED", integrated[s]
    PROVE  Full(s) \in integTip
  BY DEF IInv, TypeInv, PassInv, Control, Ledger, IntegratedMeansAncestor, CallInv, WorkKept

LEMMA EndedStep ==
    ASSUME OneCall, IInv, CallInv, [Next]_vars
    PROVE  Ended'
<1>. USE DEF Ended, CompletedWorkIsIntegrated, recordVars, branchVars, integVars, repoVars,
         workerVars, mergeVars
<1>1. Ended /\ TypeOK
  BY DEF CallInv, IInv, TypeInv
<1>2. ASSUME NEW fresh \in BOOLEAN, RunOnce(fresh) PROVE Ended'
  BY <1>2 DEF RunOnce
<1>3. ASSUME NEW ok \in BOOLEAN, NEW committed \in BOOLEAN, Reconcile(ok, committed)
      PROVE Ended'
  BY <1>1, <1>3 DEF Reconcile
<1>4. ASSUME NEW ok \in BOOLEAN, BeginIntegration(ok) PROVE Ended'
  BY <1>1, <1>4 DEF BeginIntegration
<1>5. CASE FindOwed \/ EndMerges \/ EndBatches \/ EndBatch
  BY <1>1, <1>5 DEF FindOwed, EndMerges, EndBatches, EndBatch
<1>6. CASE SelectRunnable
  <2>1. Runnable' = Runnable
    BY <1>6 DEF SelectRunnable, Runnable, DepsDone
  <2>. QED
    BY <1>1, <1>6, <2>1 DEF SelectRunnable
<1>7. CASE Persist \/ VerifyPass
  BY <1>1, <1>7 DEF Persist, AfterPersist, AfterPass, VerifyPass
<1>8. CASE VerifyFail \/ Interrupt \/ UserMerge
  BY <1>8 DEF VerifyFail, Interrupt, UserMerge, OneCall
<1>9. ASSUME NEW s \in Subtasks, MergeNext(s) \/ MergeConflict(s) \/ AbortMerge(s)
      PROVE Ended'
  BY <1>1, <1>9 DEF MergeNext, MergeConflict, AbortMerge
<1>10. ASSUME NEW B \in SUBSET pool, StartBatch(B) PROVE Ended'
  BY <1>1, <1>10 DEF StartBatch
<1>11. CASE Finalize
  <2>1. pc = "finalize" /\ batch \cup todo \cup merged \cup conflicted = {} /\ Runnable = {}
    BY <1>1, <1>11 DEF Finalize, IInv, PassInv, Control
  <2>2. CASE \E s \in Subtasks : status[s] = "FAILED"
    BY <1>1, <1>11, <2>1, <2>2 DEF Finalize
  <2>3. CASE \A s \in Subtasks : status[s] # "FAILED"
    <3>1. \A s \in Subtasks : status[s] = "COMPLETED"
      BY <1>1, <2>1, <2>3, NoneRunnableIsAllDone DEF CallInv, TakenOnce
    <3>2. \A s \in Subtasks : integrated[s]
      BY <2>1, <3>1 DEF CallInv, NothingOwed
    <3>3. \A s \in Subtasks : Full(s) \in integTip
      BY <2>1, <3>1, <3>2, IntegratedIsWhole
    <3>. QED
      BY <1>1, <1>11, <2>1, <3>1, <3>2, <3>3 DEF Finalize, Full
  <2>. QED
    BY <2>2, <2>3
<1>12. CASE Return
  BY <1>1, <1>12 DEF Return, ForgetRun
<1>13. ASSUME NEW s \in Subtasks, Worker(s) PROVE Ended'
  BY <1>1, <1>13 DEF Worker, WorkerCreate, WorkerRun, WorkerError, WorkerStore, WorkerCommit
<1>14. CASE Crash \/ UserCheckout
  BY <1>1, <1>14 DEF Crash, ForgetRun, UserCheckout
<1>15. CASE UNCHANGED vars
  BY <1>1, <1>15 DEF vars, Runnable, DepsDone
<1>. QED
  BY <1>2, <1>3, <1>4, <1>5, <1>6, <1>7, <1>8, <1>9, <1>10, <1>11, <1>12,
       <1>13, <1>14, <1>15 DEF Next, Coordinator

THEOREM CallInvariance ==
    ASSUME OneCall
    PROVE  Spec => [](IInv /\ CallInv)
<1>1. Init => CallInv
  <2>. SUFFICES ASSUME Init PROVE CallInv
    OBVIOUS
  <2>1. TakenOnce
    BY DEF Init, TakenOnce, NotStarted, NoResult
  <2>2. WorkKept /\ NothingOwed
    BY DEF Init, WorkKept, NothingOwed, Idle
  <2>3. Ended
    BY DEF Init, Ended, CompletedWorkIsIntegrated
  <2>. QED
    BY <2>1, <2>2, <2>3 DEF CallInv
<1>2. IInv /\ CallInv /\ [Next]_vars => CallInv'
  BY TakenOnceStep, WorkKeptStep, NothingOwedStep, EndedStep DEF CallInv
<1>. QED
  BY <1>1, <1>2, Invariance, PTL DEF Spec

\* A task stored as COMPLETED by a call in which workers fail, pause or raise
\* and merges conflict has the finished work of every subtask on its
\* integration branch.
THEOREM CompletedWorkIsThere ==
    ASSUME OneCall
    PROVE  Spec => []CompletedWorkIsIntegrated
<1>1. CallInv => CompletedWorkIsIntegrated
  BY DEF CallInv, Ended
<1>. QED
  BY <1>1, CallInvariance, PTL

\* In such a call a worker that starts a new branch finds the finished work of
\* every subtask it depends on.
THEOREM WorkersSeeTheirDependencies ==
    ASSUME OneCall
    PROVE  Spec => DependenciesVisible
<1>. DEFINE Sees(s) == \A d \in Deps[s] : Full(d) \in tip'[s]
            Step == \A s \in Subtasks : ~hasBranch[s] /\ hasBranch'[s] => Sees(s)
<1>1. ASSUME IInv, CallInv, [Next]_vars PROVE [Step]_vars
  <2>. USE DEF recordVars, branchVars
  <2>1. ASSUME NEW s \in Subtasks, WorkerCreate(s), ~hasBranch[s] PROVE Sees(s)
    <3>1. pc = "working" /\ s \in batch
      BY <1>1, <2>1 DEF WorkerCreate, IInv, PassInv, Control
    <3>2. \A d \in Deps[s] : d \in Subtasks
      BY DepsAssumption
    <3>3. \A d \in Deps[s] : status[d] = "COMPLETED" /\ d \notin InPass
      BY <1>1, <3>1 DEF IInv, PassInv, Dependencies
    <3>4. \A d \in Deps[s] : integrated[d] /\ wpc[d] = "off"
      BY <1>1, <3>1, <3>2, <3>3 DEF CallInv, NothingOwed, InPass, IInv, PassInv, Control
    <3>5. \A d \in Deps[s] : Full(d) \in integTip
      BY <1>1, <3>1, <3>2, <3>3, <3>4 DEF IInv, PassInv, Ledger, IntegratedMeansAncestor,
         CallInv, WorkKept
    <3>6. tip'[s] = integTip
      BY <1>1, <2>1, <3>1 DEF WorkerCreate, HeadTip, CallInv, TakenOnce, IInv, TypeInv, TypeOK
    <3>. QED
      BY <3>5, <3>6
  <2>2. ASSUME NEW s \in Subtasks, WorkerCreate(s) PROVE Step
    <3>1. hasBranch' = [hasBranch EXCEPT ![s] = TRUE]
      BY <2>2 DEF WorkerCreate
    <3>2. \A t \in Subtasks : ~hasBranch[t] /\ hasBranch'[t] => t = s
      BY <1>1, <3>1 DEF IInv, TypeInv, TypeOK
    <3>. QED
      BY <2>1, <2>2, <3>2
  <2>3. CASE \E s \in Subtasks : WorkerRun(s) \/ WorkerError(s) \/ WorkerStore(s) \/ WorkerCommit(s)
    BY <2>3 DEF WorkerRun, WorkerError, WorkerStore, WorkerCommit
  <2>4. CASE Coordinator
    BY <2>4 DEF Coordinator, Reconcile, BeginIntegration, FindOwed, EndMerges, Persist,
          VerifyPass, VerifyFail, MergeNext, MergeConflict, AbortMerge, SelectRunnable,
          EndBatches, EndBatch, StartBatch, Finalize, Return
  <2>5. CASE (\E fresh \in BOOLEAN : RunOnce(fresh)) \/ Interrupt \/ Crash \/ UserCheckout \/ UserMerge
    BY <2>5 DEF RunOnce, Interrupt, Crash, UserCheckout, UserMerge
  <2>. QED
    BY <1>1, <2>2, <2>3, <2>4, <2>5 DEF Next, Worker
<1>. QED
  BY <1>1, CallInvariance, PTL DEF Spec, DependenciesVisible
=============================================================================
