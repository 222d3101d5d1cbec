-------------------------- MODULE SubtaskRunProofs --------------------------
(***************************************************************************)
(* Proofs about SubtaskRun for any plan, any files and any limits.         *)
(***************************************************************************)
EXTENDS SubtaskRun, FiniteSetTheorems, TLAPS

LEMMA FilesAreCounted ==
  ASSUME NEW X \in SUBSET Files
  PROVE  Cardinality(X) \in Nat
BY FilesAssumption, FS_Subset, FS_CardinalityType

\* What the guard admits fits into the budget of amendments.
LEMMA AdmittedFits ==
  ASSUME TypeOK, NEW F \in SUBSET Files, NEW X \in Admitted(F)
  PROVE  /\ X \in SUBSET Files
         /\ amendments + Cardinality(X) \in 0..MaxAmendments
<1>1. X \in SUBSET F /\ Cardinality(X) \in Nat
  BY FilesAreCounted DEF Admitted
<1>2. CASE X = {}
  BY <1>1, <1>2, FS_EmptySet DEF TypeOK, DataOK
<1>3. CASE X # {}
  BY <1>1, <1>3, LimitsAssumption DEF Admitted, Fits, TypeOK, DataOK
<1> QED
  BY <1>2, <1>3

LEMMA UnlistedAreFiles ==
  ASSUME NEW O \in SUBSET Files
  PROVE  Unlisted(O) \in SUBSET Files
BY DEF Unlisted

LEMMA FailureType ==
  ASSUME NEW r \in RecoveryType, NEW kind \in Kinds,
         iter \in 0..MaxIterations
  PROVE  Failed(r, kind) \subseteq RecoveryType
BY DEF Failed, RecoveryType

LEMMA TraceType ==
  ASSUME NEW from \in LifecycleStates
  PROVE  /\ Applied(from) \in LifecycleStates
         /\ Finished(from, "completed") \in LifecycleStates
         /\ Finished(from, "abandoned") \in LifecycleStates
         /\ Advance(from, "post_validated") \in LifecycleStates
         /\ Advance(from, "repair_required") \in LifecycleStates
BY DEF Applied, Finished, Advance, LifecycleStates

-----------------------------------------------------------------------------
(* Types and budgets. *)

DataInv ==
  /\ DataOK
  /\ pc # "idle" => cur \in Subtasks /\ tries \in 1..Providers
  /\ \A s \in Subtasks : HasCheckpoint(s) => checkpoint[s].amendments \in 0..MaxAmendments

TypeInv == DataInv /\ VerdictsOK

LEMMA LiveType ==
  ASSUME NEW r \in RecoveryType, NEW X \in SUBSET Files, NEW n \in 0..MaxAmendments
  PROVE  Live(r, X, n) \in CheckpointType /\ Live(r, X, n).amendments \in 0..MaxAmendments
BY LimitsAssumption DEF Live, CheckpointType

LEMMA NothingType ==
  NoRecovery \in RecoveryType /\ NoCheckpoint \in CheckpointType
BY LimitsAssumption DEF NoRecovery, NoCheckpoint, RecoveryType, CheckpointType

LEMMA DummyType ==
  ASSUME TypeOK
  PROVE  Dummy \in CheckpointType /\ Dummy.amendments \in 0..MaxAmendments
<1>1. (IF latest = None THEN NoRecovery ELSE checkpoint[latest].recovery) \in RecoveryType
  BY NothingType DEF TypeOK, DataOK, CheckpointType
<1> QED
  BY <1>1, LiveType, LimitsAssumption DEF Dummy

\* The verdicts of a run are Booleans (apart, for the sake of the provers).
LEMMA VerdictsStep ==
  ASSUME VerdictsOK, [Next]_vars
  PROVE  VerdictsOK'
<1>. USE DEF VerdictsOK, verdictVars
<1>1. CASE UNCHANGED vars
  BY <1>1 DEF vars
<1>2. CASE Start
  BY <1>2 DEF Start
<1>3. CASE Settle
  BY <1>3 DEF Settle
<1>4. CASE TryNextProvider
  BY <1>4 DEF TryNextProvider
<1>5. CASE GiveUp
  BY <1>5 DEF GiveUp, Forget
<1>6. CASE PlanMade
  BY <1>6 DEF PlanMade
<1>7. CASE PlanPaused
  BY <1>7 DEF PlanPaused, Forget
<1>8. CASE Refuse
  BY <1>8 DEF Refuse
<1>9. CASE PlanRaises
  BY <1>9 DEF PlanRaises, Forget
<1>10. CASE Generate
  BY <1>10 DEF Generate
<1>11. CASE GeneratePaused
  BY <1>11 DEF GeneratePaused, Forget
<1>12. CASE BreakOff
  BY <1>12 DEF BreakOff
<1>13. CASE Reject
  BY <1>13 DEF Reject
<1>14. CASE Apply
  BY <1>14 DEF Apply
<1>15. CASE Validate
  BY <1>15 DEF Validate
<1>16. CASE RecordPassed
  BY <1>16, LimitsAssumption DEF RecordPassed
<1>17. CASE RecordFailed
  BY <1>17 DEF RecordFailed
<1>18. CASE Analyze
  BY <1>18 DEF Analyze
<1>19. CASE Propose
  BY <1>19 DEF Propose, Forget
<1>20. CASE Approve
  BY <1>20 DEF Approve
<1>21. CASE RequestChanges
  BY <1>21 DEF RequestChanges
<1>22. CASE ReviewPaused
  BY <1>22 DEF ReviewPaused, Forget
<1>23. CASE Complete
  BY <1>23 DEF Complete
<1>24. CASE RefuseCompletion
  BY <1>24 DEF RefuseCompletion
<1>25. CASE CloseCompleted
  BY <1>25 DEF CloseCompleted, Forget
<1>26. CASE CloseRaises
  BY <1>26 DEF CloseRaises, Forget
<1>27. CASE CloseFailed
  BY <1>27 DEF CloseFailed
<1>28. ASSUME NEW f \in Files, Edit(f) PROVE VerdictsOK'
  BY <1>28 DEF Edit
<1> QED
  BY <1>1, <1>2, <1>3, <1>4, <1>5, <1>6, <1>7, <1>8, <1>9, <1>10, <1>11, <1>12, <1>13,
     <1>14, <1>15, <1>16, <1>17, <1>18, <1>19, <1>20, <1>21, <1>22, <1>23, <1>24,
     <1>25, <1>26, <1>27, <1>28
     DEF Next, Run, Scheduling, Planning, Implementing, Validating, Reviewing, Closing

LEMMA TypeInit ==
  Init => TypeInv
<1>1. Init => VerdictsOK
  BY DEF Init, VerdictsOK
<1>2. Init => DataOK
  BY NothingType, PlanAssumption, LimitsAssumption
     DEF Init, DataOK, Statuses, Points, LifecycleStates
<1> QED
  BY <1>1, <1>2 DEF TypeInv, DataInv, Init, HasCheckpoint

LEMMA DataStep ==
  ASSUME TypeInv, [Next]_vars
  PROVE  DataInv'
<1>. USE PlanAssumption, FilesAssumption, LimitsAssumption
     DEF TypeInv, TypeOK, DataInv, DataOK, HasCheckpoint, Statuses, Points, storedVars, treeVars, callVars,
         planVars, verdictVars, ghostVars
<1>1. CASE UNCHANGED vars
  BY <1>1 DEF vars
<1>2. CASE Start
  BY <1>2 DEF Start, NextSubtask, Runnable
<1>3. CASE Settle
  BY <1>3 DEF Settle
<1>4. CASE TryNextProvider
  BY <1>4 DEF TryNextProvider
<1>5. CASE GiveUp
  BY <1>5, NothingType DEF GiveUp, Forget
<1>6. CASE PlanMade
  <2> DEFINE own == IF HasCheckpoint(cur) THEN checkpoint[cur]
                    ELSE Live(NoRecovery, Planned[cur], 0)
  <2>1. own \in CheckpointType /\ own.amendments \in 0..MaxAmendments
    BY <1>6, LiveType, NothingType DEF PlanMade
  <2>2. /\ own.scope \in SUBSET Files /\ own.recovery \in RecoveryType
        /\ own.recovery.iters \in 0..MaxIterations
    BY <2>1 DEF CheckpointType, RecoveryType
  <2>3. Cardinality(own.scope) \in Nat
    BY <2>2, FilesAreCounted
  <2>4. /\ scope' = own.scope /\ amendments' = own.amendments
        /\ initial' = Cardinality(own.scope) /\ recovery' = own.recovery
        /\ iter' \in 0..MaxIterations /\ pc' \in {"generate", "close"}
    BY <1>6, <2>2 DEF PlanMade
  <2>5. /\ preexisting' = written /\ changed' = {} /\ ops' = {} /\ trace' = "created"
        /\ tested' = FALSE /\ reported' = FALSE /\ completed' = FALSE
        /\ granted' = [granted EXCEPT ![cur] = @ \cup Planned[cur]]
        /\ UNCHANGED <<storedVars, treeVars, cur, tries, mem, earned, disturbed>>
        /\ pc # "idle"
    BY <1>6 DEF PlanMade
  <2>6. granted' \in [Subtasks -> SUBSET Files]
    BY <2>5
  <2>7. /\ scope' \in SUBSET Files /\ amendments' \in 0..MaxAmendments
        /\ initial' \in Nat /\ recovery' \in RecoveryType
    BY <2>1, <2>2, <2>3, <2>4
  <2>8. trace' \in LifecycleStates /\ pc' \in Points /\ pc' # "idle"
    BY <2>4, <2>5 DEF LifecycleStates
  <2> HIDE DEF own
  <2> QED
    BY <2>4, <2>5, <2>6, <2>7, <2>8
<1>7. CASE PlanPaused
  BY <1>7, DummyType, NothingType DEF PlanPaused, Forget, Disturb
<1>8. CASE Refuse
  BY <1>8 DEF Refuse
<1>9. CASE PlanRaises
  BY <1>9, NothingType DEF PlanRaises, Forget, Disturb
<1>10. CASE Generate
  <2>1. PICK O \in SUBSET Files : \E X \in Admitted(Unlisted(O)) :
          /\ ops' = O
          /\ scope' = scope \cup X /\ amendments' = amendments + Cardinality(X)
          /\ granted' = [granted EXCEPT ![cur] = @ \cup X]
    BY <1>10 DEF Generate
  <2>2. PICK X \in Admitted(Unlisted(O)) :
          /\ ops' = O
          /\ scope' = scope \cup X /\ amendments' = amendments + Cardinality(X)
          /\ granted' = [granted EXCEPT ![cur] = @ \cup X]
    BY <2>1
  <2>3. X \in SUBSET Files /\ amendments' \in 0..MaxAmendments
    BY <2>2, UnlistedAreFiles, AdmittedFits
  <2> QED
    BY <1>10, <2>2, <2>3 DEF Generate
<1>11. CASE GeneratePaused
  <2>1. recovery.iters \in 0..MaxIterations
    BY DEF RecoveryType
  <2>2. trace' \in LifecycleStates
    BY <1>11, TraceType DEF GeneratePaused
  <2>3. Live(recovery, scope, amendments) \in CheckpointType
        /\ Live(recovery, scope, amendments).amendments \in 0..MaxAmendments
    BY LiveType
  <2> QED
    BY <1>11, <2>1, <2>2, <2>3, NothingType DEF GeneratePaused, Forget, Disturb
<1>12. CASE BreakOff
  BY <1>12 DEF BreakOff
<1>13. CASE Reject
  <2>1. \A kind \in {"patch", "unsafe"} : Failed(recovery, kind) \subseteq RecoveryType
    BY FailureType DEF Kinds
  <2>2. recovery' \in RecoveryType
    BY <1>13, <2>1 DEF Reject
  <2> QED
    BY <1>13, <2>2 DEF Reject, Iterate
<1>14. CASE Apply
  BY <1>14, LiveType, TraceType DEF Apply
<1>15. CASE Validate
  BY <1>15 DEF Validate
<1>16. CASE RecordPassed
  <2>1. trace' \in LifecycleStates
    BY <1>16, TraceType DEF RecordPassed
  <2>2. CASE UNCHANGED <<checkpoint, latest>> /\ pc' = "analyze"
    BY <1>16, <2>1, <2>2 DEF RecordPassed
  <2>3. CASE /\ pc' = "review" /\ latest' = cur
             /\ checkpoint' = [checkpoint EXCEPT ![cur] = Live(recovery, scope, amendments)]
    BY <1>16, <2>1, <2>3, LiveType DEF RecordPassed
  <2> QED
    BY <1>16, <2>2, <2>3 DEF RecordPassed
<1>17. CASE RecordFailed
  BY <1>17, TraceType DEF RecordFailed
<1>18. CASE Analyze
  <2>1. PICK F \in SUBSET Files : \E X \in Admitted(F \ scope) :
          /\ scope' = scope \cup X /\ amendments' = amendments + Cardinality(X)
          /\ granted' = [granted EXCEPT ![cur] = @ \cup X]
    BY <1>18 DEF Analyze
  <2>2. PICK X \in Admitted(F \ scope) :
          /\ scope' = scope \cup X /\ amendments' = amendments + Cardinality(X)
          /\ granted' = [granted EXCEPT ![cur] = @ \cup X]
    BY <2>1
  <2>3. X \in SUBSET Files /\ amendments' \in 0..MaxAmendments
    BY <2>2, AdmittedFits
  <2>4. recovery' \in RecoveryType
    BY <1>18, FailureType DEF Analyze, Kinds
  <2>5. iter' \in 0..MaxIterations /\ pc' \in {"generate", "close"}
    BY <1>18 DEF Analyze, Iterate
  <2> QED
    BY <1>18, <2>2, <2>3, <2>4, <2>5 DEF Analyze
<1>19. CASE Propose
  <2>1. trace' \in LifecycleStates
    BY <1>19, TraceType DEF Propose
  <2> QED
    BY <1>19, <2>1, NothingType DEF Propose, Forget, Disturb
<1>20. CASE Approve
  BY <1>20 DEF Approve, RecoveryType
<1>21. CASE RequestChanges
  BY <1>21 DEF RequestChanges, RecoveryType, Iterate
<1>22. CASE ReviewPaused
  <2>1. recovery.iters \in 0..MaxIterations
    BY DEF RecoveryType
  <2> QED
    BY <1>22, <2>1, DummyType, NothingType DEF ReviewPaused, Forget, Disturb
<1>23. CASE Complete
  BY <1>23 DEF Complete
<1>24. CASE RefuseCompletion
  BY <1>24, FailureType DEF RefuseCompletion, Iterate, Kinds
<1>25. CASE CloseCompleted
  <2>1. trace' \in LifecycleStates
    BY <1>25, TraceType DEF CloseCompleted
  <2> QED
    BY <1>25, <2>1, NothingType DEF CloseCompleted, Forget
<1>26. CASE CloseRaises
  BY <1>26, NothingType DEF CloseRaises, Forget, Disturb
<1>27. CASE CloseFailed
  BY <1>27, TraceType DEF CloseFailed
<1>28. ASSUME NEW f \in Files, Edit(f) PROVE DataInv'
  BY <1>28 DEF Edit, Disturb
<1> QED
  BY <1>1, <1>2, <1>3, <1>4, <1>5, <1>6, <1>7, <1>8, <1>9, <1>10, <1>11, <1>12, <1>13,
     <1>14, <1>15, <1>16, <1>17, <1>18, <1>19, <1>20, <1>21, <1>22, <1>23, <1>24,
     <1>25, <1>26, <1>27, <1>28
     DEF Next, Run, Scheduling, Planning, Implementing, Validating, Reviewing, Closing

LEMMA TypeStep ==
  ASSUME TypeInv, [Next]_vars
  PROVE  TypeInv'
BY DataStep, VerdictsStep DEF TypeInv

\* TypeOK holds: no run goes beyond its iterations or its amendments, however
\* often it is paused, resumed, or started again by the scheduler.
THEOREM TypeCorrect == Spec => []TypeOK
<1>1. TypeInv => TypeOK
  BY DEF TypeInv, DataInv, TypeOK
<1> QED
  BY <1>1, TypeInit, TypeStep, PTL DEF Spec

-----------------------------------------------------------------------------
(* The order of the subtasks: an open subtask that has a checkpoint is the *)
(* one that is taken next, so the task's last checkpoint is its own.       *)

Open(s) == status[s] \in {"PENDING", "PAUSED"}
DepsDone(s) == \A d \in Deps[s] : status[d] = "COMPLETED"
InLoop == pc \in {"generate", "prepare", "validate", "passed", "failed", "analyze",
                  "review", "assess"}

OldCheckpoints == \A s \in Subtasks : HasCheckpoint(s) /\ s # latest => ~Open(s)

CurrentIsFirst ==
  pc # "idle" =>
    /\ status[cur] # "COMPLETED" /\ mem # "COMPLETED" /\ DepsDone(cur)
    /\ \A t \in Subtasks : Open(t) /\ DepsDone(t) => Rank[cur] <= Rank[t]
    /\ HasCheckpoint(cur) => latest = cur
    /\ latest \notin {cur, None} => ~Open(latest)

LatestIsNext == pc = "idle" /\ latest # None => (Open(latest) => NextSubtask(latest))

OrderInv == OldCheckpoints /\ CurrentIsFirst /\ LatestIsNext

LEMMA RankIsNatural ==
  ASSUME NEW s \in Subtasks
  PROVE  Rank[s] \in Nat /\ Rank[s] <= Rank[s]
<1>1. Rank[s] \in Nat
  BY PlanAssumption
<1> QED
  BY <1>1

LEMMA OrderInit ==
  Init => OrderInv
BY PlanAssumption DEF Init, OrderInv, OldCheckpoints, CurrentIsFirst, LatestIsNext, HasCheckpoint

\* A step within a run that touches neither the record of the task nor what
\* the run knows of it.
LEMMA QuietStep ==
  ASSUME OrderInv, UNCHANGED <<status, checkpoint, latest, cur, mem>>,
         pc = "idle" <=> pc' = "idle"
  PROVE  OrderInv'
BY DEF OrderInv, OldCheckpoints, CurrentIsFirst, LatestIsNext, HasCheckpoint, Open, DepsDone,
       NextSubtask, Runnable

\* A step that leaves the run going, perhaps with a checkpoint of its subtask.
LEMMA GoingStep ==
  ASSUME TypeInv, OrderInv, pc # "idle", pc' # "idle", cur' = cur,
         mem' # "COMPLETED", NEW x \in Statuses \ {"COMPLETED"},
         status' = [status EXCEPT ![cur] = x],
         \/ UNCHANGED <<checkpoint, latest>>
         \/ latest' = cur /\ \A s \in Subtasks \ {cur} : checkpoint'[s] = checkpoint[s]
  PROVE  OrderInv'
<1>. USE PlanAssumption DEF TypeInv, DataInv, DataOK
<1>1. /\ cur \in Subtasks /\ cur # None
      /\ \A s \in Subtasks : s # cur => status'[s] = status[s]
      /\ status'[cur] = x
  OBVIOUS
<1>2. /\ status[cur] # "COMPLETED" /\ DepsDone(cur)
      /\ \A t \in Subtasks : Open(t) /\ DepsDone(t) => Rank[cur] <= Rank[t]
      /\ HasCheckpoint(cur) => latest = cur
      /\ latest \notin {cur, None} => ~Open(latest)
      /\ \A s \in Subtasks : HasCheckpoint(s) /\ s # latest => ~Open(s)
  BY <1>1 DEF OrderInv, CurrentIsFirst, OldCheckpoints
<1>3. \A s \in Subtasks : DepsDone(s) <=> DepsDone(s)'
  BY <1>1, <1>2 DEF DepsDone
<1>4. \A s \in Subtasks : s # cur => (Open(s) <=> Open(s)')
  BY <1>1 DEF Open
<1>5. \A s \in Subtasks : s = latest' /\ s # cur => ~Open(s)'
  BY <1>2, <1>4
<1>6. \A s \in Subtasks : HasCheckpoint(s)' /\ s # latest' => s # cur /\ ~Open(s)'
  BY <1>2, <1>4 DEF HasCheckpoint
<1>7. \A t \in Subtasks : t # cur /\ Open(t)' /\ DepsDone(t)' => Rank[cur] <= Rank[t]
  BY <1>2, <1>3, <1>4
<1>8. Rank[cur] <= Rank[cur]
  BY <1>1, RankIsNatural
<1>9. DepsDone(cur)' /\ (HasCheckpoint(cur)' => latest' = cur)
  BY <1>1, <1>2, <1>3, <1>6
<1>10. latest' \notin {cur, None} => ~Open(latest)'
  BY <1>5
<1> QED
  BY <1>1, <1>6, <1>7, <1>8, <1>9, <1>10
     DEF OrderInv, OldCheckpoints, CurrentIsFirst, LatestIsNext

\* A step that ends the run without completing its subtask.
LEMMA EndStep ==
  ASSUME TypeInv, OrderInv, pc # "idle", pc' = "idle",
         NEW x \in Statuses \ {"COMPLETED"},
         status' = [status EXCEPT ![cur] = x],
         \/ UNCHANGED <<checkpoint, latest>>
         \/ latest' = cur /\ \A s \in Subtasks \ {cur} : checkpoint'[s] = checkpoint[s]
  PROVE  OrderInv'
<1>. USE PlanAssumption DEF TypeInv, DataInv, DataOK
<1>1. /\ cur \in Subtasks /\ cur # None
      /\ \A s \in Subtasks : s # cur => status'[s] = status[s]
      /\ status'[cur] = x
  OBVIOUS
<1>2. /\ status[cur] # "COMPLETED" /\ DepsDone(cur)
      /\ \A t \in Subtasks : Open(t) /\ DepsDone(t) => Rank[cur] <= Rank[t]
      /\ HasCheckpoint(cur) => latest = cur
      /\ latest \notin {cur, None} => ~Open(latest)
      /\ \A s \in Subtasks : HasCheckpoint(s) /\ s # latest => ~Open(s)
  BY <1>1 DEF OrderInv, CurrentIsFirst, OldCheckpoints
<1>3. \A s \in Subtasks : DepsDone(s) <=> DepsDone(s)'
  BY <1>1, <1>2 DEF DepsDone
<1>4. \A s \in Subtasks : s # cur => (Open(s) <=> Open(s)')
  BY <1>1 DEF Open
<1>5. \A s \in Subtasks : s = latest' /\ s # cur => ~Open(s)'
  BY <1>2, <1>4
<1>6. \A s \in Subtasks : HasCheckpoint(s)' /\ s # latest' => s # cur /\ ~Open(s)'
  BY <1>2, <1>4 DEF HasCheckpoint
<1>7. \A t \in Subtasks : t # cur /\ Open(t)' /\ DepsDone(t)' => Rank[cur] <= Rank[t]
  BY <1>2, <1>3, <1>4
<1>8. Rank[cur] <= Rank[cur]
  BY <1>1, RankIsNatural
<1>9. \A s \in Subtasks : s = latest' /\ Open(s)' => NextSubtask(s)'
  <2> SUFFICES ASSUME NEW s \in Subtasks, s = cur, Open(s)'
               PROVE  NextSubtask(s)'
    BY <1>5
  <2>1. Runnable(s)'
    BY <1>2, <1>3 DEF Runnable, Open, DepsDone
  <2>2. \A t \in Subtasks : Runnable(t)' => Open(t)' /\ DepsDone(t)'
    BY DEF Runnable, Open, DepsDone
  <2> QED
    BY <1>7, <1>8, <2>1, <2>2 DEF NextSubtask
<1>10. LatestIsNext'
  BY <1>9 DEF LatestIsNext
<1> QED
  BY <1>6, <1>10 DEF OrderInv, OldCheckpoints, CurrentIsFirst

\* A step that completes the subtask.
LEMMA CompletedStep ==
  ASSUME TypeInv, OrderInv, pc # "idle", pc' = "idle",
         status' = [status EXCEPT ![cur] = "COMPLETED"], UNCHANGED <<checkpoint, latest>>
  PROVE  OrderInv'
<1>. USE PlanAssumption DEF TypeInv, DataInv, DataOK
<1>1. /\ cur \in Subtasks /\ status'[cur] = "COMPLETED"
      /\ \A s \in Subtasks : s # cur => status'[s] = status[s]
  OBVIOUS
<1>2. /\ HasCheckpoint(cur) => latest = cur
      /\ latest \notin {cur, None} => ~Open(latest)
      /\ \A s \in Subtasks : HasCheckpoint(s) /\ s # latest => ~Open(s)
  BY DEF OrderInv, CurrentIsFirst, OldCheckpoints
<1>3. \A s \in Subtasks : ~Open(s) => ~Open(s)'
  BY <1>1 DEF Open
<1>4. \A s \in Subtasks : s = latest' => ~Open(s)'
  BY <1>1, <1>2, <1>3 DEF Open
<1>5. OldCheckpoints'
  BY <1>2, <1>3 DEF OldCheckpoints, HasCheckpoint
<1> QED
  BY <1>4, <1>5 DEF OrderInv, CurrentIsFirst, LatestIsNext

\* What the steps of a run leave as it was, and what it knows of its subtask
LEMMA UnchangedStatus ==
  ASSUME TypeInv, OrderInv, pc # "idle"
  PROVE  status[cur] \in Statuses \ {"COMPLETED"} /\ status = [status EXCEPT ![cur] = status[cur]]
BY DEF TypeInv, DataInv, DataOK, OrderInv, CurrentIsFirst

LEMMA MemIsOpen ==
  ASSUME TypeInv, OrderInv, pc # "idle"
  PROVE  mem \in Statuses \ {"COMPLETED"}
BY DEF TypeInv, DataInv, DataOK, OrderInv, CurrentIsFirst

LEMMA OwnCheckpoint ==
  ASSUME TypeInv, NEW record, checkpoint' = [checkpoint EXCEPT ![cur] = record]
  PROVE  \A s \in Subtasks \ {cur} : checkpoint'[s] = checkpoint[s]
BY DEF TypeInv, DataInv, DataOK

LEMMA OrderStep ==
  ASSUME TypeInv, OrderInv, [Next]_vars
  PROVE  OrderInv'
<1>. USE DEF storedVars, callVars
<1>1. CASE UNCHANGED vars
  BY <1>1, QuietStep DEF vars
<1>2. CASE Start
  <2>1. PICK s \in Subtasks : NextSubtask(s) /\ cur' = s /\ mem' = status[s]
    BY <1>2 DEF Start
  <2>2. Open(s) /\ DepsDone(s) /\ \A t \in Subtasks : Open(t) /\ DepsDone(t) => Rank[s] <= Rank[t]
    BY <2>1 DEF NextSubtask, Runnable, Open, DepsDone
  <2>3. \A t \in Subtasks : t = latest /\ t # s => ~Open(t)
    <3> SUFFICES ASSUME NEW t \in Subtasks, t = latest, Open(t)
                 PROVE  t = s
      OBVIOUS
    <3>1. NextSubtask(t)
      BY <1>2, PlanAssumption DEF Start, OrderInv, LatestIsNext
    <3>2. Runnable(s) /\ Runnable(t) /\ Rank[s] <= Rank[t] /\ Rank[t] <= Rank[s]
      BY <2>1, <3>1 DEF NextSubtask
    <3> QED
      BY <3>2, RankIsNatural, PlanAssumption
  <2>4. UNCHANGED <<status, checkpoint, latest>> /\ pc' = "plan"
    BY <1>2 DEF Start
  <2> QED
    BY <2>1, <2>2, <2>3, <2>4, PlanAssumption
       DEF OrderInv, OldCheckpoints, CurrentIsFirst, LatestIsNext, HasCheckpoint, Open,
           DepsDone, TypeInv, DataInv, DataOK
<1>3. CASE Settle
  BY <1>3, QuietStep DEF Settle
<1>4. CASE TryNextProvider
  BY <1>4, QuietStep DEF TryNextProvider
<1>5. CASE GiveUp
  BY <1>5, UnchangedStatus, EndStep DEF GiveUp, Forget
<1>6. CASE PlanMade
  BY <1>6, QuietStep DEF PlanMade
<1>7. CASE PlanPaused
  BY <1>7, EndStep, OwnCheckpoint DEF PlanPaused, Forget, Statuses
<1>8. CASE Refuse
  BY <1>8, UnchangedStatus, GoingStep DEF Refuse
<1>9. CASE PlanRaises
  BY <1>9, UnchangedStatus, EndStep DEF PlanRaises, Forget
<1>10. CASE Generate
  BY <1>10, QuietStep DEF Generate
<1>11. CASE GeneratePaused
  BY <1>11, EndStep, OwnCheckpoint DEF GeneratePaused, Forget, Statuses
<1>12. CASE BreakOff
  BY <1>12, QuietStep DEF BreakOff
<1>13. CASE Reject
  BY <1>13, QuietStep DEF Reject, Iterate
<1>14. CASE Apply
  BY <1>14, MemIsOpen, GoingStep, OwnCheckpoint DEF Apply
<1>15. CASE Validate
  BY <1>15, QuietStep DEF Validate
<1>16. CASE RecordPassed
  BY <1>16, UnchangedStatus, MemIsOpen, GoingStep, OwnCheckpoint DEF RecordPassed
<1>17. CASE RecordFailed
  BY <1>17, QuietStep DEF RecordFailed
<1>18. CASE Analyze
  BY <1>18, QuietStep DEF Analyze, Iterate
<1>19. CASE Propose
  BY <1>19, MemIsOpen, EndStep DEF Propose, Forget
<1>20. CASE Approve
  BY <1>20, QuietStep DEF Approve
<1>21. CASE RequestChanges
  BY <1>21, QuietStep DEF RequestChanges, Iterate
<1>22. CASE ReviewPaused
  BY <1>22, EndStep, OwnCheckpoint DEF ReviewPaused, Forget, Statuses
<1>23. CASE Complete
  BY <1>23, QuietStep DEF Complete
<1>24. CASE RefuseCompletion
  BY <1>24, QuietStep DEF RefuseCompletion, Iterate
<1>25. CASE CloseCompleted
  BY <1>25, CompletedStep DEF CloseCompleted, Forget
<1>26. CASE CloseRaises
  BY <1>26, UnchangedStatus, EndStep DEF CloseRaises, Forget
<1>27. CASE CloseFailed
  BY <1>27, GoingStep DEF CloseFailed, Statuses
<1>28. ASSUME NEW f \in Files, Edit(f) PROVE OrderInv'
  BY <1>28, QuietStep DEF Edit
<1> QED
  BY <1>1, <1>2, <1>3, <1>4, <1>5, <1>6, <1>7, <1>8, <1>9, <1>10, <1>11, <1>12, <1>13,
     <1>14, <1>15, <1>16, <1>17, <1>18, <1>19, <1>20, <1>21, <1>22, <1>23, <1>24,
     <1>25, <1>26, <1>27, <1>28
     DEF Next, Run, Scheduling, Planning, Implementing, Validating, Reviewing, Closing


-----------------------------------------------------------------------------
\* What the run and the checkpoints count
ProgressInv ==
  /\ \A s \in Subtasks : earned[s] <= checkpoint[s].recovery.iters
  /\ InLoop => earned[cur] <= recovery.iters /\ recovery.iters <= iter
  /\ pc = "review" => HasCheckpoint(cur) /\ checkpoint[cur].recovery = recovery

\* What the run and the checkpoints allow
ScopeInv ==
  /\ \A s \in Subtasks : checkpoint[s].scope \subseteq granted[s]
  /\ InLoop => scope \subseteq granted[cur]

\* Where the lifecycle record may stand
TraceInv ==
  /\ pc \in {"generate", "prepare"} => trace \in {"created", "repair_required", "post_validated"}
  /\ pc \in {"validate", "passed", "failed"} => trace \in {"applied", "post_validated"}
  /\ pc = "analyze" => trace \in {"repair_required", "post_validated"}
  /\ pc \in {"review", "assess"} => trace = "post_validated"
  /\ pc = "close" /\ completed => trace = "post_validated"
  /\ InLoop => ~completed

\* What the tests have seen
TestInv ==
  HasTests =>
    /\ pc = "passed" => dirty = {}
    /\ tested => dirty \subseteq drift

LEMMA FailedCounts ==
  ASSUME NEW r, NEW kind, NEW x \in Failed(r, kind)
  PROVE  x.iters = iter
BY DEF Failed

LEMMA ProgressStep ==
  ASSUME TypeInv, OrderInv, ProgressInv, [Next]_vars
  PROVE  ProgressInv'
<1>. USE LimitsAssumption DEF ProgressInv, InLoop, HasCheckpoint, TypeInv, DataInv, DataOK, RecoveryType, storedVars,
     callVars, planVars, ghostVars
<1>1. CASE UNCHANGED vars
  BY <1>1 DEF vars
<1>2. CASE Start
  BY <1>2 DEF Start
<1>3. CASE Settle
  BY <1>3 DEF Settle
<1>4. CASE TryNextProvider
  BY <1>4 DEF TryNextProvider
<1>5. CASE GiveUp
  BY <1>5 DEF GiveUp, Forget
<1>6. CASE PlanMade
  <2> DEFINE own == IF HasCheckpoint(cur) THEN checkpoint[cur]
                    ELSE Live(NoRecovery, Planned[cur], 0)
  <2>1. own.recovery.iters \in 0..MaxIterations /\ earned[cur] <= own.recovery.iters
    BY <1>6 DEF PlanMade, CheckpointType, Live, NoRecovery, NoCheckpoint
  <2>2. /\ recovery' = own.recovery /\ pc' \in {"generate", "close"}
        /\ pc' = "generate" => iter' = own.recovery.iters + 1
        /\ UNCHANGED <<checkpoint, cur, earned>>
    BY <1>6, <2>1 DEF PlanMade
  <2> HIDE DEF own
  <2> QED
    BY <2>1, <2>2
<1>7. CASE PlanPaused
  <2>1. /\ \A s \in Subtasks : s # cur => checkpoint'[s] = checkpoint[s]
        /\ checkpoint'[cur] = Dummy /\ earned' = earned /\ pc' = "idle" /\ pc # "idle"
    BY <1>7 DEF PlanPaused, Forget
  <2>2. HasCheckpoint(cur) => latest = cur
    BY <2>1 DEF OrderInv, CurrentIsFirst
  <2>3. earned[cur] <= Dummy.recovery.iters
    <3>1. CASE HasCheckpoint(cur)
      BY <2>1, <2>2, <3>1, PlanAssumption DEF Dummy, Live
    <3>2. CASE ~HasCheckpoint(cur)
      <4>1. earned[cur] = 0
        BY <2>1, <3>2 DEF NoCheckpoint, NoRecovery
      <4>2. Dummy.recovery.iters \in Nat
        BY <2>1, DummyType DEF TypeOK, CheckpointType
      <4> QED
        BY <4>1, <4>2
    <3> QED
      BY <3>1, <3>2
  <2> QED
    BY <2>1, <2>3
<1>8. CASE Refuse
  BY <1>8 DEF Refuse
<1>9. CASE PlanRaises
  BY <1>9 DEF PlanRaises, Forget
<1>10. CASE Generate
  BY <1>10 DEF Generate
<1>11. CASE GeneratePaused
  BY <1>11 DEF GeneratePaused, Forget, Live
<1>12. CASE BreakOff
  BY <1>12 DEF BreakOff
<1>13. CASE Reject
  BY <1>13, FailedCounts DEF Reject, Iterate
<1>14. CASE Apply
  BY <1>14 DEF Apply, Live
<1>15. CASE Validate
  BY <1>15 DEF Validate
<1>16. CASE RecordPassed
  <2>1. UNCHANGED <<cur, earned, recovery, iter>> /\ pc = "passed"
    BY <1>16 DEF RecordPassed
  <2>2. CASE UNCHANGED <<checkpoint, latest>> /\ pc' = "analyze"
    BY <2>1, <2>2
  <2>3. CASE /\ pc' = "review"
             /\ checkpoint' = [checkpoint EXCEPT ![cur] = Live(recovery, scope, amendments)]
    <3>1. Live(recovery, scope, amendments) # NoCheckpoint
      BY DEF Live, NoCheckpoint
    <3>2. Live(recovery, scope, amendments).recovery = recovery
      BY DEF Live
    <3> QED
      BY <2>1, <2>3, <3>1, <3>2
  <2> QED
    BY <1>16, <2>2, <2>3 DEF RecordPassed
<1>17. CASE RecordFailed
  BY <1>17 DEF RecordFailed
<1>18. CASE Analyze
  BY <1>18, FailedCounts DEF Analyze, Iterate
<1>19. CASE Propose
  BY <1>19 DEF Propose, Forget
<1>20. CASE Approve
  BY <1>20 DEF Approve
<1>21. CASE RequestChanges
  BY <1>21 DEF RequestChanges, Iterate
<1>22. CASE ReviewPaused
  <2>1. latest = cur /\ cur # None
    BY <1>22, PlanAssumption DEF ReviewPaused, OrderInv, CurrentIsFirst
  <2>2. Dummy.recovery = recovery
    BY <1>22, <2>1 DEF ReviewPaused, Dummy, Live
  <2> QED
    BY <1>22, <2>2 DEF ReviewPaused, Forget
<1>23. CASE Complete
  BY <1>23 DEF Complete
<1>24. CASE RefuseCompletion
  BY <1>24, FailedCounts DEF RefuseCompletion, Iterate
<1>25. CASE CloseCompleted
  BY <1>25 DEF CloseCompleted, Forget
<1>26. CASE CloseRaises
  BY <1>26 DEF CloseRaises, Forget
<1>27. CASE CloseFailed
  BY <1>27 DEF CloseFailed
<1>28. ASSUME NEW f \in Files, Edit(f) PROVE ProgressInv'
  BY <1>28 DEF Edit
<1> QED
  BY <1>1, <1>2, <1>3, <1>4, <1>5, <1>6, <1>7, <1>8, <1>9, <1>10, <1>11, <1>12, <1>13,
     <1>14, <1>15, <1>16, <1>17, <1>18, <1>19, <1>20, <1>21, <1>22, <1>23, <1>24,
     <1>25, <1>26, <1>27, <1>28
     DEF Next, Run, Scheduling, Planning, Implementing, Validating, Reviewing, Closing

LEMMA ScopeStep ==
  ASSUME TypeInv, ScopeInv, [Next]_vars
  PROVE  ScopeInv'
<1>. USE DEF ScopeInv, InLoop, TypeInv, DataInv, DataOK, storedVars, callVars, planVars, ghostVars
<1>1. CASE UNCHANGED vars
  BY <1>1 DEF vars
<1>2. CASE Start
  BY <1>2 DEF Start
<1>3. CASE Settle
  BY <1>3 DEF Settle
<1>4. CASE TryNextProvider
  BY <1>4 DEF TryNextProvider
<1>5. CASE GiveUp
  BY <1>5 DEF GiveUp, Forget
<1>6. CASE PlanMade
  BY <1>6 DEF PlanMade, HasCheckpoint, Live
<1>7. CASE PlanPaused
  BY <1>7 DEF PlanPaused, Forget, Dummy, Live
<1>8. CASE Refuse
  BY <1>8 DEF Refuse
<1>9. CASE PlanRaises
  BY <1>9 DEF PlanRaises, Forget
<1>10. CASE Generate
  BY <1>10 DEF Generate
<1>11. CASE GeneratePaused
  BY <1>11 DEF GeneratePaused, Forget, Live
<1>12. CASE BreakOff
  BY <1>12 DEF BreakOff
<1>13. CASE Reject
  BY <1>13 DEF Reject, Iterate
<1>14. CASE Apply
  BY <1>14 DEF Apply, Live
<1>15. CASE Validate
  BY <1>15 DEF Validate
<1>16. CASE RecordPassed
  BY <1>16 DEF RecordPassed, Live
<1>17. CASE RecordFailed
  BY <1>17 DEF RecordFailed
<1>18. CASE Analyze
  BY <1>18 DEF Analyze, Iterate
<1>19. CASE Propose
  BY <1>19 DEF Propose, Forget
<1>20. CASE Approve
  BY <1>20 DEF Approve
<1>21. CASE RequestChanges
  BY <1>21 DEF RequestChanges, Iterate
<1>22. CASE ReviewPaused
  BY <1>22 DEF ReviewPaused, Forget, Dummy, Live
<1>23. CASE Complete
  BY <1>23 DEF Complete
<1>24. CASE RefuseCompletion
  BY <1>24 DEF RefuseCompletion, Iterate
<1>25. CASE CloseCompleted
  BY <1>25 DEF CloseCompleted, Forget
<1>26. CASE CloseRaises
  BY <1>26 DEF CloseRaises, Forget
<1>27. CASE CloseFailed
  BY <1>27 DEF CloseFailed
<1>28. ASSUME NEW f \in Files, Edit(f) PROVE ScopeInv'
  BY <1>28 DEF Edit
<1> QED
  BY <1>1, <1>2, <1>3, <1>4, <1>5, <1>6, <1>7, <1>8, <1>9, <1>10, <1>11, <1>12, <1>13,
     <1>14, <1>15, <1>16, <1>17, <1>18, <1>19, <1>20, <1>21, <1>22, <1>23, <1>24,
     <1>25, <1>26, <1>27, <1>28
     DEF Next, Run, Scheduling, Planning, Implementing, Validating, Reviewing, Closing

LEMMA TraceStep ==
  ASSUME VerdictsOK, TraceInv, [Next]_vars
  PROVE  TraceInv'
<1>. USE DEF TraceInv, InLoop, VerdictsOK, storedVars, callVars, planVars, verdictVars
<1>1. CASE UNCHANGED vars
  BY <1>1 DEF vars
<1>2. CASE Start
  BY <1>2 DEF Start
<1>3. CASE Settle
  BY <1>3 DEF Settle
<1>4. CASE TryNextProvider
  BY <1>4 DEF TryNextProvider
<1>5. CASE GiveUp
  BY <1>5 DEF GiveUp, Forget
<1>6. CASE PlanMade
  BY <1>6 DEF PlanMade
<1>7. CASE PlanPaused
  BY <1>7 DEF PlanPaused, Forget
<1>8. CASE Refuse
  BY <1>8 DEF Refuse
<1>9. CASE PlanRaises
  BY <1>9 DEF PlanRaises, Forget
<1>10. CASE Generate
  BY <1>10 DEF Generate
<1>11. CASE GeneratePaused
  BY <1>11 DEF GeneratePaused, Forget
<1>12. CASE BreakOff
  BY <1>12 DEF BreakOff
<1>13. CASE Reject
  BY <1>13 DEF Reject, Iterate
<1>14. CASE Apply
  <2>a. /\ Advance("created", "repaired") = "created"
        /\ Advance("created", "candidate_generated") = "candidate_generated"
        /\ Advance("repair_required", "repaired") = "repaired"
        /\ Advance("repaired", "candidate_generated") = "candidate_generated"
    BY DEF Advance, Follows
  <2>b. /\ Advance("candidate_generated", "validated") = "validated"
        /\ Advance("validated", "approved") = "approved"
        /\ Advance("approved", "applied") = "applied"
    BY DEF Advance, Follows
  <2>c. \A to \in {"repaired", "candidate_generated", "validated", "approved", "applied"} :
          Advance("post_validated", to) = "post_validated"
    BY DEF Advance, Follows
  <2>1. Applied("created") = "applied" /\ Applied("repair_required") = "applied"
    BY <2>a, <2>b DEF Applied
  <2>2. Applied("post_validated") = "post_validated"
    BY <2>c DEF Applied
  <2> QED
    BY <1>14, <2>1, <2>2 DEF Apply
<1>15. CASE Validate
  BY <1>15 DEF Validate
<1>16. CASE RecordPassed
  BY <1>16 DEF RecordPassed, Advance, Follows
<1>17. CASE RecordFailed
  BY <1>17 DEF RecordFailed, Advance, Follows
<1>18. CASE Analyze
  BY <1>18 DEF Analyze, Iterate
<1>19. CASE Propose
  BY <1>19 DEF Propose, Forget
<1>20. CASE Approve
  BY <1>20 DEF Approve
<1>21. CASE RequestChanges
  BY <1>21 DEF RequestChanges, Iterate
<1>22. CASE ReviewPaused
  BY <1>22 DEF ReviewPaused, Forget
<1>23. CASE Complete
  BY <1>23 DEF Complete
<1>24. CASE RefuseCompletion
  BY <1>24 DEF RefuseCompletion, Iterate
<1>25. CASE CloseCompleted
  BY <1>25 DEF CloseCompleted, Forget
<1>26. CASE CloseRaises
  BY <1>26 DEF CloseRaises, Forget
<1>27. CASE CloseFailed
  BY <1>27 DEF CloseFailed
<1>28. ASSUME NEW f \in Files, Edit(f) PROVE TraceInv'
  BY <1>28 DEF Edit
<1> QED
  BY <1>1, <1>2, <1>3, <1>4, <1>5, <1>6, <1>7, <1>8, <1>9, <1>10, <1>11, <1>12, <1>13,
     <1>14, <1>15, <1>16, <1>17, <1>18, <1>19, <1>20, <1>21, <1>22, <1>23, <1>24,
     <1>25, <1>26, <1>27, <1>28
     DEF Next, Run, Scheduling, Planning, Implementing, Validating, Reviewing, Closing

LEMMA TestStep ==
  ASSUME TestInv, "editDuringTests" \notin Events, [Next]_vars
  PROVE  TestInv'
<1>. USE DEF TestInv, Disturb, treeVars, verdictVars
<1>1. CASE UNCHANGED vars
  BY <1>1 DEF vars
<1>2. CASE Start
  BY <1>2 DEF Start
<1>3. CASE Settle
  BY <1>3 DEF Settle
<1>4. CASE TryNextProvider
  BY <1>4 DEF TryNextProvider
<1>5. CASE GiveUp
  BY <1>5 DEF GiveUp, Forget
<1>6. CASE PlanMade
  BY <1>6 DEF PlanMade
<1>7. CASE PlanPaused
  BY <1>7 DEF PlanPaused, Forget
<1>8. CASE Refuse
  BY <1>8 DEF Refuse
<1>9. CASE PlanRaises
  BY <1>9 DEF PlanRaises, Forget
<1>10. CASE Generate
  BY <1>10 DEF Generate
<1>11. CASE GeneratePaused
  BY <1>11 DEF GeneratePaused, Forget
<1>12. CASE BreakOff
  BY <1>12 DEF BreakOff
<1>13. CASE Reject
  BY <1>13 DEF Reject, Iterate
<1>14. CASE Apply
  BY <1>14 DEF Apply
<1>15. CASE Validate
  BY <1>15 DEF Validate
<1>16. CASE RecordPassed
  BY <1>16, LimitsAssumption DEF RecordPassed
<1>17. CASE RecordFailed
  BY <1>17 DEF RecordFailed
<1>18. CASE Analyze
  BY <1>18 DEF Analyze, Iterate
<1>19. CASE Propose
  BY <1>19 DEF Propose, Forget
<1>20. CASE Approve
  BY <1>20 DEF Approve
<1>21. CASE RequestChanges
  BY <1>21 DEF RequestChanges, Iterate
<1>22. CASE ReviewPaused
  BY <1>22 DEF ReviewPaused, Forget
<1>23. CASE Complete
  BY <1>23 DEF Complete
<1>24. CASE RefuseCompletion
  BY <1>24 DEF RefuseCompletion, Iterate
<1>25. CASE CloseCompleted
  BY <1>25 DEF CloseCompleted, Forget
<1>26. CASE CloseRaises
  BY <1>26 DEF CloseRaises, Forget
<1>27. CASE CloseFailed
  BY <1>27 DEF CloseFailed
<1>28. ASSUME NEW f \in Files, Edit(f) PROVE TestInv'
  BY <1>28 DEF Edit
<1> QED
  BY <1>1, <1>2, <1>3, <1>4, <1>5, <1>6, <1>7, <1>8, <1>9, <1>10, <1>11, <1>12, <1>13,
     <1>14, <1>15, <1>16, <1>17, <1>18, <1>19, <1>20, <1>21, <1>22, <1>23, <1>24,
     <1>25, <1>26, <1>27, <1>28
     DEF Next, Run, Scheduling, Planning, Implementing, Validating, Reviewing, Closing

-----------------------------------------------------------------------------
(* The theorems. *)

IInv == TypeInv /\ OrderInv /\ ProgressInv /\ ScopeInv /\ TraceInv

LEMMA InitInv ==
  Init => IInv
<1>1. Init => ProgressInv
  BY DEF Init, ProgressInv, InLoop, NoCheckpoint, NoRecovery
<1>2. Init => ScopeInv
  BY DEF Init, ScopeInv, InLoop, NoCheckpoint
<1>3. Init => TraceInv
  BY DEF Init, TraceInv, InLoop
<1> QED
  BY <1>1, <1>2, <1>3, TypeInit, OrderInit DEF IInv

LEMMA StepInv ==
  ASSUME IInv, [Next]_vars
  PROVE  IInv'
BY TypeStep, OrderStep, ProgressStep, ScopeStep, TraceStep DEF IInv, TypeInv

LEMMA Invariance == Spec => []IInv
BY InitInv, StepInv, PTL DEF Spec

\* A pause never loses a completed iteration, whatever other subtasks have run
\* and whatever is read from the task's last checkpoint.
THEOREM PausesKeepProgress == Spec => []PauseKeepsProgress
<1>1. IInv => PauseKeepsProgress
  <2> SUFFICES ASSUME IInv, NEW s \in Subtasks
               PROVE  checkpoint[s].recovery.iters >= earned[s]
    BY DEF PauseKeepsProgress
  <2>1. checkpoint[s].recovery.iters \in 0..MaxIterations /\ earned[s] \in 0..MaxIterations
    BY DEF IInv, TypeInv, DataInv, DataOK, CheckpointType, RecoveryType
  <2>2. earned[s] <= checkpoint[s].recovery.iters
    BY DEF IInv, ProgressInv
  <2> QED
    BY <2>1, <2>2, LimitsAssumption
<1> QED
  BY <1>1, Invariance, PTL

\* The lifecycle record of a subtask that completes ends completed.
THEOREM CompletionIsTraced == Spec => CompletedIsTraced
<1>1. ASSUME IInv, [Next]_vars
      PROVE  [\A s \in Subtasks : status[s] # "COMPLETED" /\ status'[s] = "COMPLETED"
                => trace' = "completed"]_vars
  <2> SUFFICES ASSUME NEW s \in Subtasks, status[s] # "COMPLETED", status'[s] = "COMPLETED"
               PROVE  trace' = "completed"
    OBVIOUS
  <2>1. status' # status
    OBVIOUS
  <2>2. pc # "idle" => mem # "COMPLETED"
    BY <1>1 DEF IInv, OrderInv, CurrentIsFirst
  <2>3. ~Apply /\ ~Propose
    BY <1>1, <2>1, <2>2 DEF IInv, TypeInv, DataInv, DataOK, Apply, Propose
  <2>4. ~PlanPaused /\ ~GeneratePaused /\ ~ReviewPaused /\ ~CloseFailed
    BY <1>1, <2>1 DEF IInv, TypeInv, DataInv, DataOK, PlanPaused, GeneratePaused, ReviewPaused,
                CloseFailed
  <2>5. CloseCompleted
    BY <1>1, <2>1, <2>3, <2>4
       DEF Next, Run, Scheduling, Planning, Implementing, Validating, Reviewing, Closing,
           Start, Settle, TryNextProvider, GiveUp, PlanMade, Refuse, PlanRaises, Generate,
           BreakOff, Reject, Validate, RecordPassed, RecordFailed, Analyze, Approve,
           RequestChanges, Complete, RefuseCompletion, CloseRaises, Edit, storedVars, vars
  <2>6. trace = "post_validated"
    BY <1>1, <2>5 DEF IInv, TraceInv, CloseCompleted
  <2> QED
    BY <2>5, <2>6 DEF CloseCompleted, Finished, Follows
<1> QED
  BY <1>1, Invariance, PTL DEF Spec, CompletedIsTraced

\* As long as its plan has a scope, a run writes only what the planner or the
\* guard granted to this subtask.
THEOREM ScopeIsKept == Spec => WritesWithinPlan
<1>1. ASSUME IInv, [Next]_vars
      PROVE  [changed' # changed /\ scope # {} => changed' \subseteq changed \cup granted[cur]]_vars
  <2> SUFFICES ASSUME changed' # changed, scope # {}
               PROVE  changed' \subseteq changed \cup granted[cur]
    OBVIOUS
  <2>1. CASE Apply
    <3>1. ops \subseteq scope /\ scope \subseteq granted[cur]
      BY <1>1, <2>1 DEF Apply, Permitted, IInv, ScopeInv, InLoop
    <3> QED
      BY <2>1, <3>1 DEF Apply
  <2>2. CASE changed' = {}
    BY <2>2
  <2>3. Apply \/ changed' = {}
    BY <1>1 DEF Next, Run, Scheduling, Planning, Implementing, Validating, Reviewing, Closing,
           Start, Settle, TryNextProvider, GiveUp, PlanMade, PlanPaused, Refuse, PlanRaises,
           Generate, GeneratePaused, BreakOff, Reject, Validate, RecordPassed, RecordFailed,
           Analyze, Propose, Approve, RequestChanges, ReviewPaused, Complete,
           RefuseCompletion, CloseCompleted, CloseRaises, CloseFailed, Edit, Forget, vars
  <2> QED
    BY <2>1, <2>2, <2>3
<1> QED
  BY <1>1, Invariance, PTL DEF Spec, WritesWithinPlan

\* If nobody edits files while the commands run, a completed run with tests
\* has changed nothing since they passed.
THEOREM CompletionIsTested ==
  ASSUME "editDuringTests" \notin Events
  PROVE  Spec => CompletedWasTested
<1>1. Init => TestInv
  BY DEF Init, TestInv
<1>2. ASSUME TestInv, [Next]_vars
      PROVE  TestInv'
  BY <1>2, TestStep
<1>3. ASSUME TestInv, [Next]_vars
      PROVE  [~completed /\ completed' /\ HasTests => changed \cap dirty = {}]_vars
  <2> SUFFICES ASSUME ~completed, completed', HasTests
               PROVE  changed \cap dirty = {}
    OBVIOUS
  <2>1. CASE Complete
    <3>1. tested /\ drift \cap changed = {}
      BY <2>1 DEF Complete, GatesPass
    <3> QED
      BY <3>1, <1>3 DEF TestInv
  <2>2. Complete
    BY <1>3 DEF Next, Run, Scheduling, Planning, Implementing, Validating, Reviewing, Closing,
           Start, Settle, TryNextProvider, GiveUp, PlanMade, PlanPaused, Refuse, PlanRaises,
           Generate, GeneratePaused, BreakOff, Reject, Apply, Validate, RecordPassed,
           RecordFailed, Analyze, Propose, Approve, RequestChanges, ReviewPaused,
           RefuseCompletion, CloseCompleted, CloseRaises, CloseFailed, Edit, Forget, vars,
           verdictVars
  <2> QED
    BY <2>1, <2>2
<1> QED
  BY <1>1, <1>2, <1>3, PTL DEF Spec, CompletedWasTested
=============================================================================
