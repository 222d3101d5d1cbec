------------------------ MODULE TaskSchedulerProofs ------------------------
(***************************************************************************)
(* Proofs about the scheduler for every set of tasks, plans and providers. *)
(***************************************************************************)
EXTENDS TaskScheduler, TLAPS

-----------------------------------------------------------------------------
(* Types.                                                                  *)

\* A subtask is chosen as long as it is executed
TypeInv ==
    /\ TypeOK
    /\ pc \in {"run", "completed", "release"} => sub \in Subtasks

\* What a new Scheduler and the end of cooldowns make of the providers has
\* their type
LEMMA AvailabilityType ==
    ASSUME avail \in [Providers -> Availabilities]
    PROVE  /\ Refreshed \in [Providers -> Availabilities]
           /\ Configured \in [Providers -> Availabilities]
BY DEF Refreshed, Configured, Ready, Availabilities

\* _check_and_complete_task keeps the status or makes it final
LEMMA CheckedType ==
    ASSUME NEW t \in Tasks
    PROVE  Checked(t) \in {"COMPLETED", "FAILED", status[t]}
BY DEF Checked

\* An amended plan has the type of a plan
LEMMA AmendedType ==
    ASSUME NEW w \in [Subtasks -> SubtaskStatuses], NEW x \in Amended(w)
    PROVE  x \in [Subtasks -> SubtaskStatuses]
BY DEF Amended, SubtaskStatuses

\* A disturbance is counted within the bound
LEMMA DisturbType ==
    ASSUME NEW e, disturbed \in 0..MaxDisturbances, Disturb(e)
    PROVE  disturbed' \in 0..MaxDisturbances
BY BoundAssumption DEF Disturb

LEMMA TypeStep == TypeInv /\ [Next]_vars => TypeInv'
<1> SUFFICES ASSUME TypeInv, [Next]_vars PROVE TypeInv'
    OBVIOUS
<1> USE DEF TypeInv, TypeOK
<1>0. /\ Refreshed \in [Providers -> Availabilities]
      /\ Configured \in [Providers -> Availabilities]
    BY AvailabilityType
<1>1. CASE Choosing
  <2> PICK t \in Tasks : \/ PutOff(t) \/ StartPlanning(t) \/ Settle(t)
                         \/ \E s \in Subtasks : Begin(t, s)
      BY <1>1 DEF Choosing
  <2>1. CASE PutOff(t)
      BY <2>1, <1>0 DEF PutOff, TaskStatuses, callVars
  <2>2. CASE StartPlanning(t)
      BY <2>2, <1>0, ProviderAssumption DEF StartPlanning, ReadyOf, taskVars, Points
  <2>3. CASE Settle(t)
      BY <2>3, <1>0, CheckedType DEF Settle, AtExecution, Forget, TaskStatuses,
         Points, SubtaskStatuses
  <2>4. CASE \E s \in Subtasks : Begin(t, s)
      BY <2>4, <1>0, ProviderAssumption DEF Begin, ReadyOf, AtExecution, TaskStatuses, Points
  <2> QED BY <2>1, <2>2, <2>3, <2>4
<1>2. CASE Planning
  <2>1. ASSUME NEW p \in Providers, PlanMade(p) PROVE TypeInv'
      BY <2>1 DEF PlanMade, First, SubtaskStatuses, Availabilities, Points
  <2>2. ASSUME NEW p \in Providers, PlanFails(p) PROVE TypeInv'
      BY <2>2, DisturbType DEF PlanFails, First, taskVars, Availabilities
  <2>3. CASE PlanningGivesUp
      BY <2>3 DEF PlanningGivesUp, Forget, TaskStatuses, providerVars, Points, SubtaskStatuses
  <2>4. CASE AwaitReview
      BY <2>4 DEF AwaitReview, Forget, TaskStatuses, providerVars, Points, SubtaskStatuses
  <2>5. CASE LeaveForLater
      BY <2>5, <1>0 DEF LeaveForLater, Forget, taskVars, Points, SubtaskStatuses
  <2> QED BY <1>2, <2>1, <2>2, <2>3, <2>4, <2>5 DEF Planning
<1>3. CASE Running
  <2> PICK p \in Providers : \/ NoKey(p) \/ RunRefused(p) \/ RunFails(p)
                             \/ RunCompletes(p) \/ RunPaused(p)
                             \/ RunProposes(p) \/ RunRaises(p)
      BY <1>3 DEF Running
  <2>1. CASE NoKey(p)
      BY <2>1, DisturbType DEF NoKey, Attempt, taskVars, Availabilities
  <2>2. CASE RunRefused(p)
      BY <2>2, <1>0 DEF RunRefused, Attempt, MaybeSaved, Set, TaskStatuses, SubtaskStatuses
  <2>3. CASE RunFails(p)
      BY <2>3, <1>0 DEF RunFails, Attempt, Set, TaskStatuses, SubtaskStatuses
  <2>4. CASE RunCompletes(p)
      BY <2>4, <1>0 DEF RunCompletes, Attempt, Set, TaskStatuses, SubtaskStatuses,
         Availabilities, Points
  <2>5. CASE RunPaused(p)
      BY <2>5, <1>0, DisturbType DEF RunPaused, Attempt, Set, TaskStatuses, SubtaskStatuses,
         Availabilities, Points
  <2>6. CASE RunProposes(p)
    <3>1. Held \in [Subtasks -> SubtaskStatuses]
        BY <2>6 DEF RunProposes, Attempt, Held
    <3>2. \A x \in Amended(Held) : x \in [Subtasks -> SubtaskStatuses]
        BY <3>1, AmendedType
    <3> QED BY <2>6, <1>0, <3>1, <3>2, DisturbType DEF RunProposes, Attempt, TaskStatuses, Points
  <2>7. CASE RunRaises(p)
      BY <2>7, <1>0, DisturbType DEF RunRaises, Attempt, MaybeSaved, Set, TaskStatuses, Points
  <2> QED BY <2>1, <2>2, <2>3, <2>4, <2>5, <2>6, <2>7
<1>4. CASE Ending
  <2>1. CASE CheckDone
      BY <2>1, CheckedType DEF CheckDone, TaskStatuses, providerVars, Points
  <2>2. CASE Exhausted
      BY <2>2 DEF Exhausted, TaskStatuses, providerVars, Points
  <2>3. CASE Release
      BY <2>3 DEF Release, Forget, taskVars, providerVars, Points, SubtaskStatuses
  <2> QED BY <1>4, <2>1, <2>2, <2>3 DEF Ending
<1>5. CASE Kill
    BY <1>5, <1>0, DisturbType DEF Kill, Forget, taskVars, Points, SubtaskStatuses
<1>6. CASE Restart
    BY <1>6, <1>0 DEF Restart, taskVars, callVars
<1>7. CASE Time
    BY <1>7 DEF Time, RetryDue, CooldownOver, taskVars, providerVars, callVars
<1>8. CASE User
  <2> PICK t \in Tasks : \/ ApprovePlan(t) \/ RejectPlan(t) \/ EditPlan(t)
                         \/ ApproveProposal(t) \/ RejectProposal(t)
      BY <1>8 DEF User
  <2>1. CASE ApprovePlan(t)
      BY <2>1 DEF ApprovePlan, TaskStatuses, providerVars, callVars
  <2>2. CASE RejectPlan(t)
      BY <2>2 DEF RejectPlan, TaskStatuses, providerVars, callVars
  <2>3. CASE EditPlan(t)
      BY <2>3, DisturbType DEF EditPlan, TaskStatuses, providerVars, callVars
  <2>4. CASE ApproveProposal(t)
      BY <2>4, AmendedType DEF ApproveProposal, TaskStatuses, providerVars, callVars
  <2>5. CASE RejectProposal(t)
      BY <2>5 DEF RejectProposal, TaskStatuses, providerVars, callVars
  <2> QED BY <2>1, <2>2, <2>3, <2>4, <2>5
<1>9. CASE UNCHANGED vars
    BY <1>9 DEF vars, taskVars, providerVars, callVars
<1> QED BY <1>1, <1>2, <1>3, <1>4, <1>5, <1>6, <1>7, <1>8, <1>9 DEF Next, RunOnce

\* Every state is well typed, and run_once holds a task exactly while it is in
\* progress
THEOREM TypeCorrect == Spec => []TypeOK
<1>1. Init => TypeInv
    BY BoundAssumption DEF Init, TypeInv, TypeOK, TaskStatuses, SubtaskStatuses,
       Availabilities, Points
<1>2. TypeInv => TypeOK
    BY DEF TypeInv
<1> QED BY <1>1, <1>2, TypeStep, PTL DEF Spec

-----------------------------------------------------------------------------
(* The lock.                                                               *)

\* Before a run begins run_once has locked nothing
LockInv ==
    /\ LockFollowsRun
    /\ pc \in {"idle", "plan", "planned"} => assigned \subseteq orphans

LEMMA LockStep == TypeInv /\ LockInv /\ [Next]_vars => LockInv'
<1> SUFFICES ASSUME TypeInv, LockInv, [Next]_vars PROVE LockInv'
    OBVIOUS
<1> USE DEF LockInv, LockFollowsRun
<1>1. CASE Choosing
    BY <1>1 DEF Choosing, PutOff, StartPlanning, Settle, Begin, AtExecution, Forget, callVars
<1>2. CASE Planning
    BY <1>2 DEF Planning, PlanMade, PlanFails, PlanningGivesUp, AwaitReview, LeaveForLater, Forget
<1>3. CASE Running
    BY <1>3 DEF Running, Attempt, NoKey, RunRefused, RunFails, RunCompletes, RunPaused,
       RunProposes, RunRaises
<1>4. CASE Ending
    BY <1>4 DEF Ending, CheckDone, Exhausted, Release, Forget
<1>5. CASE Kill
    BY <1>5 DEF Kill, Forget
<1>6. CASE Restart \/ Time \/ User
    BY <1>6 DEF Restart, Time, RetryDue, CooldownOver, User, ApprovePlan, RejectPlan,
       EditPlan, ApproveProposal, RejectProposal, callVars
<1>7. CASE UNCHANGED vars
    BY <1>7 DEF vars, callVars
<1> QED BY <1>1, <1>2, <1>3, <1>4, <1>5, <1>6, <1>7 DEF Next, RunOnce

\* Whatever outcome or exception ends a run_once, no task stays locked but those
\* whose run died with the process
THEOREM LockIsReleased == Spec => []LockFollowsRun
<1>1. Init => TypeInv /\ LockInv
    BY BoundAssumption DEF Init, TypeInv, TypeOK, LockInv, LockFollowsRun, TaskStatuses,
       SubtaskStatuses, Availabilities, Points
<1>2. LockInv => LockFollowsRun
    BY DEF LockInv
<1> QED BY <1>1, <1>2, TypeStep, LockStep, PTL DEF Spec

-----------------------------------------------------------------------------
(* Review.                                                                 *)

\* A plan that needs review and is neither under review nor rejected has been
\* approved, unless it was stored just now
ReviewInv ==
    /\ \A t \in planned : NeedsReview(t) =>
          \/ t \in approved \/ status[t] \in {"PLAN_REVIEW", "REJECTED"}
          \/ pc = "planned" /\ cur = t
    /\ pc \in {"run", "completed", "release"} =>
          status[cur] \notin {"PLAN_REVIEW", "REJECTED"}
    /\ pc \in {"planned", "run", "completed", "release"} => cur \in planned
    /\ pc = "plan" => cur \notin planned

LEMMA ReviewStep ==
    ASSUME "killPlanned" \notin Events
    PROVE  TypeInv /\ ReviewInv /\ [Next]_vars => ReviewInv'
<1> SUFFICES ASSUME TypeInv, ReviewInv, [Next]_vars PROVE ReviewInv'
    OBVIOUS
<1> USE DEF ReviewInv, NeedsReview, TypeInv, TypeOK
<1>1. CASE Choosing
  <2> PICK t \in Tasks : \/ PutOff(t) \/ StartPlanning(t) \/ Settle(t)
                         \/ \E s \in Subtasks : Begin(t, s)
      BY <1>1 DEF Choosing
  <2>1. CASE PutOff(t)
      BY <2>1 DEF PutOff, Oldest, Selectable, callVars
  <2>2. CASE StartPlanning(t)
      BY <2>2 DEF StartPlanning, taskVars
  <2>3. CASE Settle(t)
    <3>1. Checked(t) \in {"COMPLETED", "FAILED", status[t]}
        BY CheckedType
    <3> QED BY <2>3, <3>1 DEF Settle, AtExecution, Oldest, Selectable, Forget
  <2>4. CASE \E s \in Subtasks : Begin(t, s)
      BY <2>4 DEF Begin, AtExecution, Oldest, Selectable
  <2> QED BY <2>1, <2>2, <2>3, <2>4
<1>2. CASE Planning
    BY <1>2 DEF Planning, PlanMade, PlanFails, PlanningGivesUp, AwaitReview, LeaveForLater,
       Forget, taskVars
<1>3. CASE Running
    BY <1>3 DEF Running, Attempt, NoKey, RunRefused, RunFails, RunCompletes, RunPaused,
       RunProposes, RunRaises, MaybeSaved, taskVars
<1>4. CASE Ending
    BY <1>4 DEF Ending, CheckDone, Exhausted, Release, Checked, Forget, taskVars
<1>5. CASE Kill
    BY <1>5 DEF Kill, KillAt, Disturb, Forget, taskVars
<1>6. CASE Restart \/ Time
    BY <1>6 DEF Restart, Time, RetryDue, CooldownOver, taskVars, callVars
<1>7. CASE User
    BY <1>7 DEF User, ApprovePlan, RejectPlan, EditPlan, ApproveProposal,
       RejectProposal, callVars
<1>8. CASE UNCHANGED vars
    BY <1>8 DEF vars, taskVars, callVars
<1> QED BY <1>1, <1>2, <1>3, <1>4, <1>5, <1>6, <1>7, <1>8 DEF Next, RunOnce

\* If the process does not die between the two saves of planning, no subtask is
\* executed before a person approved the plan
THEOREM PlansAreReviewed ==
    ASSUME "killPlanned" \notin Events
    PROVE  Spec => []ReviewedBeforeRun
<1>1. Init => TypeInv /\ ReviewInv
    BY BoundAssumption DEF Init, TypeInv, TypeOK, ReviewInv, TaskStatuses,
       SubtaskStatuses, Availabilities, Points
<1>2. ReviewInv => ReviewedBeforeRun
    BY DEF ReviewInv, ReviewedBeforeRun
<1>3. TypeInv /\ ReviewInv /\ [Next]_vars => ReviewInv'
    BY ReviewStep
<1> QED BY <1>1, <1>2, <1>3, TypeStep, PTL DEF Spec

-----------------------------------------------------------------------------
(* Completion.                                                             *)

\* The plan of every task has the dependencies of its subtasks, and run_once
\* holds no task that is completed until a run completes it
WholeInv ==
    /\ CompletedIsWhole
    /\ \A t \in Tasks : Closed(Active(t))
    /\ pc \in {"plan", "planned", "run"} => status[cur] # "COMPLETED"
    /\ pc = "run" => sub \in Active(cur) /\ mem # "ABSENT"

\* A new status of a subtask does not change what the plans consist of
LEMMA SetKeeps ==
    ASSUME TypeInv, cur \in Tasks, sub \in Active(cur),
           NEW s \in SubtaskStatuses \ {"ABSENT"}, Set(s)
    PROVE  /\ \A t \in Tasks : Active(t)' = Active(t)
           /\ work'[cur][sub] = s
           /\ \A t \in Tasks, r \in Subtasks :
                 t # cur \/ r # sub => work'[t][r] = work[t][r]
BY DEF TypeInv, TypeOK, Set, Active

\* An amendment keeps what is in the plan and adds what it depends on
LEMMA AmendedCloses ==
    ASSUME NEW w \in [Subtasks -> SubtaskStatuses], NEW x \in Amended(w)
    PROVE  Closed({s \in Subtasks : x[s] # "ABSENT"})
<1>1. PICK S \in Plans :
         /\ {s \in Subtasks : w[s] # "ABSENT"} \subseteq S
         /\ x = [s \in Subtasks |-> IF s \in S \ {r \in Subtasks : w[r] # "ABSENT"}
                                   THEN "PENDING" ELSE w[s]]
    BY DEF Amended
<1>2. {s \in Subtasks : x[s] # "ABSENT"} = S
    BY <1>1 DEF Plans
<1> QED BY <1>2 DEF Plans

\* A step that keeps the plans and their subtasks, and completes nothing that is
\* not whole, keeps CompletedIsWhole
LEMMA PlansKept ==
    ASSUME TypeInv, WholeInv, UNCHANGED work,
           \A t \in Tasks : status'[t] = "COMPLETED" => status[t] = "COMPLETED"
    PROVE  CompletedIsWhole' /\ \A t \in Tasks : Closed(Active(t))'
BY DEF WholeInv, CompletedIsWhole, Active, Closed

\* _check_and_complete_task completes only what is whole
LEMMA CheckedWhole ==
    ASSUME TypeInv, WholeInv, UNCHANGED work, NEW c \in Tasks,
           status' = [status EXCEPT ![c] = Checked(c)]
    PROVE  CompletedIsWhole' /\ \A t \in Tasks : Closed(Active(t))'
BY DEF TypeInv, TypeOK, WholeInv, CompletedIsWhole, Active, Closed, Checked

\* A step that changes the plan of a task that is not completed then
LEMMA OnePlanChanged ==
    ASSUME TypeInv, WholeInv, NEW c \in Tasks,
           NEW x \in [Subtasks -> SubtaskStatuses],
           work' = [work EXCEPT ![c] = x], Closed({s \in Subtasks : x[s] # "ABSENT"}),
           NEW u \in TaskStatuses \ {"COMPLETED"}, status' = [status EXCEPT ![c] = u]
    PROVE  CompletedIsWhole' /\ \A t \in Tasks : Closed(Active(t))'
<1>1. \A t \in Tasks : Active(t)' = IF t = c THEN {s \in Subtasks : x[s] # "ABSENT"}
                                    ELSE Active(t)
    BY DEF TypeInv, TypeOK, Active
<1>2. \A t \in Tasks : Closed(Active(t))'
    BY <1>1 DEF WholeInv, Closed
<1>3. CompletedIsWhole'
    BY <1>1, <1>2 DEF WholeInv, CompletedIsWhole, TypeInv, TypeOK
<1> QED BY <1>2, <1>3

\* A run that does not complete its subtask
LEMMA SubtaskChanged ==
    ASSUME TypeInv, WholeInv, pc = "run",
           NEW s \in SubtaskStatuses \ {"ABSENT"}, Set(s),
           NEW u \in TaskStatuses \ {"COMPLETED"}, status' = [status EXCEPT ![cur] = u]
    PROVE  /\ CompletedIsWhole' /\ \A t \in Tasks : Closed(Active(t))'
           /\ \A t \in Tasks : Active(t)' = Active(t)
           /\ status'[cur] = u
<1> DEFINE x == [work[cur] EXCEPT ![sub] = s]
<1>1. cur \in Tasks /\ sub \in Active(cur) /\ sub \in Subtasks
    BY DEF TypeInv, TypeOK, WholeInv
<1>2. x \in [Subtasks -> SubtaskStatuses] /\ work' = [work EXCEPT ![cur] = x]
    BY <1>1 DEF TypeInv, TypeOK, Set
<1>3. {r \in Subtasks : x[r] # "ABSENT"} = Active(cur)
    BY <1>1 DEF Active, TypeInv, TypeOK
<1>4. Closed(Active(cur))
    BY <1>1 DEF WholeInv
<1>5. CompletedIsWhole' /\ \A t \in Tasks : Closed(Active(t))'
  <2> HIDE DEF x
  <2> QED BY <1>1, <1>2, <1>3, <1>4, OnePlanChanged
<1>6. \A t \in Tasks : Active(t)' = Active(t)
    BY <1>1, SetKeeps
<1>7. status'[cur] = u
    BY <1>1 DEF TypeInv, TypeOK
<1> QED BY <1>5, <1>6, <1>7

\* A run that may have stored the task on its way
LEMMA MaybeSavedKeeps ==
    ASSUME TypeInv, WholeInv, pc = "run", MaybeSaved
    PROVE  /\ CompletedIsWhole' /\ \A t \in Tasks : Closed(Active(t))'
           /\ \A t \in Tasks : Active(t)' = Active(t)
           /\ status'[cur] # "COMPLETED"
<1>1. PICK s \in {work[cur][sub], mem} :
         /\ Set(s)
         /\ status' = [status EXCEPT ![cur] = IF s = "FAILED" THEN "FAILED" ELSE @]
    BY DEF MaybeSaved
<1>2. s \in SubtaskStatuses \ {"ABSENT"}
    BY DEF TypeInv, TypeOK, WholeInv, Active
<1>3. (IF s = "FAILED" THEN "FAILED" ELSE status[cur]) \in TaskStatuses \ {"COMPLETED"}
    BY DEF TypeInv, TypeOK, WholeInv, TaskStatuses
<1> QED BY <1>1, <1>2, <1>3, SubtaskChanged

\* A run that completes its subtask
LEMMA CompletesWhole ==
    ASSUME TypeInv, WholeInv, NEW p \in Providers, RunCompletes(p)
    PROVE  WholeInv'
<1>1. cur \in Tasks /\ sub \in Active(cur) /\ pc' = "completed"
    BY DEF TypeInv, TypeOK, WholeInv, RunCompletes, Attempt
<1>2. /\ \A t \in Tasks : Active(t)' = Active(t)
      /\ work'[cur][sub] = "COMPLETED"
      /\ \A t \in Tasks, r \in Subtasks : t # cur \/ r # sub => work'[t][r] = work[t][r]
    BY <1>1, SetKeeps DEF RunCompletes, SubtaskStatuses
<1>3. \A t \in Tasks : Closed(Active(t))'
    BY <1>2 DEF WholeInv, Closed
<1>4. status'[cur] = "COMPLETED" => \A s \in Active(cur) : work'[cur][s] = "COMPLETED"
    BY <1>1, <1>2 DEF RunCompletes, TypeInv, TypeOK, Active
<1>5. \A t \in Tasks \ {cur} : status'[t] = status[t]
    BY DEF RunCompletes, TypeInv, TypeOK
<1>6. CompletedIsWhole'
  <2> SUFFICES ASSUME NEW t \in Tasks, status'[t] = "COMPLETED"
               PROVE  /\ Active(t)' # {} /\ Closed(Active(t))'
                      /\ \A s \in Active(t)' : work'[t][s] = "COMPLETED"
      BY DEF CompletedIsWhole
  <2>1. CASE t = cur
      BY <2>1, <1>1, <1>2, <1>3, <1>4
  <2>2. CASE t # cur
    <3>1. Active(t)' = Active(t) /\ Active(t) # {}
          /\ \A s \in Active(t) : work[t][s] = "COMPLETED"
        BY <2>2, <1>2, <1>5 DEF WholeInv, CompletedIsWhole
    <3>2. \A s \in Active(t) : work'[t][s] = "COMPLETED"
        BY <2>2, <3>1, <1>2 DEF Active
    <3> QED BY <3>1, <3>2, <1>3
  <2> QED BY <2>1, <2>2
<1> QED BY <1>1, <1>3, <1>6 DEF WholeInv

LEMMA WholeStep == TypeInv /\ WholeInv /\ [Next]_vars => WholeInv'
<1> SUFFICES ASSUME TypeInv, WholeInv, [Next]_vars PROVE WholeInv'
    OBVIOUS
<1>0. /\ status \in [Tasks -> TaskStatuses]
      /\ work \in [Tasks -> [Subtasks -> SubtaskStatuses]]
      /\ pc \in {"plan", "planned", "run", "completed", "release"} => cur \in Tasks
      /\ mem \in SubtaskStatuses
    BY DEF TypeInv, TypeOK, WholeInv
<1>1. CASE Choosing
  <2> PICK t \in Tasks : \/ PutOff(t) \/ StartPlanning(t) \/ Settle(t)
                         \/ \E s \in Subtasks : Begin(t, s)
      BY <1>1 DEF Choosing
  <2>1. CASE PutOff(t)
      BY <2>1, <1>0, PlansKept DEF PutOff, WholeInv, callVars
  <2>2. CASE StartPlanning(t)
      BY <2>2, <1>0, PlansKept DEF StartPlanning, Oldest, Selectable, WholeInv, taskVars
  <2>3. CASE Settle(t)
      BY <2>3, CheckedWhole DEF Settle, Forget, WholeInv
  <2>4. CASE \E s \in Subtasks : Begin(t, s)
    <3>1. CompletedIsWhole' /\ \A u \in Tasks : Closed(Active(u))'
        BY <2>4, <1>0, PlansKept DEF Begin
    <3> QED BY <2>4, <1>0, <3>1 DEF Begin, NextSubtask, Runnable, WholeInv, Active
  <2> QED BY <2>1, <2>2, <2>3, <2>4
<1>2. CASE Planning
  <2>1. ASSUME NEW p \in Providers, PlanMade(p) PROVE WholeInv'
    <3>1. PICK S \in Plans \cup Unvalidated :
             work' = [work EXCEPT ![cur] =
                        [s \in Subtasks |-> IF s \in S THEN "PENDING" ELSE "ABSENT"]]
        BY <2>1 DEF PlanMade
    <3> DEFINE x == [s \in Subtasks |-> IF s \in S THEN "PENDING" ELSE "ABSENT"]
    <3>2. x \in [Subtasks -> SubtaskStatuses]
        BY DEF SubtaskStatuses
    <3>3. S \subseteq Subtasks /\ Closed(S)
        BY DEF Plans, Unvalidated, Closed
    <3>4. {s \in Subtasks : x[s] # "ABSENT"} = S
        BY <3>3
    <3>5. cur \in Tasks /\ status[cur] \in TaskStatuses \ {"COMPLETED"}
          /\ status' = [status EXCEPT ![cur] = status[cur]]
        BY <2>1, <1>0 DEF PlanMade, WholeInv
    <3>6. CompletedIsWhole' /\ \A t \in Tasks : Closed(Active(t))'
      <4> HIDE DEF x
      <4> QED BY <3>1, <3>2, <3>3, <3>4, <3>5, OnePlanChanged DEF x
    <3> QED BY <2>1, <3>5, <3>6 DEF PlanMade, WholeInv
  <2>2. ASSUME NEW p \in Providers, PlanFails(p) PROVE WholeInv'
      BY <2>2, PlansKept DEF PlanFails, WholeInv, taskVars
  <2>3. CASE PlanningGivesUp
      BY <2>3, <1>0, PlansKept DEF PlanningGivesUp, Forget, WholeInv
  <2>4. CASE AwaitReview
      BY <2>4, <1>0, PlansKept DEF AwaitReview, Forget, WholeInv
  <2>5. CASE LeaveForLater
      BY <2>5, PlansKept DEF LeaveForLater, Forget, WholeInv, taskVars
  <2> QED BY <1>2, <2>1, <2>2, <2>3, <2>4, <2>5 DEF Planning
<1>3. CASE Running
  <2> PICK p \in Providers : \/ NoKey(p) \/ RunRefused(p) \/ RunFails(p)
                             \/ RunCompletes(p) \/ RunPaused(p)
                             \/ RunProposes(p) \/ RunRaises(p)
      BY <1>3 DEF Running
  <2>0. pc = "run" /\ cur \in Tasks /\ sub \in Active(cur) /\ sub \in Subtasks
        /\ mem # "ABSENT" /\ status[cur] # "COMPLETED"
      BY <1>0 DEF NoKey, RunRefused, RunFails, RunCompletes, RunPaused, RunProposes,
         RunRaises, Attempt, WholeInv, TypeInv
  <2>1. CASE NoKey(p)
      BY <2>1, PlansKept DEF NoKey, WholeInv, Active, taskVars
  <2>2. CASE RunRefused(p)
      BY <2>2, <2>0, MaybeSavedKeeps DEF RunRefused, WholeInv
  <2>3. CASE RunFails(p)
    <3>1. /\ CompletedIsWhole' /\ \A t \in Tasks : Closed(Active(t))'
          /\ \A t \in Tasks : Active(t)' = Active(t)
          /\ status'[cur] = "FAILED"
        BY <2>3, <2>0, SubtaskChanged DEF RunFails, SubtaskStatuses, TaskStatuses
    <3> QED BY <2>3, <2>0, <3>1 DEF RunFails, WholeInv
  <2>4. CASE RunCompletes(p)
      BY <2>4, CompletesWhole
  <2>5. CASE RunPaused(p)
    <3>1. CompletedIsWhole' /\ \A t \in Tasks : Closed(Active(t))'
        BY <2>5, <2>0, SubtaskChanged DEF RunPaused, SubtaskStatuses, TaskStatuses
    <3> QED BY <2>5, <3>1 DEF RunPaused, WholeInv
  <2>6. CASE RunProposes(p)
    <3>0. SUFFICES CompletedIsWhole' /\ \A t \in Tasks : Closed(Active(t))'
        BY <2>6 DEF RunProposes, WholeInv
    <3>1. Held \in [Subtasks -> SubtaskStatuses]
          /\ {s \in Subtasks : Held[s] # "ABSENT"} = Active(cur) /\ Closed(Active(cur))
        BY <2>0, <1>0 DEF Held, Active, WholeInv
    <3>2. \A x \in Amended(Held) : x \in [Subtasks -> SubtaskStatuses]
                                    /\ Closed({s \in Subtasks : x[s] # "ABSENT"})
        BY <3>1, AmendedType, AmendedCloses
    <3>3. CASE \E x \in Amended(Held) : /\ work' = [work EXCEPT ![cur] = x]
                                        /\ status' = [status EXCEPT ![cur] = "PENDING"]
      <4>1. PICK x \in Amended(Held) : /\ work' = [work EXCEPT ![cur] = x]
                                       /\ status' = [status EXCEPT ![cur] = "PENDING"]
          BY <3>3
      <4> QED BY <4>1, <3>2, <2>0, OnePlanChanged DEF TaskStatuses
    <3>4. CASE /\ work' = [work EXCEPT ![cur] = Held]
               /\ status' = [status EXCEPT ![cur] = "PLAN_PROPOSED"]
        BY <3>4, <3>1, <2>0, OnePlanChanged DEF TaskStatuses
    <3>5. CASE /\ work' = [work EXCEPT ![cur] = Held]
               /\ status' = [status EXCEPT ![cur] = "PAUSED"]
        BY <3>5, <3>1, <2>0, OnePlanChanged DEF TaskStatuses
    <3> QED BY <2>6, <3>3, <3>4, <3>5 DEF RunProposes
  <2>7. CASE RunRaises(p)
      BY <2>7, <2>0, MaybeSavedKeeps DEF RunRaises, WholeInv
  <2> QED BY <2>1, <2>2, <2>3, <2>4, <2>5, <2>6, <2>7
<1>4. CASE Ending
  <2>1. CASE CheckDone
      BY <2>1, <1>0, CheckedWhole DEF CheckDone, WholeInv
  <2>2. CASE Exhausted
      BY <2>2, <1>0, PlansKept DEF Exhausted, WholeInv
  <2>3. CASE Release
      BY <2>3, PlansKept DEF Release, Forget, WholeInv, taskVars
  <2> QED BY <1>4, <2>1, <2>2, <2>3 DEF Ending
<1>5. CASE Kill
    BY <1>5, PlansKept DEF Kill, Forget, WholeInv, taskVars
<1>6. CASE Restart \/ Time
    BY <1>6, PlansKept DEF Restart, Time, RetryDue, CooldownOver, WholeInv, Active,
       taskVars, callVars
<1>7. CASE User
  <2> PICK t \in Tasks : \/ ApprovePlan(t) \/ RejectPlan(t) \/ EditPlan(t)
                         \/ ApproveProposal(t) \/ RejectProposal(t)
      BY <1>7 DEF User
  <2>1. CASE ApproveProposal(t)
    <3>1. PICK x \in Amended(work[t]) : work' = [work EXCEPT ![t] = x]
        BY <2>1 DEF ApproveProposal
    <3>2. x \in [Subtasks -> SubtaskStatuses] /\ Closed({s \in Subtasks : x[s] # "ABSENT"})
        BY <1>0, AmendedType, AmendedCloses
    <3>3. CompletedIsWhole' /\ \A u \in Tasks : Closed(Active(u))'
        BY <2>1, <3>1, <3>2, OnePlanChanged DEF ApproveProposal, TaskStatuses
    <3> QED BY <2>1, <3>3 DEF ApproveProposal, WholeInv, callVars
  <2>2. CASE ApprovePlan(t) \/ RejectPlan(t) \/ EditPlan(t) \/ RejectProposal(t)
    <3>1. CompletedIsWhole' /\ \A u \in Tasks : Closed(Active(u))'
        BY <2>2, <1>0, PlansKept DEF ApprovePlan, RejectPlan, EditPlan, RejectProposal
    <3> QED BY <2>2, <3>1 DEF ApprovePlan, RejectPlan, EditPlan, RejectProposal,
            WholeInv, callVars
  <2> QED BY <2>1, <2>2
<1>8. CASE UNCHANGED vars
    BY <1>8, PlansKept DEF vars, taskVars, callVars, WholeInv, Active
<1> QED BY <1>1, <1>2, <1>3, <1>4, <1>5, <1>6, <1>7, <1>8 DEF Next, RunOnce

\* A task stored as COMPLETED has a plan, and all its subtasks are COMPLETED
THEOREM CompletionIsWhole == Spec => []CompletedIsWhole
<1>1. Init => TypeInv
    BY BoundAssumption DEF Init, TypeInv, TypeOK, TaskStatuses, SubtaskStatuses,
       Availabilities, Points
<1>2. Init => WholeInv
    BY DEF Init, WholeInv, CompletedIsWhole, Active, Closed
<1>3. WholeInv => CompletedIsWhole
    BY DEF WholeInv
<1> QED BY <1>1, <1>2, <1>3, TypeStep, WholeStep, PTL DEF Spec
=============================================================================
