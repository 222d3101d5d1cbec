--------------------------- MODULE TaskScheduler ---------------------------
(***************************************************************************)
(* Scheduler.run_once for several tasks in the serial mode, the commands   *)
(* by which a person approves, rejects and edits plans and proposals, and  *)
(* the availability of the providers.  A step ends where the code saves a  *)
(* task or the scheduler state, so that a kill may fall between two saves. *)
(* What happens inside Orchestrator.run is the module SubtaskRun; here a   *)
(* run is the outcome it stores.  One process at a time uses the project.  *)
(***************************************************************************)
EXTENDS Integers, FiniteSets

CONSTANTS
    Tasks, Age,         \* the tasks and the order in which they were created
    Autonomous,         \* the tasks created with --autonomous
    Mode,               \* approval_mode
    Subtasks, Deps, Rank, \* what a plan is made of, and the order of execution
    Providers, Priority,  \* the registered providers, lower is asked first
    Planners, Builders,   \* those capable of PLANNING and of IMPLEMENTATION
    Events,             \* the disturbances that may happen
    MaxDisturbances     \* how many of them (bound)

ASSUME TaskAssumption ==
    /\ Age \in [Tasks -> Nat] /\ Autonomous \subseteq Tasks
    /\ Mode \in {"never", "plan_review", "always"}
ASSUME PlanAssumption ==
    Deps \in [Subtasks -> SUBSET Subtasks] /\ Rank \in [Subtasks -> Nat]
ASSUME ProviderAssumption ==
    /\ Priority \in [Providers -> Nat]
    /\ Planners \subseteq Providers /\ Builders \subseteq Providers
ASSUME BoundAssumption == MaxDisturbances \in Nat

VARIABLES
    status,     \* task.status as stored
    assigned,   \* the tasks stored with assigned_to = "scheduler"
    planned,    \* the tasks stored with a plan
    work,       \* work[t][s]: subtask.status; "ABSENT" when not in the plan
    waiting,    \* the tasks whose next_retry_at is in the future
    avail,      \* availability of the providers in the scheduler state
    cooling,    \* the providers whose cooldown_until is in the future
    pc, cur, sub, \* where run_once is, its task and subtask
    todo,       \* the providers it has not tried yet
    origin,     \* "new" when planned_in_this_run
    mem,        \* the subtask's status in the task object run_once holds
    approved,   \* ghost: the tasks whose plan a person has approved
    orphans,    \* ghost: the tasks that were being run when the process died
    disturbed

taskVars     == <<status, planned, work>>
providerVars == <<avail, cooling>>
callVars     == <<pc, cur, sub, todo, origin, mem>>
vars == <<taskVars, assigned, waiting, providerVars, callVars,
          approved, orphans, disturbed>>

None == "none"
TaskStatuses == {"PENDING", "RUNNING", "PAUSED", "PLAN_REVIEW", "PLAN_PROPOSED",
                 "REJECTED", "COMPLETED", "FAILED"}
SubtaskStatuses == {"ABSENT", "PENDING", "PAUSED", "COMPLETED", "FAILED"}
Availabilities == {"AVAILABLE", "COOLDOWN", "NOT_CONFIGURED"}
Points == {"idle", "plan", "planned", "run", "completed", "release"}

-----------------------------------------------------------------------------
Disturb(event) ==
    event \in Events /\ disturbed < MaxDisturbances /\ disturbed' = disturbed + 1

\* _select_providers: a provider whose cooldown is over is available again
Ready(p) == avail[p] = "AVAILABLE" \/ (avail[p] = "COOLDOWN" /\ p \notin cooling)
Refreshed == [p \in Providers |-> IF Ready(p) THEN "AVAILABLE" ELSE avail[p]]
ReadyOf(S) == {p \in S : Ready(p)}
First(p) == p \in todo /\ \A q \in todo : Priority[p] <= Priority[q]

\* Mutant: a plan under review is as good as an approved one
SelectableReviewed(t) ==
    /\ t \notin assigned
    /\ \/ status[t] \in {"PENDING", "RUNNING", "PLAN_REVIEW"}
       \/ status[t] = "PAUSED" /\ t \notin waiting

\* _find_runnable_task.  A task under review has a plan, so that the clause for
\* one without a plan never applies.
Selectable(t) ==
    /\ t \notin assigned
    /\ \/ status[t] \in {"PENDING", "RUNNING"}
       \/ status[t] = "PAUSED" /\ t \notin waiting
Oldest(t) == Selectable(t) /\ \A u \in Tasks : Selectable(u) => Age[t] <= Age[u]

Active(t) == {s \in Subtasks : work[t][s] # "ABSENT"}
Runnable(t, s) ==
    work[t][s] \in {"PENDING", "PAUSED"} /\ \A d \in Deps[s] : work[t][d] = "COMPLETED"
NextSubtask(t, s) ==
    Runnable(t, s) /\ \A r \in Subtasks : Runnable(t, r) => Rank[s] <= Rank[r]

\* Mutant: a subtask that failed is finished too
CheckedFinished(t) ==
    IF Active(t) # {} /\ \A s \in Active(t) : work[t][s] \in {"COMPLETED", "FAILED"}
    THEN "COMPLETED" ELSE status[t]

\* _check_and_complete_task
Checked(t) ==
    IF Active(t) # {} /\ \A s \in Active(t) : work[t][s] = "COMPLETED" THEN "COMPLETED"
    ELSE IF /\ \E s \in Active(t) : work[t][s] = "FAILED"
            /\ \A s \in Subtasks : ~Runnable(t, s)
         THEN "FAILED" ELSE status[t]

\* Plans the planner accepts, and what a valid proposal makes of w: it adds
\* subtasks, or changes others without effect on their status.
Closed(S) == \A s \in S : Deps[s] \subseteq S
Plans == {S \in SUBSET Subtasks : S # {} /\ Closed(S)}
Unvalidated == IF "emptyPlan" \in Events THEN {{}} ELSE {}
Amended(w) ==
    LET present == {s \in Subtasks : w[s] # "ABSENT"}
    IN { [s \in Subtasks |-> IF s \in S \ present THEN "PENDING" ELSE w[s]] :
            S \in {P \in Plans : present \subseteq P} }

\* The plan of t has to be approved before it is executed
NeedsReview(t) == Mode = "plan_review" /\ t \notin Autonomous

\* The end of run_once
Forget ==
    /\ pc' = "idle" /\ cur' = None /\ sub' = None /\ todo' = {}
    /\ origin' = "old" /\ mem' = "PENDING"

-----------------------------------------------------------------------------
\* Tasks as create-task stores them, and a new Scheduler
Init ==
    /\ status = [t \in Tasks |-> "PENDING"] /\ assigned = {} /\ planned = {}
    /\ work = [t \in Tasks |-> [s \in Subtasks |-> "ABSENT"]] /\ waiting = {}
    /\ avail = [p \in Providers |-> "AVAILABLE"] /\ cooling = {}
    /\ pc = "idle" /\ cur = None /\ sub = None /\ todo = {}
    /\ origin = "old" /\ mem = "PENDING"
    /\ approved = {} /\ orphans = {} /\ disturbed = 0

-----------------------------------------------------------------------------
(* run_once up to the execution of a subtask.                              *)

\* No provider can do what the task needs next: it is retried later
PutOff(t) ==
    /\ pc = "idle" /\ Oldest(t)
    /\ ReadyOf(IF t \in planned THEN Builders ELSE Planners) = {}
    /\ status' = [status EXCEPT ![t] = "PAUSED"] /\ waiting' = waiting \cup {t}
    /\ avail' = Refreshed
    /\ UNCHANGED <<assigned, planned, work, cooling, callVars,
                   approved, orphans, disturbed>>

StartPlanning(t) ==
    /\ pc = "idle" /\ Oldest(t) /\ t \notin planned
    /\ ReadyOf(Planners) # {}
    /\ pc' = "plan" /\ cur' = t /\ todo' = ReadyOf(Planners)
    /\ avail' = Refreshed
    /\ UNCHANGED <<taskVars, assigned, waiting, cooling, sub, origin,
                   mem, approved, orphans, disturbed>>

\* _plan_task_with_provider stores the plan under the status the task had.  A
\* provider that returns a TaskPlan or a dict is not validated: the plan may be
\* empty, or have no subtask that can ever start.
PlanMade(p) ==
    /\ pc = "plan" /\ First(p)
    /\ \E S \in Plans \cup Unvalidated :
          work' = [work EXCEPT ![cur] =
                     [s \in Subtasks |-> IF s \in S THEN "PENDING" ELSE "ABSENT"]]
    /\ planned' = planned \cup {cur}
    /\ avail' = [avail EXCEPT ![p] = "AVAILABLE"] /\ cooling' = cooling \ {p}
    /\ pc' = "planned" /\ todo' = {} /\ origin' = "new"
    /\ UNCHANGED <<status, assigned, waiting, cur, sub, mem, approved,
                   orphans, disturbed>>

\* A wrong key, or another error of the provider; the next one is asked
PlanFails(p) ==
    /\ pc = "plan" /\ First(p) /\ Disturb("planError")
    /\ \/ avail' = [avail EXCEPT ![p] = "NOT_CONFIGURED"] /\ UNCHANGED cooling
       \/ avail' = [avail EXCEPT ![p] = "COOLDOWN"] /\ cooling' = cooling \cup {p}
    /\ todo' = todo \ {p}
    /\ UNCHANGED <<taskVars, assigned, waiting, pc, cur, sub, origin,
                   mem, approved, orphans>>

PlanningGivesUp ==
    /\ pc = "plan" /\ todo = {}
    /\ status' = [status EXCEPT ![cur] = "FAILED"]
    /\ Forget
    /\ UNCHANGED <<assigned, planned, work, waiting, providerVars,
                   approved, orphans, disturbed>>

AwaitReview ==
    /\ pc = "planned" /\ NeedsReview(cur)
    /\ status' = [status EXCEPT ![cur] = "PLAN_REVIEW"]
    /\ Forget
    /\ UNCHANGED <<assigned, planned, work, waiting, providerVars,
                   approved, orphans, disturbed>>

\* The plan is stored; nobody can execute it now
LeaveForLater ==
    /\ pc = "planned" /\ ~NeedsReview(cur) /\ ReadyOf(Builders) = {}
    /\ avail' = Refreshed /\ Forget
    /\ UNCHANGED <<taskVars, assigned, waiting, cooling, approved, orphans, disturbed>>

\* The task has a plan that may be executed and a provider for it
AtExecution(t) ==
    /\ \/ pc = "idle" /\ Oldest(t) /\ t \in planned
       \/ pc = "planned" /\ t = cur /\ ~NeedsReview(t)
    /\ ReadyOf(Builders) # {}

\* There is nothing to execute: the task is finished, or stays as it is
Settle(t) ==
    /\ AtExecution(t) /\ \A s \in Subtasks : ~Runnable(t, s)
    /\ status' = [status EXCEPT ![t] = Checked(t)]
    /\ avail' = Refreshed /\ Forget
    /\ UNCHANGED <<assigned, planned, work, waiting, cooling, approved, orphans, disturbed>>

Begin(t, s) ==
    /\ AtExecution(t) /\ NextSubtask(t, s)
    /\ status' = [status EXCEPT ![t] = "RUNNING"] /\ assigned' = assigned \cup {t}
    /\ pc' = "run" /\ cur' = t /\ sub' = s /\ todo' = ReadyOf(Builders)
    /\ mem' = work[t][s] /\ avail' = Refreshed
    /\ UNCHANGED <<planned, work, waiting, cooling, origin, approved, orphans, disturbed>>

-----------------------------------------------------------------------------
(* The attempts of the providers.  The orchestrator chooses its specialists *)
(* itself (_select_specialists): the first provider that is available.      *)

Attempt(p) == pc = "run" /\ First(p)
Set(s) == work' = [work EXCEPT ![cur][sub] = s]

\* A run stores the task on its way as it is in memory: FAILED when an earlier
\* provider failed, even if that was not stored then
MaybeSaved ==
    /\ \E s \in {work[cur][sub], mem} :
          /\ Set(s)
          /\ status' = [status EXCEPT ![cur] = IF s = "FAILED" THEN "FAILED" ELSE @]
    /\ UNCHANGED planned

\* The key cannot be read: the loop goes on to the next provider
NoKey(p) ==
    /\ Attempt(p) /\ Disturb("noKey")
    /\ avail' = [avail EXCEPT ![p] = "NOT_CONFIGURED"] /\ todo' = todo \ {p}
    /\ UNCHANGED <<taskVars, assigned, waiting, cooling, pc, cur, sub, origin,
                   mem, approved, orphans>>

\* Preflight or planning refuse, planning also when no planner is available:
\* FAILED in memory, but that is not stored
RunRefused(p) ==
    /\ Attempt(p)
    /\ MaybeSaved /\ mem' = "FAILED" /\ todo' = todo \ {p}
    /\ avail' = Refreshed
    /\ UNCHANGED <<assigned, waiting, cooling, pc, cur, sub, origin,
                   approved, orphans, disturbed>>

RunFails(p) ==
    /\ Attempt(p) /\ ReadyOf(Planners) # {}
    /\ Set("FAILED") /\ status' = [status EXCEPT ![cur] = "FAILED"]
    /\ mem' = "FAILED" /\ todo' = todo \ {p}
    /\ avail' = Refreshed
    /\ UNCHANGED <<planned, assigned, waiting, cooling, pc, cur, sub, origin,
                   approved, orphans, disturbed>>

RunCompletes(p) ==
    /\ Attempt(p) /\ ReadyOf(Planners) # {} /\ ReadyOf(Builders) # {}
    /\ Set("COMPLETED")
    /\ status' = [status EXCEPT ![cur] =
                    IF \A s \in Active(cur) \ {sub} : work[cur][s] = "COMPLETED"
                    THEN "COMPLETED" ELSE "PENDING"]
    /\ avail' = [Refreshed EXCEPT ![p] = "AVAILABLE"] /\ cooling' = cooling \ {p}
    /\ pc' = "completed"
    /\ UNCHANGED <<planned, assigned, waiting, cur, sub, todo, origin, mem,
                   approved, orphans, disturbed>>

\* A specialist is rate limited.  The task is paused without a next_retry_at,
\* and the provider of the loop, not the specialist, is put in cooldown.
RunPaused(p) ==
    /\ Attempt(p) /\ ReadyOf(Planners) # {} /\ Disturb("limit")
    /\ Set("PAUSED") /\ status' = [status EXCEPT ![cur] = "PAUSED"]
    /\ avail' = [Refreshed EXCEPT ![p] = "COOLDOWN"] /\ cooling' = cooling \cup {p}
    /\ pc' = "release"
    /\ UNCHANGED <<planned, assigned, waiting, cur, sub, todo, origin, mem,
                   approved, orphans>>

\* The plan as the task in memory has it
Held == [work[cur] EXCEPT ![sub] = mem]

\* The run proposes another plan: amended at once in an autonomous task, offered
\* to the user in others, or refused by the guard.  The orchestrator stores the
\* subtask as it is in memory.
RunProposes(p) ==
    /\ Attempt(p) /\ ReadyOf(Planners) # {} /\ ReadyOf(Builders) # {}
    /\ Disturb("proposal")
    /\ \/ /\ cur \in Autonomous
          /\ \E x \in Amended(Held) : work' = [work EXCEPT ![cur] = x]
          /\ status' = [status EXCEPT ![cur] = "PENDING"]
       \/ /\ cur \notin Autonomous /\ work' = [work EXCEPT ![cur] = Held]
          /\ status' = [status EXCEPT ![cur] = "PLAN_PROPOSED"]
       \/ /\ work' = [work EXCEPT ![cur] = Held]
          /\ status' = [status EXCEPT ![cur] = "PAUSED"]
    /\ avail' = Refreshed /\ pc' = "release"
    /\ UNCHANGED <<planned, assigned, waiting, cooling, cur, sub, todo, origin,
                   mem, approved, orphans>>

\* Another exception leaves the loop through the finally clause
RunRaises(p) ==
    /\ Attempt(p) /\ Disturb("raise")
    /\ MaybeSaved /\ avail' = Refreshed /\ pc' = "release"
    /\ UNCHANGED <<assigned, waiting, cooling, cur, sub, todo, origin,
                   mem, approved, orphans>>

CheckDone ==
    /\ pc = "completed"
    /\ status' = [status EXCEPT ![cur] = Checked(cur)]
    /\ pc' = "release"
    /\ UNCHANGED <<assigned, planned, work, waiting, providerVars, cur, sub, todo,
                   origin, mem, approved, orphans, disturbed>>

\* Mutant: the failed task is offered again whether it was planned just now or not
ExhaustedAgain ==
    /\ pc = "run" /\ todo = {}
    /\ status' = [status EXCEPT ![cur] = "PENDING"]
    /\ pc' = "release"
    /\ UNCHANGED <<assigned, planned, work, waiting, providerVars, cur, sub, todo,
                   origin, mem, approved, orphans, disturbed>>

\* All providers have failed.  A task that was planned in this call is PENDING
\* again, even if its subtask is stored as FAILED.
Exhausted ==
    /\ pc = "run" /\ todo = {}
    /\ status' = [status EXCEPT ![cur] = IF origin = "new" THEN "PENDING" ELSE "FAILED"]
    /\ pc' = "release"
    /\ UNCHANGED <<assigned, planned, work, waiting, providerVars, cur, sub, todo,
                   origin, mem, approved, orphans, disturbed>>

\* The finally clause
Release ==
    /\ pc = "release"
    /\ assigned' = assigned \ {cur} /\ Forget
    /\ UNCHANGED <<taskVars, waiting, providerVars, approved, orphans, disturbed>>

-----------------------------------------------------------------------------
(* Death of the process, the passing of time, and the user's commands.      *)

\* The kind of disturbance a kill at this point is
KillAt == CASE pc = "planned" -> "killPlanned"
            [] pc = "plan" -> "killPlanning"
            [] OTHER -> "killRunning"

\* A new Scheduler makes every provider with a key available that was not configured
Configured == [p \in Providers |-> IF avail[p] = "NOT_CONFIGURED" THEN "AVAILABLE"
                                   ELSE avail[p]]

\* The process dies; what is stored stays
Kill ==
    /\ pc # "idle" /\ Disturb(KillAt)
    /\ orphans' = orphans \cup (assigned \cap {cur})
    /\ avail' = Configured /\ Forget
    /\ UNCHANGED <<taskVars, assigned, waiting, cooling, approved>>

Restart ==
    /\ pc = "idle" /\ avail' = Configured
    /\ UNCHANGED <<taskVars, assigned, waiting, cooling, callVars,
                   approved, orphans, disturbed>>

RetryDue(t) ==
    /\ t \in waiting /\ waiting' = waiting \ {t}
    /\ UNCHANGED <<taskVars, assigned, providerVars, callVars,
                   approved, orphans, disturbed>>
CooldownOver(p) ==
    /\ p \in cooling /\ cooling' = cooling \ {p}
    /\ UNCHANGED <<taskVars, assigned, waiting, avail, callVars,
                   approved, orphans, disturbed>>

ApprovePlan(t) ==
    /\ pc = "idle" /\ status[t] = "PLAN_REVIEW"
    /\ status' = [status EXCEPT ![t] = "PENDING"] /\ approved' = approved \cup {t}
    /\ UNCHANGED <<assigned, planned, work, waiting, providerVars, callVars,
                   orphans, disturbed>>
RejectPlan(t) ==
    /\ pc = "idle" /\ status[t] = "PLAN_REVIEW"
    /\ status' = [status EXCEPT ![t] = "REJECTED"]
    /\ UNCHANGED <<assigned, planned, work, waiting, providerVars, callVars,
                   approved, orphans, disturbed>>

\* An edited plan is reviewed again when its task was PENDING; in a PAUSED task
\* it is not
EditPlan(t) ==
    /\ pc = "idle" /\ t \in planned /\ status[t] \in {"PLAN_REVIEW", "PENDING", "PAUSED"}
    /\ Disturb("editPlan")
    /\ IF status[t] = "PENDING"
       THEN status' = [status EXCEPT ![t] = "PLAN_REVIEW"] /\ approved' = approved \ {t}
       ELSE UNCHANGED <<status, approved>>
    /\ UNCHANGED <<assigned, planned, work, waiting, providerVars, callVars, orphans>>

ApproveProposal(t) ==
    /\ pc = "idle" /\ status[t] = "PLAN_PROPOSED"
    /\ \E x \in Amended(work[t]) : work' = [work EXCEPT ![t] = x]
    /\ status' = [status EXCEPT ![t] = "PENDING"]
    /\ UNCHANGED <<assigned, planned, waiting, providerVars, callVars,
                   approved, orphans, disturbed>>
RejectProposal(t) ==
    /\ pc = "idle" /\ status[t] = "PLAN_PROPOSED"
    /\ status' = [status EXCEPT ![t] = "PAUSED"] /\ waiting' = waiting \cup {t}
    /\ UNCHANGED <<assigned, planned, work, providerVars, callVars,
                   approved, orphans, disturbed>>

-----------------------------------------------------------------------------
Choosing ==
    \E t \in Tasks : \/ PutOff(t) \/ StartPlanning(t) \/ Settle(t)
                     \/ \E s \in Subtasks : Begin(t, s)
Planning == \/ \E p \in Providers : PlanMade(p) \/ PlanFails(p)
            \/ PlanningGivesUp \/ AwaitReview \/ LeaveForLater
Running == \E p \in Providers : \/ NoKey(p) \/ RunRefused(p) \/ RunFails(p)
                                \/ RunCompletes(p) \/ RunPaused(p)
                                \/ RunProposes(p) \/ RunRaises(p)
Ending == CheckDone \/ Exhausted \/ Release
RunOnce == Choosing \/ Planning \/ Running \/ Ending
User == \E t \in Tasks : \/ ApprovePlan(t) \/ RejectPlan(t) \/ EditPlan(t)
                         \/ ApproveProposal(t) \/ RejectProposal(t)
Time == (\E t \in Tasks : RetryDue(t)) \/ (\E p \in Providers : CooldownOver(p))
Next == RunOnce \/ Kill \/ Restart \/ Time \/ User

\* run_once is called again and again, each time, as by the command line, on a
\* new Scheduler, and time passes.  Nobody has to answer.
Fairness ==
    /\ WF_vars(RunOnce) /\ WF_vars(Restart)
    /\ \A t \in Tasks : WF_vars(RetryDue(t))
    /\ \A p \in Providers : WF_vars(CooldownOver(p))
Spec == Init /\ [][Next]_vars /\ Fairness

-----------------------------------------------------------------------------
(* Properties.                                                             *)

\* Types, and the process holds a task exactly while run_once is in progress
TypeOK ==
    /\ status \in [Tasks -> TaskStatuses]
    /\ work \in [Tasks -> [Subtasks -> SubtaskStatuses]]
    /\ assigned \subseteq Tasks /\ planned \subseteq Tasks /\ waiting \subseteq Tasks
    /\ avail \in [Providers -> Availabilities] /\ cooling \subseteq Providers
    /\ pc \in Points /\ cur \in Tasks \cup {None} /\ sub \in Subtasks \cup {None}
    /\ todo \subseteq Providers /\ origin \in {"new", "old"}
    /\ mem \in SubtaskStatuses
    /\ approved \subseteq Tasks /\ orphans \subseteq Tasks
    /\ disturbed \in 0..MaxDisturbances
    /\ pc = "idle" => cur = None
    /\ pc # "idle" => cur \in Tasks

\* With approval_mode plan_review no subtask of a task that is not autonomous is
\* executed before a person approved its plan, and after an edit of a PENDING
\* task not before a person approved it again (run_once, approve-plan, edit-plan)
ReviewedBeforeRun ==
    pc = "run" /\ NeedsReview(cur) => cur \in approved

\* A task is reported COMPLETED only with a plan all of whose subtasks are, and
\* the subtasks they depend on too, through failures of other providers,
\* amendments, pauses and kills (_check_and_complete_task)
CompletedIsWhole ==
    \A t \in Tasks : status[t] = "COMPLETED" =>
        /\ Active(t) # {} /\ Closed(Active(t))
        /\ \A s \in Active(t) : work[t][s] = "COMPLETED"

\* A task stays locked only while it is run, or if the process died then: each
\* other way out of run_once unlocks it (the finally clause of run_once)
LockFollowsRun == assigned \subseteq {cur} \cup orphans

\* A task comes to rest, ended or waiting for a person, whatever disturbances
\* occur in it and in the older tasks that are served first; only a task that
\* was being run when the process died never does
Resting(t) == status[t] \in {"COMPLETED", "FAILED", "REJECTED", "PLAN_REVIEW", "PLAN_PROPOSED"}
TasksRest == \A t \in Tasks : <>[](Resting(t) \/ t \in orphans)
=============================================================================
