---------------------------- MODULE DagAmendment ----------------------------
(***************************************************************************)
(* How the plan of a task changes while it runs.  After a failed run the   *)
(* provider may propose to add, remove, replace or relink subtasks.        *)
(* DAGAmendmentGuard.evaluate (models.py) simulates the proposal on a copy *)
(* of the plan and accepts or rejects it; TaskPlan.apply_amendment changes *)
(* the plan itself.  An autonomous task is amended at once (scheduler.py), *)
(* any other task waits in PLAN_PROPOSED, its proposal stored with the     *)
(* task, until the user approves or rejects it (cli.py).                   *)
(*                                                                         *)
(* A plan is a status and a set of dependencies per subtask id; ids that   *)
(* are not in the plan have status "absent".  Retired subtasks (SUPERSEDED *)
(* or PRUNED) stay in the plan but are not active.                         *)
(***************************************************************************)
EXTENDS Naturals, FiniteSets

CONSTANTS
  Ids,               \* subtask ids
  InitialPlan,       \* the plan Planner.create_task_plan made
  Proposals,         \* what a provider may propose, a subset of ProposalType
  Modes,             \* the combinations of autonomous and freshIds to consider
  MaxAmendments,     \* config.max_dag_amendments
  MaxAdditions,      \* config.max_subtask_additions
  MaxTotal,          \* config.max_total_subtasks
  MaxInvalidations,  \* config.max_subtask_invalidations_per_node
  NoProposal         \* no proposal is stored

Retired == {"SUPERSEDED", "PRUNED"}
SubtaskStatus == {"absent", "PENDING", "COMPLETED", "FAILED"} \cup Retired
TaskStatus == {"PENDING", "PAUSED", "PLAN_PROPOSED", "COMPLETED", "FAILED"}

PlanType == [st : [Ids -> SubtaskStatus], deps : [Ids -> SUBSET Ids]]

\* Subtasks given by id with their dependencies: the additions, replacements or updates of a proposal.
Links == UNION {[D -> SUBSET Ids] : D \in SUBSET Ids}
Nothing == [s \in {} |-> {}]

\* A DAGProposal; kind tells whether the provider returned it as a DAGProposal or as the older
\* PlanProposal (additions and modifications only).  It has at most one invalidation.
ProposalType ==
  [kind : {"dag", "plan"}, inv : SUBSET Ids, reps : Links, drops : SUBSET Ids, adds : Links, updates : Links]

Known(pl) == {s \in Ids : pl.st[s] # "absent"}
Active(pl) == {s \in Known(pl) : pl.st[s] \notin Retired}

\* Every nonempty set of nodes has a member that depends on none of them.
Acyclic(nodes, deps) == \A S \in SUBSET nodes : S # {} => \E s \in S : deps[s] \cap S = {}

\* What GraphValidator.validate asks of the active subtasks.
IsDag(pl) ==
  /\ \A s \in Active(pl) : pl.deps[s] \subseteq Active(pl) \ {s}
  /\ Acyclic(Active(pl), pl.deps)

ASSUME PlanAssumption ==
  /\ InitialPlan \in PlanType
  /\ \A s \in Known(InitialPlan) : InitialPlan.st[s] = "PENDING"
  /\ IsDag(InitialPlan)
  /\ Active(InitialPlan) # {}

ASSUME ProposalAssumption ==
  /\ Proposals \subseteq ProposalType
  /\ \A p \in Proposals : /\ Cardinality(p.inv) <= 1 /\ Cardinality(DOMAIN p.reps) <= 1
                          /\ p.inv = {} => p.reps = Nothing
                          /\ p.kind = "plan" => p.inv = {} /\ p.drops = {}
  /\ NoProposal \notin ProposalType

ASSUME LimitAssumption ==
  /\ {MaxAmendments, MaxAdditions, MaxTotal, MaxInvalidations} \subseteq Nat
  /\ Modes \subseteq [autonomous : BOOLEAN, freshIds : BOOLEAN]

VARIABLES
  mode,         \* Task.autonomous, and whether providers use new ids for new subtasks and relink
                \* only subtasks the plan has; both fixed for the life of the task
  plan,         \* Task.plan
  amendments,   \* len(plan.amendments)
  added,        \* additions of all recorded amendments
  invalidated,  \* invalidations of each subtask in all recorded amendments
  task,         \* Task.status
  stored,       \* Task.plan_proposal as it is read back from the task file
  offered       \* the proposal the guard accepted and the user was told about (observation)

vars == <<mode, plan, amendments, added, invalidated, task, stored, offered>>

-----------------------------------------------------------------------------
(* Changing a plan. *)

Retire(pl, S, status) ==
  [st |-> [s \in Ids |-> IF s \in S THEN status ELSE pl.st[s]], deps |-> pl.deps]

Relink(pl, links) ==
  [st |-> pl.st, deps |-> [s \in Ids |-> IF s \in DOMAIN links THEN links[s] ELSE pl.deps[s]]]

Enter(pl, links) ==
  [st   |-> [s \in Ids |-> IF s \in DOMAIN links THEN "PENDING" ELSE pl.st[s]],
   deps |-> [s \in Ids |-> IF s \in DOMAIN links THEN links[s] ELSE pl.deps[s]]]

OnlyNew(pl, links) == [s \in DOMAIN links \ Known(pl) |-> links[s]]
OnlyKnown(pl, links) == [s \in DOMAIN links \cap Known(pl) |-> links[s]]

\* The copy the guard works on: replacements and additions overwrite a retired subtask of the same
\* id, and dependency updates come last.
Superseded(p, pl) == Enter(Retire(pl, p.inv, "SUPERSEDED"), p.reps)
Pruned(p, pl) == Retire(Superseded(p, pl), p.drops, "PRUNED")
Extended(p, pl) == Enter(Pruned(p, pl), p.adds)
Simulated(p, pl) == Relink(Extended(p, pl), p.updates)

\* The plan itself: an id the plan knows is never entered again, and dependency updates come before
\* the additions.
Replaced(p, pl) ==
  LET retired == Retire(pl, p.inv \cap Known(pl), "SUPERSEDED") IN Enter(retired, OnlyNew(retired, p.reps))
Trimmed(p, pl) == LET r == Replaced(p, pl) IN Retire(r, p.drops \cap Known(r), "PRUNED")
Relinked(p, pl) == LET t == Trimmed(p, pl) IN Relink(t, OnlyKnown(t, p.updates))
AmendedOverwriting(p, pl) == Enter(Relinked(p, pl), p.adds)                           \* mutant
Amended(p, pl) == LET r == Relinked(p, pl) IN Enter(r, OnlyNew(r, p.adds))

IsEmpty(p) == p.inv = {} /\ p.drops = {} /\ DOMAIN p.adds = {} /\ DOMAIN p.updates = {}

\* DAGAmendmentGuard.evaluate, in the order of its checks.
WithinBudget(p) == amendments < MaxAmendments /\ added + Cardinality(DOMAIN p.adds) <= MaxAdditions

InvalidationsAllowed(p, pl) ==
  /\ \A s \in p.inv : s \in Known(pl) /\ invalidated[s] < MaxInvalidations
  /\ DOMAIN p.reps \cap Active(Retire(pl, p.inv, "SUPERSEDED")) = {}

TargetsExist(p, pl) ==
  /\ p.drops \subseteq Known(Superseded(p, pl))
  /\ DOMAIN p.adds \cap Active(Pruned(p, pl)) = {}
  /\ DOMAIN p.updates \subseteq Active(Extended(p, pl))
  /\ p.kind = "plan" => DOMAIN p.updates \subseteq Known(pl)

ResultHasNoCycle(p, pl) ==                                                             \* mutant
  LET sim == Simulated(p, pl)
  IN Active(sim) # {} /\ Cardinality(Active(sim)) <= MaxTotal /\ Acyclic(Active(sim), sim.deps)
ResultIsValid(p, pl) ==
  LET sim == Simulated(p, pl)
  IN Active(sim) # {} /\ Cardinality(Active(sim)) <= MaxTotal /\ IsDag(sim)

GuardAccepts(p, pl) ==
  /\ ~IsEmpty(p)
  /\ WithinBudget(p)
  /\ InvalidationsAllowed(p, pl)
  /\ TargetsExist(p, pl)
  /\ ResultIsValid(p, pl)

\* Task.from_dict reads every stored proposal as a PlanProposal, which has additions and
\* modifications only; the other parts of a DAGProposal are gone.
AsRead(p) == IF p.kind = "plan" THEN p
             ELSE [p EXCEPT !.inv = {}, !.reps = Nothing, !.drops = {}, !.updates = Nothing]

Fresh(p, pl) ==
  /\ (DOMAIN p.adds \cup DOMAIN p.reps) \cap Known(pl) = {}
  /\ DOMAIN p.adds \cap DOMAIN p.reps = {}
  /\ DOMAIN p.updates \subseteq Known(pl)

Runnable == {s \in Active(plan) : /\ plan.st[s] = "PENDING"
                                  /\ \A d \in plan.deps[s] : d \in Active(plan) /\ plan.st[d] = "COMPLETED"}
AllCompleted(pl) == \A s \in Active(pl) : pl.st[s] = "COMPLETED"
Selectable == task \in {"PENDING", "PAUSED"}

-----------------------------------------------------------------------------
Init ==
  /\ mode \in Modes
  /\ plan = InitialPlan
  /\ amendments = 0
  /\ added = 0
  /\ invalidated = [s \in Ids |-> 0]
  /\ task = "PENDING"
  /\ stored = NoProposal
  /\ offered = NoProposal

\* apply_amendment records the proposal it applied.
Record(p) ==
  /\ amendments' = amendments + 1
  /\ added' = added + Cardinality(DOMAIN p.adds)
  /\ invalidated' = [s \in Ids |-> invalidated[s] + IF s \in p.inv THEN 1 ELSE 0]

\* A run of the orchestrator completes the subtask; the task too when it was the last one.
CompleteSubtask(s) ==
  /\ Selectable
  /\ s \in Runnable
  /\ plan' = [plan EXCEPT !.st[s] = "COMPLETED"]
  /\ task' = IF AllCompleted(plan') THEN "COMPLETED" ELSE "PENDING"
  /\ UNCHANGED <<mode, amendments, added, invalidated, stored, offered>>

\* A run fails for good, with every provider.
FailSubtask(s) ==
  /\ Selectable
  /\ s \in Runnable
  /\ plan' = [plan EXCEPT !.st[s] = "FAILED"]
  /\ task' = "FAILED"
  /\ UNCHANGED <<mode, amendments, added, invalidated, stored, offered>>

\* run_once finds no runnable subtask: _check_and_complete_task.
Settle ==
  /\ Selectable
  /\ Runnable = {}
  /\ Active(plan) # {}
  /\ AllCompleted(plan)
  /\ task' = "COMPLETED"
  /\ UNCHANGED <<mode, plan, amendments, added, invalidated, stored, offered>>

\* The run ends with a proposal (a failure the orchestrator takes for a planning problem).
MayPropose(p) ==
  /\ Selectable
  /\ Runnable # {}
  /\ mode.freshIds => Fresh(p, plan)

AmendAtOnce(p) ==
  /\ MayPropose(p)
  /\ mode.autonomous
  /\ GuardAccepts(p, plan)
  /\ plan' = Amended(p, plan)
  /\ Record(p)
  /\ task' = "PENDING"
  /\ stored' = NoProposal
  /\ UNCHANGED <<mode, offered>>

Offer(p) ==
  /\ MayPropose(p)
  /\ ~mode.autonomous
  /\ GuardAccepts(p, plan)
  /\ stored' = AsRead(p)
  /\ offered' = p
  /\ task' = "PLAN_PROPOSED"
  /\ UNCHANGED <<mode, plan, amendments, added, invalidated>>

Discard(p) ==
  /\ MayPropose(p)
  /\ ~GuardAccepts(p, plan)
  /\ task' = "PAUSED"
  /\ UNCHANGED <<mode, plan, amendments, added, invalidated, stored, offered>>

\* approve-proposal: apply what is stored, apply the modifications once more, and keep the result
\* only if GraphValidator finds no error in the active subtasks; the guard is not asked again.
Approved(p, pl) == LET r == Amended(p, pl) IN Relink(r, OnlyKnown(r, p.updates))

Approve ==
  /\ task = "PLAN_PROPOSED"
  /\ IsDag(Approved(stored, plan))
  /\ plan' = Approved(stored, plan)
  /\ Record(stored)
  /\ task' = "PENDING"
  /\ stored' = NoProposal
  /\ offered' = NoProposal
  /\ UNCHANGED mode

Reject ==
  /\ task = "PLAN_PROPOSED"
  /\ task' = "PAUSED"
  /\ stored' = NoProposal
  /\ offered' = NoProposal
  /\ UNCHANGED <<mode, plan, amendments, added, invalidated>>

Next ==
  \/ \E s \in Ids : CompleteSubtask(s) \/ FailSubtask(s)
  \/ Settle
  \/ \E p \in Proposals : AmendAtOnce(p) \/ Offer(p) \/ Discard(p)
  \/ Approve
  \/ Reject

\* The user runs the scheduler again and again, and a provider that is asked again and again for a
\* runnable subtask at some time finishes or fails it instead of proposing.
Fairness ==
  /\ WF_vars(Settle)
  /\ SF_vars(\E s \in Ids : CompleteSubtask(s) \/ FailSubtask(s))

Spec == Init /\ [][Next]_vars
FairSpec == Spec /\ Fairness

-----------------------------------------------------------------------------
(* Properties. *)

\* The types, with the budgets of the guard as bounds of the counters.
TypeOK ==
  /\ mode \in Modes
  /\ plan \in PlanType
  /\ amendments \in 0..MaxAmendments
  /\ added \in 0..MaxAdditions
  /\ invalidated \in [Ids -> 0..MaxInvalidations]
  /\ task \in TaskStatus
  /\ stored \in ProposalType \cup {NoProposal}
  /\ offered \in ProposalType \cup {NoProposal}

\* Whatever amendments were applied, the active subtasks form a DAG in which every dependency is
\* active, so that identify_runnable_subtasks can make progress (the guard checks this on a copy).
\* At an approval GraphValidator looks at the result itself; an autonomous task relies on fresh ids.
ActivePlanIsDag == ~mode.autonomous \/ mode.freshIds => IsDag(plan)

\* An autonomous task never has more active subtasks than max_total_subtasks.
ActiveWithinLimit == mode.autonomous => Cardinality(Active(plan)) <= MaxTotal

\* A superseded or pruned subtask stays in the plan as history and never becomes active again.
RetiredStaysRetired == [][(\A s \in Ids : plan.st[s] \in Retired => plan'.st[s] \in Retired)]_vars

\* approve-proposal changes the plan as the proposal the guard accepted says.
ApprovalAppliesOffer ==
  [][(task = "PLAN_PROPOSED" /\ task' = "PENDING") => plan' = Approved(offered, plan)]_vars

\* An autonomous task ends: no amendment leaves a plan whose remaining subtasks can never run.
TaskEnds == mode.autonomous /\ mode.freshIds => <>(task \in {"COMPLETED", "FAILED"})
=============================================================================
