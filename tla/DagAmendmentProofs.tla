------------------------- MODULE DagAmendmentProofs -------------------------
(***************************************************************************)
(* Proofs about DagAmendment for any plan, any proposals and any limits.   *)
(* The heart is SameOutcome: for a proposal with fresh ids apply_amendment *)
(* makes exactly the plan the guard checked, although the two apply the    *)
(* parts of a proposal in different orders.                                *)
(***************************************************************************)
EXTENDS DagAmendment, FiniteSetTheorems, TLAPS

LEMMA LinksDomain ==
  ASSUME NEW links \in Links
  PROVE  /\ DOMAIN links \subseteq Ids
         /\ links \in [DOMAIN links -> SUBSET Ids]
BY DEF Links

LEMMA RetireType ==
  ASSUME NEW pl \in PlanType, NEW S, NEW status \in SubtaskStatus
  PROVE  Retire(pl, S, status) \in PlanType
BY DEF Retire, PlanType

LEMMA RelinkType ==
  ASSUME NEW pl \in PlanType, NEW links \in Links
  PROVE  Relink(pl, links) \in PlanType
BY LinksDomain DEF Relink, PlanType

LEMMA EnterType ==
  ASSUME NEW pl \in PlanType, NEW links \in Links
  PROVE  Enter(pl, links) \in PlanType
BY LinksDomain DEF Enter, PlanType, SubtaskStatus

LEMMA PartOfLinks ==
  ASSUME NEW links \in Links, NEW D \in SUBSET DOMAIN links
  PROVE  [s \in D |-> links[s]] \in Links
BY LinksDomain DEF Links

LEMMA ProposalParts ==
  ASSUME NEW p \in ProposalType
  PROVE  /\ p.inv \in SUBSET Ids /\ p.drops \in SUBSET Ids
         /\ p.reps \in Links /\ p.adds \in Links /\ p.updates \in Links
BY DEF ProposalType

LEMMA AmendedType ==
  ASSUME NEW pl \in PlanType, NEW p \in ProposalType
  PROVE  Amended(p, pl) \in PlanType
<1> USE ProposalParts
<1>1. Replaced(p, pl) \in PlanType
  BY RetireType, EnterType, PartOfLinks DEF Replaced, OnlyNew, SubtaskStatus, Retired
<1>2. Trimmed(p, pl) \in PlanType
  BY <1>1, RetireType DEF Trimmed, SubtaskStatus, Retired
<1>3. Relinked(p, pl) \in PlanType
  BY <1>2, RelinkType, PartOfLinks DEF Relinked, OnlyKnown
<1> QED
  BY <1>3, EnterType, PartOfLinks DEF Amended, OnlyNew

LEMMA ApprovedType ==
  ASSUME NEW pl \in PlanType, NEW p \in ProposalType
  PROVE  Approved(p, pl) \in PlanType
BY AmendedType, RelinkType, PartOfLinks, ProposalParts DEF Approved, OnlyKnown

\* With fresh ids the plan becomes what the guard checked.
LEMMA SameOutcome ==
  ASSUME NEW pl \in PlanType, NEW p \in ProposalType, Fresh(p, pl), GuardAccepts(p, pl)
  PROVE  Amended(p, pl) = Simulated(p, pl)
<1> USE ProposalParts
<1>1. p.inv \subseteq Known(pl) /\ p.drops \subseteq Known(Superseded(p, pl))
  BY DEF GuardAccepts, InvalidationsAllowed, TargetsExist
<1> DEFINE retired == Retire(pl, p.inv, "SUPERSEDED")
<1>2. Known(retired) = Known(pl)
  BY <1>1 DEF Known, Retire, PlanType
<1>3. OnlyNew(retired, p.reps) = p.reps
  BY <1>2, LinksDomain DEF OnlyNew, Fresh, Links
<1>4. Replaced(p, pl) = Superseded(p, pl)
  BY <1>1, <1>3 DEF Replaced, Superseded
<1>5. Trimmed(p, pl) = Pruned(p, pl)
  BY <1>1, <1>4 DEF Trimmed, Pruned
<1>6. Known(Pruned(p, pl)) = Known(pl) \cup DOMAIN p.reps
  BY <1>1, <1>2, LinksDomain DEF Pruned, Superseded, Known, Retire, Enter, PlanType
<1>7. OnlyKnown(Pruned(p, pl), p.updates) = p.updates
  BY <1>6, LinksDomain DEF OnlyKnown, Fresh, Links
<1>8. Relinked(p, pl) = Relink(Pruned(p, pl), p.updates)
  BY <1>5, <1>7 DEF Relinked
<1>9. Known(Relinked(p, pl)) = Known(Pruned(p, pl))
  BY <1>8 DEF Relink, Known
<1>10. OnlyNew(Relinked(p, pl), p.adds) = p.adds
  BY <1>6, <1>9, LinksDomain DEF OnlyNew, Fresh, Links
<1>11. Amended(p, pl) = Enter(Relink(Pruned(p, pl), p.updates), p.adds)
  BY <1>8, <1>10 DEF Amended
<1>12. DOMAIN p.adds \cap DOMAIN p.updates = {}
  BY DEF Fresh
<1> QED
  BY <1>11, <1>12 DEF Simulated, Extended, Enter, Relink

-----------------------------------------------------------------------------
(* Types and budgets. *)

\* What waits for the user is what the guard accepted, and the budget still has room for it.
StoredFits ==
  task = "PLAN_PROPOSED" =>
    /\ stored \in ProposalType
    /\ amendments < MaxAmendments
    /\ added + Cardinality(DOMAIN stored.adds) <= MaxAdditions
    /\ Cardinality(DOMAIN stored.adds) \in Nat
    /\ \A s \in stored.inv : invalidated[s] < MaxInvalidations

TypeInv == TypeOK /\ StoredFits

\* What a proposal adds can be counted.
LEMMA AddsAreCounted ==
  ASSUME NEW p \in ProposalType, IsFiniteSet(Ids)
  PROVE  Cardinality(DOMAIN p.adds) \in Nat
BY FS_Subset, FS_CardinalityType, ProposalParts, LinksDomain

LEMMA ReadType ==
  ASSUME NEW p \in ProposalType
  PROVE  AsRead(p) \in ProposalType /\ AsRead(p).adds = p.adds /\ AsRead(p).inv \subseteq p.inv
<1>1. Nothing \in Links
  BY DEF Nothing, Links
<1> QED
  BY <1>1 DEF AsRead, ProposalType

LEMMA InitType == ASSUME Init PROVE TypeInv
BY PlanAssumption, LimitAssumption DEF Init, TypeInv, TypeOK, StoredFits, TaskStatus

LEMMA NextType ==
  ASSUME TypeInv, [Next]_vars, IsFiniteSet(Ids)
  PROVE  TypeInv'
<1> USE LimitAssumption, ProposalAssumption DEF TypeInv, TypeOK, StoredFits, TaskStatus
<1>1. ASSUME NEW s \in Ids, CompleteSubtask(s) PROVE TypeInv'
  BY <1>1 DEF CompleteSubtask, PlanType, SubtaskStatus, Selectable
<1>2. ASSUME NEW s \in Ids, FailSubtask(s) PROVE TypeInv'
  BY <1>2 DEF FailSubtask, PlanType, SubtaskStatus, Selectable
<1>3. CASE Settle
  BY <1>3 DEF Settle, Selectable
<1>4. ASSUME NEW p \in Proposals, AmendAtOnce(p) PROVE TypeInv'
  <2>1. p \in ProposalType /\ Cardinality(DOMAIN p.adds) \in Nat
    BY AddsAreCounted
  <2>2. plan' \in PlanType
    BY <1>4, <2>1, AmendedType DEF AmendAtOnce
  <2>3. amendments < MaxAmendments /\ added + Cardinality(DOMAIN p.adds) <= MaxAdditions
    BY <1>4 DEF AmendAtOnce, GuardAccepts, WithinBudget
  <2>4. \A s \in p.inv : invalidated[s] < MaxInvalidations
    BY <1>4 DEF AmendAtOnce, GuardAccepts, InvalidationsAllowed
  <2>5. invalidated' \in [Ids -> 0..MaxInvalidations]
    BY <1>4, <2>1, <2>4 DEF AmendAtOnce, Record
  <2> QED
    BY <1>4, <2>1, <2>2, <2>3, <2>5 DEF AmendAtOnce, Record
<1>5. ASSUME NEW p \in Proposals, Offer(p) PROVE TypeInv'
  <2>1. p \in ProposalType /\ Cardinality(DOMAIN p.adds) \in Nat
    BY AddsAreCounted
  <2>2. stored' \in ProposalType /\ stored'.adds = p.adds /\ stored'.inv \subseteq p.inv
    BY <1>5, <2>1, ReadType DEF Offer
  <2>3. amendments < MaxAmendments /\ added + Cardinality(DOMAIN p.adds) <= MaxAdditions
    BY <1>5 DEF Offer, GuardAccepts, WithinBudget
  <2>4. \A s \in p.inv : invalidated[s] < MaxInvalidations
    BY <1>5 DEF Offer, GuardAccepts, InvalidationsAllowed
  <2> QED
    BY <1>5, <2>1, <2>2, <2>3, <2>4 DEF Offer
<1>6. ASSUME NEW p \in Proposals, Discard(p) PROVE TypeInv'
  BY <1>6 DEF Discard
<1>7. CASE Approve
  <2>1. plan' \in PlanType
    BY <1>7, ApprovedType DEF Approve
  <2>2. invalidated' \in [Ids -> 0..MaxInvalidations]
    BY <1>7 DEF Approve, Record
  <2> QED
    BY <1>7, <2>1, <2>2 DEF Approve, Record
<1>8. CASE Reject
  BY <1>8 DEF Reject
<1>9. CASE UNCHANGED vars
  BY <1>9 DEF vars
<1> QED
  BY <1>1, <1>2, <1>3, <1>4, <1>5, <1>6, <1>7, <1>8, <1>9 DEF Next

\* The counters of amendments, additions and invalidations never pass the limits of the guard,
\* also when the user approves a proposal long after the guard accepted it.
THEOREM BudgetsHold == ASSUME IsFiniteSet(Ids) PROVE Spec => []TypeOK
<1>1. Init => TypeInv
  BY InitType
<1>2. TypeInv /\ [Next]_vars => TypeInv'
  BY NextType
<1>3. TypeInv => TypeOK
  BY DEF TypeInv
<1> QED
  BY <1>1, <1>2, <1>3, PTL DEF Spec
-----------------------------------------------------------------------------
(* The plan stays a DAG. *)

LEMMA StatusDoesNotMatter ==
  ASSUME NEW pl, NEW ql, Active(ql) = Active(pl), ql.deps = pl.deps, IsDag(pl)
  PROVE  IsDag(ql)
BY DEF IsDag

LEMMA NextDag ==
  ASSUME TypeInv, ActivePlanIsDag, [Next]_vars
  PROVE  ActivePlanIsDag'
<1> SUFFICES ASSUME ~mode.autonomous \/ mode.freshIds, IsDag(plan) PROVE IsDag(plan)'
  BY DEF ActivePlanIsDag, Next, vars, CompleteSubtask, FailSubtask, Settle, AmendAtOnce, Offer, Discard,
         Approve, Reject
<1> plan \in PlanType
  BY DEF TypeInv, TypeOK
<1>1. ASSUME NEW s \in Ids, CompleteSubtask(s) \/ FailSubtask(s) PROVE IsDag(plan)'
  <2>1. Active(plan') = Active(plan) /\ plan'.deps = plan.deps
    BY <1>1 DEF CompleteSubtask, FailSubtask, Runnable, Active, Known, Retired, PlanType
  <2> QED
    BY <2>1, StatusDoesNotMatter
<1>2. ASSUME NEW p \in Proposals, AmendAtOnce(p) PROVE IsDag(plan)'
  <2>1. p \in ProposalType /\ Fresh(p, plan) /\ GuardAccepts(p, plan) /\ plan' = Amended(p, plan)
    BY <1>2, ProposalAssumption DEF AmendAtOnce, MayPropose
  <2>2. plan' = Simulated(p, plan)
    BY <2>1, SameOutcome
  <2> QED
    BY <2>1, <2>2 DEF GuardAccepts, ResultIsValid
<1>3. CASE Approve
  BY <1>3 DEF Approve
<1>4. CASE UNCHANGED plan
  BY <1>4
<1> QED
  BY <1>1, <1>2, <1>3, <1>4 DEF Next, vars, Settle, Offer, Discard, Reject

\* As long as providers use fresh ids, or amendments go through the user, every amended plan is
\* a DAG of active subtasks again.
THEOREM PlanStaysDag == ASSUME IsFiniteSet(Ids) PROVE Spec => []ActivePlanIsDag
<1>1. Init => TypeInv /\ ActivePlanIsDag
  BY InitType, PlanAssumption DEF Init, ActivePlanIsDag
<1>2. TypeInv /\ ActivePlanIsDag /\ [Next]_vars => TypeInv' /\ ActivePlanIsDag'
  BY NextType, NextDag
<1> QED
  BY <1>1, <1>2, PTL DEF Spec

-----------------------------------------------------------------------------
(* The size of the plan. *)

\* With fresh ids or without, apply_amendment makes no subtask active that the guard did not count.
LEMMA NothingUncounted ==
  ASSUME NEW pl \in PlanType, NEW p \in ProposalType
  PROVE  Active(Amended(p, pl)) \subseteq Active(Simulated(p, pl))
<1> USE ProposalParts, LinksDomain DEF Active, Known, Retired, PlanType, Retire, Enter, Relink
<1>1. Active(Replaced(p, pl)) \subseteq Active(Superseded(p, pl))
  BY DEF Replaced, Superseded, OnlyNew
<1>2. Active(Trimmed(p, pl)) \subseteq Active(Pruned(p, pl))
  BY <1>1 DEF Trimmed, Pruned
<1>3. Active(Relinked(p, pl)) = Active(Trimmed(p, pl))
  BY DEF Relinked
<1>4. Active(Amended(p, pl)) \subseteq Active(Relinked(p, pl)) \cup DOMAIN p.adds
  BY DEF Amended, OnlyNew
<1>5. Active(Extended(p, pl)) = (Active(Pruned(p, pl)) \cup DOMAIN p.adds) \cap Ids
  BY DEF Extended
<1>6. Active(Simulated(p, pl)) = Active(Extended(p, pl))
  BY DEF Simulated
<1> QED
  BY <1>2, <1>3, <1>4, <1>5, <1>6

\* An autonomous task never has more active subtasks than the limit its first plan kept to.
THEOREM LimitHolds ==
  ASSUME IsFiniteSet(Ids), Cardinality(Active(InitialPlan)) <= MaxTotal
  PROVE  Spec => []ActiveWithinLimit
<1> DEFINE Unattended == mode.autonomous => task # "PLAN_PROPOSED"
           Inv == TypeInv /\ Unattended /\ ActiveWithinLimit
<1>1. Init => Inv
  BY InitType DEF Init, ActiveWithinLimit
<1>2. Inv /\ [Next]_vars => Inv'
  <2> SUFFICES ASSUME Inv, [Next]_vars PROVE Inv'
    OBVIOUS
  <2> plan \in PlanType
    BY DEF TypeInv, TypeOK
  <2>1. TypeInv' /\ mode' = mode
    BY NextType DEF Next, vars, CompleteSubtask, FailSubtask, Settle, AmendAtOnce, Offer, Discard, Approve, Reject
  <2>2. ASSUME NEW s \in Ids, CompleteSubtask(s) \/ FailSubtask(s)
        PROVE  Unattended' /\ ActiveWithinLimit'
    <3>1. Active(plan') = Active(plan)
      BY <2>2 DEF CompleteSubtask, FailSubtask, Runnable, Active, Known, Retired, PlanType
    <3> QED
      BY <2>1, <2>2, <3>1 DEF CompleteSubtask, FailSubtask, ActiveWithinLimit
  <2>3. ASSUME NEW p \in Proposals, AmendAtOnce(p)
        PROVE  Unattended' /\ ActiveWithinLimit'
    <3>1. p \in ProposalType /\ GuardAccepts(p, plan) /\ plan' = Amended(p, plan)
      BY <2>3, ProposalAssumption DEF AmendAtOnce, MayPropose
    <3>2. Active(plan') \subseteq Active(Simulated(p, plan))
      BY <3>1, NothingUncounted
    <3>3. IsFiniteSet(Active(Simulated(p, plan)))
      BY FS_Subset DEF Active, Known
    <3>4. /\ Cardinality(Active(plan')) <= Cardinality(Active(Simulated(p, plan)))
          /\ Cardinality(Active(plan')) \in Nat
          /\ Cardinality(Active(Simulated(p, plan))) \in Nat
      BY <3>2, <3>3, FS_Subset, FS_CardinalityType
    <3>5. Cardinality(Active(Simulated(p, plan))) <= MaxTotal
      BY <3>1 DEF GuardAccepts, ResultIsValid
    <3> QED
      BY <2>3, <3>4, <3>5, LimitAssumption DEF ActiveWithinLimit, AmendAtOnce
  <2>4. ASSUME UNCHANGED plan, task' \in {task, "PAUSED", "COMPLETED"}
        PROVE  Unattended' /\ ActiveWithinLimit'
    BY <2>1, <2>4 DEF ActiveWithinLimit
  <2>5. ASSUME ~mode.autonomous PROVE Unattended' /\ ActiveWithinLimit'
    BY <2>1, <2>5 DEF ActiveWithinLimit
  <2>6. mode.autonomous => ~Approve /\ ~Reject /\ \A p \in Proposals : ~Offer(p)
    BY DEF Approve, Reject, Offer
  <2>7. Settle \/ (\E p \in Proposals : Discard(p)) \/ UNCHANGED vars
          => UNCHANGED plan /\ task' \in {task, "PAUSED", "COMPLETED"}
    BY DEF Settle, Discard, vars
  <2> QED
    BY <2>1, <2>2, <2>3, <2>4, <2>5, <2>6, <2>7 DEF Next
<1> QED
  BY <1>1, <1>2, PTL DEF Spec
-----------------------------------------------------------------------------
(* History. *)

LEMMA AmendedKeepsRetired ==
  ASSUME NEW pl \in PlanType, NEW p \in ProposalType, NEW s \in Ids, pl.st[s] \in Retired
  PROVE  Amended(p, pl).st[s] \in Retired
<1> USE ProposalParts, LinksDomain
<1>1. s \in Known(pl)
  BY DEF Known, Retired
<1>2. Replaced(p, pl).st[s] \in Retired
  BY <1>1 DEF Replaced, Retire, Enter, OnlyNew, Known, Retired
<1>3. Trimmed(p, pl).st[s] \in Retired
  BY <1>2 DEF Trimmed, Retire, Retired
<1>4. Relinked(p, pl).st[s] \in Retired
  BY <1>3 DEF Relinked, Relink
<1>5. s \in Known(Relinked(p, pl))
  BY <1>4 DEF Known, Retired
<1> QED
  BY <1>4, <1>5 DEF Amended, Enter, OnlyNew

\* No amendment brings a superseded or pruned subtask back, whatever ids a proposal names.
THEOREM HistoryIsKept == ASSUME IsFiniteSet(Ids) PROVE Spec => RetiredStaysRetired
<1>1. Init => TypeInv
  BY InitType
<1>2. TypeInv /\ [Next]_vars => TypeInv'
  BY NextType
<1>3. TypeInv /\ [Next]_vars => [(\A s \in Ids : plan.st[s] \in Retired => plan'.st[s] \in Retired)]_vars
  <2> SUFFICES ASSUME TypeInv, [Next]_vars, NEW s \in Ids, plan.st[s] \in Retired
               PROVE  plan'.st[s] \in Retired
    OBVIOUS
  <2> plan \in PlanType
    BY DEF TypeInv, TypeOK
  <2>1. ASSUME NEW t \in Ids, CompleteSubtask(t) \/ FailSubtask(t) PROVE plan'.st[s] \in Retired
    BY <2>1 DEF CompleteSubtask, FailSubtask, Runnable, Active, Retired, PlanType
  <2>2. ASSUME NEW p \in Proposals, AmendAtOnce(p) PROVE plan'.st[s] \in Retired
    BY <2>2, ProposalAssumption, AmendedKeepsRetired DEF AmendAtOnce
  <2>3. CASE Approve
    BY <2>3, AmendedKeepsRetired DEF Approve, Approved, Relink, TypeInv, StoredFits
  <2>4. CASE UNCHANGED plan
    BY <2>4
  <2> QED
    BY <2>1, <2>2, <2>3, <2>4 DEF Next, vars, Settle, Offer, Discard, Reject
<1> QED
  BY <1>1, <1>2, <1>3, PTL DEF Spec, RetiredStaysRetired
=============================================================================
