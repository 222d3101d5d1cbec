------------------------- MODULE ValidationLifecycle -------------------------
(***************************************************************************)
(* The history of validation attempts and what may be concluded from it     *)
(* (local_agent/validation_lifecycle.py): records, the bounded store, its   *)
(* file, the statistics and the advisory recommendation.                    *)
(*                                                                         *)
(* Names, times, notes and the text of diagnostics are left out; a defect   *)
(* signature is a value equal for equal defects.  A Wilson bound is compared *)
(* with a threshold in integers: the bound is the root of                   *)
(* (p - x)^2 = z^2 * x * (1 - x) / n.                                       *)
(***************************************************************************)
EXTENDS Integers, Sequences, FiniteSets, SequencesExt

CONSTANTS
    DefectOrder,        \* the defect signatures there are, sorted
    NoDefect,           \* no signature, or an empty one
    MaxLifecycles,      \* lifecycles the store keeps
    MaxIterations,      \* iterations a lifecycle keeps
    MinResolved,        \* resolved lifecycles below which nothing is concluded
    TopDefects,         \* recurring defects the statistics list
    ZSquared            \* z^2 of the Wilson interval, in ten-thousandths (38416 in the code)

ASSUME LifecycleAssumption ==
    /\ {MaxLifecycles, MaxIterations, MinResolved} \subseteq Nat \ {0}
    /\ {TopDefects, ZSquared} \subseteq Nat
    /\ NoDefect \notin ToSet(DefectOrder)

-----------------------------------------------------------------------------
(* States of a lifecycle.                                                  *)

Terminal == {"completed", "abandoned", "failed"}
Working == {"created", "candidate_generated", "validated", "approved", "applied",
            "post_validated", "repair_required", "repaired"}
Allowed ==
    [ s \in Working |->
        {"abandoned", "failed"} \cup
        (CASE s = "created" -> {"candidate_generated"}
          [] s = "candidate_generated" -> {"validated", "repair_required"}
          [] s = "validated" -> {"approved", "repair_required"}
          [] s = "approved" -> {"applied"}
          [] s = "applied" -> {"post_validated", "repair_required"}
          [] s = "post_validated" -> {"completed", "repair_required"}
          [] s = "repair_required" -> {"repaired"}
          [] s = "repaired" -> {"candidate_generated", "completed"}) ]
CanTransition(from, to) == from \in DOMAIN Allowed /\ to \in Allowed[from]

\* safest_scope: the broadest; a name that is not known counts as the broadest
ScopeOrder == <<"targeted", "expanded", "broad">>
SafestScope(S) ==
    IF S \subseteq ToSet(ScopeOrder)
      THEN ScopeOrder[CHOOSE i \in 1..3 :
             ScopeOrder[i] \in S /\ \A j \in 1..3 : ScopeOrder[j] \in S => j <= i]
      ELSE "broad"

-----------------------------------------------------------------------------
(* Records.                                                                *)

\* An iteration: its place, what it was made for, and how its validation ended
Iteration(id, number, parent, kind, result, stage, defect) ==
    [id |-> id, number |-> number, parent |-> parent, kind |-> kind,
     result |-> result, stage |-> stage, defect |-> defect]
NoParent == <<>>
NewLifecycle(id) == [id |-> id, state |-> "created", iterations |-> <<>>]
\* What is left of a record that is not an object any more
Broken == [id |-> NoParent, state |-> "broken", iterations |-> <<>>]

KeepNewest(s, n) == IF Len(s) > n THEN SubSeq(s, Len(s) - n + 1, Len(s)) ELSE s
\* add_iteration: the oldest make room
AddIteration(record, it) ==
    [record EXCEPT !.iterations = KeepNewest(Append(@, it), MaxIterations)]

IterationIds(record) == { record.iterations[k].id : k \in DOMAIN record.iterations }
Repairs(record) == { k \in DOMAIN record.iterations : record.iterations[k].kind = "repair" }
Caught(record, d) == { k \in DOMAIN record.iterations : record.iterations[k].defect = d }
Recurring(record) ==
    { d \in ToSet(DefectOrder) : Cardinality(Caught(record, d)) > 1 }

\* repair_chain: an iteration and the kept ancestors that led to it, root first; a
\* visited one ends the walk, and so does one that is no longer kept
RepairChain(record, id) ==
    LET its == record.iterations
        at(i) == { k \in DOMAIN its : its[k].id = i }
        walk[n \in 0..Len(its)] ==
          IF n = 0 THEN SetToSeq(at(id))
          ELSE LET w == walk[n - 1]
                   next == IF w = <<>> THEN {} ELSE at(its[Head(w)].parent) \ ToSet(w)
               IN SetToSeq(next) \o w
    IN [ k \in DOMAIN walk[Len(its)] |-> its[walk[Len(its)][k]] ]

-----------------------------------------------------------------------------
(* The store and its file.                                                 *)

EmptyHistory == [corrupt |-> FALSE, records |-> <<>>]
Places(store, id) == { k \in DOMAIN store.records : store.records[k].id = id }
Find(store, id) ==
    { store.records[k] : k \in { i \in Places(store, id) : \A j \in Places(store, id) : j <= i } }

\* record: in its place, or at the end, where the oldest makes room
Record(store, r) ==
    IF Places(store, r.id) # {}
      THEN LET k == CHOOSE k \in Places(store, r.id) : \A j \in Places(store, r.id) : k <= j
           IN [store EXCEPT !.records[k] = r]
      ELSE [store EXCEPT !.records = KeepNewest(Append(@, r), MaxLifecycles)]

\* A file is missing, is not JSON, or holds a store, some of whose records may be
\* broken: load_validation_lifecycle and from_dict
NoFile == [form |-> "missing", store |-> EmptyHistory]
NotJson == [form |-> "malformed", store |-> EmptyHistory]
FileOf(store) == [form |-> "json", store |-> store]
\* Mutant: a broken record is dropped and nothing remembers it
LoadDropsSilently(file) ==
    [corrupt |-> file.form = "malformed" \/ file.store.corrupt,
     records |-> SelectSeq(file.store.records, LAMBDA r : r # Broken)]
IsDamaged(records) == \E k \in DOMAIN records : records[k] = Broken
\* The records that are still objects, in their order
Readable(records) ==
    LET upTo[n \in 0..Len(records)] ==
          IF n = 0 THEN <<>>
          ELSE IF records[n] = Broken THEN upTo[n - 1] ELSE Append(upTo[n - 1], records[n])
    IN upTo[Len(records)]
Load(file) ==
    [corrupt |-> file.form = "malformed" \/ file.store.corrupt \/ IsDamaged(file.store.records),
     records |-> Readable(file.store.records)]

-----------------------------------------------------------------------------
(* What the history says: compute_repair_effectiveness.                    *)

\* wilson_bounds: p = s/n, the threshold x = k/100; no trial says nothing
OffSquared(s, n, k) == 10000 * (100 * s - k * n) * (100 * s - k * n)
Spread(n, k) == ZSquared * k * (100 - k) * n
LowerAtLeast(s, n, k) == n > 0 /\ 100 * s >= k * n /\ OffSquared(s, n, k) >= Spread(n, k)
UpperAbove(s, n, k) == n = 0 \/ 100 * s > k * n \/ OffSquared(s, n, k) < Spread(n, k)

InState(store, S) == { k \in DOMAIN store.records : store.records[k].state \in S }
FirstPass(store) ==
    { k \in InState(store, {"completed"}) : Repairs(store.records[k]) = {} }
Occurrences(store, d) ==
    { x \in (DOMAIN store.records) \X (1..MaxIterations) :
        x[2] \in Caught(store.records[x[1]], d) }
\* The defects that occur most, the first TopDefects of them
RankOf(d) == CHOOSE i \in DOMAIN DefectOrder : DefectOrder[i] = d
MoreOften(store, d) ==
    { e \in ToSet(DefectOrder) :
        \/ Cardinality(Occurrences(store, e)) > Cardinality(Occurrences(store, d))
        \/ /\ Cardinality(Occurrences(store, e)) = Cardinality(Occurrences(store, d))
           /\ RankOf(e) < RankOf(d) }
TopRecurring(store) ==
    { d \in ToSet(DefectOrder) :
        Occurrences(store, d) # {} /\ Cardinality(MoreOften(store, d)) < TopDefects }
CaughtAt(store, stages) ==
    { x \in (DOMAIN store.records) \X (1..MaxIterations) :
        LET its == store.records[x[1]].iterations
        IN x[2] \in DOMAIN its /\ its[x[2]].result = "failed" /\ its[x[2]].stage \in stages }

Effectiveness(store) ==
    [resolved |-> Cardinality(InState(store, Terminal)),
     firstPass |-> Cardinality(FirstPass(store)),
     abandoned |-> Cardinality(InState(store, {"abandoned"})),
     repeated |-> Cardinality({ k \in DOMAIN store.records : Recurring(store.records[k]) # {} }),
     lifecycles |-> Len(store.records),
     top |-> TopRecurring(store),
     early |-> Cardinality(CaughtAt(store, {"candidate"})),
     late |-> Cardinality(CaughtAt(store, {"post_apply", "broad"})),
     trustworthy |-> ~store.corrupt]

-----------------------------------------------------------------------------
(* AdaptiveValidationRecommender.recommend: the floor only ever rises, and  *)
(* the effective scope is never below it.                                   *)

Floor(store, m, floor, degraded, recent) ==
    SafestScope({floor} \cup
        (IF \/ degraded \/ ~m.trustworthy
            \/ \E d \in recent \cap m.top : Cardinality(Occurrences(store, d)) > 1
           THEN {"broad"} ELSE {}))
Suggestion(m, floor) ==
    CASE m.resolved < MinResolved \/ ~m.trustworthy -> floor
      [] UpperAbove(m.repeated, m.lifecycles, 25) \/ UpperAbove(m.abandoned, m.resolved, 50) ->
           SafestScope({floor, "expanded"})
      [] LowerAtLeast(m.firstPass, m.resolved, 90) /\ m.early >= m.late -> "targeted"
      [] OTHER -> floor
RecommendScope(store, floor, degraded, recent) ==
    LET m == Effectiveness(store)
        low == Floor(store, m, floor, degraded, recent)
    IN [recommended |-> Suggestion(m, low), floor |-> low,
        effective |-> SafestScope({Suggestion(m, low), low})]
=============================================================================
