-------------------------- MODULE ValidationLearning --------------------------
(***************************************************************************)
(* What the runs of Orchestrator record of their validation: the lifecycle   *)
(* history and the telemetry of decisions, two files that every run of a     *)
(* repository reads, changes and saves (local_agent/orchestrator.py,         *)
(* validation_lifecycle.py, validation_telemetry.py, storage.py).            *)
(*                                                                         *)
(* A manager loads the file, changes the store and saves it while it holds   *)
(* the lock that the process keeps for its project root.  Loading and saving *)
(* are two steps, so that a lock that does not cover both would show.        *)
(* Failures here never reach the run: each hook logs them and goes on.       *)
(***************************************************************************)
EXTENDS ValidationLifecycle, ValidationTelemetry

CONSTANTS
    Threads,            \* runs of Orchestrator in this process, one after another per thread
    RootOf,             \* the project root each of them works in
    ReportsOf,          \* what impact analysis may report to each of them
    NoReport,           \* before it did
    Free,               \* a lock nobody holds
    MaxRounds,          \* per thread: iterations of a run (max_iterations)
    MaxAttempts,        \* per thread: how often its run is started            (bound)
    Disturbances        \* crashes, failed saves and damaged files              (bound)

ASSUME LearningAssumption ==
    /\ Free \notin Threads
    /\ MaxRounds \in [Threads -> Nat \ {0}]
    /\ MaxAttempts \in [Threads -> Nat \ {0}] /\ Disturbances \in Nat
    \* ConfidenceAssessment.level, and whether the analysis was cut
    /\ \A t \in Threads : \A r \in ReportsOf[t] :
         r.confidence \in ToSet(Levels) /\ r.degraded \in BOOLEAN

VARIABLES
    history, telemetry,     \* the two files
    historyLock, telemetryLock,     \* per root
    run,                    \* per thread: where it is and what it holds
    faults,                 \* disturbances so far
    \* ghosts: the stores that the acknowledged changes alone would have made, and
    \* the files that were ever damaged
    acked, tainted
files == <<history, telemetry>>
locks == <<historyLock, telemetryLock>>
ghosts == <<acked, tainted>>
vars == <<files, locks, run, faults, ghosts>>

Roots == { RootOf[t] : t \in Threads }
HistoryOps == {"start", "advance", "iterate", "advance2", "finish"}
TelemetryOps == {"record", "finalize"}
Finished == {"idle", "done", "down"}

\* Names of lifecycles, iterations and decisions (uuid4 in the code)
LifecycleId(t) == <<t, run[t].attempt>>
RoundId(t) == <<t, run[t].attempt, run[t].round>>

\* A store in the hands of a manager, or none
NotLoaded == <<>>
Idle == [pc |-> "idle", attempt |-> 0, round |-> 1, id |-> NoParent, last |-> NoParent,
         decision |-> NoParent, report |-> NoReport, narrow |-> FALSE, result |-> "not_run",
         stage |-> "unknown", quality |-> "unconfirmed", todo |-> <<>>, completed |-> FALSE,
         loaded |-> NotLoaded]

Init ==
    /\ history = NoFile
    /\ telemetry = [form |-> "missing", store |-> EmptyTelemetry]
    /\ historyLock = [ r \in Roots |-> Free ] /\ telemetryLock = [ r \in Roots |-> Free ]
    /\ run = [ t \in Threads |-> Idle ]
    /\ faults = 0
    /\ acked = [history |-> EmptyHistory, telemetry |-> EmptyTelemetry]
    /\ tainted = {}

Set(t, r) == run' = [run EXCEPT ![t] = r]
Here(t, pc) == run[t].pc = pc /\ run[t].loaded = NotLoaded
\* Mutant: every manager has a lock of its own
OwnLockFree(lock, t) == lock[RootOf[t]] # t
\* _lock_for: one lock in the process per project root
LockFree(lock, t) == lock[RootOf[t]] = Free
Disturb == faults < Disturbances /\ faults' = faults + 1

-----------------------------------------------------------------------------
(* The run itself, as far as the hooks see it.                             *)

\* A run begins, or is resumed at the round where the process died
Begin(t) ==
    /\ run[t].pc \in {"idle", "down"} /\ run[t].attempt < MaxAttempts[t]
    /\ Set(t, [Idle EXCEPT !.pc = "start", !.attempt = run[t].attempt + 1, !.round = run[t].round])
    /\ UNCHANGED <<files, locks, faults, ghosts>>

Kind(r) == IF r.round = 1 THEN "implementation" ELSE "repair"

\* The provider gives no usable change, or a candidate that is about to be applied
Generate(t) ==
    /\ Here(t, "generate")
    /\ \/ Set(t, [run[t] EXCEPT !.pc = "finish"])
       \/ Set(t, [run[t] EXCEPT !.pc = "advance", !.todo =
            <<"repaired", "candidate_generated", "validated", "approved", "applied">>])
    /\ UNCHANGED <<files, locks, faults, ghosts>>

\* _semantic_targeted_commands, and the observations the shadow decision is made from
Analyse(t) ==
    /\ Here(t, "analyse") /\ LockFree(telemetryLock, t)
    /\ \E r \in ReportsOf[t] :
         Set(t, [run[t] EXCEPT !.pc = "record", !.report = r,
                 !.narrow = WouldNarrow(LoadTelemetry(telemetry).observations,
                                        r.types, r.confidence, r.degraded)])
    /\ UNCHANGED <<files, locks, faults, ghosts>>

\* The targeted commands run when there are any, then the whole suite unless one failed
Validate(t) ==
    /\ Here(t, "validate")
    /\ \E targeted \in {"failed", "passed", "not_run"}, broad \in {"failed", "passed", "not_run"} :
         /\ (targeted = "not_run") = (run[t].report.targets = {})
         /\ (broad = "not_run") = (targeted = "failed")
         /\ Set(t, [run[t] EXCEPT
                !.pc = IF run[t].decision = NoParent THEN "iterate" ELSE "finalize",
                !.result = IF "failed" \in {targeted, broad} THEN "failed" ELSE "passed",
                !.stage = IF broad = "not_run" THEN "targeted" ELSE "broad",
                !.quality = Classify(run[t].report.scope, targeted # "not_run",
                              targeted = "failed", broad # "not_run", broad = "failed")])
    /\ UNCHANGED <<files, locks, faults, ghosts>>

\* The review approves what passed, or there is another round, or there is none left
Review(t) ==
    /\ Here(t, "review")
    /\ \/ /\ run[t].result = "passed"
          /\ Set(t, [run[t] EXCEPT !.pc = "finish", !.completed = TRUE])
       \/ /\ run[t].round < MaxRounds[t]
          /\ Set(t, [run[t] EXCEPT !.pc = "generate", !.round = @ + 1])
       \/ /\ run[t].round = MaxRounds[t]
          /\ Set(t, [run[t] EXCEPT !.pc = "finish"])
    /\ UNCHANGED <<files, locks, faults, ghosts>>

-----------------------------------------------------------------------------
(* The hooks that change the history.                                      *)

\* _lifecycle_finish: the state the record is closed in
FinalState(state, completed) ==
    IF completed /\ CanTransition(state, "completed") THEN "completed" ELSE "abandoned"

\* The iteration this round leaves; a failing one is known by its defect
ThisIteration(t) ==
    LET r == run[t]
    IN Iteration(RoundId(t), r.round, IF Kind(r) = "repair" THEN r.last ELSE NoParent, Kind(r), r.result,
                 r.stage, IF r.result = "failed" THEN Head(DefectOrder) ELSE NoDefect)

\* What the hook makes of a store; the same store when there is nothing to save
HistoryAfter(t, store) ==
    LET r == run[t]
        found == Find(store, r.id)
        mine == CHOOSE m \in found : TRUE
        to == IF r.pc = "finish" THEN FinalState(mine.state, r.completed) ELSE Head(r.todo)
    IN CASE r.pc = "start" -> Record(store, NewLifecycle(LifecycleId(t)))
         [] r.pc # "start" /\ found = {} -> store
         [] r.pc = "iterate" /\ found # {} -> Record(store, AddIteration(mine, ThisIteration(t)))
         [] OTHER -> IF CanTransition(mine.state, to)
                       THEN Record(store, [mine EXCEPT !.state = to]) ELSE store

\* Mutant: the iteration counts as recorded although its save failed
RemembersUnsaved(t, saved) == RoundId(t)
\* The iteration the next repair names as its parent
Remembered(t, saved) == IF saved THEN RoundId(t) ELSE run[t].last

\* Where the run goes on once the hook is over, and what it remembers of it
After(t, saved) ==
    LET r == [run[t] EXCEPT !.loaded = NotLoaded] IN
    CASE r.pc = "start" ->
           [r EXCEPT !.pc = "generate", !.id = IF saved THEN LifecycleId(t) ELSE NoParent]
      [] r.pc = "iterate" ->
           [r EXCEPT !.pc = "advance2", !.stage = "unknown", !.last = Remembered(t, saved),
                     !.todo = <<IF r.result = "failed" THEN "repair_required" ELSE "post_validated">>]
      [] r.pc = "finish" -> [Idle EXCEPT !.pc = "done", !.attempt = r.attempt, !.round = r.round]
      [] OTHER ->
           LET rest == IF saved THEN Tail(r.todo) ELSE <<>> IN
           [r EXCEPT !.todo = rest,
              !.pc = IF rest # <<>> THEN @ ELSE IF @ = "advance" THEN "analyse" ELSE "review"]
\* Without a lifecycle the other hooks do nothing
Untraced(t) ==
    /\ run[t].pc \in HistoryOps \ {"start"} /\ run[t].loaded = NotLoaded /\ run[t].id = NoParent
    /\ Set(t, After(t, FALSE))
    /\ UNCHANGED <<files, locks, faults, ghosts>>

\* with self._lock: store = self._load()
TakeHistory(t) ==
    /\ run[t].pc \in HistoryOps /\ run[t].loaded = NotLoaded
    /\ run[t].pc = "start" \/ run[t].id # NoParent
    /\ LockFree(historyLock, t)
    /\ historyLock' = [historyLock EXCEPT ![RootOf[t]] = t]
    /\ Set(t, [run[t] EXCEPT !.loaded = <<Load(history)>>])
    /\ UNCHANGED <<files, telemetryLock, faults, ghosts>>

\* self._save(store), unless nothing changed
PutHistory(t) ==
    /\ run[t].pc \in HistoryOps /\ run[t].loaded # NotLoaded
    /\ LET before == run[t].loaded[1]
           after == HistoryAfter(t, before)
       IN /\ history' = IF after = before THEN history ELSE FileOf(after)
          /\ acked' = [acked EXCEPT !.history = HistoryAfter(t, @)]
    /\ historyLock' = [historyLock EXCEPT ![RootOf[t]] = Free]
    /\ Set(t, After(t, TRUE))
    /\ UNCHANGED <<telemetry, telemetryLock, faults, tainted>>

\* The save raises: the lock is released, the hook logs it, the run goes on
HistoryFails(t) ==
    /\ Disturb
    /\ run[t].pc \in HistoryOps /\ run[t].loaded # NotLoaded
    /\ HistoryAfter(t, run[t].loaded[1]) # run[t].loaded[1]
    /\ historyLock' = [historyLock EXCEPT ![RootOf[t]] = Free]
    /\ Set(t, After(t, FALSE))
    /\ UNCHANGED <<files, telemetryLock, ghosts>>

-----------------------------------------------------------------------------
(* The hooks that change the telemetry.                                    *)

TelemetryAfter(t, store) ==
    LET r == run[t] IN
    IF r.pc = "record" THEN RecordDecision(store, Decision(RoundId(t), r.report, r.narrow))
    ELSE FinalizeDecision(store, r.decision, r.quality)
AfterTelemetry(t, saved) ==
    LET r == [run[t] EXCEPT !.loaded = NotLoaded] IN
    IF r.pc = "record"
      THEN [r EXCEPT !.pc = "validate", !.narrow = FALSE, !.decision = IF saved THEN RoundId(t) ELSE NoParent]
      ELSE [r EXCEPT !.pc = "iterate", !.quality = "unconfirmed", !.decision = NoParent]

TakeTelemetry(t) ==
    /\ run[t].pc \in TelemetryOps /\ run[t].loaded = NotLoaded
    /\ LockFree(telemetryLock, t)
    /\ telemetryLock' = [telemetryLock EXCEPT ![RootOf[t]] = t]
    /\ Set(t, [run[t] EXCEPT !.loaded = <<LoadTelemetry(telemetry)>>])
    /\ UNCHANGED <<files, historyLock, faults, ghosts>>

PutTelemetry(t) ==
    /\ run[t].pc \in TelemetryOps /\ run[t].loaded # NotLoaded
    /\ LET before == run[t].loaded[1]
           after == TelemetryAfter(t, before)
       IN /\ telemetry' = IF after = before THEN telemetry ELSE FileOf(after)
          /\ acked' = [acked EXCEPT !.telemetry = TelemetryAfter(t, @)]
    /\ telemetryLock' = [telemetryLock EXCEPT ![RootOf[t]] = Free]
    /\ Set(t, AfterTelemetry(t, TRUE))
    /\ UNCHANGED <<history, historyLock, faults, tainted>>

TelemetryFails(t) ==
    /\ Disturb
    /\ run[t].pc \in TelemetryOps /\ run[t].loaded # NotLoaded
    /\ TelemetryAfter(t, run[t].loaded[1]) # run[t].loaded[1]
    /\ telemetryLock' = [telemetryLock EXCEPT ![RootOf[t]] = Free]
    /\ Set(t, AfterTelemetry(t, FALSE))
    /\ UNCHANGED <<files, historyLock, ghosts>>

-----------------------------------------------------------------------------
(* The world around: the process dies, and while nothing runs a file is      *)
(* damaged.                                                                *)

Crash ==
    /\ Disturb
    /\ \E t \in Threads : run[t].pc \notin {"idle", "done", "down"}
    /\ run' = [ t \in Threads |->
                  IF run[t].pc \in {"idle", "done"} THEN run[t]
                  ELSE [Idle EXCEPT !.pc = "down", !.attempt = run[t].attempt,
                                    !.round = run[t].round] ]
    /\ historyLock' = [ r \in Roots |-> Free ] /\ telemetryLock' = [ r \in Roots |-> Free ]
    /\ UNCHANGED <<files, ghosts>>

DamagedHistories ==
    {NotJson} \cup 
    { FileOf([history.store EXCEPT !.records[k] = Broken]) :
                       k \in DOMAIN history.store.records }
DamageHistory ==
    /\ Disturb /\ history.form = "json"
    /\ \A t \in Threads : run[t].pc \in Finished
    /\ history' \in DamagedHistories
    /\ acked' = [acked EXCEPT !.history = Load(history')]
    /\ tainted' = tainted \cup {"history"}
    /\ UNCHANGED <<telemetry, locks, run>>
DamageTelemetry ==
    /\ Disturb /\ telemetry.form = "json"
    /\ \A t \in Threads : run[t].pc \in Finished
    /\ telemetry' = [form |-> "malformed", store |-> EmptyTelemetry]
    /\ acked' = [acked EXCEPT !.telemetry = EmptyTelemetry]
    /\ tainted' = tainted \cup {"telemetry"}
    /\ UNCHANGED <<history, locks, run>>

Step(t) ==
    \/ Generate(t) \/ Analyse(t) \/ Validate(t) \/ Review(t)
    \/ Untraced(t) \/ TakeHistory(t) \/ PutHistory(t) \/ TakeTelemetry(t) \/ PutTelemetry(t)
Next ==
    \/ \E t \in Threads : Begin(t) \/ Step(t) \/ HistoryFails(t) \/ TelemetryFails(t)
    \/ Crash \/ DamageHistory \/ DamageTelemetry
Spec == Init /\ [][Next]_vars
-----------------------------------------------------------------------------
(* Properties.                                                             *)

\* The two stores and the runs keep their shape and their bounds.
TypeOK ==
    /\ Len(Load(history).records) <= MaxLifecycles
    /\ \A k \in DOMAIN Load(history).records :
         /\ Load(history).records[k].state \in Working \cup Terminal
         /\ Len(Load(history).records[k].iterations) <= MaxIterations
    /\ Len(LoadTelemetry(telemetry).decisions) <= MaxDecisions
    /\ Len(LoadTelemetry(telemetry).observations) <= MaxObservations
    /\ \A t \in Threads : /\ run[t].pc \in HistoryOps \cup TelemetryOps \cup Finished
                                              \cup {"generate", "analyse", "validate", "review"}
                          /\ run[t].attempt \in 0..MaxAttempts[t] /\ run[t].round \in 1..MaxRounds[t]
                          /\ ToSet(run[t].todo) \subseteq Working
    /\ \A r \in Roots : {historyLock[r], telemetryLock[r]} \subseteq Threads \cup {Free}
    /\ faults \in 0..Disturbances

\* Every change a manager acknowledged is in the files, as if the changes had been
\* made one after another: no run's save takes back what another run recorded
\* (validation_lifecycle.py: "a concurrent writer's update is never lost to a stale
\* in-memory cache").
NoLostUpdate ==
    /\ Load(history) = acked.history
    /\ LoadTelemetry(telemetry) = acked.telemetry

\* Once the history was damaged, nothing that is recorded later makes it count
\* again: whatever the floor, the analysis and the defects at hand, the scope to act
\* on is the broadest (history_trustworthy: "treat an untrustworthy store as no
\* history at all").
CorruptHistoryNeverTrusted ==
    "history" \in tainted => \A floor \in ToSet(ScopeOrder), degraded \in BOOLEAN,
                 recent \in SUBSET ToSet(DefectOrder) :
                   RecommendScope(Load(history), floor, degraded, recent).effective = "broad"

\* The causal chain of the latest iteration of a lifecycle is all that the store kept
\* of it, in order, although saves fail and the oldest iterations make room:
\* parent_iteration_id is "a real causal edge".
RepairChainIsCausal ==
    \A k \in DOMAIN Load(history).records :
        LET r == Load(history).records[k] IN
        r.iterations # <<>> => RepairChain(r, Last(r.iterations).id) = r.iterations

\* Whatever is kept is within its bounds, and causal.
HistoryIsCausal == TypeOK /\ RepairChainIsCausal

\* While no observation was lost or had to make room, a decision whose shadow is narrower than
\* the decision itself stands on MinSamples other decisions of a like kind that
\* were judged and agreed, none of them an escape when it was made, and the
\* analysis was whole.
TrustIsEarned ==
    LET store == LoadTelemetry(telemetry) IN
    Len(store.observations) < MaxObservations /\ "telemetry" \notin tainted =>
      \A k \in DOMAIN store.decisions :
        LET d == store.decisions[k]
            like == { o \in ToSet(store.observations) :
                        o.id # d.id /\ o.types \cap d.types # {} /\ o.quality \in Agreed }
        IN d.narrow => Cardinality(like) >= MinSamples /\ ~d.degraded
=============================================================================
