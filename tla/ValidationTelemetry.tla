------------------------- MODULE ValidationTelemetry -------------------------
(***************************************************************************)
(* What became of the decisions to validate less than everything, and the   *)
(* confidence they would have deserved (local_agent/validation_telemetry.py):*)
(* the outcome of a decision, the bounded store and its file, and the shadow *)
(* calibration.  Scores are in hundredths.  Durations and command counts,    *)
(* which only the cost report reads, are left out.                          *)
(***************************************************************************)
EXTENDS Integers, Sequences, FiniteSets, SequencesExt

CONSTANTS
    MaxDecisions, MaxObservations,  \* what the store keeps
    MinSamples,                     \* trials below which an evidence type is not trusted
    MaxAdjustment,                  \* the largest change of a score
    ZSquaredT                       \* z^2 of the Wilson interval, in ten-thousandths

ASSUME TelemetryAssumption ==
    /\ {MaxDecisions, MaxObservations, MinSamples} \subseteq Nat \ {0}
    /\ MaxAdjustment \in 0..100 /\ ZSquaredT \in Nat

-----------------------------------------------------------------------------
(* Levels, scores and the scope a level alone stands for.                  *)

Levels == <<"low", "medium", "high">>
ScoreOf(level) == 50 * ((CHOOSE i \in 1..3 : Levels[i] = level) - 1)
ScopeForLevel == [low |-> "broad", medium |-> "expanded", high |-> "targeted"]
NarrowerThan(s, t) == <<s, t>> \in {<<"targeted", "expanded">>, <<"targeted", "broad">>, <<"expanded", "broad">>}

-----------------------------------------------------------------------------
(* classify_outcome: what a finished validation says of the choice of scope. *)

Classify(scope, targetedRan, targetedFailed, broadRan, broadFailed) ==
    CASE targetedRan /\ targetedFailed -> "targeted_caught_defect"
      [] ~(targetedRan /\ targetedFailed) /\ ~broadRan -> "unconfirmed"
      [] broadRan /\ broadFailed /\ ~(targetedRan /\ targetedFailed) ->
           IF scope = "targeted" /\ targetedRan THEN "targeted_missed_defect"
           ELSE "validation_failed"
      [] OTHER -> IF scope # "targeted" THEN "broad_not_proven_necessary"
                  ELSE IF targetedRan THEN "consistent" ELSE "unconfirmed"

-----------------------------------------------------------------------------
(* Reliability of the kinds of evidence: compute_reliability.              *)

Agreed == {"consistent", "targeted_caught_defect"}
Escaped == {"targeted_missed_defect"}
\* Mutant: a decision nobody could judge counts as one that agreed
TrialsOfAnyOutcome(observations, type) ==
    { k \in DOMAIN observations :
        type \in observations[k].types /\ observations[k].quality # "validation_failed" }
\* Only a judged decision is a trial
Trials(observations, type) ==
    { k \in DOMAIN observations :
        type \in observations[k].types /\ observations[k].quality \in Agreed \cup Escaped }
Escapes(observations, type) ==
    { k \in Trials(observations, type) : observations[k].quality \in Escaped }

-----------------------------------------------------------------------------
(* compute_calibration_signal.  The adjusted score is compared with the two *)
(* borders between levels: "above" is the set of borders it is above.       *)

Borders == {25, 75}
LevelAbove(above) == CASE 75 \in above -> "high" [] above = {25} -> "medium" [] OTHER -> "low"

\* Types nothing is known of yet are left out of the judgement
Applicable(observations, types) == { t \in types : Trials(observations, t) # {} }
Lowers(observations, types) ==
    \E t \in Applicable(observations, types) : Escapes(observations, t) # {}
\* The Wilson lower bound of n trials without an escape is n / (n + z^2)
LowerAbove(n, k) == n * (100 - k) * 10000 > k * ZSquaredT
RaisesAbove(observations, types, k) ==
    \A t \in Applicable(observations, types) : LowerAbove(Cardinality(Trials(observations, t)), k)
Raises(observations, types, base, degraded) ==
    /\ Applicable(observations, types) # {}
    /\ ~Lowers(observations, types)
    /\ \A t \in Applicable(observations, types) :
         Cardinality(Trials(observations, t)) >= MinSamples
    /\ RaisesAbove(observations, types, base)
    /\ ~degraded
\* base - MaxAdjustment * the worst share of escapes
DropsTo(observations, types, base) ==
    { k \in Borders : \A t \in Applicable(observations, types) :
        LET n == Cardinality(Trials(observations, t))
        IN n * (base - k) > MaxAdjustment * Cardinality(Escapes(observations, t)) }
RaisesTo(observations, types, base) ==
    { k \in Borders : base + MaxAdjustment > k /\ RaisesAbove(observations, types, k) }

\* ShadowCalibrationEngine.evaluate: the level the history would have given
ShadowLevel(observations, types, level, degraded) ==
    CASE Lowers(observations, types) -> LevelAbove(DropsTo(observations, types, ScoreOf(level)))
      [] Raises(observations, types, ScoreOf(level), degraded) ->
           LevelAbove(RaisesTo(observations, types, ScoreOf(level)))
      [] OTHER -> level
WouldNarrow(observations, types, level, degraded) ==
    NarrowerThan(ScopeForLevel[ShadowLevel(observations, types, level, degraded)],
                 ScopeForLevel[level])

-----------------------------------------------------------------------------
(* The store and its file.                                                 *)

Kept(s, n) == IF Len(s) > n THEN SubSeq(s, Len(s) - n + 1, Len(s)) ELSE s
Decision(id, report, narrow) ==
    [id |-> id, types |-> report.types, level |-> report.confidence, scope |-> report.scope,
     degraded |-> report.degraded, narrow |-> narrow, quality |-> "unconfirmed"]
Observation(d) == [id |-> d.id, types |-> d.types, quality |-> d.quality]
EmptyTelemetry == [corrupt |-> FALSE, decisions |-> <<>>, observations |-> <<>>]
\* What is left of an entry that is not an object any more has no name
IsBroken(entry) == entry.id = <<>>
Unbroken(s) ==
    IF \E k \in DOMAIN s : IsBroken(s[k]) THEN SelectSeq(s, LAMBDA e : ~IsBroken(e)) ELSE s

RecordDecision(store, d) == [store EXCEPT !.decisions = Kept(Append(@, d), MaxDecisions)]
\* finalize_decision: the outcome is filled in and an observation derived from it
FinalizeDecision(store, id, quality) ==
    LET mine == { k \in DOMAIN store.decisions : store.decisions[k].id = id }
        k == CHOOSE k \in mine : \A j \in mine : j <= k
        judged == [store.decisions[k] EXCEPT !.quality = quality]
    IN IF mine = {} THEN store
       ELSE [store EXCEPT !.decisions[k] = judged,
                          !.observations = Kept(Append(@, Observation(judged)), MaxObservations)]

\* load_validation_telemetry and from_dict.  Unlike the lifecycle history, a file
\* that is not JSON is a history that is empty and not marked
LoadTelemetry(file) ==
    IF file.form # "json" THEN EmptyTelemetry
    ELSE [corrupt |-> \/ file.store.corrupt
                      \/ Unbroken(file.store.decisions) # file.store.decisions
                      \/ Unbroken(file.store.observations) # file.store.observations,
          decisions |-> Unbroken(file.store.decisions),
          observations |-> Unbroken(file.store.observations)]
=============================================================================
