------------------------- MODULE MaintenanceReport -------------------------
(***************************************************************************)
(* What MaintenanceRunner.run decides and reports of every candidate: the  *)
(* tier the policy grants, the budgets, the candidate's way through        *)
(* CandidateState, the scan after an execution and the verdict drawn from  *)
(* it, and what of this the store keeps.  Executions are what              *)
(* MaintenanceExecutor may answer, failures and attempts are counted in    *)
(* MaintenanceRunner.  One process, run after run, while the user edits.   *)
(***************************************************************************)
EXTENDS MaintenancePolicy, FiniteSets, SequencesExt

CONSTANTS
    Ids,                        \* of the candidates there may be
    ConfiguredTier,             \* the autonomy the operator granted
    max_candidates_selected, max_candidates_executed,
    max_elapsed_seconds,        \* the budget, in units of some length
    max_candidates,             \* of the store
    Severities, Metrics         \* what a signal is graded by, and what it measures

\* MaintenanceBudget.validate
ASSUME ReportAssumption ==
    /\ max_candidates_executed \in Nat /\ max_candidates_selected \in Nat
    /\ max_candidates_executed <= max_candidates_selected
    /\ max_elapsed_seconds \in Nat \ {0} /\ max_candidates \in Nat \ {0}

VARIABLES
    defects,    \* the candidates whose problem is in the repository
    at,         \* where the run is
    subject,    \* the candidate that is executed
    answer,     \* what the executor has answered
    scanned,    \* the candidates of the run
    cleared,    \* those the run may execute
    phase,      \* their CandidateState
    outcome,    \* what was recorded of them after an execution
    consumed,   \* the ledger: executions and time
    kept,       \* the candidates in the store
    stored,     \* phase and outcome as it has them
    repaired    \* ghost: those of which the run has completed an execution

runState   == <<at, subject, answer, scanned, cleared, phase, outcome, consumed>>
storeState == <<kept, stored>>
reportVars == <<defects, runState, storeState, repaired>>

ALLOWED_CANDIDATE_TRANSITIONS ==
    [detected   |-> {"triaged", "deferred", "rejected", "blocked"},
     triaged    |-> {"selected", "deferred", "rejected", "blocked"},
     selected   |-> {"planned", "deferred", "rejected", "blocked"},
     planned    |-> {"executing", "deferred", "blocked"},
     executing  |-> {"validated", "blocked", "reassessed"},
     validated  |-> {"reassessed", "blocked"},
     reassessed |-> {}, deferred |-> {}, rejected |-> {}, blocked |-> {}]
States == DOMAIN ALLOWED_CANDIDATE_TRANSITIONS

\* _safe_transition: a transition that is not allowed is not made
Moved(state, requested) ==
    IF requested \in ALLOWED_CANDIDATE_TRANSITIONS[state] THEN requested ELSE state
Through(state, first, second) == Moved(Moved(state, first), second)

ReassessmentOutcomes == {"pending", "resolved", "partially_resolved", "persisting",
                         "regressed", "inconclusive", "blocked"}
Detected == [phase |-> "detected", outcome |-> "pending"]

Nobody == "nobody"
NoAnswer == [completed |-> FALSE, validation |-> "unknown", semantic |-> "unknown"]
Untouched == [id \in Ids |-> "detected"]
Pending == [id \in Ids |-> "pending"]

ReportInit ==
    /\ defects = Ids
    /\ at = "off" /\ subject = Nobody /\ answer = NoAnswer
    /\ scanned = {} /\ cleared = {} /\ phase = Untouched /\ outcome = Pending
    /\ consumed = [executed |-> 0, elapsed |-> 0]
    /\ kept = {} /\ stored = [id \in Ids |-> Detected]
    /\ repaired = {}

-----------------------------------------------------------------------------
(* Batches of selected candidates, which are reported and not executed.    *)

\* The first batch with room and no common file takes the candidate; batches before
\* the first that had room are not looked at again
Place(acc, c, files, width) ==
    LET full(k)  == Cardinality(acc.batches[k]) >= width
        taken(k) == files[c] \cap UNION {files[d] : d \in acc.batches[k]} # {}
        length == Len(acc.batches)
        open == CHOOSE k \in acc.open..(length + 1) :
                    /\ k <= length => ~full(k)
                    /\ \A j \in acc.open..(k - 1) : full(j)
        fits == {k \in open..length : ~full(k) /\ ~taken(k)}
    IN [open |-> open,
        batches |-> IF fits = {} THEN Append(acc.batches, {c})
                    ELSE [acc.batches EXCEPT ![CHOOSE k \in fits : \A j \in fits : k <= j]
                             = @ \cup {c}]]
plan_execution_batches(order, files, width) ==
    FoldLeft(LAMBDA acc, c : Place(acc, c, files, IF width = 0 THEN 1 ELSE width),
             [open |-> 1, batches |-> <<>>], order).batches

-----------------------------------------------------------------------------
(* The verdict after an execution.                                         *)

Gone == [severity |-> -1, metrics |-> <<>>]
Signals == [severity : Severities, metrics : UNION {[M -> 0..1] : M \in SUBSET Metrics}]
Shared(before, after) == DOMAIN before.metrics \cap DOMAIN after.metrics
MetricsImproved(before, after) ==
    /\ \A m \in Shared(before, after) : after.metrics[m] <= before.metrics[m]
    /\ \E m \in Shared(before, after) : after.metrics[m] < before.metrics[m]
MetricsWorsened(before, after) ==
    \E m \in Shared(before, after) : after.metrics[m] > before.metrics[m]

\* work: whether something was executed, whether the scan after it was degraded, and
\* what validation and semantic verification said, if anything
reassess(before, after, work) ==
    CASE ~work.executed \/ work.degraded -> "inconclusive"
      [] OTHER ->
    CASE "failed" \in {work.validation, work.semantic} -> "persisting"
      [] OTHER ->
    CASE after = Gone -> IF work.validation = "unknown" THEN "inconclusive" ELSE "resolved"
      [] OTHER ->
    CASE after.severity > before.severity -> "regressed"
      [] after.severity < before.severity -> "partially_resolved"
      [] OTHER ->
    CASE MetricsImproved(before, after) -> "partially_resolved"
      [] MetricsWorsened(before, after) -> "regressed"
      [] OTHER -> "persisting"

\* What is said of a signal that is seen again
Again(work) == {reassess(before, after, work) : before, after \in Signals}

\* Mutant: a failed execution is credited with what the scan says
CreditedAsSeen(succeeded, verdict) == verdict

\* A failed execution is not credited with a resolution
Credited(succeeded, verdict) ==
    IF ~succeeded /\ verdict = "resolved" THEN "inconclusive" ELSE verdict

-----------------------------------------------------------------------------
(* A run.                                                                  *)

Verdicts == {decide(facts, ConfiguredTier, max_candidates_executed) : facts \in Evidence}

\* _discover and _score_and_select: what may be planned is selected as far as the
\* budget reaches.  The scan may miss what there is.
Survey ==
    /\ at = "off" /\ at' = "run"
    /\ \E S \in SUBSET defects : IsFiniteSet(S) /\ \E verdict \in [S -> Verdicts] :
         LET plannable == {id \in S : may_plan(verdict[id])} IN
         \E selected \in SUBSET plannable, executes \in BOOLEAN :
           /\ IF Cardinality(plannable) <= max_candidates_selected THEN selected = plannable
              ELSE Cardinality(selected) = max_candidates_selected
           /\ scanned' = S
           /\ cleared' = {id \in selected : executes /\ may_execute(verdict[id])}
           /\ phase' = [id \in Ids |->
                CASE id \notin S -> "detected"
                  [] id \in S /\ verdict[id].blocked -> Moved("detected", "blocked")
                  [] id \in selected -> Through("detected", "triaged", "selected")
                  [] id \in plannable \ selected -> Through("detected", "triaged", "deferred")
                  [] OTHER -> Moved("detected", "triaged")]
    /\ UNCHANGED <<defects, subject, answer, outcome, consumed, storeState, repaired>>

\* BudgetLedger.would_exceed, exhausted
Affordable == consumed.executed + 1 <= max_candidates_executed
TimeIsOut  == consumed.elapsed >= max_elapsed_seconds

\* The next selected candidate is planned.  In a dry run, without an executor, and at a
\* tier that does not execute, this is all; in a scan, not even this.
Plan(id) ==
    /\ at = "run" /\ phase[id] = "selected" /\ id \notin cleared
    /\ phase' = [phase EXCEPT ![id] = Moved(@, "planned")]
    /\ UNCHANGED <<defects, at, subject, answer, scanned, cleared, outcome, consumed,
                   storeState, repaired>>

\* A refused execution consumes nothing, one that time runs out for is paid
Defer(id) ==
    /\ at = "run" /\ phase[id] = "selected" /\ id \in cleared /\ (~Affordable \/ TimeIsOut)
    /\ phase' = [phase EXCEPT ![id] = Through(@, "planned", "deferred")]
    /\ consumed' = [consumed EXCEPT !.executed = @ + IF Affordable THEN 1 ELSE 0]
    /\ UNCHANGED <<defects, at, subject, answer, scanned, cleared, outcome, storeState, repaired>>

Hand(id) ==
    /\ at = "run" /\ phase[id] = "selected" /\ id \in cleared /\ Affordable /\ ~TimeIsOut
    /\ phase' = [phase EXCEPT ![id] = Through(@, "planned", "executing")]
    /\ consumed' = [consumed EXCEPT !.executed = @ + 1]
    /\ at' = "executing" /\ subject' = id
    /\ UNCHANGED <<defects, answer, scanned, cleared, outcome, storeState, repaired>>

\* What the executor reports when it has taken its change back, or made none, or raised
Failures == [completed : {FALSE}, validation : {"passed", "failed", "unknown"},
             semantic : {"passed", "failed", "unknown"}]

\* The executor returns.  It completes with a change that was validated and in which
\* the oracle does not see the defect; a signal that is read from histories may stay.
Answer ==
    /\ at = "executing" /\ at' = "returned"
    /\ \/ /\ answer' = [completed |-> TRUE, validation |-> "passed", semantic |-> "passed"]
          /\ defects' \in {defects, defects \ {subject}}
          /\ repaired' = repaired \cup {subject}
       \/ answer' \in Failures /\ UNCHANGED <<defects, repaired>>
    /\ UNCHANGED <<subject, scanned, cleared, phase, outcome, consumed, storeState>>

\* The rest of _execute_one: the scan sees the repository as it is now; it may fail,
\* or see less than there is.  The ledger takes the time, up to its limit.
Reassess ==
    /\ at = "returned" /\ at' = "run"
    /\ \E degraded \in BOOLEAN, time \in 0..max_elapsed_seconds :
         LET work == [executed |-> TRUE, degraded |-> degraded,
                      validation |-> answer.validation, semantic |-> answer.semantic]
             said == {reassess(Gone, Gone, work)}
                     \cup IF subject \in defects THEN Again(work) ELSE {}
         IN /\ \E verdict \in said :
                 outcome' = [outcome EXCEPT ![subject] = Credited(answer.completed, verdict)]
            /\ consumed' = [consumed EXCEPT !.elapsed =
                   IF @ + time > max_elapsed_seconds THEN max_elapsed_seconds ELSE @ + time]
    /\ phase' = [phase EXCEPT ![subject] =
           IF answer.validation = "failed" THEN Moved(@, "reassessed")
           ELSE Through(@, "validated", "reassessed")]
    /\ subject' = Nobody /\ answer' = NoAnswer
    /\ UNCHANGED <<defects, scanned, cleared, storeState, repaired>>

Finish ==
    /\ at' = "off" /\ repaired' = {} /\ subject' = Nobody /\ answer' = NoAnswer
    /\ scanned' = {} /\ cleared' = {} /\ phase' = Untouched /\ outcome' = Pending
    /\ consumed' = [executed |-> 0, elapsed |-> 0]

\* _persist, at the end or after a cancellation.  The store takes a candidate it does
\* not know as it is; of one it knows it changes neither state nor outcome
\* (merge_observation), unless that one was evicted while others were added.
Store ==
    /\ at = "run" /\ Finish
    /\ \E K \in SUBSET (kept \cup scanned), renewed \in SUBSET (kept \cap scanned) :
         LET full == Cardinality(kept \cup scanned) > max_candidates IN
         /\ IF full THEN Cardinality(K) = max_candidates
            ELSE K = kept \cup scanned /\ renewed = {}
         /\ kept' = K
         /\ stored' = [id \in Ids |->
                CASE id \notin K -> Detected
                  [] id \in K /\ id \in (scanned \ kept) \cup renewed ->
                        [phase |-> phase[id], outcome |-> outcome[id]]
                  [] OTHER -> stored[id]]
    /\ UNCHANGED defects

\* The process dies, or the store cannot be written, or is malformed
Lost ==
    \/ at # "off" /\ Finish /\ UNCHANGED <<defects, storeState>>
    \/ /\ kept' = {} /\ stored' = [id \in Ids |-> Detected]
       /\ UNCHANGED <<defects, runState, repaired>>

\* The user breaks or repairs something
UserChanges ==
    /\ \E id \in Ids : defects' = IF id \in defects THEN defects \ {id} ELSE defects \cup {id}
    /\ UNCHANGED <<runState, storeState, repaired>>

ReportNext ==
    \/ Survey \/ Answer \/ Reassess \/ Store \/ Lost \/ UserChanges
    \/ \E id \in Ids : Plan(id) \/ Defer(id) \/ Hand(id)

ReportSpec == ReportInit /\ [][ReportNext]_reportVars

-----------------------------------------------------------------------------
\* What runs and the store report is so: a candidate has an outcome exactly if it went
\* all the way (_safe_transition: "the runner's control flow already guarantees
\* legality"), also in the store after evictions and lost runs; and nothing counts as
\* resolved of which this run has not completed an execution, whoever makes the signal
\* go away before the scan ("attributing that to maintenance we did not perform would
\* be inventing a success").
AsItWent(state, result) ==
    /\ state \in States /\ result \in ReassessmentOutcomes
    /\ (result # "pending") = (state = "reassessed")
ReportsAreTrue ==
    /\ consumed.executed \in 0..max_candidates_executed
    /\ consumed.elapsed \in 0..max_elapsed_seconds
    /\ Cardinality(kept) <= max_candidates
    /\ \A id \in Ids : /\ AsItWent(phase[id], outcome[id])
                       /\ AsItWent(stored[id].phase, stored[id].outcome)
                       /\ outcome[id] = "resolved" => id \in repaired

\* The store shows the verdict of the last run that looked into a candidate, as
\* "maintenance status" takes it to when it lists what is unresolved.  It does not:
\* see the README.
RunIsRemembered ==
    [][Store => \A id \in scanned \cap kept' :
                   outcome[id] # "pending" => stored'[id].outcome = outcome[id]]_reportVars
=============================================================================
