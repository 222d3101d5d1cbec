------------------------- MODULE MaintenanceRunner -------------------------
(***************************************************************************)
(* MaintenanceRunner.run over the execution of MaintenanceExecutor: a run  *)
(* scans the repository, adds the failures the store remembers, selects    *)
(* what the policy and the budgets allow, has one work order after the     *)
(* other executed, and folds what it learned into the store at its end.    *)
(* Runs follow each other without end; a kill may fall anywhere.           *)
(***************************************************************************)
EXTENDS MaintenanceExecutor

CONSTANTS
    MaxFailures,    \* thresholds.max_failures_before_block
    MaxExecuted,    \* budget.max_candidates_executed
    Retention,      \* max_candidates of the store
    MaxLosses       \* how often a run is lost between orders, or its store (bound)

ASSUME RunnerAssumption ==
    /\ MaxFailures \in Nat \ {0} /\ MaxExecuted \in Nat /\ Retention \in Nat \ {0}
    /\ MaxLosses \in Nat

VARIABLES
    stage,      \* where the run of a process is
    found,      \* the candidates its scan has found
    picked,     \* those it has selected and not come to yet
    fails,      \* failure_count of its candidate objects
    spent,      \* the executions it has paid for
    known,      \* the candidates in the store
    recorded,   \* failure_count of the store's records
    failed,     \* ghost: the executions of a candidate that did not succeed
    forgotten,  \* ghost: the candidates whose history was lost, not counted any more
    losses

runVars   == <<stage, found, picked, fails, spent>>
storeVars == <<known, recorded>>
runnerVars == <<runVars, storeVars, failed, forgotten, losses>>
allVars == <<vars, runnerVars>>

NoFailures == [c \in Candidates |-> 0]

RunnerInit ==
    /\ Init
    /\ stage = [p \in Procs |-> "off"] /\ found = [p \in Procs |-> {}]
    /\ picked = [p \in Procs |-> {}] /\ fails = [p \in Procs |-> NoFailures]
    /\ spent = [p \in Procs |-> 0]
    /\ known = {} /\ recorded = NoFailures
    /\ failed = NoFailures /\ forgotten = {} /\ losses = 0

Lose(S) ==
    /\ forgotten' = forgotten \cup S
    /\ failed' = [c \in Candidates |-> IF c \in S THEN 0 ELSE failed[c]]

Mishap == losses < MaxLosses /\ losses' = losses + 1

Leave(p) ==
    /\ stage' = [stage EXCEPT ![p] = "off"] /\ found' = [found EXCEPT ![p] = {}]
    /\ picked' = [picked EXCEPT ![p] = {}] /\ fails' = [fails EXCEPT ![p] = NoFailures]
    /\ spent' = [spent EXCEPT ![p] = 0]

-----------------------------------------------------------------------------
\* Mutant: the candidates of a scan come without a history
HydratedNot(S) == NoFailures

\* _hydrate_attempt_history; a store that cannot be read is an empty one
Hydrated(S) == [c \in Candidates |-> IF c \in S /\ c \in known THEN recorded[c] ELSE 0]

\* Mutant: one failure more before a candidate is blocked
EligibleOnceMore(c, counts) == counts[c] <= MaxFailures

\* policy.decide: what caps the tier of a candidate otherwise is any answer
Eligible(c, counts) == counts[c] < MaxFailures

\* A scan, which budgets and missing sources may cut short, with the store's
\* history, and the selection.  A scan and a dry run select nothing to execute.
Discover(p) ==
    /\ stage[p] = "off" /\ pc[p] = "idle"
    /\ \E S \in SUBSET {c \in Candidates : c \in tree[FileOf[c]].broken} :
         /\ S # {}
         /\ found' = [found EXCEPT ![p] = S]
         /\ fails' = [fails EXCEPT ![p] = Hydrated(S)]
         /\ \E T \in SUBSET {c \in S : Eligible(c, Hydrated(S))} :
              picked' = [picked EXCEPT ![p] = T]
    /\ stage' = [stage EXCEPT ![p] = "run"] /\ UNCHANGED spent
    /\ UNCHANGED <<vars, storeVars, failed, forgotten, losses>>

\* The next selected candidate is planned, paid for and handed to the executor.
\* attempt_count, which rises here, decides nothing.
Start(p, c) ==
    /\ stage[p] = "run" /\ c \in picked[p] /\ spent[p] < MaxExecuted
    /\ Begin(p, c)
    /\ picked' = [picked EXCEPT ![p] = @ \ {c}] /\ spent' = [spent EXCEPT ![p] = @ + 1]
    /\ UNCHANGED <<stage, found, fails, storeVars, failed, forgotten, losses>>

\* _check_cancelled, or an exception: the rest is not executed.  Candidates the
\* budget defers one by one come to the same.
GiveUp(p) ==
    /\ stage[p] = "run" /\ pc[p] = "idle" /\ picked[p] # {}
    /\ picked' = [picked EXCEPT ![p] = {}]
    /\ UNCHANGED <<vars, stage, found, fails, spent, storeVars, failed, forgotten, losses>>

\* Mutant: a failure that may be tried again is not counted
LearnFinal(p) ==
    /\ fails' = IF status[p] \in {"completed", "retryable"} THEN fails
                ELSE [fails EXCEPT ![p][job[p]] = @ + 1]
    /\ failed' = IF status[p] \in {"completed", "retryable"} \/ job[p] \in forgotten THEN failed
                 ELSE [failed EXCEPT ![job[p]] = @ + 1]
    /\ UNCHANGED <<stage, found, picked, spent, storeVars, forgotten, losses>>

\* _execute_one once the executor has returned: whatever is not COMPLETED, a
\* refusal as much as a bad change, is a failure of the candidate
Learn(p) ==
    /\ fails' = IF status[p] = "completed" THEN fails
                ELSE [fails EXCEPT ![p][job[p]] = @ + 1]
    /\ failed' = IF status[p] = "completed" \/ job[p] \in forgotten THEN failed
                 ELSE [failed EXCEPT ![job[p]] = @ + 1]
    /\ UNCHANGED <<stage, found, picked, spent, storeVars, forgotten, losses>>

Execute(p) ==
    /\ stage[p] = "run" /\ pc[p] # "idle" /\ (Step(p) \/ Raise(p))
    /\ IF pc'[p] = "idle" THEN Learn(p) ELSE UNCHANGED runnerVars

\* merge_observation takes the larger count of the record and the candidate
Merged(p, c) ==
    IF c \notin found[p] \/ (c \in known /\ recorded[c] > fails[p][c])
    THEN recorded[c] ELSE fails[p][c]

\* _persist, with the eviction of the least interesting records, which may be any
Persist(p) ==
    /\ stage[p] = "run" /\ pc[p] = "idle" /\ picked[p] = {} /\ Leave(p)
    /\ \E kept \in SUBSET (known \cup found[p]) :
         /\ IF Cardinality(known \cup found[p]) <= Retention
            THEN kept = known \cup found[p]
            ELSE Cardinality(kept) = Retention
         /\ known' = kept
         /\ recorded' = [c \in Candidates |-> IF c \in kept THEN Merged(p, c) ELSE 0]
         /\ Lose({c \in (known \cup found[p]) \ kept : failed[c] > 0})
    /\ UNCHANGED <<vars, losses>>

\* The store cannot be written, which costs the operator the history of the run
PersistFails(p) ==
    /\ stage[p] = "run" /\ pc[p] = "idle" /\ picked[p] = {} /\ Leave(p)
    /\ Mishap /\ Lose(found[p])
    /\ UNCHANGED <<vars, storeVars>>

\* The stored history is malformed: the next save starts from an empty one
Malformed ==
    /\ Mishap /\ known # {}
    /\ known' = {} /\ recorded' = NoFailures /\ Lose(known)
    /\ UNCHANGED <<vars, runVars>>

\* The process dies with the run
Die(p) ==
    /\ stage[p] = "run" /\ Leave(p) /\ Lose(found[p])
    /\ \/ Kill(p) /\ UNCHANGED losses
       \/ pc[p] = "idle" /\ Mishap /\ UNCHANGED vars
    /\ UNCHANGED storeVars

Edit(f) == UserEdit(f) /\ UNCHANGED runnerVars

Progress(p) == Execute(p) \/ GiveUp(p) \/ Persist(p) \/ \E c \in Candidates : Start(p, c)

RunnerNext ==
    \/ \E p \in Procs : Discover(p) \/ Progress(p) \/ PersistFails(p) \/ Die(p)
    \/ \E f \in Files : Edit(f)
    \/ Malformed

RunnerSpec == RunnerInit /\ [][RunnerNext]_allVars

\* A run that has begun goes on; that there is another one is not assumed
FairRunner == RunnerSpec /\ \A p \in Procs : WF_allVars(Progress(p))

-----------------------------------------------------------------------------
\* Types; only a run executes, and its counts are those of what it has found.
RunnerTypeOK ==
    /\ TypeOK
    /\ stage \in [Procs -> {"off", "run"}]
    /\ found \in [Procs -> SUBSET Candidates] /\ picked \in [Procs -> SUBSET Candidates]
    /\ fails \in [Procs -> [Candidates -> Nat]] /\ spent \in [Procs -> 0..MaxExecuted]
    /\ known \subseteq Candidates /\ recorded \in [Candidates -> Nat]
    /\ failed \in [Candidates -> Nat] /\ forgotten \subseteq Candidates
    /\ losses \in 0..MaxLosses
    /\ \A p \in Procs : /\ picked[p] \subseteq found[p]
                        /\ pc[p] # "idle" => stage[p] = "run" /\ job[p] \in found[p]

\* The bound on retries that releasing the claim of a retryable failure relies on:
\* no run, however the failures are spread over runs, executes a candidate that has
\* failed as often as the policy tolerates, unless the history was lost.
FailuresAddUp ==
    \A p \in Procs :
        pc[p] # "idle" /\ job[p] \notin forgotten => failed[job[p]] < MaxFailures

\* Nor does the store know less than what has happened once the run is over.
StoreRemembers ==
    \A c \in Candidates \ forgotten :
        (\A p \in Procs : stage[p] = "off" \/ c \notin found[p]) => recorded[c] = failed[c]

\* However often runs are started, a candidate whose history is not lost is executed
\* for the last time: it is repaired, or refused by the journal, or blocked.
RetriesEnd ==
    \A c \in Candidates :
        <>[](\A p \in Procs : job[p] # c) \/ <>(c \in forgotten)
=============================================================================
