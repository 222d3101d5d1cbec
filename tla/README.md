# A verification model of `local_agent`

`local_agent` is a local coding agent. A user creates a *task*; a scheduler has an
AI provider turn it into a plan of dependent *subtasks*; an orchestrator runs each
subtask through planning, generation, validation, review and completion gates; and
when configured so, a coordinator runs independent subtasks side by side in Git
worktrees and merges them. Apart from tasks, *autonomous maintenance* finds defects of
the repository and repairs them by itself. Everything must survive rate limits, refusing and
failing providers, user interventions, Ctrl-C, kills and resumption.

This directory holds TLA+ modules translated from that code, TLC configurations
that check them on small instances, and TLAPS proofs for all instances. File and
line references are to `src/local_agent/` unless they say otherwise. `PROJECT.json`
is the index: components, runs, the source lines of each definition (`map`), for
each checked property a plausible bug it catches (`mutants`), disagreements between
code and documentation (`findings`), hazards, and theorems.

    tlc -workers 2 -config DagFaults.cfg MCDagCoordinator     # a run
    tlapm DagCoordinatorProofs.tla                            # proofs of a module

| module | models | checked through | proved in |
|---|---|---|---|
| `DagCoordinator` | parallel execution of one task: coordinator, worktrees, Git | `MCDagCoordinator` | `DagCoordinatorProofs` |
| `DagAmendment` | how a plan changes while it runs | `MCDagAmendment` | `DagAmendmentProofs` |
| `SubtaskRun` | `Orchestrator.run` for one subtask after the other | `MCSubtaskRun` | `SubtaskRunProofs` |
| `TaskScheduler` | `Scheduler.run_once` for several tasks, and the user's commands | `MCTaskScheduler` | `TaskSchedulerProofs` |
| `MaintenanceExecutor` | one maintenance work order after the other, by several processes | `MCMaintenanceExecutor` | `MaintenanceProofs` |
| `MaintenanceRunner` | maintenance runs over that executor, with their store | `MCMaintenanceRunner` | `MaintenanceProofs` |
| `MaintenancePolicy` | the tier a candidate is granted | through `MaintenanceReport` | `MaintenanceProofs` |
| `MaintenanceReport` | what maintenance runs decide, report and keep of candidates | `MCMaintenanceRunner` | `MaintenanceProofs` |
| `MultiTurn` | the agent that implements, tests, repairs and has itself reviewed in turns | `MCMultiTurn` | `MultiTurnProofs` |
| `CompletionEvidence`, `TaskContract` | the store of evidence and the gates; requirements and what satisfies them | through `MultiTurn` | `MultiTurnProofs` |
| `CompletionPromise` | what that agent promises: the abstract specification | as `KeepsPromise` | `MultiTurnProofs` |
| `CandidateRun` | one attempt of the interactive agent, application and validation of what it emits | `MCCandidate` | `CandidateRunProofs` |
| `ToolLoop`, `CandidateWorkspace`, `EvidenceReuse` | tool budgets; the disposable tree; reuse of evidence | through `CandidateRun` | `CandidateRunProofs` |
| `ValidationLearning` | what runs record of their validations, in files they share | `MCLearning` | `ValidationLearningProofs` |
| `ValidationLifecycle`, `ValidationTelemetry` | the two stores and what is concluded from them | through `ValidationLearning` | |
| `SemanticImpact` | which tests a change can affect, and how sure that is | `MCLearning` | `ValidationLearningProofs` |

## 1. The system

### Components, their state and their operations

| component (files) | state | operations | status |
|---|---|---|---|
| Task scheduler (`scheduler.py`, task commands of `cli.py`) | stored tasks: status, `assigned_to`, `next_retry_at`; provider availability and cooldown | `run_once`, create/approve/reject/edit commands | `TaskScheduler` |
| Parallel coordinator (`coordinator.py`, `worktree.py`, `git.py`) | subtask records, branches, worktrees, integration branch, knowledge promotions | reconcile, batches, workers, integration, Tier-2 validation, resumption | `DagCoordinator` |
| Amendment of plans (`models.py`, `planner.py`) | plan, amendment budgets, stored proposal | guard, apply, approve, reject | `DagAmendment` |
| Orchestrator (`orchestrator.py`, `coding_agent.py`, part of `completion.py`) | iteration, plan scope, recovery state, checkpoints, evidence, changed files | plan, generate, amend scope, apply, validate, repair, review, assess, pause, resume | `SubtaskRun` |
| Validation lifecycle (`validation_lifecycle.py`) | a record per run, in a locked bounded store | `transition`, iterations, repair chains, effectiveness, recommendation | `ValidationLifecycle`, `ValidationLearning` |
| Validation telemetry (`validation_telemetry.py`) | decisions and observations, in a locked bounded store | record, finalise, reliability, shadow calibration | `ValidationTelemetry`, `ValidationLearning` |
| Maintenance runner (`maintenance_runner.py`, `maintenance.py`, `maintenance_policy.py`) | candidates with counters, runs, budget ledgers, the store | discover, score, decide, plan, execute, reassess, persist | `MaintenanceRunner`, `MaintenanceReport`, `MaintenancePolicy` |
| Maintenance executor (`maintenance_execution.py`) | claim journal (a file per key), the tree | gates, claim, implement, apply, validate, roll back, release or complete | `MaintenanceExecutor` |
| Maintenance judgement (`maintenance_analysis.py`, `maintenance_oracle.py`, `semantic_verification.py`) | none between calls | find signals, observe a failure or success, verify a repair | answers only |
| Completion (`completion.py`, `task_contract.py`) | bounded evidence with fingerprints of files; the requirements | record, invalidate, revalidate, assess, gates | `CompletionEvidence`, `TaskContract` |
| Evidence reuse (`evidence.py`, `validation_decision.py`) | a ledger of command results | record, find reusable, tiers, apply reuse | `EvidenceReuse` |
| Candidate workspace (`sandbox.py`) | a mirror of the tree, touched paths, bytes of BASE | setup, rebuild, validate, clean up | `CandidateWorkspace` |
| Coding loops (`coding_agent.py`, `multi_turn.py`, `tool_engine.py`) | history of tool calls, turns, budgets, checkpoints | bounded loops, circuit breaker, resumption | `MultiTurn`, `CandidateRun`, `ToolLoop` |
| Impact analysis (`semantic_impact.py`) | none between calls | graph, dependents, tiers, confidence | `SemanticImpact` |
| Knowledge graph (`knowledge.py`) | nodes with content hashes, behaviours, confidence | synchronise, invalidate, promote, compact | its promotions in `DagCoordinator` |
| Providers and routing (`providers.py`) | a chain per specialist role | call with fallback | outcomes only |
| Other analysis (`impact.py`, `repository.py`, `context.py`, `indexing/`, `dependency_resolution.py`, `contract_extractor.py`, `test_synthesizer.py`) | none between calls | static analysis, selection | not modelled |
| Guards and I/O (`filesystem.py`, `commands.py`, `patching.py`, `approval.py`, `preflight.py`, `remotes.py`, `credentials.py`, `config.py`, `ui.py`, remaining commands) | files and settings | read, write, run, print | outcomes only |

### How they interact

The scheduler is the only entry for tasks. It loads all tasks from JSON files,
picks the oldest selectable one, and calls either the orchestrator, for the next
subtask, or the coordinator, which starts an orchestrator per worker thread. Both
share the task *object* with the scheduler and save it at many points: two copies,
one stored and one in memory, may differ, and what one provider's run leaves in
memory is handed to the next. Checkpoints are separate files reached through
`task.latest_checkpoint_id`. The user's commands change the same files between
calls. Repository, worktrees and knowledge graph are shared by all workers.
Maintenance has no part in tasks: its runner calls its executor, which calls the
coding agent, and the two share the working tree with everybody and a journal with
the executors of other processes. Every run of the orchestrator, also those of the
worker threads, reads and writes the lifecycle history and the telemetry, two files per
data directory; what they say of earlier runs is advice to later ones.

### What is hard here, and what makes each part correct

* *Stop and resume.* There is no transaction over task file, checkpoint, lifecycle
  store, working tree and Git. Every part has to be safe when the process ends
  between two writes, and what it reads afterwards has to belong to the right
  subtask. Correct means: recorded integrations are never stale, progress and
  budgets survive pauses, plans are reviewed before they run, locks are released.
* *Evidence and completion.* COMPLETED is claimed by several parts, each from its
  own evidence. Correct means: all work is integrated, validated in the state it is
  delivered in, by a plan that is complete, with a trace that says so.
* *Budgets.* Iterations, scope amendments, plan amendments: each must hold over a
  life of pauses, providers and approvals, and each loop must consume one.
* *Scope.* Generated code may touch only what planner or guard granted, must not be
  merged onto the user's branch and must leave the user's own merges alone.
* *Order and concurrency.* Workers finish in any order; merges, promotions and
  dependents have to follow the DAG.
* *Autonomy.* Maintenance writes without being asked. Correct means: never twice for
  one state of a file, nothing unvalidated left without a mark, and not for ever.
* *Learning.* Histories shared by runs are advice that can lower what is tested. Correct
  means: no run takes back what another recorded, damage is not mistaken for an empty
  history, and less is tested only on grounds that were earned.
* *Progress.* Tasks come to an end or to a person, whatever fails finitely often.

The hazards, each at the line where it bites with the properties that cover it,
are listed in `PROJECT.json`; every one has a property that some passing run checks. The weaknesses in section 3 are what became of several of them.

## 2. The modules and the code

### DagCoordinator

The record (`status`, `assigned`, `integrated`, `session`, `base`), the repository
(branch tips as *sets of commits*, so that Git's ancestry is `\subseteq`; head;
merge in progress), worktrees, and the memory of one process (`pc`, the batch, a
program counter per worker). An action ends where the code saves the record or
changes the repository, because that is where a kill is visible.

    RunOnce -> Reconcile -> FindOwed -> BeginIntegration -> MergeNext* -> EndMerges
            -> Persist -> VerifyPass/VerifyFail -> SelectRunnable -> StartBatch
            -> {Worker: create, run, store, commit}* -> EndBatch -> (integrate again)
            -> EndBatches -> Finalize -> Return

* `Reconcile` is the whole table of cases of `reconcile_dag_state`
  (coordinator.py:652), including that ancestry counts as "merged" for branches without commits.
* A commit is `<<s, "part">>` or `<<s, "full">>`: what an interrupted or refused
  worker left, or the finished work. Contents of files are not distinguished.
* Workers interleave freely; `Interrupt` is Ctrl-C (handlers run), `Crash` a kill
  (they do not), `UserCheckout`/`UserMerge` are the user in the same repository.
* Whether a conflict occurs, validation passes or a checkout works is
  nondeterministic. `Events` says which disturbances a configuration allows.
* Two concurrent invocations of the agent on one repository are not modelled.

### DagAmendment

A plan is a status and a dependency set per id. `GuardAccepts` follows
`DAGAmendmentGuard.evaluate` (budgets, then the simulated copy in *the guard's*
order of operations); `Amended` follows `TaskPlan.apply_amendment`, in *its* order.
They are separate definitions because they are separate code. `offered` is an
observation: what the guard accepted, while `stored` is what the task file gives
back. `mode` fixes whether the task is autonomous and whether providers use fresh
ids. Titles, goals and acceptance criteria are left out.

### SubtaskRun

One subtask at a time goes through `Orchestrator.run` with the single-turn agent.

    Start -> PlanMade -> Generate -> Apply -> Validate -> RecordPassed -> Approve
          -> Complete -> CloseCompleted
    Reject, RecordFailed/Analyze, RequestChanges: the repair loop
    PlanPaused, GeneratePaused, ReviewPaused: rate limits, with their checkpoint
    Propose, Refuse, PlanRaises, BreakOff, RefuseCompletion: other ways to the exit

* Files have no contents but a history: written by the agent, `dirty` since the last
  passing validation, `drift` since evidence was fingerprinted.
* A checkpoint has the scope of its plan, its number of amendments (-1: none stored)
  and the recovery state. `Dummy` is the checkpoint `_handle_temporary_provider_error`
  makes from a *rebuilt* report (orchestrator.py:2340-2380).
* `trace` is the lifecycle record: `Advance` takes the transitions that
  `ALLOWED_TRANSITIONS` permits and skips the others, as the code does.
* `granted` and `earned` are observations: paths the planner or guard granted, and
  iterations completed in paused runs.
* The plan is assumed to have been made by an earlier `run_once`, so when all
  providers failed the task becomes FAILED; the other case is in `TaskScheduler`.

### TaskScheduler

`run_once` for several tasks in the serial mode, one step per save. `Orchestrator.run`
is one of its outcomes: key missing, refused, failed, completed, paused, proposal,
raised, each with what it stored and what it left in the task *object* (`mem`). That
is the refinement boundary to `SubtaskRun`, which has the inside of a run; the link
between the two is by construction of the outcomes and is not checked.
`Kill` is a kill between any two saves that `Events` names. `Time` ends cooldowns and
retry delays. The commands of the user may come between any two calls.
`approval_mode = always` behaves as `never` here, because `run_once` only asks for
`plan_review`. A specialist's stage asks the *first* available provider
(orchestrator.py:1333), not the one of the loop; the outcomes keep that.

### MaintenanceExecutor

`MaintenanceExecutor.execute`, with `_run` cut where it reads or writes tree or
journal, so that other processes and the user come in between:

    Begin -> CheckFresh -> Claim -> Implement -> Prepare -> Approve -> Apply -> Passes -> Complete
    RefuseEarly, Stale, Duplicate: refusals before the claim, which hold no key
    ImplementFails, PrepareFails, NotApproved, ApplyFails: refusals after it
    Fails -> RolledBack/RollbackFails: a verdict that puts the file back

* A file is known by its content: the user's revision it goes back to, the defects
  the oracles see in it, who wrote it. A fingerprint is the content itself. An order has one
  file (`MAX_SCOPE_FILES`, maintenance_execution.py:183).
* `claimed` and `closed` are the journal's files; `Taken` is their exclusive creation.
  `ToRelease` is the test at the end of `execute` (857).
* What `_implement` returns is any defect set and draft, including what was there;
  `Results` is what an operation with whole content, or a patch applied to the file
  as it is now, can make of it.
* `Raise` is an exception `_run` does not handle; `Kill` is a kill or Ctrl-C, which
  may tear a write; `UserEdit` writes, reverts or deletes.
* `written`, `abandoned`, `accepted` and `exposed` are observations. `exposed` collects
  the files to which something happened that the code leaves unprotected: a write
  that failed half way, a rollback of a file the user had deleted, a change prepared
  while another process had not judged its own.
* A fingerprint that cannot be taken, and a journal directory that cannot be written,
  are left out.

### MaintenanceRunner

`MaintenanceRunner.run` in execute mode EXTENDS the executor: `Execute` is a step of
the executor inside a run, and when it returns the run learns.

    Discover -> Start -> Execute* -> Start -> Execute* -> Persist

* `fails` are the counts of the run's candidate objects, `recorded` those of the
  store, `failed` what has happened. `Hydrated`, `Learn` and `Merged` carry a count
  from one to the other (maintenance_runner.py:885, 1066; maintenance.py:719).
* `forgotten` has the candidates whose history was lost: by eviction, by a store that
  could not be written or read, or by a kill. They are not counted any more.
* Which of the eligible candidates is selected, and which record is evicted, is any
  choice: ranking and severity are left out.
* One run at a time. Two runs on one data directory are not supported
  (maintenance_runner.py:605), and would count one failure between them.

### MaintenanceReport, MaintenancePolicy

What `MaintenanceRunner.run` decides and says, in every mode, where `MaintenanceRunner` has
what it counts:

    Survey -> (Plan | Defer | Hand -> Answer -> Reassess)* -> Store, or Lost

* `decide` is `MaintenanceExecutionPolicy.decide` over the facts it reads (`Evidence`): kinds
  of paths, thresholds reached or not. `Survey` takes any facts of any candidates found.
* `Moved` is `_safe_transition` over the table of `CandidateState`; `reassess` has the rules
  of its docstring in their order, `Credited` the rule after them.
* The executor is reduced to what it may answer, whoever else changes the repository before
  the scan that follows. `MaintenanceExecutor` has how it comes to its answer.
* `Store` gives the store's copy of state and outcome: that of a candidate's first
  observation since it was last evicted.
* `plan_execution_batches` is compared with the loop it replaced over all lists of five
  candidates with up to two files (`BatchesAreUnchanged`, evaluated with `MaintainRuns`).
* `MCMaintenanceRunner` checks the two side by side: `part` says which of them moves, so
  their states add up and do not multiply. They share no variable.

### MultiTurn, CompletionEvidence, TaskContract

`MultiTurnImplementationAgent.execute`, turn by turn, and the calls that resume it.

    Call -> Ask/Implement* -> RunTests -> RecordTests -> BeginReview -> EndReview
         -> RunVerification -> RecordVerification -> Assess -> Return
    Analyze -> Repair*: after failed tests, a rejected review, a refused assessment

* A turn is one action, save that test runs and reviews take time in which files may
  change: they begin and end in two. A turn ends with its checkpoint (`saved`), which may
  fail to be written: the code logs it and goes on.
* Evidence has the restriction of the tree to its paths as its fingerprint. `Readiness` is
  the chain of gates in the code's order; `Satisfied` is the assessment of requirements.
* Texts are sets of content words, a diff is a set of (file, content) lines; that a word
  occurs is membership. What a provider proposes is a patch or nothing usable.
* `wrote`, `passed`, `approved` and `raced` are observations. `raced` has the trees that
  came to be while a command run or a review of another tree was under way: the code
  takes the fingerprint afterwards (orchestrator.py:758, multi_turn.py), and the promise
  is stated with that exception, not without it.
* `CompletionPromise` knows nothing of stores, gates or turns: files are written, some trees
  pass, some are approved, and completion is reported only for files that read, on the
  written paths, as in a tree that passed and as in one that was approved.
  `KeepsPromise` is `Promise!Spec` under `written <- wrote, done <- (pc = "COMPLETED")`.

### CandidateRun, CandidateWorkspace, ToolLoop, EvidenceReuse

One attempt, with the agent `single`, `interactive` or `prospective`:

    Start -> (Call | Invalid | Propose | Raise)* -> Rebuild -> RunInCandidate* -> Judge
          -> another round, or Finish -> Prepare -> Apply -> Select -> RunInProject* -> RunFullPlan

* A tree is a function from files to contents; the candidate is another one, with the bytes
  it was mirrored from (`ws.base`) and the paths the last candidate touched.
* The history of tool calls is what the policy reads of it: entries per tool, bytes, error
  entries. It goes on over rounds and attempts; repetitions start again in every round.
* `Reusable` has the conditions of `find_reusable` in their order; `checks` says which of
  the optional ones the caller asks for. Why an entry was refused is left out. `Impact` is the answer of the impact analysis,
  exact or not; `SemanticImpact` has how it is found.
* `seen` is an observation: the tree as it was mirrored, whether a process wrote into the
  candidate, what others wrote, the tools that ran, the tree the commands passed on.

### ValidationLearning, ValidationLifecycle, ValidationTelemetry

    Begin -> start -> Generate -> advance* -> Analyse -> record -> Validate
          -> finalize -> iterate -> advance -> Review -> again, or finish

The names in lower case are hooks. Each takes the lock of its manager and loads the file
(`TakeHistory`, `TakeTelemetry`), and in a second step changes the store, saves it and
releases the lock (`Put...`), or the save fails and the run goes on without
(`...Fails`). A thread is a run of `Orchestrator`; `RootOf` is its project root, by which
the code finds the lock. `Crash` is the death of the process, with all its threads;
`Begin` starts the run again where it was. A record may be damaged, or the whole file.
Wilson bounds are compared with their thresholds in integers, by the quadratic inequality
that the bound solves. `acked` is what the acknowledged changes alone, one after the
other, would have made; `tainted` the files that were ever damaged.

* `get()` followed by `transition()` is one locked transaction here; between them the code
  releases the lock, but a lifecycle is changed by its own run only.
* Both features are off in the default configuration.

### SemanticImpact

The graph of imports with its bounds (`GraphFiles`, `Search`), the symbols a
change adds, removes and alters, the tiers in which tests are selected, the causes of
degradation, confidence and scope, as operators on a *repository*: what the analysis reads
of a tree and of its version before the change. The reference is dependence over chains of
imports of any length (`DependsOn`). A behaviour is one question and its answer (`AskSpec`);
the theorem is about any questions, and `MCLearning` asks all about its family of repositories,
apart from the runs.

## 3. What the runs check

Each run is finished by TLC within minutes (`Learning`, the largest, visits some three
million states). "Bounds" lists what was cut.

| run | properties | bounds and why they suffice |
|---|---|---|
| `DagFaults` | `IntegratedMeansAncestor WorkersRunOnCompletedDeps UserBranchUntouched UserMergeUntouched MergesFollowDag` | two subtasks in a chain, *all* disturbances, any number of each: each property relates a subtask, its dependency and the repository |
| `DagOneCall` | `CompletedWorkIsIntegrated CompletedIsVerified DependenciesVisible TaskEnds` | four subtasks: three ready together, two with a common file, one dependent; two workers; failing, pausing, raising workers and conflicts. No kill, Ctrl-C, failed validation or failed commit: for these, see below. `TaskEnds` excepts behaviours with setbacks (pauses, raising workers, conflicts) for ever, which the loop does not bound |
| `Amend` | `ActivePlanIsDag RetiredStaysRetired TaskEnds` | three ids, every proposal with up to two parts (one part of a kind), two amendments: enough for a retired id to be reused and for each pair of operations |
| `SubtaskRuns` | `PauseKeepsProgress CompletedWasTested WritesWithinPlan CompletedIsTraced TaskEnds` | one subtask, two files (inside and outside the plan), three iterations, one scope amendment, two providers, any two disturbances: pause, resume and be disturbed again. Several subtasks: the proofs |
| `SchedulerRuns` | `ReviewedBeforeRun CompletedIsWhole TasksRest` | two tasks, one autonomous; two dependent subtasks; three providers (one plans, one implements, one does both); any three disturbances |
| `Execute` | `HandedBack AppliedOnce UnvalidatedIsMarked` | two processes, one file with one defect, three orders, any two disturbances: a key, its crash and a second attempt; a change on top of another's. More processes, files, defects: the proofs |
| `MaintainRuns` | `FailuresAddUp ReportsAreTrue RetriesEnd` | any number of runs of one process, a defect in each of two files and a store for one record, so that eviction happens; blocked after two failures (the default); a disturbance of the executor and a loss of a run or store. For the reports: two candidates, both of which may be executed, time for one execution that takes it all, a store for one record, the strongest tier configured; any edits of the user |
| `MultiTurnRuns` | `TurnsWithinBudget WritesAccounted EveryCallReturns KeepsPromise` | a file to change and one to keep, a right patch and a wrong one, one repair, one review, two calls, any two disturbances of seven kinds, a store for three entries so that eviction happens. Two calls: a checkpoint, its loss, and what resumes from it |
| `CandidateRuns` | `CallsWithinBudget CandidateIsBasePlusOps HandOverIsSound ReusedWouldPass AttemptEnds` | three files, five answers of the provider, two candidates and one refinement: a second candidate after each kind of first one; three commands, of which one reads a test; a tool with a limit that an earlier attempt used; one stray write |
| `Learning` | `HistoryIsCausal NoLostUpdate CorruptHistoryNeverTrusted TrustIsEarned NarrowIsComplete` | two threads of one root: one run of three rounds, and one of a single round that can be started again; one crash, damage or failed save (a crash before the third round, a failed save of the longer run: the other's would be the same); a step of one run alone is not interleaved, which loses nothing as nobody else sees it; stores for two lifecycles, two iterations, three decisions, so that each evicts. The factors of the Wilson intervals and `MaxAdjustment` are scaled so that two samples can decide. The questions: all of a family of repositories of six files with bounds that cut |

`TurnsWithinBudget`, `CallsWithinBudget` and `HistoryIsCausal` include the type invariant
of their module. Those of the other modules (`TypeOK`, `RunnerTypeOK`), with the budgets of
`SubtaskRun` and `DagAmendment` as bounds in them, are proved, so no run repeats them; the same
holds for `PromotedImpliesIntegrated`, `LockFollowsRun`, `StoreRemembers` and
`ActiveWithinLimit`. Configurations say
`CHECK_DEADLOCK FALSE` because a finished task has no next step: a state in which
nothing is enabled is normal. That the *unfinished* ones do not stop is what the
liveness properties say.

### Runs that fail: where code and documentation disagree

| run | what happens |
|---|---|
| `DagUnverified` | Tier-2 validation fails, subtasks are PAUSED but keep `integration_commit`; the next call marks them COMPLETED and the task "completed and verified" without another validation. |
| `LearningLost` | The lock that makes a change of the lifecycle history atomic is found by project root; the workers of the coordinator have a worktree as theirs, but one shared file. One worker's save takes back what another recorded, in "the parallel-worktree case" the lock is documented for (validation_lifecycle.py:1606). |

### Weaknesses the models show without a run of their own

To reproduce one marked with a name, change `Events`, `Modes` or the property of the module's
configuration; each of these was seen by TLC. Those without are read off the code while it
was translated, and are in the models as transitions or as premises of properties.

*Tasks.*

* `DagCoordinator`, `EmptyRunIsRepeated`: a worker blocked by preflight leaves its subtask
  RUNNING without commits. Once the integration branch exists, its empty branch is an
  ancestor, and reconciliation marks the subtask COMPLETED (coordinator.py:696), against
  coordinator.py:756 "-> reset to PENDING".
* `DagCoordinator`, `CompletedIsIntegrated` with `"checkoutFail"`: the integration branch
  cannot be checked out; nothing is merged (coordinator.py:486-491), and the task is
  COMPLETED all the same (scheduler.py:418).
* `DagAmendment`, `ApprovalAppliesOffer`: a waiting proposal is read back as the older type,
  without removals, invalidations and updates (models.py:2549): approval applies
  something else than what was offered.
* `SubtaskRun`, `ScopeKept`: after a rate limit in planning or review, the resumed run has a
  plan without paths, which allows every file (orchestrator.py:2348).
* `DagCoordinator`, `"commitFail"`: nobody looks at the exit code of `git commit`
  (coordinator.py:342); `CompletedWorkIsIntegrated` fails.
* `DagAmendment`, an autonomous task with reused ids: guard and `apply_amendment`
  differ in their order (models.py:2347-2369, 2193-2202); `ActivePlanIsDag` fails.
  A reviewed proposal that lost its removals may exceed `max_total_subtasks`.
* `SubtaskRun`, `"editDuringTests"`: an edit made while commands run is recorded as
  tested (orchestrator.py:758); `CompletedWasTested` fails.
* `SubtaskRun`, `OwnProgress` with two subtasks: a subtask paused in
  its first planning is resumed with the iterations, failures and rejections of the
  subtask that ran before it (orchestrator.py:2373, against 400-403).
* `SubtaskRun`, `TraceIsClosed`: a rate limit in review returns past the code that
  closes the lifecycle record (orchestrator.py:1044).
* `TaskScheduler`, `"killPlanned"`: the plan is saved before the status PLAN_REVIEW; a
  kill between them leads to unreviewed execution; `ReviewedBeforeRun` fails.
* `TaskScheduler`, `"emptyPlan"`: plans that come as `TaskPlan` or `dict` are not
  validated (planner.py:290-298); a task with an empty plan is selected for ever and
  keeps younger ones waiting; `TasksRest` fails.
* A killed run leaves `assigned_to` behind and the task is never selected again. The
  properties except such tasks (`orphans`).
* A specialist in cooldown while the loop's provider is available gives FAILED, not
  PAUSED; and a paused run cools down the provider of the loop, not the one asked.

*Maintenance.*

* `MaintenanceExecutor`: the key is computed after the freshness check, from the file
  read again (964, 1323); a change in between gives a key that was never checked,
  and two executions of one order may both complete.
* A crash after the write leaves the key claimed, but the half-finished content has a
  key of its own: the next run works on it, against 566-570 ("must be looked at by a
  human, not silently retried").
* `SEMANTIC_VERIFICATION_FAILED` is listed as retryable (357) but reached only after the
  write, so its claim is never released.
* An exception after the claim leaves the key `in_progress` (849): `HandedBack` excepts
  such keys. After Ctrl-C behind the write the change stays without rollback.
* What the user wrote between preparation and write, or before a rollback, is
  overwritten. A `write` operation on a file deleted meanwhile is never rolled back and
  no "ROLLBACK FAILED" is reported (1919-1922).
* A torn write ends as `APPLY_FAILED`, which `NO_MUTATION_STATUSES` (379) says left the
  tree alone. `UnvalidatedIsMarked` excepts both (`exposed`).
* `MaintenanceRunner`: with more failing candidates than the store keeps, eviction resets
  their counts and they are retried for ever; `RetriesEnd` excepts them. Refusals such
  as `APPROVAL_REQUIRED` count as failures towards the block.
* `MaintenanceReport`, `RunIsRemembered`: when a candidate is seen again, the store changes
  neither its state nor its outcome (maintenance.py:671-720). `maintenance status`
  (cli.py:1146) goes on listing as unresolved what a later run resolved, and leaves out what
  was resolved once and came back.
* `_safe_transition` says a violation "is recorded in the candidate history"
  (maintenance_runner.py:1211); it returns `False` and records nothing. `ReportsAreTrue`
  shows that no candidate with a verdict met such a refusal.
* A candidate for which time runs out has been paid from the budget of executions (982-989).

*Agents and evidence.*

* `CandidateRun`, `NothingRunsTwice`: candidate evidence records no policy, executable or
  analyser (coding_agent.py:780-800), while the orchestrator asks for them
  (orchestrator.py:1558-1564), so that what was meant to be reused is run again.
* Evidence of a candidate is fingerprinted after all its commands, not "at execution time"
  (evidence.py:230); `ReusedWouldPass` says so in its premise. Completion evidence likewise.
* `find_reusable` skips a newer FAILED entry of a command for an older one that passed.
* The check before a candidate reads the project, not the candidate. What tools and commands
  write into the candidate is not reset, may be frozen as BASE (against
  coding_agent.py:683), and files that are not mirrored are missing in it.
* The budget of tool steps is shared by all attempts of a subtask: the history goes on.
* `MultiTurn`: the repair budget is checked in ANALYZING_FAILURE only; `RepairsBounded`
  is what follows from the code, more than the docstring (multi_turn.py:117-126) says.
* `MultiTurn`, `KeepsPromise` with two commands: a full store drops its oldest entry
  (completion.py:411), which may be the failed one of a run whose passing one stays; the gates
  then see only tests that passed. It takes `Commands = 2`, `MaxEntries = 7` and an edit during a run.
* A checkpoint that says PAUSED or FAILED makes later calls exit at once. A crash after the
  last checkpoint of VERIFYING resumes without the review's verdict, in a repair. Clarification
  requests are saved and never restored.
* IMPLEMENTING -> ANALYZING_FAILURE and REPAIRING -> ANALYZING_FAILURE happen but are not
  among `valid_transitions` (models.py:930-945), which nobody enforces.
* `apply_prepared` puts back the files written before a failure, not the one whose own write
  failed (coding_agent.py:211-236).

*Learning.*

* A telemetry file that is not JSON is read as an empty store that is not marked corrupt; the
  lifecycle history marks it. `TrustIsEarned` excepts what was damaged.
* The signal of calibration leaves out types of evidence nothing is known of, against the
  docstring; with the default `max_adjustment` of 0.15 no level can change.
  `calibration_version` is never consulted. A decision finalised twice counts twice.
* A resumed run starts a lifecycle of its own and leaves the old one in progress. A repair
  whose save failed lets its lifecycle count as a first pass. Recurring defects below the top
  five do not raise the floor. A lifecycle evicted while it is in progress loses its transitions.
* Writers of other processes are not serialised (documented). 
* `SemanticImpact`: a deleted module without public symbols leaves its importers out although
  the scope is "targeted" (`GoneWasPublic` is the premise that excepts it); a file that does
  not parse, or imports dynamically, degrades only when it is affected already; a file
  that is not UTF-8 looks deleted; a graph of exactly `max_files` files counts as cut.

*Storage.*

* Two writers of one JSON record share one temporary file name (storage.py:165).
* Files changed by an earlier, paused attempt are missing from `changed_files` of the
  resumed one; without a test suite, one recorded failure makes gate 6 refuse.

## 4. Fairness

* `DagCoordinator!LiveSpec` (the others below are named `Spec` unless given): weak fairness of the coordinator's step and of each
  worker thread (the interpreter runs threads that can run), and of `RunOnce`: the
  user starts the agent again while the task is not finished. No fairness for the
  disturbances or the user.
* `DagAmendment!FairSpec`: weak fairness for settling a task, *strong* fairness for
  "some subtask is finished or failed": a provider asked again and again at some
  time does the work instead of proposing. Only `TaskEnds` uses it, and budgets
  alone would not give it: rejected proposals are not counted by the code.
* `SubtaskRun!Spec`: weak fairness of the run as a whole, one sequential program.
  Which of its outcomes occurs is never assumed; `MaxDisturbances` bounds pauses,
  raised errors and foreign edits, for with infinitely many no task ends.
* `TaskScheduler!Spec`: weak fairness of `run_once` (called again and again), of
  `Restart` (the command line makes a new Scheduler per call) and of each clock.
  No user has to answer: waiting for one counts as rest.
* `MaintenanceRunner!FairRunner`: weak fairness of a run that has begun (one sequential
  program). That another run is started is not assumed, and `RetriesEnd` holds however
  often it is. `MaintenanceExecutor` states safety only.
* `MultiTurn!Spec`, `CandidateRun!Spec`: weak fairness of `Step`, the agent's own thread:
  providers answer or raise, commands end or run into their timeout. No answer is assumed to be
  useful, nobody has to edit, and that the orchestrator calls again is not assumed:
  `EveryCallReturns` and `AttemptEnds` speak of the call under way.
* `ValidationLearning` states safety only: its hooks are part of runs whose progress
  `SubtaskRun` has.

## 5. What is proved

For every value of the constants that the modules' assumptions admit (any finite
plan, number of workers, files, limits, providers, any subset of disturbances,
unless noted), over the whole behaviour:

| theorem | says | further assumption |
|---|---|---|
| `DagCoordinatorProofs!TypeCorrect` | `[]TypeOK` | |
| `IntegrationIsNeverStale` | `[]IntegratedMeansAncestor` | |
| `PromotionFollowsIntegration` | `[]PromotedImpliesIntegrated` | |
| `WorkersWait` | `[]WorkersRunOnCompletedDeps` | |
| `UserBranchIsSafe` | `UserBranchUntouched` | |
| `UserMergeIsSafe` | `UserMergeUntouched` | |
| `MergeOrder` | `MergesFollowDag` | |
| `CompletedWasVerified` | `[]CompletedIsVerified` | `ValidationEnds`: no `"interrupt"`, no `"verifyFail"` |
| `CompletedWorkIsThere` | `[]CompletedWorkIsIntegrated` | `OneCall`: failing, pausing, raising workers, conflicts, kills, checkouts of the user |
| `WorkersSeeTheirDependencies` | `DependenciesVisible` | `OneCall` |
| `DagAmendmentProofs!BudgetsHold` | `[]TypeOK` | finite `Ids` |
| `PlanStaysDag` | `[]ActivePlanIsDag` | finite `Ids` |
| `LimitHolds` | `[]ActiveWithinLimit` | finite `Ids`, first plan within the limit |
| `HistoryIsKept` | `RetiredStaysRetired` | finite `Ids` |
| `SubtaskRunProofs!TypeCorrect` | `[]TypeOK` with both budgets | |
| `PausesKeepProgress` | `[]PauseKeepsProgress` | |
| `CompletionIsTested` | `CompletedWasTested` | no `"editDuringTests"` |
| `ScopeIsKept` | `WritesWithinPlan` | |
| `CompletionIsTraced` | `CompletedIsTraced` | |
| `TaskSchedulerProofs!TypeCorrect` | `[]TypeOK` | |
| `LockIsReleased` | `[]LockFollowsRun` | |
| `PlansAreReviewed` | `[]ReviewedBeforeRun` | no `"killPlanned"` |
| `CompletionIsWhole` | `[]CompletedIsWhole` | |
| `MaintenanceProofs!GrantNeverStronger` | no candidate is granted more than the configured tier | |
| `ExecutionIsWarranted` | what may execute passed every check of the policy | |
| `MaintenanceProofs!TypeCorrect` | `[]TypeOK` | |
| `ClaimsAreExclusive` | `[]ClaimInv` | |
| `WritesAreSingle` | `[]AppliedOnce` | |
| `ClaimsAreHandedBack` | `[]HandedBack` | |
| `LeftoversAreMarked` | `[]UnvalidatedIsMarked` | |
| `RunsExecute` | `RunnerSpec => Spec` of the executor | |
| `RunsWriteOnce` | `[]AppliedOnce` for runs | |
| `RunnerTypeCorrect` | `[]RunnerTypeOK` | |
| `RetriesAreBounded` | `[]FailuresAddUp` | one process |
| `StoreIsExact` | `[]StoreRemembers` | one process |
| `ReportsAreSound` | `ReportSpec => []ReportsAreTrue` | |
| `MultiTurnProofs!TypeCorrect` | `[]TypeOK` | |
| `RepairsAreBounded` | `[]TurnsWithinBudget` | |
| `WritesAreAccounted` | `[]WritesAccounted` | |
| `PromiseIsKept` | `KeepsPromise`: the agent implements `CompletionPromise` | `[]RunsAreWhole` |
| `CandidateRunProofs!TypeCorrect` | `[]TypeOK` | |
| `BudgetsAreKept` | `[]CallsWithinBudget` | |
| `CandidatesAreWhole` | `[]CandidateIsBasePlusOps` | |
| `HandOversAreSound` | `[]HandOverIsSound` | |
| `ReuseIsSound` | `[]ReusedWouldPass` | |
| `ValidationLearningProofs!LocksProtect` | `[]LockInv`: who has loaded a file holds its lock | |
| `NothingIsLost` | `[]NoLostUpdate` | one root for all threads |
| `DamageIsRemembered` | `[]CorruptHistoryNeverTrusted` | one root for all threads |
| `HistoryStaysCausal` | `[]HistoryIsCausal`, with the type invariant | one root for all threads |
| `TrustWasEarned` | `[]TrustIsEarned` | one root for all threads |
| `NarrowReportsAreComplete` | `AskSpec => []NarrowIsComplete`: any repository, any bounds | |

The arguments:

* **DagCoordinator.** `IntegratedMeansAncestor` is not inductive: a worker may add
  commits to a branch. `IInv` adds that what a pass still works on is not integrated
  (`Ledger`), which sets of a pass may be non-empty where (`Control`), that whatever has
  work or a merge to come has a branch, and merges happen on the integration branch
  (`Branches`), and that everything waiting or running in a pass has completed
  dependencies outside it (`Dependencies`). A merge of the user is safe because it stands on the
  user's branch (`MergeInv`), where nothing is aborted and which a run cannot leave.
  Merge order follows from `Rank` being compatible with `Deps`.
  `VerifiedInv`: unless something is merged and not validated yet, the integration branch is what
  the last passed validation saw. An interrupted call or a failed validation forgets what was
  merged, and the property fails (`DagUnverified` shows it for the latter, TLC found it for the
  former); a killed call forgets it too, but leaves the task assigned for ever. `CallInv` is about a
  single call: finished work is on its branch or about to be committed (`WorkKept`), a COMPLETED
  subtask is integrated or this pass will see to it (`NothingOwed`), and one call is all there is
  (`TakenOnce`, `Ended`), because the first subtask in rank order that is neither COMPLETED nor FAILED is
  runnable (`NoneRunnableIsAllDone`). Each disturbance that `OneCall` excludes breaks both of its
  theorems: TLC gives a counterexample of three subtasks for each.
* **DagAmendment.** `StoredFits` says that a waiting proposal still fits the budgets it
  was accepted under: amendments happen only from statuses in which none waits, so
  counters cannot move while it waits. `PlanStaysDag` relates the guard's copy to the
  applied plan; they agree when ids are fresh, which is where the assumption enters.
* **SubtaskRun.** `PauseKeepsProgress` needs to know whose the last checkpoint is, as
  `Dummy` reads it. `OrderInv` says: subtasks other than the latest that have a
  checkpoint are finished, because the order of execution always returns to a paused
  subtask first. So the checkpoint read through `latest` is the subtask's own whenever
  it has one. `TraceInv` ties each point of the run to the lifecycle states possible
  there; `TestInv` says between which points changed files may be dirty.
* **TaskScheduler.** Four small invariants, one per property. `WholeInv` needs that every
  plan, also an amended one, contains the dependencies of its subtasks, and that
  `run_once` holds no COMPLETED task until a run completes it.
* **MaintenanceExecutor.** `AppliedOnce` is not inductive: it speaks of keys about to be
  used. `ClaimInv` says that a key is held by one process, is in the journal as long as it is
  held, and stays there once a file was written under it. `MarkInv` is about
  what may come back: a content a process might put into a file is *safe*, that is the
  user's, accepted, or marked by a key that no living process holds (`Dead`). Such
  keys stay dead, so marks last; and a file has an unsafe content only while the process
  that wrote it is unsettled.
* **MaintenanceRunner.** Every step is a step of the executor or leaves its variables
  alone, which gives the implementation. `HistoryInv`, candidate by candidate: the store
  is never ahead of what happened, a run that has found the candidate is exact, and
  when there is none the store is. It needs a single run at a time.
* **MaintenancePolicy.** A minimum over a set of tiers is one of them and below all others
  (`Weakest`), and the configured tier is always in the set; an executing tier therefore shows
  that no weaker one is, so none of the conditions that would have put it there holds.
* **MaintenanceReport.** `ReportInv` adds to the property that there is no outcome between runs,
  that the candidate being executed is in the state `executing`, from which every way the runner
  takes to a verdict is allowed, and that it counts as repaired once its execution completed.
* **MultiTurn.** Repairs begin in three ways, so `BudgetInv` counts them against reviews,
  verifications and calls, for the turns in memory and for those of the checkpoint. The promise
  is proved step by step. A store is `Sound` if every valid entry of a passed run of tests or an
  approval covers all operations and agrees, on the paths it covers, with a tree that
  passed or was approved (or came to be meanwhile); with several commands the entry may instead stand
  beside a failed one of the same run (`Blamed`), which the gates see. `PromiseInv` says it of the store in memory and
  of the one in the checkpoint. What keeps the failed entry there is `RunsAreWhole`: the store
  was never full, or a run is a single entry. Without it the theorem is false (section 3).
* **CandidateRun.** Budgets: the policy compares the *history* with the budget, and refusals are
  entries too, so `BudgetInv` says that what ran is at most what the history counts. The sum over tools
  is a fold; `FoldGrows` is that it grows by one with one call. Candidates: the bytes of BASE are
  frozen when a path is first touched, and `WorkspaceInv` says that then, and for every path
  the last candidate does not touch, the candidate is as it was mirrored; so taking back the
  touched paths gives BASE (`ResetIsBase`). `HandOverInv` carries what a verdict proved to the end: nothing
  between the verdict and the application changes operations, report or mirror, and operations make of every tree
  the same files. `EvidenceInv`: entries are made of results, move between ledgers, and say of
  the tree they ran on what is so.
* **ValidationLearning.** `NoLostUpdate` is about files, but what endangers it is in the hands
  of a thread: `LoadedInv` says that a store a thread holds is what the file still says,
  which needs that whoever holds one has the lock (`LockInv`) and that there is one lock. That
  damage is remembered needs `StoreInv`: what the managers make of a store has no broken record,
  so that loading it again changes nothing, in particular not the mark.
  Without the assumption the theorem is false, as `LearningLost` shows. Chains: `RunOk` says which
  iteration a run remembers as the cause of the next, and `HistoryInv` that every record of the file that
  is not broken belongs to an attempt of a thread (`Belongs`), that its iterations are a `Chain` (rising
  numbers, each the cause of the next, the first caused by something older) and that the last of them is the one the
  run remembers (`Fits`). A failed save changes neither, which is why the next repair names the
  right cause. That `repair_chain` then walks all of such a chain is `WholeChain`, by induction along
  the walk. Trust: `TelemetryInv` says that observations have different names, each of a
  decision that was judged (`ObsOk`); so the trials of a type are as many different observations, and
  none of them is of the decision being made (`NarrowIsBacked`). A decision that is *about* to be recorded
  (`Pending`) is backed as well: between analysis and record other runs may only add observations.

* **SemanticImpact.** A sure and narrow report says that nothing cut the graph or the search, that all that
  changed could be compared and no public symbol is gone (`SureAndNarrow`); so all files that changed still
  exist (`ChangedExists`). Along the levels of the search, unless it was cut, all importers of what lies behind
  the frontier were seen, and each file seen imports another one that was (`LevelOk`). With an empty
  next level that set is closed, so it holds all dependents (`SeenIsClosed`), and a test in it has a tier
  (`SeenIsFound`).

TLC only, beyond this prover: the liveness properties (fairness, `ENABLED`). Every other property
of a passing run has its theorem.

No module declares a RECURSIVE operator. The induction theorems of the library take an operator
as a parameter, which the installed provers cannot instantiate. Three modules prove by the least
number instead: of a set of numbers that is not empty one is the smallest (`LeastMember`, from
`WFMin`), hence what contains 0 and successors is `Nat` (`Induction`). With that
recursive functions are shown to exist and to be what their equations say. `SelectSeq` and `FoldSeq`
of the library are opaque to the provers, so the modules with such proofs write
the recursion as a function (`Among`, `Compliance`, `Readable`).

## 6. Plan

Built, in order of importance: `DagCoordinator`, `DagAmendment`, `SubtaskRun`,
`TaskScheduler`, `MaintenanceExecutor`, `MaintenanceRunner`, `MultiTurn`, `CandidateRun`,
`ValidationLearning`, `SemanticImpact`, `MaintenancePolicy`, `MaintenanceReport`. What is left:

1. `Knowledge`: synchronisation, promotion and demotion of the knowledge graph against
   changing files. Read so far: `promote_subtask_contract` gives a node the new hash but keeps
   the behaviours verified before, and nobody calls `invalidate_paths`.
2. Refinement: `SubtaskRun` under the mapping of its exits to the outcomes of
   `TaskScheduler`; `DagCoordinator` as an implementation of "run one subtask after
   the other in DAG order".
3. Algorithms as operators with reference definitions over bounded inputs: context
   selection under a budget (`context.py`), dependency resolution.
4. What is left of maintenance: run records and actionability, the ranking, and two runs at
   once as a configuration that fails.

## 7. Not modelled, and why

Prompts, parsing of provider answers, static analysis, formatting and the command line
keep no state that the properties speak about; where they influence control (an answer
is a proposal, a file is protected, a check fails) the models choose the outcome
freely. Consensus of reviewers, memories, the knowledge graph, the fallback chain of providers, push
and pull requests, and two agents on one data directory are not modelled. The static predicates of
`maintenance_oracle.py`, `semantic_verification.py` and `maintenance_analysis.py` are answers the
models choose. Of the telemetry, the cost model and the health report are left out: nothing
acts on them. Contents
of files, commits and plans are abstracted to what the properties tell apart, as
described with each module.
