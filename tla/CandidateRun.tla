----------------------------- MODULE CandidateRun -----------------------------
(***************************************************************************)
(* One attempt to implement a plan with the interactive agent, and the      *)
(* validation that follows it: InteractiveCodingAgent.execute               *)
(* (local_agent/coding_agent.py) with its tool loop, the candidate tree and *)
(* the commands run in it (ProspectiveValidator, local_agent/sandbox.py),   *)
(* then what Orchestrator does with the result: apply it, select targeted   *)
(* commands, drop those whose candidate evidence still holds, run the rest  *)
(* and the full plan (local_agent/orchestrator.py).                         *)
(*                                                                         *)
(* Somebody else may edit the project between any two steps, and a process  *)
(* that a tool or a command starts may write files where it runs.  Both are *)
(* counted as disturbances.                                                 *)
(***************************************************************************)
EXTENDS CandidateWorkspace, ToolLoop

CONSTANTS
    Modes,          \* "single", "interactive", "prospective"
    StartTrees,     \* what the project may hold at first
    StartHistories, \* what earlier attempts may have left as history, and executed
    Proposals,      \* operation lists the provider may emit
    CheckSets,      \* which checks of find_reusable the caller may ask for
    Reads, Breaks,  \* per command: files it reads, contents it fails on
    MaybeMissing,   \* commands whose executable may be missing or be blocked
    Syntax,         \* compileall
    Tests,          \* the targeted tests there are, in rank order
    Statics,        \* the linters there are, in order
    NameOf,         \* the source file a test's name points to
    Dependents,     \* per file: the files that import it, directly or not
    MaxTargeted, MaxStatic, MaxRefineRounds, MaxCandidateIterations,
    Strays,         \* <<file, content>> pairs that somebody else may write
    MaxDisturbances

\* Of the calls in a history, refused calls being entries as well, some were executed,
\* within the budgets
Total(executed) == FoldFunction(+, 0, executed)
WithinBudgets(executed) ==
    /\ Total(executed) <= StepBudget
    /\ \A t \in DOMAIN Limits : executed[t] <= Limits[t]
    /\ \A t \in Disallowed : executed[t] = 0
Possible(h) ==
    /\ WithinBudgets(h.executed) /\ Total(h.executed) <= h.history.steps
    /\ \A t \in Tools : h.executed[t] <= h.history.count[t]

ASSUME CandidateAssumption ==
    /\ Modes \subseteq {"single", "interactive", "prospective"}
    /\ StartTrees \subseteq Trees
    /\ StartHistories \subseteq { h \in [history : Histories, executed : [Tools -> Nat]] : Possible(h) }
    /\ Proposals \subseteq Seq(Operations)
    /\ Reads \in [Commands -> SUBSET Files] /\ Breaks \in [Commands -> SUBSET Contents]
    /\ MaybeMissing \subseteq Commands /\ Syntax \in Commands
    /\ Tests \in Seq(Commands) /\ Statics \in Seq(Commands)
    /\ ToSet(Tests) \subseteq DOMAIN NameOf /\ \A c \in ToSet(Tests) : TestFile[c] # NoFile
    /\ Dependents \in [Files -> SUBSET Files]
    /\ {MaxTargeted, MaxStatic, MaxRefineRounds, MaxDisturbances} \subseteq Nat
    /\ MaxCandidateIterations \in Nat \ {0}
    /\ Strays \subseteq Files \X Contents

VARIABLES
    mode,           \* fixed at the start: how the agent is configured
    tree,           \* the project
    ws,             \* the candidate workspace
    stage,
    history, run,   \* the tool loop
    ops, engine,    \* what the last round emitted, and whether it completed
    errors,         \* whether the pre-mutation check found defects
    refines, iterations,
    outcome,        \* of the last candidate: "none", "passed", "failed", "invalid"
    todo,           \* commands still to run
    report,         \* results of the last candidate's commands
    impact,         \* the last impact report
    ledger, result, reused, disturbances,
    seen            \* observed only: what really happened

vars == <<mode, tree, ws, stage, history, run, ops, engine, errors, refines, iterations,
          outcome, todo, report, impact, ledger, result, reused, disturbances, seen>>
agent == <<history, run, ops, engine, errors, refines, iterations, outcome>>
verdict == <<report, impact, ledger, result, reused>>

Prospective == mode = "prospective"
Working == {"start", "loop", "rebuild", "validate", "finish"}
Ended == {"done", "failed", "raised"}
NoResult == [success |-> FALSE, evidence |-> <<>>, leftBehind |-> FALSE]
NoImpact == [made |-> FALSE, changed |-> {}, affected |-> {}, symbols |-> {},
             confidence |-> "low", scope |-> "broad", targets |-> <<>>]

Init ==
    /\ mode \in Modes
    /\ tree \in StartTrees
    /\ \E earlier \in StartHistories :
         /\ history = earlier.history
         /\ seen = [mirror |-> NoWorkspace.tree, dirty |-> FALSE, edited |-> {},
                    executed |-> earlier.executed, proven |-> NoWorkspace.tree, decided |-> tree]
    /\ ws = NoWorkspace /\ stage = "start" /\ run = FreshRun
    /\ ops = <<>> /\ engine = "none" /\ errors = FALSE /\ refines = 0 /\ iterations = 0
    /\ outcome = "none" /\ todo = <<>> /\ report = <<>> /\ impact = NoImpact
    /\ ledger = EmptyLedger /\ result = NoResult /\ reused = {} /\ disturbances = 0

-----------------------------------------------------------------------------
(* Disturbances.                                                           *)

\* Nothing, or one stray write
Writes == {<<>>} \cup (IF disturbances < MaxDisturbances THEN Strays ELSE {})
Counted(w) == disturbances' = disturbances + (IF w = <<>> THEN 0 ELSE 1)
TreeWith(w) == IF w = <<>> THEN tree ELSE [tree EXCEPT ![w[1]] = w[2]]
WsWith(w) == IF w = <<>> THEN ws ELSE Written(ws, w)
\* What is observed of a write by a process that runs in the candidate, or in
\* the project
SeenIn(candidate, w) ==
    IF w = <<>> THEN seen
    ELSE IF candidate THEN [seen EXCEPT !.dirty = TRUE]
    ELSE [seen EXCEPT !.edited = @ \cup {w[1]}]

Edit ==
    /\ stage \notin Ended
    /\ \E w \in Writes \ {<<>>} :
         /\ tree' = TreeWith(w) /\ tree' # tree /\ Counted(w) /\ seen' = SeenIn(FALSE, w)
    /\ UNCHANGED <<mode, ws, stage, agent, todo, verdict>>

-----------------------------------------------------------------------------
(* The agent.                                                              *)

\* execute, up to the loop.  A provider without tool use answers once
Start ==
    /\ stage = "start"
    /\ IF Prospective
         THEN \/ /\ ws' = SetUp(tree) /\ stage' = "loop"
                 /\ seen' = [seen EXCEPT !.mirror = Mirror(tree)]
              \/ /\ stage' = "failed" /\ UNCHANGED <<ws, seen>>
         ELSE stage' = "loop" /\ UNCHANGED <<ws, seen>>
    /\ UNCHANGED <<mode, tree, agent, todo, verdict, disturbances>>

\* One call the policy lets through, refuses or ends the run for.  A command
\* runs where the registry is rooted: in the candidate, or in the project
Call ==
    /\ stage = "loop" /\ mode # "single"
    /\ \E call \in Calls, size \in Sizes, w \in Writes :
         LET decision == EvaluateCall(history, run, call)
             runs == decision = "allow" /\ call[1] = "run_command_sandbox"
         IN /\ w # <<>> => runs
            /\ IF decision = "terminate"
                 THEN stage' = "finish" /\ engine' = "stopped" /\ UNCHANGED <<history, run>>
                 ELSE /\ history' = HistoryAfter(history, call, decision, size)
                      /\ run' = AfterCall(run, call, decision)
                      /\ UNCHANGED <<stage, engine>>
            /\ ws' = (IF Prospective THEN WsWith(w) ELSE ws)
            /\ tree' = (IF Prospective THEN tree ELSE TreeWith(w))
            /\ Counted(w)
            /\ seen' = [SeenIn(Prospective, w) EXCEPT
                         !.executed[call[1]] = @ + (IF decision = "allow" THEN 1 ELSE 0)]
    /\ UNCHANGED <<mode, ops, errors, refines, iterations, outcome, todo, verdict>>

\* An answer that is neither a call nor a list of operations
Invalid ==
    /\ stage = "loop" /\ mode # "single"
    /\ stage' = "finish" /\ engine' = "stopped"
    /\ UNCHANGED <<mode, tree, ws, history, run, ops, errors, refines, iterations,
                   outcome, todo, verdict, disturbances, seen>>

\* Mutant: a defect is refined without end
ProposeForever ==
    /\ stage = "loop"
    /\ \E p \in Proposals :
         LET defect == mode # "single" /\ ~DefectFree(p, tree) IN
         /\ ops' = p /\ engine' = "completed" /\ errors' = defect
         /\ IF defect THEN run' = FreshRun /\ UNCHANGED stage
            ELSE /\ stage' = (IF Prospective THEN "rebuild" ELSE "finish") /\ UNCHANGED run
    /\ UNCHANGED <<mode, tree, ws, history, refines, iterations, outcome, todo, verdict,
                   disturbances, seen>>

\* What follows the operations of a round: the pre-mutation check, a refinement
\* while its budget lasts, then the candidate
Refined == refines < MaxRefineRounds
Propose ==
    /\ stage = "loop"
    /\ \E p \in Proposals :
         LET defect == mode # "single" /\ ~DefectFree(p, tree) IN
         /\ ops' = p /\ engine' = "completed" /\ errors' = defect
         /\ IF defect /\ Refined
              THEN /\ refines' = refines + 1 /\ run' = FreshRun
                   /\ history' = Append1(history, "implementation_precheck", FeedbackSize)
                   /\ UNCHANGED stage
              ELSE /\ stage' = (IF Prospective /\ ~defect THEN "rebuild" ELSE "finish")
                   /\ UNCHANGED <<refines, run, history>>
    /\ UNCHANGED <<mode, tree, ws, iterations, outcome, todo, verdict, disturbances, seen>>

\* A ProviderError leaves execute; its finally still removes the candidate
Raise ==
    /\ stage = "loop" /\ stage' = "raised"
    /\ \E survives \in BOOLEAN : ws' = CleanedUp(ws, survives)
    /\ UNCHANGED <<mode, tree, agent, todo, verdict, disturbances, seen>>

-----------------------------------------------------------------------------
(* One candidate.                                                          *)

\* What follows an evaluated candidate: done, out of candidates, or feedback
After(out, n) ==
    IF out = "passed" \/ n >= MaxCandidateIterations
      THEN stage' = "finish" /\ UNCHANGED <<history, run>>
      ELSE /\ stage' = "loop" /\ run' = FreshRun
           /\ history' = Append1(history, "candidate_validation", FeedbackSize)

\* SemanticChangeImpactAnalyzer, as a choice: it fails, or it reports what
\* imports the changed files, with high confidence or without
Targets(files) == Among(Tests, { c \in Commands : TestFile[c] \in files })
Impact(changed, exact, sure) ==
    LET affected == UNION { Dependents[f] : f \in changed } IN
    [made |-> TRUE, changed |-> changed, affected |-> affected,
     symbols |-> changed \X {exact},
     confidence |-> IF sure THEN "high" ELSE "low", scope |-> IF sure THEN "targeted" ELSE "broad",
     targets |-> Targets(changed \cup affected)]
AnalyzeImpact(changed, exact) ==
    {NoImpact, Impact(changed, exact, FALSE)} \cup (IF exact THEN {Impact(changed, TRUE, TRUE)} ELSE {})

\* discover_targeted_commands: tests named after a changed file
Lexical(changed, t) ==
    Among(Tests, { c \in DOMAIN NameOf : NameOf[c] \in changed /\ t[TestFile[c]] # Absent })

\* The commands of the three tiers, selected before any of them runs
Upto(s, n) == SubSeq(s, 1, IF Len(s) < n THEN Len(s) ELSE n)
Targeted(im, changed, t) ==
    LET semantic == Upto(SemanticCommands(im, t), MaxTargeted * (IF im.scope = "targeted" THEN 1 ELSE 3))
    IN IF semantic # <<>> THEN semantic ELSE Upto(Lexical(changed, t), MaxTargeted)
Tier(name, cmds) == [ i \in DOMAIN cmds |-> [tier |-> name, cmd |-> cmds[i]] ]
Tiers(targeted, changed, t) ==
    (IF \E f \in changed : t[f] # Absent THEN Tier("syntax", <<Syntax>>) ELSE <<>>)
      \o Tier("targeted_tests", targeted)
      \o Tier("static_analysis", Upto(Statics, MaxStatic))

\* CandidateWorkspace.rebuild.  It refuses what prepare refuses; a write may
\* fail, and its roll-back too
RebuildFails(next) ==
    /\ ws' = next /\ outcome' = "invalid" /\ After("invalid", iterations')
    /\ UNCHANGED <<todo, report, impact>>
Rebuild ==
    /\ stage = "rebuild" /\ iterations' = iterations + 1
    /\ \/ /\ Rebuilds(ws, ops)
          /\ ws' = Rebuilt(ws, ops) /\ stage' = "validate" /\ report' = <<>>
          /\ impact' \in AnalyzeImpact(Paths(ops), TRUE)
          /\ \E targeted \in {Targeted(impact', Paths(ops), ws'.tree)} :
               todo' = Tiers(targeted, Paths(ops), ws'.tree)
          /\ UNCHANGED <<outcome, history, run, seen, disturbances>>
       \/ /\ ~Rebuilds(ws, ops) /\ RebuildFails(Reset(ws))
          /\ UNCHANGED <<seen, disturbances>>
       \/ /\ Rebuilds(ws, ops) /\ disturbances < MaxDisturbances
          /\ \E stuck \in SUBSET Paths(ops) :
               /\ RebuildFails(Broken(ws, ops, stuck))
               /\ seen' = [seen EXCEPT !.dirty = @ \/ stuck # {}]
          /\ disturbances' = disturbances + 1
    /\ UNCHANGED <<mode, tree, ops, engine, errors, refines, ledger, result, reused>>

\* One command in tree t: skipped when its executable is missing or the policy
\* of commands blocks it
Passes(cmd, t) == \A f \in Reads[cmd] : t[f] \notin Breaks[cmd]
Statuses(cmd, t) ==
    {IF Passes(cmd, t) THEN "passed" ELSE "failed"}
      \cup (IF cmd \in MaybeMissing THEN {"skipped"} ELSE {})

\* The rest of a failed tier still runs, the tiers after it do not
Left(step, status) ==
    IF status = "failed" THEN Among(Tail(todo), { s \in ToSet(todo) : s.tier = step.tier })
    ELSE Tail(todo)
RunInCandidate ==
    /\ stage = "validate" /\ todo # <<>>
    /\ LET step == Head(todo) IN
       \E status \in Statuses(step.cmd, ws.tree), w \in Writes :
         /\ w # <<>> => status # "skipped"
         /\ report' = Append(report, [cmd |-> step.cmd, status |-> status, ran |-> ws.tree])
         /\ todo' = Left(step, status)
         /\ ws' = WsWith(w) /\ Counted(w) /\ seen' = SeenIn(TRUE, w)
    /\ UNCHANGED <<mode, tree, stage, agent, impact, ledger, result, reused>>

\* _record_candidate_evidence: the fingerprint is of the tree as all commands
\* left it, and no identity of the surroundings is recorded
EvidenceOf(r) ==
    LET about == IF impact.made THEN impact ELSE [NoImpact EXCEPT !.changed = Paths(ops)]
        files == Relevant(r.cmd, about)
    IN [cmd |-> r.cmd, status |-> r.status, files |-> files, symbols |-> about.symbols,
        confidence |-> about.confidence, print |-> ContentOf(ws.tree, files),
        identity |-> [k \in IdentityChecks |-> NotRecorded], ran |-> r.ran]

\* The end of _evaluate_candidate, and what execute does with its outcome
Verdict == IF \A i \in DOMAIN report : report[i].status # "failed" THEN "passed" ELSE "failed"
Judge ==
    /\ stage = "validate" /\ todo = <<>>
    /\ \E es \in { [ i \in DOMAIN report |-> EvidenceOf(report[i]) ] } :
         ledger' = RecordEntries(ledger, es)
    /\ outcome' = Verdict /\ After(Verdict, iterations)
    /\ seen' = [seen EXCEPT !.proven = IF Verdict = "passed" THEN ws.tree ELSE @]
    /\ UNCHANGED <<mode, tree, ws, ops, engine, errors, refines, iterations, todo, report,
                   impact, result, reused, disturbances>>

\* The finally of execute, and _build_result
Succeeded == engine = "completed" /\ ~errors /\ (Prospective => outcome = "passed")
Finish ==
    /\ stage = "finish"
    /\ \E survives \in BOOLEAN :
         /\ ws' = CleanedUp(ws, survives)
         /\ result' = [success |-> Succeeded, evidence |-> ledger.entries, leftBehind |-> ws'.left]
    /\ stage' = (IF Succeeded THEN "apply" ELSE "failed")
    /\ UNCHANGED <<mode, tree, agent, todo, report, impact, ledger, reused, disturbances, seen>>

-----------------------------------------------------------------------------
(* What the orchestrator does with the result.                             *)

\* prepare, against the project as it is now
Prepare ==
    /\ stage = "apply" /\ stage' = (IF Prepares(ops, tree) THEN "approval" ELSE "failed")
    /\ UNCHANGED <<mode, tree, ws, agent, todo, verdict, disturbances, seen>>

\* The approval may take its time; what is then written is what prepare made of
\* the operations
Apply ==
    /\ stage = "approval"
    /\ \/ tree' = Applied(ops, tree) /\ stage' = "select"
       \/ stage' = "failed" /\ UNCHANGED tree
    /\ UNCHANGED <<mode, ws, agent, todo, verdict, disturbances, seen>>

\* _semantic_targeted_commands: the candidate's impact report if there is one,
\* else a new analysis without BASE contents; then _apply_evidence_reuse
Select ==
    /\ stage = "select"
    /\ \E im \in (IF impact.made THEN {impact} ELSE AnalyzeImpact(Paths(ops), FALSE)),
          checks \in CheckSets :
       \E expired \in (IF "age" \in checks THEN BOOLEAN ELSE {FALSE}),
          lexical \in {Lexical(Paths(ops), tree)}, evidence \in {Reloaded(result.evidence)} :
         /\ impact' = (IF im.made THEN im ELSE [NoImpact EXCEPT !.changed = Paths(ops)])
         /\ \E selected \in {IF im.made THEN Decide(im, tree, lexical) ELSE lexical} :
            \E reuse \in {ApplyReuse(selected, impact', tree, evidence, checks, expired)} :
              /\ reused' = reuse.reused /\ ledger' = reuse.ledger
              /\ todo' = Tier("targeted", reuse.remaining)
    /\ stage' = "targeted" /\ outcome' = "applied" /\ seen' = [seen EXCEPT !.decided = tree]
    /\ UNCHANGED <<mode, tree, ws, history, run, ops, engine, errors, refines, iterations,
                   report, result, disturbances>>

\* _validate on the targeted plan: it stops at the first failure, and here a
\* missing executable is one
RunInProject ==
    /\ stage = "targeted" /\ todo # <<>>
    /\ \E failed \in BOOLEAN, w \in Writes :
         /\ ~failed => Passes(Head(todo).cmd, tree)
         /\ failed => ~Passes(Head(todo).cmd, tree) \/ Head(todo).cmd \in MaybeMissing
         /\ IF failed THEN outcome' = "failed" /\ todo' = <<>>
            ELSE todo' = Tail(todo) /\ UNCHANGED outcome
         /\ tree' = TreeWith(w) /\ Counted(w) /\ seen' = SeenIn(FALSE, w)
    /\ UNCHANGED <<mode, ws, stage, history, run, ops, engine, errors, refines, iterations,
                   verdict>>

\* The full validation plan, never dropped, unless a targeted command failed
RunFullPlan ==
    /\ stage = "targeted" /\ todo = <<>>
    /\ stage' = "done"
    /\ outcome' \in (IF outcome = "failed" THEN {"failed"} ELSE {"validated", "failed"})
    /\ UNCHANGED <<mode, tree, ws, history, run, ops, engine, errors, refines, iterations,
                   todo, verdict, disturbances, seen>>

Step == Start \/ Call \/ Invalid \/ Propose \/ Raise \/ Rebuild \/ RunInCandidate \/ Judge
          \/ Finish \/ Prepare \/ Apply \/ Select \/ RunInProject \/ RunFullPlan
Next == Step \/ Edit

\* The provider answers or raises, commands end or time out: the agent's own
\* process goes on.  Nobody has to edit anything
Spec == Init /\ [][Next]_vars /\ WF_vars(Step)
-----------------------------------------------------------------------------
(* Properties.                                                             *)

\* Every variable has its type: what the agent's attributes may hold
Outcomes == {"none", "passed", "failed", "invalid", "applied", "validated"}
TypeOK ==
    /\ mode \in Modes
    /\ tree \in Trees /\ ws.tree \in Trees /\ ws.mutated \subseteq DOMAIN ws.base
    /\ {ws.active, ws.left, errors, result.success, result.leftBehind} \subseteq BOOLEAN
    /\ stage \in Working \cup Ended \cup {"apply", "approval", "select", "targeted"}
    /\ engine \in {"none", "stopped", "completed"} /\ outcome \in Outcomes
    /\ history.steps \in Nat /\ history.bytes \in Nat /\ run.repeats \in Nat
    /\ ops \in Proposals \cup {<<>>}
    /\ \A i \in DOMAIN todo : todo[i].cmd \in Commands
    /\ \A i \in DOMAIN report : report[i].ran \in Trees
    /\ Len(ledger.entries) <= MaxLedger /\ reused \subseteq ToSet(result.evidence)
    /\ disturbances \in 0..MaxDisturbances

\* When validation of a candidate starts, the candidate is BASE plus the
\* current operations, whatever the candidates before it wrote and whoever
\* edits the project meanwhile: rebuild reverts and re-applies
\* (sandbox.py:513-553), unless a process wrote in it or a roll-back failed
CandidateIsBasePlusOps ==
    stage = "validate" /\ ~seen.dirty => ws.tree = Applied(ops, seen.mirror)

\* Operations that leave the agent for approval were proven on a candidate: in
\* the last round all its commands passed or were skipped, on the tree that
\* these operations make (_build_result, coding_agent.py:1037-1105)
HandedOver == result.success /\ Prospective
HandedOverWasProven ==
    HandedOver /\ stage = "apply" =>
        /\ iterations > 0 /\ \A i \in DOMAIN report : report[i].status # "failed"
        /\ \A i \in DOMAIN report :
             ~seen.dirty => report[i].ran = Applied(ops, seen.mirror)

\* What is applied is what was validated: after apply_prepared every file that
\* nobody else wrote holds what it held in the candidate that passed
AppliedTreeWasValidated ==
    HandedOver /\ stage \in {"select", "targeted", "done"} /\ ~seen.dirty =>
        \A f \in (Mirrored \cup Paths(ops)) \ seen.edited : tree[f] = seen.proven[f]

\* What is handed over was proven, and what is applied is what was handed over
HandOverIsSound == HandedOverWasProven /\ AppliedTreeWasValidated

\* A command dropped because of candidate evidence would pass now: it passed on
\* the same contents, as far as it reads only files the impact analysis relates
\* to the change and nothing was written between its run and its fingerprint
\* (evidence.py:453-525)
ReusedWouldPass ==
    stage = "targeted" => \A e \in reused :
        Reads[e.cmd] \subseteq e.files /\ ContentOf(e.ran, e.files) = e.print
            => Passes(e.cmd, seen.decided)

\* The tools that really ran, with those of earlier attempts, stay within the
\* budgets: the history goes from round to round and from attempt to attempt
\* (tool_engine.py:309-326).  So do refinements and candidates
ToolBudgets ==
    /\ WithinBudgets(seen.executed)
    /\ refines <= MaxRefineRounds /\ iterations <= MaxCandidateIterations

\* The state keeps its shape, and tools, refinements and candidates their budgets
CallsWithinBudget == TypeOK /\ ToolBudgets

\* However the model answers, the attempt comes to an end
AttemptEnds == stage = "start" ~> stage \in Ended

\* What the ledger is for: a targeted command that passed on the candidate with
\* enough confidence, on files that are the same in the project now, is not run
\* a second time ("a command that already ran, against provably-identical
\* inputs, minutes earlier", orchestrator.py:1533-1536)
AlreadyPassed(cmd) ==
    \E i \in DOMAIN result.evidence :
        LET e == result.evidence[i] IN
        /\ e.cmd = cmd /\ e.status = "passed" /\ AtLeast(e.confidence, MinConfidence)
        /\ e.files = Relevant(cmd, impact) /\ e.symbols = impact.symbols
        /\ e.print = ContentOf(seen.decided, e.files)
NothingRunsTwice ==
    stage = "targeted" => \A i \in DOMAIN todo : ~AlreadyPassed(todo[i].cmd)
=============================================================================
