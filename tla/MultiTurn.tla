----------------------------- MODULE MultiTurn -----------------------------
(***************************************************************************)
(* MultiTurnImplementationAgent.execute (local_agent/multi_turn.py): the   *)
(* bounded loop of turns that implements a subtask, tests, repairs, has it *)
(* reviewed and verifies it, with a checkpoint at the end of nearly every  *)
(* turn, and the calls of the orchestrator that resume it from the latest  *)
(* checkpoint.                                                             *)
(*                                                                         *)
(* A turn is one action, except that the commands of a test run, and a     *)
(* review, take time in which files may be edited: they begin and end in   *)
(* two.  Every checkpoint may fail to be written (the error is logged).    *)
(* Prompts, tool calls, telemetry and reports are left out; a proposal is  *)
(* a patch, the files it writes with their new contents.                   *)
(***************************************************************************)
EXTENDS CompletionEvidence, TaskContract

CONSTANTS
    Base,            \* the files as the version control has them
    InRepository,    \* the project is a git repository
    Patches,         \* what the provider may propose
    Allowed,         \* the paths of the plan; {} restricts nothing
    Protected,       \* paths _precheck_operations refuses
    Commands,        \* number of validation commands
    MaxTurns, MaxRepair, MaxReview, MaxVerification,    \* the budgets
    Contract,        \* the task's requirements
    PathWords, LineWords, Docs,     \* the words of paths and lines; documentation
    Events,          \* what may go wrong
    MaxCalls, MaxDisturbances       \* bounds of the model

Cmds == 1..Commands
PatchType == UNION { [P -> Contents] : P \in (SUBSET Files) \ {{}} }

ASSUME MultiTurnAssumption ==
    /\ Base \in Trees /\ InRepository \in BOOLEAN /\ Patches \subseteq PatchType
    /\ Commands \in Nat \ {0}
    /\ {MaxTurns, MaxRepair, MaxReview, MaxVerification, MaxCalls, MaxDisturbances} \subseteq Nat
    /\ Events \subseteq {"pause", "raise", "clarify", "edit", "unsaved", "foreign", "crash"}
    /\ Allowed \cup Protected \cup Docs \subseteq Files
    /\ DOMAIN Contract = 1..Len(Contract)
    /\ \A i \in DOMAIN Contract : Contract[i].paths \subseteq Files

VARIABLES
    tree,       \* the files
    saved,      \* the subtask's latest checkpoint
    store,      \* the evidence store of the call
    turns,      \* what the turns so far amount to
    pc,         \* current_state, or the second half of a turn, or "idle"
    reviews,    \* review_turn_count
    verifs,     \* verification_turn_count
    tried,      \* repair_patch_hashes
    review,     \* the verdict of last_review
    failure,    \* last_failure is not None
    pending,    \* a clarification request without an answer
    seen,       \* the tree a run or a review started from, and the results
    wrote,      \* ghost: paths written by turns the disk or the memory knows of
    passed, approved, raced,    \* ghosts, see CompletionPromise
    calls, disturbed            \* counters of the model

agent == <<reviews, verifs, tried, review, failure, pending>>
ghosts == <<wrote, passed, approved, raced>>
vars == <<tree, saved, store, turns, pc, agent, seen, ghosts, calls, disturbed>>

-----------------------------------------------------------------------------
(* Turns, checkpoints and the diff.                                        *)

\* MultiTurnState, and the second halves of turns
Stages == {"IMPLEMENTING", "TESTING", "ANALYZING_FAILURE", "REPAIRING", "REVIEWING", "VERIFYING"}
Halves == {"running", "judging", "proving", "assessing"}
Ends == {"COMPLETED", "FAILED", "PAUSED"}

\* The list of ImplementationTurn: how many, how many of the stages that have a
\* budget, the paths and signatures of their operations, and whether one of them
\* asked a question that nobody answered
NoTurns == [n |-> 0, repairing |-> 0, reviewing |-> 0, verifying |-> 0,
            ops |-> {}, sigs |-> {}, asked |-> FALSE]
One(b) == IF b THEN 1 ELSE 0

\* Mutant: a turn that analyses or repairs is not appended
EndTurnUncounted(stage) ==
    [turns EXCEPT !.n = @ + One(stage \notin {"ANALYZING_FAILURE", "REPAIRING"}),
                  !.reviewing = @ + One(stage = "REVIEWING"),
                  !.verifying = @ + One(stage = "VERIFYING")]

EndTurn(stage) ==
    [turns EXCEPT !.n = @ + 1, !.repairing = @ + One(stage = "REPAIRING"),
                  !.reviewing = @ + One(stage = "REVIEWING"),
                  !.verifying = @ + One(stage = "VERIFYING")]

NoCheckpoint == [stage |-> "none", turns |-> NoTurns, store |-> EmptyStore]

\* Something may go wrong here
May(e) == e \in Events /\ disturbed < MaxDisturbances
Disturb(e) == May(e) /\ disturbed' = disturbed + 1

\* _checkpoint; an error of the storage is only logged
Checkpoint(stage) ==
    \/ saved' = [stage |-> stage, turns |-> turns', store |-> store'] /\ UNCHANGED disturbed
    \/ Disturb("unsaved") /\ UNCHANGED saved

\* _compute_workspace_diff: what git diff shows, or, when that is nothing or
\* there is no repository, the applied files as they are
Diff(t, ops) ==
    LET changed == { <<f, t[f]>> : f \in { g \in Files : t[g] # Base[g] } }
    IN  IF InRepository /\ changed # {} THEN [git |-> TRUE, lines |-> changed]
        ELSE [git |-> FALSE, lines |-> { <<f, t[f]>> : f \in { g \in ops : t[g] # Absent } }]

Patched(t, p) == [f \in Files |-> IF f \in DOMAIN p THEN p[f] ELSE t[f]]

Unseen == [tree |-> Base, ok |-> [c \in Cmds |-> FALSE]]

Init ==
    /\ tree = Base /\ saved = NoCheckpoint /\ store = EmptyStore /\ turns = NoTurns
    /\ pc = "idle" /\ reviews = 0 /\ verifs = 0 /\ tried = {} /\ review = "none"
    /\ failure = FALSE /\ pending = FALSE /\ seen = Unseen
    /\ wrote = {} /\ passed = {} /\ approved = {} /\ raced = {}
    /\ calls = 0 /\ disturbed = 0

\* Mutant: the operations of earlier turns are not collected
RestoredBlind(cp) == [cp.turns EXCEPT !.ops = {}]

\* The turns a call starts from
Restored(cp) == cp.turns

\* Orchestrator._execute_code_generation and the set-up of execute: turns and
\* stage of the latest checkpoint that has turns, its evidence revalidated.  A
\* later call brings a failure or a review with findings, a first one neither
Call ==
    /\ pc = "idle" /\ calls < MaxCalls /\ calls' = calls + 1
    /\ turns' = Restored(saved)
    /\ pc' = IF saved.turns.n = 0 THEN "IMPLEMENTING" ELSE saved.stage
    /\ store' = Revalidate(saved.store, tree)
    /\ reviews' = turns'.reviewing /\ verifs' = turns'.verifying /\ tried' = turns'.sigs
    /\ review' = "none" /\ pending' = FALSE /\ failure' \in {FALSE, calls > 0}
    /\ UNCHANGED <<tree, saved, seen, ghosts, disturbed>>

\* The turn budget is checked at the top of the loop
Turn(stage) == pc = stage /\ turns.n < MaxTurns
OutOfTurns ==
    /\ pc \in Stages /\ turns.n >= MaxTurns /\ pc' = "FAILED"
    /\ UNCHANGED <<tree, saved, store, turns, agent, seen, ghosts, calls, disturbed>>

-----------------------------------------------------------------------------
(* IMPLEMENTING and REPAIRING.                                             *)

\* The provider is out of quota, or raises
Broken(stage) ==
    /\ Turn(stage)
    /\ \E e \in {"pause", "raise"} :
          /\ Disturb(e)
          /\ pc' = IF e = "pause" THEN "PAUSED" ELSE "FAILED"
    /\ turns' = EndTurn(stage)
    /\ saved' = [stage |-> pc', turns |-> turns', store |-> store]
    /\ UNCHANGED <<tree, store, agent, seen, ghosts, calls>>

\* The model asks a question that nobody answers (one that is answered leaves a
\* record only)
Ask ==
    /\ Turn("IMPLEMENTING") /\ ~turns.asked /\ Disturb("clarify")
    /\ turns' = [turns EXCEPT !.asked = TRUE]
    /\ UNCHANGED <<tree, saved, store, pc, agent, seen, ghosts, calls>>

\* The clarifications in the tool history, the ones of earlier turns included
Asked == pending' = (pending \/ turns.asked)
Heard == IF turns.asked THEN Record(store, Evidence("clarification", FALSE, {}, tree)) ELSE store

ImplementBroken == Broken("IMPLEMENTING")

\* No operations at all: the turn is not even checkpointed
ImplementEmpty ==
    /\ Turn("IMPLEMENTING") /\ Asked
    /\ turns' = EndTurn("IMPLEMENTING") /\ store' = Heard /\ pc' = "FAILED"
    /\ UNCHANGED <<tree, saved, reviews, verifs, tried, review, failure, seen, ghosts,
                   calls, disturbed>>

\* _precheck_operations finds errors, or _apply_file_operations fails
ImplementRejected ==
    /\ Turn("IMPLEMENTING") /\ Asked
    /\ turns' = EndTurn("IMPLEMENTING") /\ store' = Heard /\ failure' = TRUE
    /\ pc' = "ANALYZING_FAILURE"
    /\ Checkpoint("IMPLEMENTING")
    /\ UNCHANGED <<tree, reviews, verifs, tried, review, seen, ghosts, calls>>

\* CodingAgent.prepare checks the plan's scope
InScope(p) == Allowed = {} \/ DOMAIN p \subseteq Allowed

\* The patch is applied: what it touched loses its evidence, the diff and the
\* safety of the change are recorded, the account of the turn goes to disk
Write(p, stage, st, ts) ==
    /\ InScope(p) /\ tree' = Patched(tree, p)
    /\ store' = RecordAll(InvalidateOnFileMutation(st, DOMAIN p, tree'),
                          <<Evidence("diff", FALSE, DOMAIN p, tree'),
                            Evidence("safety", FALSE, DOMAIN p, tree')>>)
    /\ turns' = [ts EXCEPT !.ops = @ \cup DOMAIN p]
    /\ wrote' = wrote \cup DOMAIN p
    /\ Checkpoint(stage) /\ pc' = "TESTING"
    /\ UNCHANGED <<reviews, verifs, review, failure, seen, passed, approved, raced, calls>>

Implement(p) ==
    /\ Turn("IMPLEMENTING") /\ Asked /\ DOMAIN p \cap Protected = {}
    /\ Write(p, "IMPLEMENTING", Heard, EndTurn("IMPLEMENTING"))
    /\ UNCHANGED tried

RepairBroken == Broken("REPAIRING")

\* No operations: a new failure to analyse
RepairEmpty ==
    /\ Turn("REPAIRING") /\ turns' = EndTurn("REPAIRING") /\ UNCHANGED store
    /\ Checkpoint("REPAIRING") /\ failure' = TRUE /\ pc' = "ANALYZING_FAILURE"
    /\ UNCHANGED <<tree, reviews, verifs, tried, review, pending, seen, ghosts, calls>>

\* A repair that was tried before ends the call
RepairRepeated(p) ==
    /\ Turn("REPAIRING") /\ p \in tried
    /\ turns' = EndTurn("REPAIRING") /\ UNCHANGED store
    /\ Checkpoint("FAILED") /\ pc' = "FAILED"
    /\ UNCHANGED <<tree, agent, seen, ghosts, calls>>

RepairRejected(p) ==
    /\ Turn("REPAIRING") /\ p \notin tried /\ tried' = tried \cup {p}
    /\ turns' = EndTurn("REPAIRING") /\ UNCHANGED store
    /\ Checkpoint("REPAIRING") /\ failure' = TRUE /\ pc' = "ANALYZING_FAILURE"
    /\ UNCHANGED <<tree, reviews, verifs, review, pending, seen, ghosts, calls>>

\* No _precheck_operations here
Repair(p) ==
    /\ Turn("REPAIRING") /\ p \notin tried /\ tried' = tried \cup {p}
    /\ Write(p, "REPAIRING", store, [EndTurn("REPAIRING") EXCEPT !.sigs = @ \cup {p}])
    /\ UNCHANGED pending

-----------------------------------------------------------------------------
(* TESTING and ANALYZING_FAILURE.                                          *)

\* _run_validation_commands; any command may pass or fail
RunCommands(stage, half) ==
    /\ Turn(stage) /\ pc' = half
    /\ \E ok \in [Cmds -> BOOLEAN] : seen' = [tree |-> tree, ok |-> ok]
    /\ UNCHANGED <<tree, saved, store, turns, agent, ghosts, calls, disturbed>>

AllPassed == \A c \in Cmds : seen.ok[c]
Results == [ c \in Cmds |-> Evidence("test", seen.ok[c], turns.ops, tree) ]
CertifyRun ==
    /\ passed' = IF AllPassed THEN passed \cup {seen.tree} ELSE passed
    /\ raced' = IF AllPassed /\ seen.tree # tree THEN raced \cup {tree} ELSE raced
    /\ UNCHANGED <<wrote, approved>>

RunTests == RunCommands("TESTING", "running")

RecordTests ==
    /\ pc = "running" /\ seen' = Unseen /\ CertifyRun
    /\ store' = RecordAll(store, Results) /\ turns' = EndTurn("TESTING")
    /\ Checkpoint("TESTING")
    /\ pc' = IF AllPassed THEN "REVIEWING" ELSE "ANALYZING_FAILURE"
    /\ failure' = (failure \/ ~AllPassed)
    /\ UNCHANGED <<tree, reviews, verifs, tried, review, pending, calls>>

\* Mutant: one repair too many
AnalyzeLate ==
    /\ Turn("ANALYZING_FAILURE") /\ turns' = EndTurn("ANALYZING_FAILURE")
    /\ \/ /\ turns.repairing > MaxRepair /\ UNCHANGED store
          /\ Checkpoint("FAILED") /\ pc' = "FAILED"
       \/ /\ turns.repairing <= MaxRepair
          /\ store' = Record(store, Evidence("repair", FALSE, {}, tree))
          /\ Checkpoint("ANALYZING_FAILURE") /\ pc' = "REPAIRING"
    /\ UNCHANGED <<tree, agent, seen, ghosts, calls>>

\* The repair budget is checked here, and only here
Analyze ==
    /\ Turn("ANALYZING_FAILURE") /\ turns' = EndTurn("ANALYZING_FAILURE")
    /\ \/ /\ turns.repairing >= MaxRepair /\ UNCHANGED store
          /\ Checkpoint("FAILED") /\ pc' = "FAILED"
       \/ /\ turns.repairing < MaxRepair
          /\ store' = Record(store, Evidence("repair", FALSE, {}, tree))
          /\ Checkpoint("ANALYZING_FAILURE") /\ pc' = "REPAIRING"
    /\ UNCHANGED <<tree, agent, seen, ghosts, calls>>

-----------------------------------------------------------------------------
(* REVIEWING and VERIFYING.                                                *)

\* The diff is taken, then the reviewer works
BeginReview ==
    /\ Turn("REVIEWING") /\ pc' = "judging" /\ seen' = [Unseen EXCEPT !.tree = tree]
    /\ UNCHANGED <<tree, saved, store, turns, agent, ghosts, calls, disturbed>>

\* The verdict is recorded with the hash of the diff it was given; an error of
\* the reviewer is a request for changes
EndReview(ok) ==
    /\ pc = "judging" /\ seen' = Unseen
    /\ review' = IF ok THEN "APPROVED" ELSE "CHANGES_REQUIRED"
    /\ store' = Record(store, [Evidence("review", ok, turns.ops, tree) EXCEPT
                                    !.diff = Diff(seen.tree, turns.ops)])
    /\ approved' = IF ok THEN approved \cup {seen.tree} ELSE approved
    /\ raced' = IF ok /\ seen.tree # tree THEN raced \cup {tree} ELSE raced
    /\ turns' = EndTurn("REVIEWING")
    /\ reviews' = reviews + One(~ok)
    /\ pc' = CASE ok -> "VERIFYING"
               [] ~ok /\ reviews' > MaxReview -> "FAILED"
               [] OTHER -> "REPAIRING"
    /\ Checkpoint(IF pc' = "FAILED" THEN "FAILED" ELSE "REVIEWING")
    /\ failure' = (failure \/ pc' = "REPAIRING")
    /\ UNCHANGED <<tree, verifs, tried, pending, wrote, passed, calls>>

RunVerification == RunCommands("VERIFYING", "proving")

\* A verification turn that found something wrong
NotVerified ==
    /\ turns' = EndTurn("VERIFYING") /\ verifs' = verifs + 1
    /\ pc' = IF verifs' > MaxVerification THEN "FAILED" ELSE "REPAIRING"
    /\ Checkpoint(IF pc' = "FAILED" THEN "FAILED" ELSE "VERIFYING")
    /\ failure' = (failure \/ pc' = "REPAIRING")
    /\ UNCHANGED <<tree, reviews, tried, review, pending, calls>>

\* The results, and one entry for the syntax of the applied files
RecordVerification ==
    /\ pc = "proving" /\ seen' = Unseen /\ CertifyRun
    /\ store' = RecordAll(store, Results \o
                    <<Evidence("syntax", SyntaxClean(turns.ops, tree), turns.ops, tree)>>)
    /\ \/ ~(AllPassed /\ SyntaxClean(turns.ops, tree)) /\ NotVerified
       \/ /\ AllPassed /\ SyntaxClean(turns.ops, tree) /\ pc' = "assessing"
          /\ UNCHANGED <<tree, saved, turns, agent, calls, disturbed>>

\* What the requirement engine is given
Facts(s) ==
    [ops |-> turns.ops, pathWords |-> UNION { PathWords[f] : f \in turns.ops },
     docs |-> turns.ops \cap Docs # {},
     lines |-> { LineWords[l] : l \in Diff(tree, turns.ops).lines },
     review |-> review, passing |-> Passing(s) # {}, failing |-> Failing(s) # {},
     tests |-> {}, answered |-> {}]

\* A requirement's state is recorded when it changed
Unrecorded(s, i) ==
    LET last == { j \in DOMAIN s.entries : s.entries[j].req = i }
    IN  last = {} \/ LET e == s.entries[CHOOSE j \in last : \A k \in last : k <= j]
                     IN  e.ok # (StateOf(Contract, i, Facts(s)) = "SATISFIED")
Compliance(s) ==
    LET Entry(i) == [Evidence("compliance", StateOf(Contract, i, Facts(s)) = "SATISFIED",
                              Contract[i].paths, tree) EXCEPT !.req = i]
        upTo[i \in 0..Len(Contract)] ==
            IF i = 0 THEN <<>>
            ELSE IF Unrecorded(s, i) THEN Append(upTo[i - 1], Entry(i)) ELSE upTo[i - 1]
    IN  RecordAll(s, upTo[Len(Contract)])

\* The gates and the requirements decide
Ready(s) ==
    /\ Readiness(s, tree, turns.ops, Diff(tree, turns.ops), review, failure, pending) = "READY"
    /\ Satisfied(Contract, Facts(s))

Assess ==
    LET s == Revalidate(store, tree) IN
    /\ pc = "assessing" /\ store' = Compliance(s)
    /\ \/ ~Ready(s) /\ NotVerified
       \/ /\ Ready(s) /\ turns' = EndTurn("VERIFYING") /\ pc' = "COMPLETED"
          /\ Checkpoint("VERIFYING") /\ UNCHANGED <<tree, agent, calls>>
    /\ UNCHANGED <<seen, ghosts>>

-----------------------------------------------------------------------------
(* The end of a call, and what happens around it.                          *)

\* What only the memory of the process knew is gone
Unsaved == turns.ops \ saved.turns.ops
Forget ==
    /\ pc' = "idle" /\ turns' = NoTurns /\ store' = EmptyStore /\ seen' = Unseen
    /\ reviews' = 0 /\ verifs' = 0 /\ tried' = {} /\ review' = "none"
    /\ failure' = FALSE /\ pending' = FALSE
    /\ wrote' = wrote \ Unsaved
    /\ UNCHANGED <<saved, passed, approved, raced, calls>>

Return == pc \in Ends /\ Forget /\ UNCHANGED <<tree, disturbed>>

\* The process dies, perhaps in the middle of applying a patch
Crash ==
    /\ pc # "idle" /\ Disturb("crash") /\ Forget
    /\ \/ UNCHANGED tree
       \/ /\ pc \in {"IMPLEMENTING", "REPAIRING"}
          /\ \E p \in Patches : \E P \in SUBSET DOMAIN p :
                tree' = Patched(tree, [f \in P |-> p[f]])

\* A checkpoint of the orchestrator, or of another subtask, comes between two
\* calls: the next call finds no turns, the evidence stays
Foreign ==
    /\ pc = "idle" /\ saved # NoCheckpoint /\ Disturb("foreign")
    /\ saved' = [NoCheckpoint EXCEPT !.store = saved.store] /\ wrote' = {}
    /\ UNCHANGED <<tree, store, turns, pc, agent, seen, passed, approved, raced, calls>>

\* Somebody else writes a file, or a write of the agent that failed half way has
\* (the batch is rolled back, but not the file that could not be written)
Edit(f, c) ==
    /\ tree[f] # c /\ Disturb("edit") /\ tree' = [tree EXCEPT ![f] = c]
    /\ UNCHANGED <<saved, store, turns, pc, agent, seen, ghosts, calls>>

Step ==
    \/ OutOfTurns \/ Ask \/ ImplementBroken \/ RepairBroken \/ RepairEmpty
    \/ ImplementEmpty \/ ImplementRejected
    \/ \E p \in Patches : Implement(p) \/ RepairRepeated(p) \/ RepairRejected(p) \/ Repair(p)
    \/ RunTests \/ RecordTests \/ Analyze \/ BeginReview
    \/ \E ok \in BOOLEAN : EndReview(ok)
    \/ RunVerification \/ RecordVerification \/ Assess \/ Return

Next == Step \/ Call \/ Crash \/ Foreign \/ \E f \in Files, c \in Contents : Edit(f, c)

\* One thread runs the loop; calls and commands come back (they have timeouts)
Spec == Init /\ [][Next]_vars /\ WF_vars(Step)

-----------------------------------------------------------------------------
(* Properties.                                                             *)

EntryType == [kind : Kinds, ok : BOOLEAN, paths : SUBSET Files, print : Prints, diff : Diffs,
              req : Nat, valid : BOOLEAN]
StoreType == [entries : Seq(EntryType), ever : SUBSET Kinds]
TurnsType == [n : Nat, repairing : Nat, reviewing : Nat, verifying : Nat,
              ops : SUBSET Files, sigs : SUBSET Patches, asked : BOOLEAN]

\* Types.  A call in progress has left "idle" through a checkpoint that has turns
\* exactly when it has a stage to resume at
TypeOK ==
    /\ tree \in Trees /\ store \in StoreType /\ turns \in TurnsType
    /\ saved.turns \in TurnsType /\ saved.store \in StoreType
    /\ saved.turns.n # 0 => saved.stage \in Stages \cup Ends
    /\ pc \in Stages \cup Halves \cup Ends \cup {"idle"}
    /\ reviews \in Nat /\ verifs \in Nat /\ tried \subseteq Patches
    /\ review \in {"none", "APPROVED", "CHANGES_REQUIRED"}
    /\ failure \in BOOLEAN /\ pending \in BOOLEAN
    /\ seen.tree \in Trees /\ seen.ok \in [Cmds -> BOOLEAN]
    /\ wrote \subseteq Files
    /\ passed \subseteq Trees /\ approved \subseteq Trees /\ raced \subseteq Trees
    /\ calls \in Nat /\ disturbed \in Nat

\* Whatever a turn wrote and a checkpoint kept is among the operations the gates,
\* the syntax check and the evidence of every later call look at, however often
\* the agent was stopped and resumed in between
WritesAccounted == wrote \subseteq (IF pc = "idle" THEN saved.turns.ops ELSE turns.ops)

\* The repair turns of a task are bounded by the budget for repairs, one for each
\* review that asked for changes and each verification that failed, as far as their
\* budgets go, and one for each resumption, although MaxRepair is checked in one
\* stage only
Least(m, n) == IF m < n THEN m ELSE n
RepairsBounded ==
    turns.repairing <= MaxRepair + Least(turns.reviewing, MaxReview)
                       + Least(turns.verifying, MaxVerification) + (calls - One(calls > 0))

\* The state keeps its shape, and the turns of every kind their budgets
TurnsWithinBudget == TypeOK /\ RepairsBounded

\* Every call of execute returns, whatever the provider, the reviewer, the
\* commands and other people do
EveryCallReturns == (pc # "idle") ~> (pc = "idle")

\* Completion is reported only for files that read, on the paths the agent wrote,
\* as when all commands passed and as when a reviewer approved them
Promise == INSTANCE CompletionPromise WITH written <- wrote, done <- (pc = "COMPLETED")
KeepsPromise == Promise!Spec
=============================================================================
