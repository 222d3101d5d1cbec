------------------------------ MODULE ToolLoop ------------------------------
(***************************************************************************)
(* The bounded loop in which a model calls tools before it emits its edits: *)
(* ToolEngine.run (local_agent/tool_engine.py) under ToolExecutionPolicy    *)
(* (local_agent/models.py), over the history of calls that every round of   *)
(* the coding agent extends.                                                *)
(*                                                                         *)
(* Every operator is pure: CandidateRun takes one provider answer at a      *)
(* time.  The policy reads three things of the history, so the history is   *)
(* these: how many entries each tool has, how many bytes they hold, and     *)
(* which error entries there are.  Texts, ids and metrics are left out.     *)
(***************************************************************************)
EXTENDS Naturals, FiniteSets, Functions

CONSTANTS
    Tools,              \* tools of the registry
    AllowedTools,       \* the implementation agent's tool surface
    Arguments,          \* canonical arguments a call may have
    MaxToolSteps,       \* the configured policy's budget of steps
    MaxImplementationToolSteps, \* the agent's own budget of steps
    TotalBudget,        \* budget of output, in the unit of Sizes
    Sizes,              \* sizes of a tool's truncated output
    FeedbackSize,       \* size of a feedback or refusal entry
    MaxRepeats,         \* identical calls in a row that open the breaker
    Limits              \* per-tool limits: a function on some of the tools

ASSUME ToolAssumption ==
    /\ IsFiniteSet(Tools) /\ AllowedTools \subseteq Tools /\ DOMAIN Limits \subseteq Tools
    /\ \A t \in DOMAIN Limits : Limits[t] \in Nat
    /\ Sizes \subseteq Nat /\ FeedbackSize \in Nat
    /\ {MaxToolSteps, MaxImplementationToolSteps, TotalBudget, MaxRepeats} \subseteq Nat \ {0}

\* The names the coding agent gives to the entries it adds itself
Feedback == {"implementation_precheck", "candidate_validation"}
Calls == Tools \X Arguments
NoCall == <<"none", "none">>

-----------------------------------------------------------------------------
\* A history: entries per name, entries, bytes of output
Histories == [count : [Tools \cup Feedback -> Nat], steps : Nat, bytes : Nat]
EmptyHistory == [count |-> [t \in Tools \cup Feedback |-> 0], steps |-> 0, bytes |-> 0]
Append1(h, name, size) ==
    [count |-> [h.count EXCEPT ![name] = @ + 1], steps |-> h.steps + 1, bytes |-> h.bytes + size]

\* InteractiveCodingAgent.build_policy
StepBudget == IF MaxToolSteps < MaxImplementationToolSteps
                THEN MaxToolSteps ELSE MaxImplementationToolSteps
Disallowed == Tools \ AllowedTools

\* The state of one ToolEngine.run that outlives a call: it starts afresh in
\* every round, while the history goes on
FreshRun == [last |-> NoCall, repeats |-> 0]
Repeated(run, call) == IF run.last = call THEN run.repeats + 1 ELSE 1

\* Mutant: the budget is compared once the step is over it
EvaluateCallLate(h, run, call) ==
    IF h.steps > StepBudget \/ h.bytes >= TotalBudget THEN "terminate"
    ELSE IF call[1] \in Disallowed THEN "reject"
    ELSE IF call[1] \in DOMAIN Limits /\ h.count[call[1]] + 1 > Limits[call[1]] THEN "reject"
    ELSE IF Repeated(run, call) >= MaxRepeats THEN "circuit_breaker"
    ELSE "allow"
\* ToolExecutionPolicy.evaluate_call; the call itself is counted for its limit
EvaluateCall(h, run, call) ==
    IF h.steps >= StepBudget \/ h.bytes >= TotalBudget THEN "terminate"
    ELSE IF call[1] \in Disallowed THEN "reject"
    ELSE IF call[1] \in DOMAIN Limits /\ h.count[call[1]] + 1 > Limits[call[1]] THEN "reject"
    ELSE IF Repeated(run, call) >= MaxRepeats THEN "circuit_breaker"
    ELSE "allow"

\* After a call the policy did not end the run for: a refusal and an open
\* breaker are entries like any other, and the breaker forgets the repeats
AfterCall(run, call, decision) ==
    [last |-> call, repeats |-> IF decision = "circuit_breaker" THEN 0 ELSE Repeated(run, call)]
HistoryAfter(h, call, decision, size) ==
    Append1(h, call[1], IF decision = "allow" THEN size ELSE FeedbackSize)
=============================================================================
