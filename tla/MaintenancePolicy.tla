------------------------- MODULE MaintenancePolicy -------------------------
(***************************************************************************)
(* MaintenanceExecutionPolicy.decide: how much autonomy a candidate gets,  *)
(* from the tier the operator configured and the evidence there is.  Tiers *)
(* are their indices in TIER_ORDER, which is all the policy compares.  A   *)
(* confidence is the number of the two thresholds it reaches.              *)
(***************************************************************************)
EXTENDS Integers

OBSERVE_ONLY == 0
RECOMMEND    == 1
PLAN_ONLY    == 2
EXECUTE_WITH_EXISTING_APPROVAL == 3
EXECUTE_AUTONOMOUSLY == 4

TIER_ORDER == OBSERVE_ONLY..EXECUTE_AUTONOMOUSLY
EXECUTING_TIERS == {EXECUTE_WITH_EXISTING_APPROVAL, EXECUTE_AUTONOMOUSLY}

weakest_tier(tiers) ==
    CHOOSE tier \in tiers : \A other \in tiers : tier <= other

\* What the policy asks of a path a candidate names: a file of the protected floor,
\* one in a protected directory, one that leaves the repository or that sanitising
\* would change, or none of these
PathKinds == {"plain", "protected", "directory", "outside", "unclean"}

\* What the policy reads of a candidate
Evidence ==
    [paths : SUBSET PathKinds,  \* the kinds of its affected files
     many : BOOLEAN,            \* more of them than the budget has for a candidate
     worn : BOOLEAN,            \* failure_count has reached the threshold
     actionable : BOOLEAN,      \* its kind is one of AUTONOMOUSLY_ACTIONABLE_KINDS
     confidence : 0..2,
     established : BOOLEAN,     \* samples and occurrences enough for autonomy
     critical : BOOLEAN, uncertain : BOOLEAN]

rejected_paths(facts) == facts.paths \cap {"directory", "outside", "unclean"}

Blocked(facts) ==
    rejected_paths(facts) # {} \/ "protected" \in facts.paths \/ facts.worn

When(condition, tier) == IF condition THEN {tier} ELSE {}

Caps(facts, configured, executions) ==
    {configured}
    \cup When(~facts.actionable, RECOMMEND)
    \cup When(facts.paths = {}, RECOMMEND)
    \cup When(facts.confidence < 1, RECOMMEND)
    \cup When(facts.many, PLAN_ONLY)
    \cup When(executions = 0, PLAN_ONLY)
    \cup When(facts.critical /\ facts.confidence < 2, PLAN_ONLY)
    \cup When(facts.uncertain, EXECUTE_WITH_EXISTING_APPROVAL)
    \cup When(facts.confidence < 2 \/ ~facts.established, EXECUTE_WITH_EXISTING_APPROVAL)

\* A tier nobody knows counts as the weakest
Configured(tier) == IF tier \in TIER_ORDER THEN tier ELSE OBSERVE_ONLY

decide(facts, tier, executions) ==
    [blocked |-> Blocked(facts),
     granted |-> weakest_tier(IF Blocked(facts) THEN {Configured(tier), OBSERVE_ONLY}
                              ELSE Caps(facts, Configured(tier), executions))]

may_plan(verdict)    == ~verdict.blocked /\ verdict.granted >= PLAN_ONLY
may_execute(verdict) == ~verdict.blocked /\ verdict.granted \in EXECUTING_TIERS
=============================================================================
