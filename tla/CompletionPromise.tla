------------------------- MODULE CompletionPromise -------------------------
(***************************************************************************)
(* What the multi-turn agent promises, without stores, fingerprints, gates *)
(* or checkpoints: when it reports a task completed, the files it wrote    *)
(* read as they did when every validation command passed, and as they did  *)
(* when a reviewer approved them.  MultiTurn implements it.                *)
(***************************************************************************)
EXTENDS FiniteSets

CONSTANTS Files, Contents

VARIABLES tree,      \* the files of the project
          written,   \* the paths the agent accounts for as its own writes
          passed,    \* trees all commands passed on
          approved,  \* trees a reviewer approved
          raced,     \* trees that came to be while a passing run or an
                     \* approving review of another tree was under way
          done       \* the agent reported completion

vars == <<tree, written, passed, approved, raced, done>>

Trees == [Files -> Contents]
Agree(s, t, P) == \A f \in P : s[f] = t[f]

\* The files are as they were in one of the trees
AsIn(S, P) == \E t \in S : Agree(t, tree, P)

Init == /\ tree \in Trees /\ written = {}
        /\ passed = {} /\ approved = {} /\ raced = {} /\ done = FALSE

\* Somebody changes files: the agent, which accounts for it, or anybody else;
\* the account may also be lost (crash, another checkpoint in between)
Change == /\ done' \in {done, FALSE}
          /\ tree' \in Trees /\ written' \in SUBSET Files
          /\ UNCHANGED <<passed, approved, raced>>

\* A run or a review ends that saw tree t
Certify == \E t \in Trees :
    /\ \/ passed' = passed \cup {t} /\ UNCHANGED approved
       \/ approved' = approved \cup {t} /\ UNCHANGED passed
    /\ raced' \in {raced} \cup (IF t # tree THEN {raced \cup {tree}} ELSE {})
    /\ UNCHANGED <<tree, written, done>>

Finish == /\ ~done /\ done' = TRUE
          /\ AsIn(passed \cup raced, written) /\ AsIn(approved \cup raced, written)
          /\ UNCHANGED <<tree, written, passed, approved, raced>>

Next == Change \/ Certify \/ Finish
Spec == Init /\ [][Next]_vars
=============================================================================
