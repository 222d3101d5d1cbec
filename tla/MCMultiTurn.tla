----------------------------- MODULE MCMultiTurn -----------------------------
(***************************************************************************)
(* An instance of MultiTurn for TLC: a file that exists and a new one that *)
(* the task must not touch, three patches (the wanted change, one that     *)
(* does not parse, one that writes the protected file), one command, a     *)
(* budget of one for repairs, reviews and verifications.                   *)
(***************************************************************************)
EXTENDS MultiTurn, TLC

CONSTANTS f, g, absent, old, new, broken

MCFiles == {f, g}
MCContents == {absent, old, new, broken}
MCBase == (f :> old) @@ (g :> absent)
MCPatches == { f :> new, (f :> broken) @@ (g :> new) }
\* "set the timeout to five and keep g": a specific clause, a constraint, tests
MCContract == << [Requirement("functional", {"set", "timeout"}) EXCEPT
                    !.specific = TRUE, !.value = "five"],
                 OfConstraint({g}), Requirement("testing", {}) >>
MCPathWords == (f :> {"config"}) @@ (g :> {"setup"})
MCLineWords == [ l \in MCFiles \X MCContents |->
                    IF l[2] = new THEN {"set", "timeout", "five"}
                    ELSE IF l[2] = absent THEN {} ELSE {"timeout"} ]
=============================================================================
