---------------------------- MODULE MCSubtaskRun ----------------------------
(***************************************************************************)
(* Two subtasks one after the other, each planned for a file of its own.   *)
(***************************************************************************)
EXTENDS SubtaskRun, TLC

CONSTANTS early, late, home, away

Chained     == (early :> {}) @@ (late :> {early})
ChainedRank == (early :> 0) @@ (late :> 1)
OwnFile     == (early :> {home}) @@ (late :> {away})

Single      == (early :> {})
SingleRank  == (early :> 0)
SingleFile  == (early :> {home})
=============================================================================
