-------------------------- MODULE MCTaskScheduler --------------------------
(***************************************************************************)
(* Two tasks, the second of them autonomous, plans of at most two          *)
(* subtasks, and three providers: one plans, one implements, one does both. *)
(***************************************************************************)
EXTENDS TaskScheduler, TLC

CONSTANTS elder, junior, base, onTop, planner, builder, expert

Created  == (elder :> 0) @@ (junior :> 1)
Chain    == (base :> {}) @@ (onTop :> {base})
Order    == (base :> 0) @@ (onTop :> 1)
Priorities == (planner :> 0) @@ (builder :> 1) @@ (expert :> 2)
=============================================================================
