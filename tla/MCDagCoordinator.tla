-------------------------- MODULE MCDagCoordinator --------------------------
(***************************************************************************)
(* Small plans for TLC.  Three subtasks: c depends on a and b, which are   *)
(* ready together, so a pass has concurrent workers, a merge order and a   *)
(* dependent.  Two subtasks: b depends on a, for the long histories.       *)
(***************************************************************************)
EXTENDS DagCoordinator, TLC

CONSTANTS a, b, c, d

FanIn       == (a :> {}) @@ (b :> {}) @@ (c :> {a, b})
FanInRank   == (a :> 0) @@ (b :> 1) @@ (c :> 2)
Disjoint    == (a :> {"f"}) @@ (b :> {"g"}) @@ (c :> {"f", "g"})

Chain       == (a :> {}) @@ (b :> {a})
ChainRank   == (a :> 0) @@ (b :> 1)
ChainFiles  == (a :> {"f"}) @@ (b :> {"f"})

\* a, b and c are ready together, a and b expected to edit the same file; d waits for a and c
Mixed       == (a :> {}) @@ (b :> {}) @@ (c :> {}) @@ (d :> {a, c})
MixedRank   == (a :> 0) @@ (b :> 1) @@ (c :> 2) @@ (d :> 3)
MixedFiles  == (a :> {"f"}) @@ (b :> {"f", "g"}) @@ (c :> {"h"}) @@ (d :> {"f", "h"})
=============================================================================
