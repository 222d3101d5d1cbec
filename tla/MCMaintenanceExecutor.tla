----------------------- MODULE MCMaintenanceExecutor -----------------------
(***************************************************************************)
(* Two processes and one file with one defect.                            *)
(***************************************************************************)
EXTENDS MaintenanceExecutor, TLC

CONSTANTS p1, p2, f1, c1, d1

MCFileOf == [c \in Candidates |-> f1]
Symmetry == Permutations(Procs)
=============================================================================
