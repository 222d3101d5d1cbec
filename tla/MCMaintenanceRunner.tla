------------------------ MODULE MCMaintenanceRunner ------------------------
(***************************************************************************)
(* One process and a defect in each of two files; apart from its runs, what *)
(* runs report of two candidates; and, apart from both, the batches of      *)
(* every short list of candidates.                                         *)
(***************************************************************************)
EXTENDS MaintenanceRunner, MaintenanceReport, TLC

VARIABLE part   \* which of the two systems moves
CONSTANTS p1, f1, f2, c1, c2, d1

MCFileOf == c1 :> f1 @@ c2 :> f2

MCInit == RunnerInit /\ ReportInit /\ part \in {"runs", "reports"}
MCNext ==
    \/ part = "runs" /\ RunnerNext /\ UNCHANGED <<reportVars, part>>
    \/ part = "reports" /\ ReportNext /\ UNCHANGED <<allVars, part>>
MCSpec ==
    /\ MCInit /\ [][MCNext]_<<allVars, reportVars, part>>
    /\ \A p \in Procs : WF_allVars(Progress(p))

\* plan_execution_batches as it was before it skipped the full batches: "the placement
\* decision - and therefore the output - is unchanged"
Rescan(batches, c, files, width) ==
    LET fits == {k \in DOMAIN batches :
                    /\ Cardinality(batches[k]) < width
                    /\ files[c] \cap UNION {files[d] : d \in batches[k]} = {}}
    IN IF fits = {} THEN Append(batches, {c})
       ELSE [batches EXCEPT ![CHOOSE k \in fits : \A j \in fits : k <= j] = @ \cup {c}]
ASSUME BatchesAreUnchanged ==
    \A files \in [1..5 -> SUBSET {f1, f2}], width \in 1..3 :
        LET batches == plan_execution_batches(<<1, 2, 3, 4, 5>>, files, width)
        IN /\ batches = FoldLeft(LAMBDA acc, c : Rescan(acc, c, files, width),
                                 <<>>, <<1, 2, 3, 4, 5>>)
           /\ \A k \in DOMAIN batches : \A c, d \in batches[k] :
                  c # d => files[c] \cap files[d] = {}
=============================================================================
