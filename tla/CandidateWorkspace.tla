-------------------------- MODULE CandidateWorkspace --------------------------
(***************************************************************************)
(* A disposable copy of the project in which proposed edits are applied and *)
(* validated: CandidateWorkspace (local_agent/sandbox.py), with the part of *)
(* CodingAgent (local_agent/coding_agent.py) through which it, and later    *)
(* the project itself, takes operations.  All operators are pure;           *)
(* CandidateRun drives them.                                                *)
(*                                                                         *)
(* An operation writes a whole content or a patch, which applies to one     *)
(* content only.  Caches, newlines, diffs and the cost of mirroring are     *)
(* left out.                                                                *)
(***************************************************************************)
EXTENDS EvidenceReuse

CONSTANTS
    Mirrored,       \* files the mirror copies: not too large, not excluded
    Unparsable,     \* contents compile() rejects, in files whose name ends in .py
    Whole,          \* the origin of a complete content
    Protected,      \* paths with changes that are not the agent's
    Allowed         \* the plan's paths; empty when it names none

ASSUME WorkspaceAssumption ==
    /\ Mirrored \subseteq Files /\ Protected \subseteq Files /\ Allowed \subseteq Files
    /\ Unparsable \subseteq Contents \ {Absent} /\ Whole \notin Contents

ValidActions == {"create", "modify", "write", "delete"}
Operations == [action : ValidActions, path : Files, from : Contents \cup {Whole}, to : Contents]

-----------------------------------------------------------------------------
(* CodingAgent.                                                            *)

PatchApplies(op, tree) == op.from \in {Whole, tree[op.path]}

\* prepare, for one operation: what _validate_path and the checks of existence
\* refuse, and patches that do not apply
Acceptable(op, tree) ==
    /\ op.path \in Protected => op.path \in Allowed
    /\ Allowed # {} => op.path \in Allowed
    /\ op.action = "create" => tree[op.path] = Absent
    /\ op.action \in {"modify", "delete"} => tree[op.path] # Absent
    /\ op.action # "delete" => PatchApplies(op, tree)
Prepares(ops, tree) ==
    /\ \A i \in DOMAIN ops : Acceptable(ops[i], tree)
    /\ \A i, j \in DOMAIN ops : ops[i].path = ops[j].path => i = j

Paths(ops) == { ops[i].path : i \in DOMAIN ops }
Resulting(op) == IF op.action = "delete" THEN Absent ELSE op.to

\* apply_prepared, when every write succeeds
Applied(ops, tree) ==
    [ f \in Files |-> IF f \in Paths(ops)
        THEN Resulting(ops[CHOOSE i \in DOMAIN ops : ops[i].path = f]) ELSE tree[f] ]

\* InteractiveCodingAgent._precheck_operations: what the model can repair in
\* the loop.  It reads the project, not the candidate, and leaves the plan's
\* scope and the existence of the file to prepare
DefectFree(ops, tree) ==
    \A i \in DOMAIN ops : ops[i].action # "delete" =>
        PatchApplies(ops[i], tree) /\ ops[i].to \notin Unparsable

-----------------------------------------------------------------------------
(* The workspace.                                                          *)

\* base is _base_bytes, a function on the paths some candidate has touched
NoWorkspace == [active |-> FALSE, tree |-> [f \in Files |-> Absent], base |-> <<>>,
                mutated |-> {}, left |-> FALSE]

\* setup: the filtered mirror of the project as it is now
Mirror(tree) == [ f \in Files |-> IF f \in Mirrored THEN tree[f] ELSE Absent ]
SetUp(tree) == [NoWorkspace EXCEPT !.active = TRUE, !.tree = Mirror(tree)]

\* Mutant of Reset: the last candidate's paths are forgotten
ResetNothing(ws) == [ws EXCEPT !.mutated = {}]

\* _reset_mutated_paths: only the paths of the last candidate, from the frozen
\* bytes
Reset(ws) ==
    [ws EXCEPT !.tree = [ f \in Files |-> IF f \in ws.mutated THEN ws.base[f] ELSE @[f] ],
               !.mutated = {}]

\* _record_base_bytes: what a path not seen before holds now
Recorded(ws, P) ==
    [ws EXCEPT !.base = [ f \in P \cup DOMAIN ws.base |->
                            IF f \in DOMAIN ws.base THEN ws.base[f] ELSE ws.tree[f] ]]

\* rebuild: reset, prepare, freeze, apply.  When prepare refuses, the candidate
\* is at BASE; when a write fails, the writes before it are taken back but for
\* those in "stuck", and nothing is remembered as mutated
Rebuilds(ws, ops) == Prepares(ops, Reset(ws).tree)
Rebuilt(ws, ops) ==
    LET r == Recorded(Reset(ws), Paths(ops))
    IN [r EXCEPT !.tree = Applied(ops, @), !.mutated = Paths(ops)]
Broken(ws, ops, stuck) ==
    LET r == Recorded(Reset(ws), Paths(ops))
    IN [r EXCEPT !.tree = [ f \in Files |-> IF f \in stuck THEN Applied(ops, @)[f] ELSE @[f] ]]

\* cleanup: the directory may survive its four attempts
CleanedUp(ws, survives) == [NoWorkspace EXCEPT !.left = ws.active /\ survives]

\* A process running in the candidate writes a file
Written(ws, w) == [ws EXCEPT !.tree[w[1]] = w[2]]

=============================================================================
