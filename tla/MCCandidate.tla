----------------------------- MODULE MCCandidate -----------------------------
(***************************************************************************)
(* An instance of CandidateRun for TLC: a source file, its test and a file  *)
(* that neither reads; five answers of the provider (a wrong content and a  *)
(* new file, the right patch, the right content, an edit of a missing       *)
(* file, a content that does not parse); two tools and a third outside the  *)
(* agent's surface.                                                         *)
(***************************************************************************)
EXTENDS CandidateRun, TLC

CONSTANTS f, t, g, absent, old, new, wrong, bad, whole

MCFiles == {f, t, g}
MCContents == {absent, old, new, wrong, bad}
MCBase == (f :> old) @@ (t :> old) @@ (g :> absent)
Op(action, path, from, to) == [action |-> action, path |-> path, from |-> from, to |-> to]
MCStartTrees == {MCBase}
MCProposals ==
    { << Op("write", f, whole, wrong), Op("create", g, whole, new) >>,
      << Op("modify", f, old, new) >>,
      << Op("write", f, whole, new) >>,
      << Op("modify", g, whole, new) >>,
      << Op("write", f, whole, bad) >> }
MCTestFile == ("compile" :> "none") @@ ("test_f" :> t) @@ ("lint" :> "none")
MCReads == ("compile" :> {f}) @@ ("test_f" :> {f, t}) @@ ("lint" :> {f})
MCBreaks == ("compile" :> {}) @@ ("test_f" :> {wrong, absent}) @@ ("lint" :> {absent})
MCNameOf == "test_f" :> f
MCDependents == (f :> {t}) @@ (t :> {}) @@ (g :> {})
MCStrays == { <<f, wrong>>, <<t, wrong>> }
MCLimits == "look" :> 2
MCStartHistories ==
    { [history |-> Append1(EmptyHistory, "look", 1),
       executed |-> [tool \in Tools |-> IF tool = "look" THEN 1 ELSE 0]] }
MCTests == <<"test_f">>
MCStatics == <<"lint">>
MCIdentity == { IdentityChecks }
MCCheckSets == { {}, {"age"} \cup IdentityChecks }
=============================================================================
