---------------------------- MODULE SemanticImpact ----------------------------
(***************************************************************************)
(* Which tests a change can affect, and how sure that is: SemanticGraph and *)
(* SemanticChangeImpactAnalyzer (local_agent/semantic_impact.py).  The      *)
(* answer decides whether validation may leave out the tests found by file  *)
(* name alone (ValidationDecisionEngine.decide).                            *)
(*                                                                         *)
(* A repository is a record of what the analysis reads of a tree: what each *)
(* file defines now and defined before the change, which files it imports   *)
(* by a resolvable name, whether it also imports dynamically, and which     *)
(* names a test mentions (local aliases resolved).  Explanations, evidence  *)
(* that only explains, and timing are left out.                             *)
(***************************************************************************)
EXTENDS Integers, Sequences, FiniteSets, SequencesExt

CONSTANTS
    PathOrder,      \* the paths there are, sorted
    Python,         \* those the analysis reads: in the tree, named *.py
    TestPaths,      \* those that look like tests
    Names,          \* symbols a file may define
    Public,         \* the public ones
    Ambiguous,      \* names too many files define
    DerivesFrom,    \* per test: the source its name is derived from
    MaxFiles, MaxDepth, MaxNodes, MaxTests, HighFanout,
    Questions       \* what may be asked: a repository, files that changed, tests by name

VARIABLES question, answer

Paths == ToSet(PathOrder)
ASSUME ImpactAssumption ==
    /\ PathOrder \in Seq(Paths)
    /\ Python \subseteq Paths /\ TestPaths \subseteq Python
    /\ Public \subseteq Names /\ Ambiguous \subseteq Names
    /\ MaxFiles \in Nat \ {0} /\ {MaxDepth, MaxNodes, MaxTests, HighFanout} \subseteq Nat

\* A revision of a file: missing, not parsable, or its symbols with their bodies
Missing == [state |-> "missing", body |-> <<>>]
Unparsed == [state |-> "broken", body |-> <<>>]
Parsed(body) == [state |-> "parsed", body |-> body]

Place(p) == CHOOSE i \in DOMAIN PathOrder : PathOrder[i] = p
FirstOf(S, n) ==
    IF Cardinality(S) <= n THEN S
    ELSE { p \in S : Cardinality({ q \in S : Place(q) < Place(p) }) < n }

-----------------------------------------------------------------------------
(* The graph.                                                              *)

\* _discover_python_files: at most MaxFiles of them, and whether that cut any
Existing(repo) == { p \in Python : repo.now[p] # Missing }
GraphFiles(repo) == FirstOf(Existing(repo), MaxFiles)
GraphTruncated(repo) == Cardinality(Existing(repo)) >= MaxFiles

\* _resolve_edges: imports of files of the graph; a file that does not parse is
\* a module others may import, but has no imports of its own
Imports(repo, p) ==
    IF repo.now[p].state = "parsed" THEN (repo.imports[p] \cap GraphFiles(repo)) \ {p} ELSE {}
ImportedBy(repo, p) == { q \in GraphFiles(repo) : p \in Imports(repo, q) }

\* reverse_dependents: the search by levels, cut off by either bound
NextFrontier(repo, s) == (UNION { ImportedBy(repo, p) : p \in s.frontier }) \ s.seen
Level(repo, s, d) ==
    LET next == NextFrontier(repo, s)
        room == MaxNodes - Cardinality(DOMAIN s.depth)
        kept == FirstOf(next, room)
    IN [seen |-> s.seen \cup kept, frontier |-> kept, cut |-> kept # next,
        depth |-> [ p \in DOMAIN s.depth \cup kept |-> IF p \in kept THEN d ELSE s.depth[p] ]]
Search(repo, seeds) ==
    LET s[d \in 0..MaxDepth] ==
          IF d = 0 THEN [seen |-> seeds, frontier |-> seeds, cut |-> FALSE, depth |-> <<>>]
          ELSE IF s[d - 1].cut THEN s[d - 1] ELSE Level(repo, s[d - 1], d)
    IN s[MaxDepth]
\* Mutant: the files below the last level are forgotten
DepthBoundForgotten(repo, s) == s.cut
BoundHit(repo, s) == s.cut \/ NextFrontier(repo, s) # {}

-----------------------------------------------------------------------------
(* What changed.                                                           *)

\* A file whose earlier revision is not known counts as new
BaseOf(repo, p) == IF p \in DOMAIN repo.base THEN repo.base[p] ELSE Missing

\* diff_python_symbols
Added(base, now) == DOMAIN now.body \ DOMAIN base.body
Removed(base, now) == DOMAIN base.body \ DOMAIN now.body
Modified(base, now) == { n \in DOMAIN base.body \cap DOMAIN now.body : base.body[n] # now.body[n] }
Comparable(base, now) ==
    /\ "broken" \notin {base.state, now.state} /\ {base.state, now.state} # {"missing"}

\* _collect_symbol_changes: what can and what cannot be compared
Unsupported(changed) == changed \ Python
Uncomparable(repo, changed) ==
    { p \in changed \cap Python : ~Comparable(BaseOf(repo, p), repo.now[p]) }
Compared(repo, changed) == (changed \cap Python) \ Uncomparable(repo, changed)
ChangedNames(repo, changed) ==
    UNION { LET b == BaseOf(repo, p) IN
            Added(b, repo.now[p]) \cup Removed(b, repo.now[p]) \cup Modified(b, repo.now[p])
            : p \in Compared(repo, changed) }
RemovedPublic(repo, changed) ==
    UNION { Removed(BaseOf(repo, p), repo.now[p]) \cap Public : p \in Compared(repo, changed) }

-----------------------------------------------------------------------------
(* Tests for the change.                                                   *)

Tiers == <<"filename", "module", "reverse_dependency", "call_graph", "direct_import",
           "direct_symbol">>
Weight(tier) == CHOOSE i \in DOMAIN Tiers : Tiers[i] = tier
Semantic == {"direct_symbol", "direct_import", "call_graph", "reverse_dependency"}

\* _select_targets: the strongest tier of a test, "none" when there is none
Tier(repo, changed, affected, t) ==
    LET names == ChangedNames(repo, changed)
        imported == Imports(repo, t) \cap changed
    IN IF t \in changed \/ (imported # {} /\ repo.refs[t] \cap names # {}) THEN "direct_symbol"
       ELSE IF imported # {} THEN "direct_import"
       ELSE IF repo.refs[t] \cap (names \ Ambiguous) # {} THEN "call_graph"
       ELSE IF Imports(repo, t) \cap affected # {} THEN "reverse_dependency"
       ELSE IF DerivesFrom[t] \in changed THEN "module"
       ELSE "none"

\* _add_lexical_targets: what file names suggest and nothing stronger found
Found(repo, changed, affected, lexical) ==
    LET tests == GraphFiles(repo) \cap TestPaths
        tier == [ t \in tests |-> Tier(repo, changed \cap Python, affected, t) ]
        graph == { t \in tests : tier[t] # "none" }
    IN [ t \in graph \cup lexical |-> IF t \in graph THEN tier[t] ELSE "filename" ]

\* Ranked by weight, then by path; at most MaxTests of them, 0 for no bound
Ahead(found, t) ==
    { u \in DOMAIN found : \/ Weight(found[u]) > Weight(found[t])
                           \/ found[u] = found[t] /\ Place(u) < Place(t) }
TooMany(found) == MaxTests > 0 /\ Cardinality(DOMAIN found) > MaxTests
Selected(found) ==
    { t \in DOMAIN found : TooMany(found) => Cardinality(Ahead(found, t)) < MaxTests }

-----------------------------------------------------------------------------
(* How sure, and how broad.                                                *)

\* The reasons for which the picture is known to be incomplete
Degraded(repo, changed, s, found) ==
    \/ GraphTruncated(repo)
    \/ Unsupported(changed) # {} \/ Uncomparable(repo, changed) # {}
    \/ ~((changed \cap Python) \subseteq DOMAIN repo.base)
    \/ BoundHit(repo, s) \/ TooMany(found)
    \/ (DOMAIN s.depth \cup changed) \cap GraphFiles(repo) \cap repo.dynamic # {}

\* ImpactEvidence.assess, with the share of the changed files that were compared
Assess(degraded, tiers, compared, changed) ==
    IF degraded THEN "low"
    ELSE IF tiers \cap {"direct_symbol", "direct_import"} # {} /\ 10 * compared >= 6 * changed
      THEN "high"
    ELSE IF tiers \cap Semantic # {} /\ 10 * compared >= 3 * changed THEN "medium"
    ELSE "low"

\* recommend_validation_scope and escalate_scope: the broadest of the minima
Scopes == <<"targeted", "expanded", "broad">>
Broadest(S) == Scopes[CHOOSE i \in 1..3 : Scopes[i] \in S /\ \A j \in 1..3 : Scopes[j] \in S => j <= i]
Recommend(confidence, selected, removed, affected, hit) ==
    Broadest({ CASE confidence = "high" -> "targeted" [] confidence = "medium" -> "expanded"
                 [] OTHER -> "broad" }
        \cup (IF selected = {} \/ hit THEN {"broad"} ELSE {})
        \cup (IF removed # {} \/ Cardinality(affected) > HighFanout THEN {"expanded"} ELSE {}))

\* analyze, for files that changed and the tests their names suggest
NothingChanged == [depth |-> <<>>, targets |-> <<>>, confidence |-> "low", degraded |-> FALSE,
                   scope |-> "targeted"]
Analyze(repo, changed, lexical) ==
    LET s == Search(repo, changed \cap Python)
        affected == DOMAIN s.depth
        found == Found(repo, changed, affected, lexical)
        selected == Selected(found)
        degraded == Degraded(repo, changed, s, found)
        compared == Cardinality(Compared(repo, changed))
        confidence == Assess(degraded, { found[t] : t \in selected }, compared, Cardinality(changed))
        hit == GraphTruncated(repo) \/ BoundHit(repo, s) \/ TooMany(found)
                 \/ Unsupported(changed) \cup Uncomparable(repo, changed) # {}
    IN IF changed = {} THEN NothingChanged
       ELSE [depth |-> s.depth, targets |-> [ t \in selected |-> found[t] ],
             confidence |-> confidence, degraded |-> degraded,
             scope |-> Recommend(confidence, selected, RemovedPublic(repo, changed), affected, hit)]

\* apply_knowledge_support: stale knowledge of a changed file widens the scope
WithKnowledge(report, stale) ==
    [report EXCEPT !.scope = IF stale # {} THEN Broadest({@, "expanded"}) ELSE @]

-----------------------------------------------------------------------------
(* Reference definitions.                                                  *)

\* The files that depend on S: the least set that holds S and whatever imports
\* one of its members.  A file that is no longer there is still imported by those
\* that name it
ImportsIt(repo, q, p) == repo.now[q].state = "parsed" /\ p \in repo.imports[q]
Closed(repo, T) == \A q \in Python : (\E p \in T : ImportsIt(repo, q, p)) => q \in T
DependsOn(repo, S) ==
    { q \in Python : \A T \in SUBSET Python : S \subseteq T /\ Closed(repo, T) => q \in T }

-----------------------------------------------------------------------------
(* One question, and its answer: what the callers of analyze see.          *)

NoQuestion == <<>>
Ask ==
    /\ question = NoQuestion
    /\ question' \in Questions
    /\ answer' = Analyze(question'.repo, question'.changed, question'.lexical)
AskSpec == question = NoQuestion /\ answer = NoQuestion /\ [][Ask]_<<question, answer>>

\* A report that is sure and narrow leaves out no test that depends on a changed
\* file, over whatever chain of imports (recommend_validation_scope: only then may
\* validation be targeted), provided every file that is gone had something public.
GoneWasPublic ==
    \A p \in question.changed : question.repo.now[p] = Missing =>
        Removed(question.repo.base[p], Missing) \cap Public # {}
NarrowIsComplete ==
    question # NoQuestion /\ answer.confidence = "high" /\ answer.scope = "targeted" /\ GoneWasPublic =>
      DependsOn(question.repo, question.changed) \cap TestPaths \subseteq DOMAIN answer.targets
=============================================================================
