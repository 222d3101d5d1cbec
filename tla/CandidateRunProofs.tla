-------------------------- MODULE CandidateRunProofs --------------------------
(***************************************************************************)
(* Proofs about one attempt of the interactive agent, for any project,     *)
(* proposals, commands, tools, budgets and disturbances: types and tool    *)
(* budgets, that a candidate is BASE plus its operations, that what is     *)
(* handed over and applied was validated, and that evidence is only reused *)
(* for what would pass.                                                    *)
(***************************************************************************)
EXTENDS CandidateRun, FiniteSetTheorems, SequenceTheorems, WellFoundedInduction, TLAPS

-----------------------------------------------------------------------------
(* The inductive invariant.                                                *)

\* What the parts of the state are made of, in more detail than TypeOK says
Some(S) == UNION { [D -> Contents] : D \in SUBSET S }
WorkspaceType == [active : BOOLEAN, tree : Trees, base : Some(Files),
                  mutated : SUBSET Files, left : BOOLEAN]
RunType == [last : Calls \cup {NoCall}, repeats : Nat]
StepType == [tier : {"syntax", "targeted_tests", "static_analysis", "targeted"}, cmd : Commands]
Verdicts == {"passed", "failed", "skipped"}
ReportType == [cmd : Commands, status : Verdicts, ran : Trees]
ImpactType == [made : BOOLEAN, changed : SUBSET Files, affected : SUBSET Files,
               symbols : SUBSET (Files \X BOOLEAN), confidence : {"low", "high"},
               scope : {"broad", "targeted"}, targets : Seq(Commands)]
EntryType == [cmd : Commands, status : Verdicts, files : SUBSET Files,
              symbols : SUBSET (Files \X BOOLEAN), confidence : {"low", "high"},
              print : Some(Files), identity : [IdentityChecks -> {NotRecorded}], ran : Trees]
SeenType == [mirror : Trees, dirty : BOOLEAN, edited : SUBSET Files,
             executed : [Tools -> Nat], proven : Trees, decided : Trees]

Stages == Working \cup Ended \cup {"apply", "approval", "select", "targeted"}
Engines == {"none", "stopped", "completed"}

AgentTyped ==
    /\ mode \in Modes /\ tree \in Trees /\ ws \in WorkspaceType
    /\ ws.mutated \subseteq DOMAIN ws.base
    /\ stage \in Stages /\ engine \in Engines /\ outcome \in Outcomes
    /\ history \in Histories /\ run \in RunType
    /\ ops \in Proposals \cup {<<>>} /\ errors \in BOOLEAN
    /\ refines \in Nat /\ iterations \in Nat
    /\ disturbances \in 0..MaxDisturbances /\ seen \in SeenType
VerdictTyped ==
    /\ todo \in Seq(StepType) /\ report \in Seq(ReportType) /\ impact \in ImpactType
    /\ ledger \in [entries : Seq(EntryType), grants : Nat, denials : Int]
    /\ result \in [success : BOOLEAN, evidence : Seq(EntryType), leftBehind : BOOLEAN]
    /\ Len(ledger.entries) <= MaxLedger /\ Len(result.evidence) <= MaxLedger
    /\ reused \subseteq ToSet(result.evidence)
    /\ stage \notin {"targeted", "done"} => reused = {}

\* What the tools used up, in terms of the history that the policy looks at: a call is
\* let through while the history is shorter than the budget, and makes it longer.
BudgetInv ==
    /\ WithinBudgets(seen.executed)
    /\ Total(seen.executed) <= history.steps
    /\ \A t \in Tools : seen.executed[t] <= history.count[t]
    /\ refines <= MaxRefineRounds /\ iterations <= MaxCandidateIterations
    /\ stage \in {"start", "loop", "rebuild"} => iterations < MaxCandidateIterations

\* BASE, as far as it was not disturbed: what is frozen of it, and what the current
\* candidate does not mutate, is as it was mirrored.
Candidate == Applied(ops, seen.mirror)
WorkspaceInv ==
    /\ stage \in {"rebuild", "validate"} => Prospective
    /\ Prospective /\ stage \in {"loop", "rebuild", "validate"} /\ ~seen.dirty =>
          /\ \A f \in DOMAIN ws.base : ws.base[f] = seen.mirror[f]
          /\ \A f \in Files \ ws.mutated : ws.tree[f] = seen.mirror[f]
    /\ stage = "validate" /\ ~seen.dirty =>
          ws.tree = Candidate /\ \A i \in DOMAIN report : report[i].ran = Candidate

\* From a candidate that passed to what the project holds after it is applied
Proven ==
    /\ iterations > 0 /\ \A i \in DOMAIN report : report[i].status # "failed"
    /\ ~seen.dirty => /\ \A i \in DOMAIN report : report[i].ran = Candidate
                      /\ seen.proven = Candidate
Unedited(f) == f \in Mirrored \ seen.edited
HandOverInv ==
    /\ stage \in {"start", "loop", "rebuild", "validate"} =>
          outcome \in {"none", "failed", "invalid"}
    /\ stage = "validate" => iterations > 0
    /\ Prospective /\ outcome = "passed" => Proven
    /\ Prospective /\ stage \in {"apply", "approval"} => outcome = "passed"
    /\ Prospective /\ stage \in {"loop", "rebuild", "validate", "finish", "apply", "approval"} =>
          \A f \in Files : Unedited(f) => tree[f] = seen.mirror[f]
    /\ Prospective /\ stage \in {"select", "targeted", "done"} /\ ~seen.dirty =>
          \A f \in (Mirrored \cup Paths(ops)) \ seen.edited : tree[f] = seen.proven[f]

\* Evidence says of a tree what is so
Genuine(r) == r.status = "passed" => Passes(r.cmd, r.ran)
EvidenceInv ==
    /\ \A i \in DOMAIN report : Genuine(report[i])
    /\ \A i \in DOMAIN ledger.entries : Genuine(ledger.entries[i])
    /\ \A i \in DOMAIN result.evidence : Genuine(result.evidence[i])
    /\ stage = "targeted" => \A e \in reused :
          e.status = "passed" /\ e.print = ContentOf(seen.decided, e.files)

CandidateInv ==
    AgentTyped /\ VerdictTyped /\ BudgetInv /\ WorkspaceInv /\ HandOverInv /\ EvidenceInv

-----------------------------------------------------------------------------
(* Sums over finite sets, which FoldFunction takes element by element.     *)

LEMMA LeastMember ==
    ASSUME NEW T \in SUBSET Nat, T # {}
    PROVE  \E x \in T : \A y \in T : x <= y
<1> DEFINE R == OpToRel(<, Nat)
<1>1. IsWellFoundedOn(R, Nat)
    BY NatLessThanWellFounded
<1>2. \A p : p \in R <=> p \in Nat \X Nat /\ p[1] < p[2]
    BY DEF OpToRel
<1> HIDE DEF R
<1>3. PICK x \in T : \A y \in T : ~(<<y, x>> \in R)
    BY <1>1, WFMin
<1>4. \A y \in T : <<y, x>> \in R <=> y < x
    BY <1>2
<1>5. \A y \in T : x \in Nat /\ y \in Nat /\ ~(y < x)
    BY <1>3, <1>4
<1>6. \A y \in T : x <= y
    BY <1>5
<1> QED BY <1>6

LEMMA Induction ==
    ASSUME NEW T \in SUBSET Nat, 0 \in T, \A n \in T : n + 1 \in T
    PROVE  T = Nat
<1> DEFINE Out == Nat \ T
<1> SUFFICES ASSUME Out # {} PROVE FALSE
    OBVIOUS
<1>1. PICK x \in Out : \A y \in Out : x <= y
    BY LeastMember
<1>2. x - 1 \in Nat /\ x - 1 + 1 = x
    BY <1>1
<1>3. x - 1 \in T
    BY <1>1, <1>2
<1> QED BY <1>2, <1>3

\* The element FoldFunction takes next, and its recursion
First(s) == CHOOSE x \in s : TRUE
Summed(S, f, g) ==
    [s \in SUBSET S |-> IF s = {} THEN 0 ELSE f[First(s)] + g[s \ {First(s)}]]

LEMMA FirstTaken ==
    ASSUME NEW S, IsFiniteSet(S), NEW s \in SUBSET S, s # {}
    PROVE  /\ First(s) \in s /\ s \ {First(s)} \in SUBSET S
           /\ Cardinality(s) \in Nat /\ Cardinality(s) # 0
           /\ Cardinality(s \ {First(s)}) = Cardinality(s) - 1
<1>1. First(s) \in s
    BY DEF First
<1>2. IsFiniteSet(s)
    BY FS_Subset
<1> QED BY <1>1, <1>2, FS_CardinalityType, FS_RemoveElement, FS_EmptySet

LEMMA SumExists ==
    ASSUME NEW S, IsFiniteSet(S), NEW f \in [S -> Nat]
    PROVE  \E g \in [SUBSET S -> Nat] : g = Summed(S, f, g)
<1> DEFINE Body(s, g) == IF s = {} THEN 0 ELSE f[First(s)] + g[s \ {First(s)}]
           Solves(g, n) == \A s \in SUBSET S : Cardinality(s) <= n => g[s] = Body(s, g)
           N == { n \in Nat : \E g \in [SUBSET S -> Nat] : Solves(g, n) }
<1>0. \A s \in SUBSET S : IsFiniteSet(s) /\ Cardinality(s) \in Nat
    BY FS_Subset, FS_CardinalityType
<1>1. 0 \in N
  <2> DEFINE g == [s \in SUBSET S |-> 0]
  <2>1. \A s \in SUBSET S : Cardinality(s) <= 0 => s = {}
      BY <1>0, FS_EmptySet
  <2>2. g \in [SUBSET S -> Nat] /\ Solves(g, 0)
      BY <2>1
  <2> QED BY <2>2
<1>2. ASSUME NEW n \in N PROVE n + 1 \in N
  <2>1. PICK g \in [SUBSET S -> Nat] : Solves(g, n)
      OBVIOUS
  <2> DEFINE h == [s \in SUBSET S |-> IF Cardinality(s) <= n THEN g[s] ELSE Body(s, g)]
  <2>2. ASSUME NEW s \in SUBSET S PROVE Body(s, g) \in Nat
    <3>1. CASE s = {}
        BY <3>1
    <3>2. CASE s # {}
      <4>1. First(s) \in S /\ s \ {First(s)} \in SUBSET S
          BY <3>2, FirstTaken
      <4>2. f[First(s)] \in Nat /\ g[s \ {First(s)}] \in Nat
          BY <4>1
      <4> QED BY <3>2, <4>2
    <3> QED BY <3>1, <3>2
  <2>3. h \in [SUBSET S -> Nat]
    <3> HIDE DEF Body
    <3> QED BY <2>2
  <2>4. ASSUME NEW s \in SUBSET S, Cardinality(s) <= n + 1 PROVE h[s] = Body(s, h)
    <3>1. h[s] = Body(s, g)
      <4> HIDE DEF Body
      <4> QED BY <2>1
    <3>2. CASE s = {}
        BY <3>1, <3>2
    <3>3. CASE s # {}
      <4>1. /\ s \ {First(s)} \in SUBSET S
            /\ Cardinality(s \ {First(s)}) = Cardinality(s) - 1 /\ Cardinality(s) \in Nat
          BY <3>3, FirstTaken
      <4>2. Cardinality(s \ {First(s)}) <= n
          BY <2>4, <4>1
      <4>3. h[s \ {First(s)}] = g[s \ {First(s)}]
        <5> HIDE DEF Body
        <5> QED BY <4>1, <4>2
      <4> HIDE DEF h
      <4> QED BY <3>1, <3>3, <4>3
    <3> QED BY <3>2, <3>3
  <2> HIDE DEF h, Body
  <2> QED BY <2>3, <2>4
<1>3. Cardinality(S) \in N
  <2> HIDE DEF N
  <2>1. N \in SUBSET Nat
      BY DEF N
  <2> QED BY <1>0, <1>1, <1>2, <2>1, Induction
<1>4. PICK g \in [SUBSET S -> Nat] : Solves(g, Cardinality(S))
    BY <1>3
<1>5. \A s \in SUBSET S : g[s] = Body(s, g)
  <2> HIDE DEF Body
  <2> QED BY <1>4, FS_Subset
<1>6. g = Summed(S, f, g)
    BY <1>5 DEF Summed
<1> QED BY <1>6

\* Two sums that differ in one summand.
Grown(f, k, t, d) == d \in {0, 1} /\ k[t] = f[t] + d /\ \A x \in DOMAIN f \ {t} : k[x] = f[x]

LEMMA SumsCompared ==
    ASSUME NEW S, IsFiniteSet(S), NEW f \in [S -> Nat], NEW k \in [S -> Nat],
           NEW t \in S, NEW d, Grown(f, k, t, d),
           NEW g, g = Summed(S, f, g), NEW h, h = Summed(S, k, h)
    PROVE  \A s \in SUBSET S : g[s] \in Nat /\ h[s] = g[s] + IF t \in s THEN d ELSE 0
<1> DEFINE Claim(s) == g[s] \in Nat /\ h[s] = g[s] + IF t \in s THEN d ELSE 0
           N == { n \in Nat : \A s \in SUBSET S : Cardinality(s) <= n => Claim(s) }
<1>0. \A s \in SUBSET S : IsFiniteSet(s) /\ Cardinality(s) \in Nat
    BY FS_Subset, FS_CardinalityType
<1>1. 0 \in N
  <2>1. \A s \in SUBSET S : Cardinality(s) <= 0 => s = {}
      BY <1>0, FS_EmptySet
  <2>2. g[{}] = 0 /\ h[{}] = 0
      BY {} \in SUBSET S DEF Summed
  <2>3. Claim({})
      BY <2>2
  <2> HIDE DEF Claim
  <2> QED BY <2>1, <2>3
<1>2. ASSUME NEW n \in N PROVE n + 1 \in N
  <2>1. ASSUME NEW s \in SUBSET S, Cardinality(s) <= n + 1 PROVE Claim(s)
    <3>1. CASE Cardinality(s) <= n
        BY <3>1
    <3>2. CASE ~(Cardinality(s) <= n)
      <4>1. s # {}
        <5>1. n \in Nat /\ Cardinality({}) = 0
            BY FS_EmptySet
        <5> HIDE DEF N
        <5> SUFFICES ASSUME s = {} PROVE FALSE
            OBVIOUS
        <5>2. Cardinality(s) = 0
            BY <5>1
        <5> QED BY <3>2, <5>1, <5>2
      <4> DEFINE x == First(s)
                 r == s \ {x}
      <4>2. /\ x \in s /\ x \in S /\ r \in SUBSET S
            /\ Cardinality(r) = Cardinality(s) - 1 /\ Cardinality(s) \in Nat
          BY <4>1, FirstTaken
      <4>3. Cardinality(r) <= n
          BY <2>1, <4>2
      <4>4. Claim(r)
        <5> HIDE DEF Claim, r
        <5> QED BY <4>2, <4>3
      <4>5. g[s] = f[x] + g[r] /\ h[s] = k[x] + h[r]
          BY <4>1 DEF Summed
      <4>6. /\ f[x] \in Nat /\ d \in {0, 1}
            /\ k[x] = f[x] + IF t = x THEN d ELSE 0
          BY <4>2 DEF Grown
      <4>7. /\ t = x => t \in s /\ t \notin r
            /\ t # x => (t \in s <=> t \in r)
          BY <4>2
      <4> HIDE DEF x, r
      <4> QED BY <4>4, <4>5, <4>6, <4>7
    <3> QED BY <3>1, <3>2
  <2> HIDE DEF Claim
  <2> QED BY <2>1
<1>3. Cardinality(S) \in N
  <2> HIDE DEF N
  <2>1. N \in SUBSET Nat
      BY DEF N
  <2> QED BY <1>0, <1>1, <1>2, <2>1, Induction
<1> HIDE DEF Claim
<1>4. \A s \in SUBSET S : Claim(s)
    BY <1>3, FS_Subset
<1> QED BY <1>4 DEF Claim

LEMMA FoldIsSum ==
    ASSUME NEW S, IsFiniteSet(S), NEW f \in [S -> Nat]
    PROVE  \E g : g = Summed(S, f, g) /\ Total(f) = g[S]
<1> DEFINE g == CHOOSE g : g = Summed(S, f, g)
<1>1. g = Summed(S, f, g)
  <2>1. \E h : h = Summed(S, f, h)
      BY SumExists
  <2> QED BY <2>1
<1>2. Total(f) = g[S]
    BY DEF Total, FoldFunction, FoldFunctionOnSet, MapThenFoldSet, Summed, First
<1> QED BY <1>1, <1>2

\* One call more: the sum of all calls is one more.
LEMMA FoldGrows ==
    ASSUME NEW S, IsFiniteSet(S), NEW f \in [S -> Nat], NEW t \in S, NEW d \in {0, 1}
    PROVE  /\ Total(f) \in Nat
           /\ Total([f EXCEPT ![t] = @ + d]) = Total(f) + d
<1> DEFINE k == [f EXCEPT ![t] = @ + d]
<1>1. k \in [S -> Nat] /\ Grown(f, k, t, d)
    BY DEF Grown
<1> HIDE DEF k
<1>2. PICK g : g = Summed(S, f, g) /\ Total(f) = g[S]
    BY FoldIsSum
<1>3. PICK h : h = Summed(S, k, h) /\ Total(k) = h[S]
    BY <1>1, FoldIsSum
<1>4. \A s \in SUBSET S : g[s] \in Nat /\ h[s] = g[s] + IF t \in s THEN d ELSE 0
    BY <1>1, <1>2, <1>3, SumsCompared
<1>5. g[S] \in Nat /\ h[S] = g[S] + d
    BY <1>4
<1> QED BY <1>2, <1>3, <1>5 DEF k

-----------------------------------------------------------------------------
(* Selecting from a sequence.                                              *)

\* The recursion of Among
Filtered(s, T, g) ==
    [n \in 0..Len(s) |-> IF n = 0 THEN <<>>
                         ELSE IF s[n] \in T THEN Append(g[n - 1], s[n]) ELSE g[n - 1]]

LEMMA FilterExists ==
    ASSUME NEW S, NEW s \in Seq(S), NEW T
    PROVE  \E g : g = Filtered(s, T, g)
<1> DEFINE Body(g, n) == IF s[n] \in T THEN Append(g[n - 1], s[n]) ELSE g[n - 1]
           Solves(g, m) == g[0] = <<>> /\ \A n \in 1..m : g[n] = Body(g, n)
           N == { m \in Nat : m <= Len(s) => \E g \in [0..m -> Seq(S)] : Solves(g, m) }
<1>0. Len(s) \in Nat /\ \A n \in 1..Len(s) : s[n] \in S
    BY LenProperties, ElementOfSeq
<1>1. 0 \in N
  <2>1. [n \in 0..0 |-> <<>>] \in [0..0 -> Seq(S)] /\ Solves([n \in 0..0 |-> <<>>], 0)
      OBVIOUS
  <2> QED BY <2>1
<1>2. ASSUME NEW m \in N PROVE m + 1 \in N
  <2> SUFFICES ASSUME m + 1 <= Len(s)
               PROVE  \E g \in [0..m + 1 -> Seq(S)] : Solves(g, m + 1)
      BY m \in Nat /\ m + 1 \in Nat
  <2>1. m \in Nat /\ m + 1 \in 1..Len(s) /\ m <= Len(s)
      BY <1>0
  <2>2. PICK g \in [0..m -> Seq(S)] : Solves(g, m)
      BY <2>1
  <2> DEFINE last == IF s[m + 1] \in T THEN Append(g[m], s[m + 1]) ELSE g[m]
             h == [n \in 0..m + 1 |-> IF n <= m THEN g[n] ELSE last]
  <2>3. g[m] \in Seq(S) /\ s[m + 1] \in S
      BY <1>0, <2>1
  <2>4. last \in Seq(S)
      BY <2>3, AppendProperties
  <2>5. h \in [0..m + 1 -> Seq(S)]
    <3> HIDE DEF last
    <3> QED BY <2>1, <2>4
  <2>6. h[0] = <<>>
    <3> HIDE DEF last
    <3> QED BY <2>1, <2>2
  <2>7. ASSUME NEW n \in 1..m + 1 PROVE h[n] = Body(h, n)
    <3>1. CASE n <= m
      <4>1. n \in 1..m /\ n \in 0..m + 1 /\ n - 1 \in 0..m + 1 /\ n - 1 <= m
          BY <2>1, <3>1
      <4>2. h[n] = g[n] /\ h[n - 1] = g[n - 1]
        <5> HIDE DEF last
        <5> QED BY <3>1, <4>1
      <4> HIDE DEF h
      <4> QED BY <2>2, <4>1, <4>2
    <3>2. CASE n = m + 1
      <4>1. n \in 0..m + 1 /\ ~(n <= m) /\ n - 1 = m /\ m \in 0..m + 1 /\ m <= m
          BY <2>1, <3>2
      <4>2. h[n] = last /\ h[n - 1] = g[m]
        <5> HIDE DEF last
        <5> QED BY <4>1
      <4> HIDE DEF h
      <4> QED BY <3>2, <4>2
    <3> QED BY <2>1, <3>1, <3>2
  <2> HIDE DEF h, Body
  <2> QED BY <2>5, <2>6, <2>7
<1>3. Len(s) \in N
  <2> HIDE DEF N
  <2>1. N \in SUBSET Nat
      BY DEF N
  <2> QED BY <1>0, <1>1, <1>2, <2>1, Induction
<1>4. PICK g \in [0..Len(s) -> Seq(S)] : Solves(g, Len(s))
    BY <1>0, <1>3
<1>5. ASSUME NEW n \in 0..Len(s)
      PROVE  g[n] = IF n = 0 THEN <<>>
                    ELSE IF s[n] \in T THEN Append(g[n - 1], s[n]) ELSE g[n - 1]
  <2>1. n = 0 \/ n \in 1..Len(s)
      BY <1>0
  <2> QED BY <1>4, <2>1
<1>6. g = Filtered(s, T, g)
    BY <1>5 DEF Filtered
<1> QED BY <1>6

LEMMA FilterTyped ==
    ASSUME NEW S, NEW s \in Seq(S), NEW T, NEW g, g = Filtered(s, T, g)
    PROVE  g[Len(s)] \in Seq(S)
<1> DEFINE N == { m \in Nat : m <= Len(s) => g[m] \in Seq(S) }
<1>0. Len(s) \in Nat /\ \A n \in 1..Len(s) : s[n] \in S
    BY LenProperties, ElementOfSeq
<1>1. 0 \in N
  <2>1. 0 \in 0..Len(s)
      BY <1>0
  <2>2. g[0] = <<>>
      BY <2>1 DEF Filtered
  <2>3. g[0] \in Seq(S)
      BY <2>2
  <2> QED BY <2>3
<1>2. ASSUME NEW m \in N PROVE m + 1 \in N
  <2> SUFFICES ASSUME m + 1 <= Len(s) PROVE g[m + 1] \in Seq(S)
      BY m \in Nat /\ m + 1 \in Nat
  <2>1. m \in Nat /\ m <= Len(s) /\ m + 1 \in 1..Len(s)
      BY <1>0
  <2>2. g[m] \in Seq(S) /\ s[m + 1] \in S
      BY <1>0, <2>1
  <2> DEFINE k == m + 1
  <2>3. k \in 0..Len(s) /\ k # 0 /\ k - 1 = m
      BY <2>1
  <2> HIDE DEF k, N
  <2>4. g[k] = IF s[k] \in T THEN Append(g[m], s[k]) ELSE g[m]
      BY <2>3 DEF Filtered
  <2>5. Append(g[m], s[k]) \in Seq(S)
      BY <2>2, AppendProperties DEF k
  <2>6. g[k] \in Seq(S)
      BY <2>2, <2>4, <2>5
  <2> QED BY <2>6 DEF k
<1>3. Len(s) \in N
  <2> HIDE DEF N
  <2>1. N \in SUBSET Nat
      BY DEF N
  <2> QED BY <1>0, <1>1, <1>2, <2>1, Induction
<1> QED BY <1>0, <1>3

\* What is selected from a sequence is a sequence of the same things.
LEMMA AmongTyped ==
    ASSUME NEW S, NEW s \in Seq(S), NEW T
    PROVE  Among(s, T) \in Seq(S)
<1> DEFINE first == CHOOSE g : g = Filtered(s, T, g)
<1>1. first = Filtered(s, T, first)
  <2>1. \E g : g = Filtered(s, T, g)
      BY FilterExists
  <2> QED BY <2>1
<1>2. Among(s, T) = first[Len(s)]
    BY DEF Among, Filtered
<1> HIDE DEF first
<1> QED BY <1>1, <1>2, FilterTyped

-----------------------------------------------------------------------------
(* Trees, operations and the workspace.                                    *)

LEMMA ConstantsTyped ==
    /\ Absent \in Contents /\ Mirrored \subseteq Files
    /\ Syntax \in Commands /\ Tests \in Seq(Commands)
    /\ Statics \in Seq(Commands) /\ Dependents \in [Files -> SUBSET Files]
    /\ MaxDisturbances \in Nat /\ MaxRefineRounds \in Nat /\ MaxTargeted \in Nat
    /\ MaxStatic \in Nat /\ MaxCandidateIterations \in Nat \ {0} /\ MaxLedger \in Nat \ {0}
    /\ FeedbackSize \in Nat /\ Sizes \subseteq Nat /\ IsFiniteSet(Tools)
    /\ StepBudget \in Nat
BY ReuseAssumption, WorkspaceAssumption, ToolAssumption, CandidateAssumption DEF StepBudget

\* A list of operations that is proposed, or none.
LEMMA OpsTyped ==
    ASSUME NEW p \in Proposals \cup {<<>>}
    PROVE  /\ p \in Seq(Operations) /\ Paths(p) \subseteq Files
           /\ \A i \in DOMAIN p : p[i] \in Operations
<1>1. p \in Seq(Operations)
  <2>1. CASE p = <<>>
      BY <2>1
  <2> QED BY <2>1, CandidateAssumption
<1>2. \A i \in DOMAIN p : p[i] \in Operations
    BY <1>1, LenProperties, ElementOfSeq
<1>3. \A op \in Operations : op.path \in Files
    BY DEF Operations
<1> QED BY <1>1, <1>2, <1>3 DEF Paths

\* What operations make of a file: the same of every tree.
Made(p, f) == Resulting(p[CHOOSE i \in DOMAIN p : p[i].path = f])

LEMMA AppliedTyped ==
    ASSUME NEW p \in Proposals \cup {<<>>}, NEW t \in Trees
    PROVE  /\ Applied(p, t) \in Trees
           /\ \A f \in Files : Applied(p, t)[f] = IF f \in Paths(p) THEN Made(p, f) ELSE t[f]
<1>1. ASSUME NEW f \in Paths(p) PROVE Made(p, f) \in Contents
  <2>1. \E i \in DOMAIN p : p[i].path = f
      BY DEF Paths
  <2>2. (CHOOSE i \in DOMAIN p : p[i].path = f) \in DOMAIN p
      BY <2>1
  <2>3. \A op \in Operations : Resulting(op) \in Contents
      BY ConstantsTyped DEF Operations, Resulting
  <2> QED BY <2>2, <2>3, OpsTyped DEF Made
<1>2. Applied(p, t) = [f \in Files |-> IF f \in Paths(p) THEN Made(p, f) ELSE t[f]]
    BY DEF Applied, Made
<1> QED BY <1>1, <1>2 DEF Trees

LEMMA MirrorTyped ==
    ASSUME NEW t \in Trees
    PROVE  /\ Mirror(t) \in Trees
           /\ \A f \in Mirrored : Mirror(t)[f] = t[f]
BY ConstantsTyped DEF Trees, Mirror

\* Sets of files with what they hold.
LEMMA SomeTyped ==
    ASSUME NEW D \in SUBSET Files, NEW b \in [D -> Contents]
    PROVE  b \in Some(Files) /\ DOMAIN b = D
BY DEF Some

LEMMA NoWorkspaceTyped ==
    /\ NoWorkspace \in WorkspaceType /\ NoWorkspace.tree \in Trees
    /\ NoWorkspace.mutated = {} /\ DOMAIN NoWorkspace.base = {}
<1>1. <<>> \in [{} -> Contents]
    OBVIOUS
<1>2. <<>> \in Some(Files)
    BY <1>1, SomeTyped
<1> QED BY <1>2, ConstantsTyped DEF NoWorkspace, WorkspaceType, Trees

LEMMA SetUpTyped ==
    ASSUME NEW t \in Trees
    PROVE  /\ SetUp(t) \in WorkspaceType /\ SetUp(t).tree = Mirror(t)
           /\ SetUp(t).mutated = {} /\ DOMAIN SetUp(t).base = {}
BY NoWorkspaceTyped, MirrorTyped DEF SetUp, WorkspaceType

LEMMA CleanedUpTyped ==
    ASSUME NEW w \in WorkspaceType, NEW survives \in BOOLEAN
    PROVE  /\ CleanedUp(w, survives) \in WorkspaceType
           /\ CleanedUp(w, survives).mutated = {}
<1>1. (w.active /\ survives) \in BOOLEAN
    BY DEF WorkspaceType
<1> QED BY <1>1, NoWorkspaceTyped DEF CleanedUp, WorkspaceType

\* The paths of the last candidate hold again what is frozen of them.
LEMMA ResetTyped ==
    ASSUME NEW w \in WorkspaceType, w.mutated \subseteq DOMAIN w.base
    PROVE  /\ Reset(w) \in WorkspaceType /\ Reset(w).mutated = {} /\ Reset(w).base = w.base
           /\ \A f \in Files : Reset(w).tree[f] = IF f \in w.mutated THEN w.base[f] ELSE w.tree[f]
<1> DEFINE t == [f \in Files |-> IF f \in w.mutated THEN w.base[f] ELSE w.tree[f]]
<1>1. w.tree \in [Files -> Contents] /\ w.mutated \subseteq Files
    BY DEF WorkspaceType, Trees
<1>2. \A f \in DOMAIN w.base : w.base[f] \in Contents
    BY DEF WorkspaceType, Some
<1>3. t \in Trees
    BY <1>1, <1>2 DEF Trees
<1>4. Reset(w) = [w EXCEPT !.tree = t, !.mutated = {}]
    BY DEF Reset
<1> HIDE DEF t
<1>5. /\ Reset(w) \in WorkspaceType /\ Reset(w).mutated = {} /\ Reset(w).base = w.base
      /\ Reset(w).tree = t
    BY <1>3, <1>4 DEF WorkspaceType
<1> QED BY <1>5 DEF t

\* What the paths of a candidate hold before it is applied is frozen, once.
LEMMA RecordedTyped ==
    ASSUME NEW w \in WorkspaceType, NEW P \in SUBSET Files
    PROVE  /\ Recorded(w, P) \in WorkspaceType
           /\ Recorded(w, P).tree = w.tree /\ Recorded(w, P).mutated = w.mutated
           /\ DOMAIN Recorded(w, P).base = P \cup DOMAIN w.base
           /\ \A f \in P \cup DOMAIN w.base :
                 Recorded(w, P).base[f] = IF f \in DOMAIN w.base THEN w.base[f] ELSE w.tree[f]
<1> DEFINE D == P \cup DOMAIN w.base
           b == [f \in D |-> IF f \in DOMAIN w.base THEN w.base[f] ELSE w.tree[f]]
<1>1. w.tree \in [Files -> Contents]
    BY DEF WorkspaceType, Trees
<1>2. DOMAIN w.base \subseteq Files /\ \A f \in DOMAIN w.base : w.base[f] \in Contents
    BY DEF WorkspaceType, Some
<1>3. D \in SUBSET Files /\ b \in [D -> Contents]
    BY <1>1, <1>2
<1>4. Recorded(w, P) = [w EXCEPT !.base = b]
    BY DEF Recorded
<1>5. b \in Some(Files) /\ DOMAIN b = D
  <2> HIDE DEF b, D
  <2> QED BY <1>3, SomeTyped
<1>6. \A f \in D : b[f] = IF f \in DOMAIN w.base THEN w.base[f] ELSE w.tree[f]
    OBVIOUS
<1> HIDE DEF b
<1>7. /\ Recorded(w, P) \in WorkspaceType /\ Recorded(w, P).base = b
      /\ Recorded(w, P).tree = w.tree /\ Recorded(w, P).mutated = w.mutated
    BY <1>4, <1>5 DEF WorkspaceType
<1> QED BY <1>5, <1>6, <1>7

LEMMA WrittenTyped ==
    ASSUME NEW w \in WorkspaceType, NEW s \in Files \X Contents
    PROVE  /\ Written(w, s) \in WorkspaceType
           /\ Written(w, s).mutated = w.mutated /\ Written(w, s).base = w.base
<1>1. [w.tree EXCEPT ![s[1]] = s[2]] \in Trees
    BY DEF WorkspaceType, Trees
<1> QED BY <1>1 DEF Written, WorkspaceType

\* A rebuilt candidate, and one whose writes failed: what is frozen stays so, and what
\* is not mutated is what the reset left.
LEMMA RebuiltTyped ==
    ASSUME NEW w \in WorkspaceType, w.mutated \subseteq DOMAIN w.base,
           NEW p \in Proposals \cup {<<>>}
    PROVE  LET r == Reset(w) IN
           /\ Rebuilt(w, p) \in WorkspaceType
           /\ Rebuilt(w, p).tree = Applied(p, r.tree) /\ Rebuilt(w, p).mutated = Paths(p)
           /\ DOMAIN Rebuilt(w, p).base = Paths(p) \cup DOMAIN w.base
           /\ \A f \in DOMAIN Rebuilt(w, p).base :
                 Rebuilt(w, p).base[f] = IF f \in DOMAIN w.base THEN w.base[f] ELSE r.tree[f]
<1> DEFINE r == Reset(w)
           c == Recorded(r, Paths(p))
<1>1. r \in WorkspaceType /\ r.base = w.base /\ r.tree \in Trees /\ Paths(p) \subseteq Files
    BY ResetTyped, OpsTyped DEF WorkspaceType
<1> HIDE DEF r
<1>2. /\ c \in WorkspaceType /\ c.tree = r.tree
      /\ DOMAIN c.base = Paths(p) \cup DOMAIN r.base
      /\ \A f \in Paths(p) \cup DOMAIN r.base :
            c.base[f] = IF f \in DOMAIN r.base THEN r.base[f] ELSE r.tree[f]
    BY <1>1, RecordedTyped
<1>3. Rebuilt(w, p) = [c EXCEPT !.tree = Applied(p, r.tree), !.mutated = Paths(p)]
    BY <1>2 DEF Rebuilt, r
<1>4. Applied(p, r.tree) \in Trees
    BY <1>1, AppliedTyped
<1> HIDE DEF c
<1>5. /\ Rebuilt(w, p) \in WorkspaceType /\ Rebuilt(w, p).base = c.base
      /\ Rebuilt(w, p).tree = Applied(p, r.tree) /\ Rebuilt(w, p).mutated = Paths(p)
    BY <1>1, <1>2, <1>3, <1>4 DEF WorkspaceType
<1> QED BY <1>1, <1>2, <1>5 DEF r

LEMMA BrokenTyped ==
    ASSUME NEW w \in WorkspaceType, w.mutated \subseteq DOMAIN w.base,
           NEW p \in Proposals \cup {<<>>}, NEW stuck \in SUBSET Paths(p)
    PROVE  LET r == Reset(w)
               broken == Broken(w, p, stuck)
           IN /\ broken \in WorkspaceType /\ broken.mutated = {}
              /\ \A f \in Files : f \notin stuck => broken.tree[f] = r.tree[f]
              /\ DOMAIN broken.base = Paths(p) \cup DOMAIN w.base
              /\ \A f \in DOMAIN broken.base :
                    broken.base[f] = IF f \in DOMAIN w.base THEN w.base[f] ELSE r.tree[f]
<1> DEFINE r == Reset(w)
           c == Recorded(r, Paths(p))
           broken == Broken(w, p, stuck)
           t == [f \in Files |-> IF f \in stuck THEN Applied(p, r.tree)[f] ELSE r.tree[f]]
<1>1. /\ r \in WorkspaceType /\ r.base = w.base /\ r.tree \in Trees /\ Paths(p) \subseteq Files
      /\ r.mutated = {}
    BY ResetTyped, OpsTyped DEF WorkspaceType
<1> HIDE DEF r
<1>2. /\ c \in WorkspaceType /\ c.tree = r.tree /\ c.mutated = {}
      /\ DOMAIN c.base = Paths(p) \cup DOMAIN r.base
      /\ \A f \in Paths(p) \cup DOMAIN r.base :
            c.base[f] = IF f \in DOMAIN r.base THEN r.base[f] ELSE r.tree[f]
    BY <1>1, RecordedTyped
<1>3. broken = [c EXCEPT !.tree = t]
    BY <1>2 DEF Broken, r
<1>4. t \in Trees
  <2>1. Applied(p, r.tree) \in [Files -> Contents] /\ r.tree \in [Files -> Contents]
      BY <1>1, AppliedTyped DEF Trees
  <2> QED BY <2>1 DEF Trees
<1>5. \A f \in Files : f \notin stuck => t[f] = r.tree[f]
    OBVIOUS
<1> HIDE DEF c, t, broken
<1>6. broken \in WorkspaceType /\ broken.base = c.base /\ broken.tree = t /\ broken.mutated = {}
    BY <1>2, <1>3, <1>4 DEF WorkspaceType
<1> QED BY <1>1, <1>2, <1>5, <1>6 DEF r, broken

-----------------------------------------------------------------------------
(* Commands, impact and evidence.                                          *)

LEMMA MembersTyped ==
    ASSUME NEW S, NEW s \in Seq(S)
    PROVE  /\ Len(s) \in Nat /\ DOMAIN s = 1..Len(s)
           /\ \A i \in DOMAIN s : s[i] \in S
           /\ ToSet(s) \subseteq S
BY LenProperties, ElementOfSeq DEF ToSet

LEMMA UptoTyped ==
    ASSUME NEW S, NEW s \in Seq(S), NEW n \in Nat
    PROVE  Upto(s, n) \in Seq(S)
<1> DEFINE m == IF Len(s) < n THEN Len(s) ELSE n
<1>1. Len(s) \in Nat /\ m \in Nat /\ m <= Len(s) /\ \A i \in 1..Len(s) : s[i] \in S
    BY MembersTyped
<1> HIDE DEF m
<1>2. \A i \in 1..m : s[i] \in S
    BY <1>1
<1>3. SubSeq(s, 1, m) \in Seq(S)
    BY <1>1, <1>2, SubSeqProperties
<1> QED BY <1>3 DEF Upto, m

LEMMA TierTyped ==
    ASSUME NEW name \in {"syntax", "targeted_tests", "static_analysis", "targeted"},
           NEW cmds \in Seq(Commands)
    PROVE  Tier(name, cmds) \in Seq(StepType)
<1> DEFINE n == Len(cmds)
<1>1. n \in Nat /\ DOMAIN cmds = 1..n /\ \A i \in 1..n : cmds[i] \in Commands
    BY MembersTyped
<1> HIDE DEF n
<1>2. Tier(name, cmds) = [i \in 1..n |-> [tier |-> name, cmd |-> cmds[i]]]
    BY <1>1 DEF Tier
<1>3. \A i \in 1..n : [tier |-> name, cmd |-> cmds[i]] \in StepType
    BY <1>1 DEF StepType
<1> QED BY <1>1, <1>2, <1>3, SeqDef

LEMMA TiersTyped ==
    ASSUME NEW targeted \in Seq(Commands), NEW changed, NEW t
    PROVE  Tiers(targeted, changed, t) \in Seq(StepType)
<1> DEFINE one == IF \E f \in changed : t[f] # Absent THEN Tier("syntax", <<Syntax>>) ELSE <<>>
           two == Tier("targeted_tests", targeted)
           three == Tier("static_analysis", Upto(Statics, MaxStatic))
<1>1. <<Syntax>> \in Seq(Commands)
    BY ConstantsTyped
<1>2. Tier("syntax", <<Syntax>>) \in Seq(StepType)
    BY <1>1, TierTyped
<1>3. one \in Seq(StepType)
    BY <1>2
<1>4. two \in Seq(StepType)
    BY TierTyped
<1>5. three \in Seq(StepType)
    BY ConstantsTyped, UptoTyped, TierTyped
<1>6. Tiers(targeted, changed, t) = (one \o two) \o three
    BY DEF Tiers
<1> HIDE DEF one, two, three
<1>7. one \o two \in Seq(StepType)
    BY <1>3, <1>4, ConcatProperties
<1> QED BY <1>5, <1>6, <1>7, ConcatProperties

LEMMA ImpactTyped ==
    ASSUME NEW changed \in SUBSET Files, NEW exact \in BOOLEAN
    PROVE  /\ AnalyzeImpact(changed, exact) \subseteq ImpactType
           /\ [NoImpact EXCEPT !.changed = changed] \in ImpactType
<1>1. NoImpact \in ImpactType /\ [NoImpact EXCEPT !.changed = changed] \in ImpactType
  <2>1. <<>> \in Seq(Commands) /\ {} \in SUBSET (Files \X BOOLEAN)
      BY EmptySeq
  <2>2. NoImpact \in ImpactType
      BY <2>1 DEF NoImpact, ImpactType
  <2> QED BY <2>2 DEF ImpactType
<1>2. ASSUME NEW e \in BOOLEAN, NEW sure \in BOOLEAN
      PROVE  Impact(changed, e, sure) \in ImpactType
  <2> DEFINE affected == UNION { Dependents[f] : f \in changed }
  <2>1. affected \in SUBSET Files
      BY ConstantsTyped
  <2> HIDE DEF affected
  <2>2. Targets(changed \cup affected) \in Seq(Commands)
      BY ConstantsTyped, AmongTyped DEF Targets
  <2>3. changed \X {e} \in SUBSET (Files \X BOOLEAN)
      OBVIOUS
  <2>4. Impact(changed, e, sure) =
           [made |-> TRUE, changed |-> changed, affected |-> affected,
            symbols |-> changed \X {e},
            confidence |-> IF sure THEN "high" ELSE "low",
            scope |-> IF sure THEN "targeted" ELSE "broad",
            targets |-> Targets(changed \cup affected)]
      BY DEF Impact, affected
  <2> QED BY <2>1, <2>2, <2>3, <2>4 DEF ImpactType
<1> QED BY <1>1, <1>2 DEF AnalyzeImpact

LEMMA SelectionTyped ==
    ASSUME NEW im \in ImpactType, NEW changed, NEW t, NEW lexical \in Seq(Commands)
    PROVE  /\ Lexical(changed, t) \in Seq(Commands)
           /\ Targeted(im, changed, t) \in Seq(Commands)
           /\ Decide(im, t, lexical) \in Seq(Commands)
<1>1. Lexical(changed, t) \in Seq(Commands)
    BY ConstantsTyped, AmongTyped DEF Lexical
<1>2. SemanticCommands(im, t) \in Seq(Commands)
    BY AmongTyped DEF SemanticCommands, ImpactType
<1>3. ASSUME NEW n \in {1, 3} PROVE Upto(SemanticCommands(im, t), MaxTargeted * n) \in Seq(Commands)
  <2>1. MaxTargeted * n \in Nat
      BY ConstantsTyped
  <2> QED BY <1>2, <2>1, UptoTyped
<1>4. Upto(Lexical(changed, t), MaxTargeted) \in Seq(Commands)
    BY <1>1, ConstantsTyped, UptoTyped
<1>5. Targeted(im, changed, t) \in Seq(Commands)
    BY <1>3, <1>4 DEF Targeted
<1>6. SemanticCommands(im, t) \o Among(lexical, Commands \ ToSet(SemanticCommands(im, t)))
         \in Seq(Commands)
    BY <1>2, AmongTyped, ConcatProperties
<1>7. Decide(im, t, lexical) \in Seq(Commands)
    BY <1>2, <1>6 DEF Decide
<1> QED BY <1>1, <1>5, <1>7

\* The ledger keeps the newest entries, and adds nothing of its own.
LedgerType == [entries : Seq(EntryType), grants : Nat, denials : Int]

LEMMA RecordTyped ==
    ASSUME NEW l \in LedgerType, NEW es \in Seq(EntryType)
    PROVE  LET after == RecordEntries(l, es) IN
           /\ after \in LedgerType /\ Len(after.entries) <= MaxLedger
           /\ \A i \in DOMAIN after.entries :
                 after.entries[i] \in ToSet(l.entries) \cup ToSet(es)
<1> DEFINE both == l.entries \o es
           n == Len(l.entries) + Len(es)
           m == IF n > MaxLedger THEN n - MaxLedger + 1 ELSE 1
           s == SubSeq(both, m, n)
<1>1. /\ l.entries \in Seq(EntryType) /\ Len(l.entries) \in Nat /\ Len(es) \in Nat
      /\ DOMAIN l.entries = 1..Len(l.entries) /\ DOMAIN es = 1..Len(es)
      /\ n \in Nat /\ m \in Nat \ {0} /\ MaxLedger \in Nat \ {0}
    BY ConstantsTyped, MembersTyped DEF LedgerType
<1>2. ASSUME NEW i \in m..n PROVE both[i] \in ToSet(l.entries) \cup ToSet(es)
  <2>1. i \in 1..n
      BY <1>1
  <2>2. both[i] = IF i <= Len(l.entries) THEN l.entries[i] ELSE es[i - Len(l.entries)]
      BY <1>1, <2>1, ConcatProperties
  <2>3. CASE i <= Len(l.entries)
    <3>1. i \in DOMAIN l.entries
        BY <1>1, <2>1, <2>3
    <3> QED BY <2>2, <2>3, <3>1 DEF ToSet
  <2>4. CASE ~(i <= Len(l.entries))
    <3>1. i - Len(l.entries) \in DOMAIN es
        BY <1>1, <2>1, <2>4
    <3> QED BY <2>2, <2>4, <3>1 DEF ToSet
  <2> QED BY <2>3, <2>4
<1>3. \A i \in m..n : both[i] \in EntryType
    BY <1>1, <1>2, MembersTyped
<1>4. Len(s) <= MaxLedger
  <2>1. Len(s) = IF m <= n THEN n - m + 1 ELSE 0
    <3> HIDE DEF both, m, n
    <3> QED BY <1>1, <1>3, SubSeqProperties
  <2> QED BY <1>1, <2>1
<1>5. s \in Seq(EntryType)
  <2> HIDE DEF both, m, n
  <2> QED BY <1>1, <1>3, SubSeqProperties
<1>6. ASSUME NEW i \in DOMAIN s PROVE s[i] \in ToSet(l.entries) \cup ToSet(es)
  <2>1. i \in 1..Len(s)
      BY <1>5, MembersTyped
  <2>2. Len(s) = (IF m <= n THEN n - m + 1 ELSE 0) /\ \A j \in 1..n - m + 1 : s[j] = both[m + j - 1]
    <3> HIDE DEF both, m, n
    <3> QED BY <1>1, <1>3, SubSeqProperties
  <2> HIDE DEF s, m, n, both
  <2>3. i \in 1..n - m + 1 /\ m + i - 1 \in m..n
      BY <1>1, <2>1, <2>2
  <2> QED BY <1>2, <2>2, <2>3
<1>7. RecordEntries(l, es) = [l EXCEPT !.entries = s]
    BY DEF RecordEntries
<1> HIDE DEF s
<1>8. RecordEntries(l, es) \in LedgerType /\ RecordEntries(l, es).entries = s
    BY <1>5, <1>7 DEF LedgerType
<1> QED BY <1>4, <1>6, <1>8

LEMMA ReloadedTyped ==
    ASSUME NEW es \in Seq(EntryType)
    PROVE  /\ Reloaded(es) \in LedgerType
           /\ \A i \in DOMAIN Reloaded(es).entries : Reloaded(es).entries[i] \in ToSet(es)
<1>1. EmptyLedger \in LedgerType /\ ToSet(EmptyLedger.entries) = {}
    BY EmptySeq DEF EmptyLedger, LedgerType, ToSet
<1> QED BY <1>1, RecordTyped DEF Reloaded

\* What find_reusable returns: entries of the command that passed, on what the files of
\* the query hold in the tree.
LEMMA ReusableTyped ==
    ASSUME NEW l \in LedgerType, NEW q, NEW t, NEW e \in FindReusable(l, q, t)
    PROVE  /\ \E i \in DOMAIN l.entries : e = l.entries[i]
           /\ e.status = "passed" /\ e.print = ContentOf(t, e.files)
<1>1. PICK i \in DOMAIN l.entries : e = l.entries[i] /\ Reusable(l.entries[i], q, t)
    BY DEF FindReusable
<1> QED BY <1>1 DEF Reusable, Unchanged

LEMMA ReuseTyped ==
    ASSUME NEW selected \in Seq(Commands), NEW im, NEW t, NEW l \in LedgerType,
           NEW checks, NEW expired
    PROVE  LET reuse == ApplyReuse(selected, im, t, l, checks, expired) IN
           /\ reuse.remaining \in Seq(Commands)
           /\ reuse.ledger \in LedgerType /\ reuse.ledger.entries = l.entries
           /\ \A e \in reuse.reused :
                 /\ \E i \in DOMAIN l.entries : e = l.entries[i]
                 /\ e.status = "passed" /\ e.print = ContentOf(t, e.files)
<1> DEFINE answer == [i \in DOMAIN selected |->
                        FindReusable(l, Query(selected[i], im, checks, expired), t)]
           granted == {i \in DOMAIN selected : answer[i] # {}}
           left == Among(selected, Commands \ { selected[i] : i \in granted })
           after == [l EXCEPT !.grants = @ + Cardinality(granted),
                              !.denials = @ + Len(selected) - Cardinality(granted)]
           reused1 == UNION { answer[i] : i \in granted }
           reuse == ApplyReuse(selected, im, t, l, checks, expired)
<1>1. reuse = [remaining |-> left, reused |-> reused1, ledger |-> after]
    BY DEF ApplyReuse
<1>2. left \in Seq(Commands)
    BY AmongTyped
<1>3. after \in LedgerType /\ after.entries = l.entries
  <2> HIDE DEF granted
  <2>1. Len(selected) \in Nat /\ DOMAIN selected = 1..Len(selected)
      BY MembersTyped
  <2>2. Cardinality(granted) \in Nat
    <3>1. IsFiniteSet(1..Len(selected))
        BY <2>1, FS_Interval
    <3>2. granted \subseteq 1..Len(selected)
        BY <2>1 DEF granted
    <3> QED BY <3>1, <3>2, FS_Subset, FS_CardinalityType
  <2>3. \A a \in Nat, b \in Int, c \in Nat, k \in Nat : a + c \in Nat /\ b + k - c \in Int
      OBVIOUS
  <2>4. l.grants \in Nat /\ l.denials \in Int
      BY DEF LedgerType
  <2> DEFINE g1 == l.grants + Cardinality(granted)
             d1 == l.denials + Len(selected) - Cardinality(granted)
  <2>5. g1 \in Nat /\ d1 \in Int
      BY <2>1, <2>2, <2>4
  <2> HIDE DEF g1, d1
  <2>6. after = [l EXCEPT !.grants = g1, !.denials = d1]
      BY DEF g1, d1
  <2> QED BY <2>5, <2>6 DEF LedgerType
<1>4. ASSUME NEW e \in reused1
      PROVE  /\ \E i \in DOMAIN l.entries : e = l.entries[i]
             /\ e.status = "passed" /\ e.print = ContentOf(t, e.files)
  <2>1. PICK i \in DOMAIN selected : e \in answer[i]
      OBVIOUS
  <2>2. e \in FindReusable(l, Query(selected[i], im, checks, expired), t)
      BY <2>1
  <2> QED BY <2>2, ReusableTyped
<1> HIDE DEF left, after, reused1, reuse
<1>5. reuse.remaining = left /\ reuse.reused = reused1 /\ reuse.ledger = after
    BY <1>1
<1> QED BY <1>2, <1>3, <1>4, <1>5 DEF reuse

\* The evidence of a result is an entry, and as true as the result.
LEMMA EvidenceTyped ==
    ASSUME AgentTyped, impact \in ImpactType, NEW r \in ReportType
    PROVE  /\ EvidenceOf(r) \in EntryType
           /\ Genuine(r) => Genuine(EvidenceOf(r))
<1> DEFINE about == IF impact.made THEN impact ELSE [NoImpact EXCEPT !.changed = Paths(ops)]
           files == Relevant(r.cmd, about)
           print == ContentOf(ws.tree, files)
           identity == [k \in IdentityChecks |-> NotRecorded]
<1>1. about \in ImpactType
  <2>1. Paths(ops) \in SUBSET Files
      BY OpsTyped DEF AgentTyped
  <2> QED BY <2>1, ImpactTyped
<1> HIDE DEF about
<1>2. files \in SUBSET Files
  <2>1. TestFile[r.cmd] \in Files \cup {NoFile}
      BY ReuseAssumption DEF ReportType
  <2> QED BY <1>1, <2>1 DEF Relevant, ImpactType
<1> HIDE DEF files
<1>3. print \in Some(Files)
  <2>1. print \in [files -> Contents]
      BY <1>2 DEF ContentOf, AgentTyped, WorkspaceType, Trees
  <2> HIDE DEF print
  <2> QED BY <1>2, <2>1, SomeTyped
<1>4. identity \in [IdentityChecks -> {NotRecorded}]
    OBVIOUS
<1>5. EvidenceOf(r) = [cmd |-> r.cmd, status |-> r.status, files |-> files,
                       symbols |-> about.symbols, confidence |-> about.confidence,
                       print |-> print, identity |-> identity, ran |-> r.ran]
    BY DEF EvidenceOf, about, files
<1> HIDE DEF print, identity
<1>6. EvidenceOf(r) \in EntryType
    BY <1>1, <1>2, <1>3, <1>4, <1>5 DEF EntryType, ImpactType, ReportType
<1>7. /\ EvidenceOf(r).cmd = r.cmd /\ EvidenceOf(r).status = r.status
      /\ EvidenceOf(r).ran = r.ran
    BY <1>5
<1> QED BY <1>6, <1>7 DEF Genuine

-----------------------------------------------------------------------------
(* Types.                                                                  *)

\* Histories and disturbances.
LEMMA HistoryTyped ==
    ASSUME NEW h \in Histories, NEW name \in Tools \cup Feedback, NEW size \in Nat
    PROVE  /\ Append1(h, name, size) \in Histories
           /\ Append1(h, name, size).steps = h.steps + 1
           /\ Append1(h, name, size).count = [h.count EXCEPT ![name] = @ + 1]
<1> DEFINE c == [h.count EXCEPT ![name] = @ + 1]
<1>1. c \in [Tools \cup Feedback -> Nat] /\ h.steps + 1 \in Nat /\ h.bytes + size \in Nat
    BY DEF Histories
<1>2. Append1(h, name, size) = [count |-> c, steps |-> h.steps + 1, bytes |-> h.bytes + size]
    BY DEF Append1
<1> HIDE DEF c
<1>3. /\ Append1(h, name, size) \in Histories
      /\ Append1(h, name, size).steps = h.steps + 1 /\ Append1(h, name, size).count = c
    BY <1>1, <1>2 DEF Histories
<1> QED BY <1>3 DEF c

LEMMA FreshTyped == FreshRun \in RunType
BY DEF FreshRun, RunType

LEMMA RunTyped ==
    ASSUME NEW r \in RunType, NEW call \in Calls, NEW decision
    PROVE  AfterCall(r, call, decision) \in RunType
<1>1. Repeated(r, call) \in Nat
    BY DEF Repeated, RunType
<1> QED BY <1>1 DEF AfterCall, RunType

\* One write, or none.
LEMMA WritesTyped ==
    ASSUME AgentTyped, NEW w \in Writes, Counted(w)
    PROVE  /\ disturbances' \in 0..MaxDisturbances
           /\ TreeWith(w) \in Trees
           /\ WsWith(w) \in WorkspaceType
           /\ WsWith(w).mutated = ws.mutated /\ WsWith(w).base = ws.base
           /\ \A c \in BOOLEAN : SeenIn(c, w) \in SeenType
<1>1. CASE w = <<>>
    BY <1>1 DEF AgentTyped, Counted, TreeWith, WsWith, SeenIn
<1>2. CASE w # <<>>
  <2>1. w \in Files \X Contents /\ disturbances < MaxDisturbances
      BY <1>2, CandidateAssumption DEF Writes
  <2>2. disturbances' \in 0..MaxDisturbances
      BY <1>2, <2>1, ConstantsTyped DEF Counted, AgentTyped
  <2>3. TreeWith(w) \in Trees
      BY <1>2, <2>1 DEF TreeWith, AgentTyped, Trees
  <2>4. /\ WsWith(w) \in WorkspaceType
        /\ WsWith(w).mutated = ws.mutated /\ WsWith(w).base = ws.base
      BY <1>2, <2>1, WrittenTyped DEF WsWith, AgentTyped
  <2>5. ASSUME NEW c \in BOOLEAN PROVE SeenIn(c, w) \in SeenType
    <3>1. w[1] \in Files
        BY <2>1
    <3>2. seen.edited \cup {w[1]} \in SUBSET Files
        BY <3>1 DEF AgentTyped, SeenType
    <3>3. CASE c
        BY <1>2, <3>3 DEF SeenIn, AgentTyped, SeenType
    <3>4. CASE ~c
        BY <1>2, <3>2, <3>4 DEF SeenIn, AgentTyped, SeenType
    <3> QED BY <3>3, <3>4
  <2> QED BY <2>2, <2>3, <2>4, <2>5
<1> QED BY <1>1, <1>2

LEMMA TypeInit == Init => AgentTyped /\ VerdictTyped
<1> SUFFICES ASSUME Init PROVE AgentTyped /\ VerdictTyped
    OBVIOUS
<1>1. PICK earlier \in StartHistories :
        /\ history = earlier.history
        /\ seen = [mirror |-> NoWorkspace.tree, dirty |-> FALSE, edited |-> {},
                   executed |-> earlier.executed, proven |-> NoWorkspace.tree, decided |-> tree]
    BY DEF Init
<1>2. earlier \in [history : Histories, executed : [Tools -> Nat]]
    BY CandidateAssumption
<1>3. tree \in Trees
    BY CandidateAssumption DEF Init
<1>4. seen \in SeenType
    BY <1>1, <1>2, <1>3, NoWorkspaceTyped DEF SeenType
<1>5. ws \in WorkspaceType /\ ws.mutated \subseteq DOMAIN ws.base
    BY NoWorkspaceTyped DEF Init
<1>6. AgentTyped
  <2>1. history \in Histories
      BY <1>1, <1>2
  <2>2. /\ mode \in Modes /\ stage = "start" /\ run = FreshRun /\ ops = <<>> /\ engine = "none"
        /\ errors = FALSE /\ refines = 0 /\ iterations = 0 /\ outcome = "none"
        /\ disturbances = 0
      BY DEF Init
  <2>3. disturbances \in 0..MaxDisturbances
      BY <2>2, ConstantsTyped
  <2>4. stage \in Stages /\ engine \in Engines /\ outcome \in Outcomes
      BY <2>2 DEF Stages, Working, Engines, Outcomes
  <2>5. run \in RunType
      BY <2>2, FreshTyped
  <2> QED BY <1>3, <1>4, <1>5, <2>1, <2>2, <2>3, <2>4, <2>5 DEF AgentTyped
<1>7. impact \in ImpactType
    BY ImpactTyped DEF Init, AnalyzeImpact
<1>8. /\ EmptyLedger \in LedgerType /\ EmptyLedger.entries = <<>>
      /\ NoResult \in [success : BOOLEAN, evidence : Seq(EntryType), leftBehind : BOOLEAN]
      /\ NoResult.evidence = <<>>
    BY EmptySeq DEF EmptyLedger, LedgerType, NoResult
<1>9. Len(<<>>) = 0 /\ 0 <= MaxLedger
    BY ConstantsTyped
<1>10. todo = <<>> /\ report = <<>> /\ ledger = EmptyLedger /\ result = NoResult /\ reused = {}
    BY DEF Init
<1>11. VerdictTyped
    BY <1>7, <1>8, <1>9, <1>10, EmptySeq DEF VerdictTyped, LedgerType
<1> QED BY <1>6, <1>11

\* Steps that change nothing of the candidate but where the attempt is.
LEMMA TypeStay ==
    ASSUME AgentTyped, VerdictTyped, NEW to \in Stages, stage' = to,
           stage \notin {"targeted", "done"},
           UNCHANGED <<mode, tree, agent, todo, verdict, disturbances, seen>>,
           ws' \in WorkspaceType, ws'.mutated \subseteq DOMAIN ws'.base
    PROVE  AgentTyped' /\ VerdictTyped'
BY DEF AgentTyped, VerdictTyped, agent, verdict

LEMMA TypeEdit == ASSUME AgentTyped, VerdictTyped, Edit PROVE AgentTyped' /\ VerdictTyped'
<1>1. PICK w \in Writes : tree' = TreeWith(w) /\ Counted(w) /\ seen' = SeenIn(FALSE, w)
    BY DEF Edit
<1>2. disturbances' \in 0..MaxDisturbances /\ tree' \in Trees /\ seen' \in SeenType
    BY <1>1, WritesTyped
<1> QED BY <1>2 DEF Edit, AgentTyped, VerdictTyped, agent, verdict

LEMMA TypeStart == ASSUME AgentTyped, VerdictTyped, Start PROVE AgentTyped' /\ VerdictTyped'
<1>1. ws' \in WorkspaceType /\ ws'.mutated \subseteq DOMAIN ws'.base
    BY SetUpTyped DEF Start, AgentTyped
<1>2. seen' \in SeenType
  <2>1. Mirror(tree) \in Trees
      BY MirrorTyped DEF AgentTyped
  <2>2. [seen EXCEPT !.mirror = Mirror(tree)] \in SeenType
      BY <2>1 DEF AgentTyped, SeenType
  <2> QED BY <2>2 DEF Start, AgentTyped
<1>3. stage' \in Stages
    BY DEF Start, Stages, Working, Ended
<1> QED BY <1>1, <1>2, <1>3 DEF Start, AgentTyped, VerdictTyped, agent, verdict

LEMMA TypeCall == ASSUME AgentTyped, VerdictTyped, Call PROVE AgentTyped' /\ VerdictTyped'
<1>1. PICK call \in Calls, size \in Sizes, w \in Writes :
        LET decision == EvaluateCall(history, run, call)
        IN /\ IF decision = "terminate"
                THEN stage' = "finish" /\ engine' = "stopped" /\ UNCHANGED <<history, run>>
                ELSE /\ history' = HistoryAfter(history, call, decision, size)
                     /\ run' = AfterCall(run, call, decision)
                     /\ UNCHANGED <<stage, engine>>
           /\ ws' = (IF Prospective THEN WsWith(w) ELSE ws)
           /\ tree' = (IF Prospective THEN tree ELSE TreeWith(w))
           /\ Counted(w)
           /\ seen' = [SeenIn(Prospective, w) EXCEPT
                        !.executed[call[1]] = @ + (IF decision = "allow" THEN 1 ELSE 0)]
    BY DEF Call
<1> DEFINE decision == EvaluateCall(history, run, call)
           d == IF decision = "allow" THEN 1 ELSE 0
<1>2. call[1] \in Tools
    BY DEF Calls
<1>3. /\ disturbances' \in 0..MaxDisturbances /\ TreeWith(w) \in Trees
      /\ WsWith(w) \in WorkspaceType
      /\ WsWith(w).mutated = ws.mutated /\ WsWith(w).base = ws.base
      /\ SeenIn(Prospective, w) \in SeenType
    BY <1>1, WritesTyped DEF Prospective
<1>4. tree' \in Trees /\ ws' \in WorkspaceType /\ ws'.mutated \subseteq DOMAIN ws'.base
    BY <1>1, <1>3 DEF AgentTyped
<1>5. seen' \in SeenType
  <2> DEFINE s == SeenIn(Prospective, w)
             e == [s.executed EXCEPT ![call[1]] = @ + d]
  <2>1. s \in SeenType
      BY <1>3
  <2> HIDE DEF s
  <2>2. d \in Nat
      OBVIOUS
  <2> HIDE DEF d
  <2>3. e \in [Tools -> Nat]
      BY <1>2, <2>1, <2>2 DEF SeenType
  <2>4. seen' = [s EXCEPT !.executed = e]
      BY <1>1, <2>1 DEF s, d, SeenType
  <2> HIDE DEF e
  <2> QED BY <2>1, <2>3, <2>4 DEF SeenType
<1>6. history' \in Histories /\ run' \in RunType /\ stage' \in Stages /\ engine' \in Engines
  <2>1. CASE decision = "terminate"
      BY <1>1, <2>1 DEF AgentTyped, Stages, Working, Engines
  <2>2. CASE decision # "terminate"
    <3>1. IF decision = "allow" THEN size \in Nat ELSE FeedbackSize \in Nat
        BY ConstantsTyped
    <3>2. HistoryAfter(history, call, decision, size) \in Histories
        BY <1>2, <3>1, HistoryTyped DEF HistoryAfter, AgentTyped
    <3>3. AfterCall(run, call, decision) \in RunType
        BY RunTyped DEF AgentTyped
    <3> HIDE DEF decision
    <3> QED BY <1>1, <2>2, <3>2, <3>3 DEF AgentTyped, decision
  <2> QED BY <2>1, <2>2
<1>7. UNCHANGED <<mode, ops, errors, refines, iterations, outcome, todo, verdict>>
    BY DEF Call
<1>8. reused' = {}
    BY <1>7 DEF Call, VerdictTyped, verdict
<1> QED BY <1>3, <1>4, <1>5, <1>6, <1>7, <1>8 DEF AgentTyped, VerdictTyped, verdict

LEMMA TypeInvalid == ASSUME AgentTyped, VerdictTyped, Invalid PROVE AgentTyped' /\ VerdictTyped'
BY DEF Invalid, AgentTyped, VerdictTyped, verdict, Stages, Working, Engines

LEMMA TypePropose == ASSUME AgentTyped, VerdictTyped, Propose PROVE AgentTyped' /\ VerdictTyped'
<1>1. PICK p \in Proposals :
        LET defect == mode # "single" /\ ~DefectFree(p, tree) IN
        /\ ops' = p /\ engine' = "completed" /\ errors' = defect
        /\ IF defect /\ Refined
             THEN /\ refines' = refines + 1 /\ run' = FreshRun
                  /\ history' = Append1(history, "implementation_precheck", FeedbackSize)
                  /\ UNCHANGED stage
             ELSE /\ stage' = (IF Prospective /\ ~defect THEN "rebuild" ELSE "finish")
                  /\ UNCHANGED <<refines, run, history>>
    BY DEF Propose
<1>2. errors' \in BOOLEAN
  <2>1. (mode # "single" /\ ~DefectFree(p, tree)) \in BOOLEAN
      OBVIOUS
  <2> QED BY <1>1, <2>1, Zenon
<1>3. Append1(history, "implementation_precheck", FeedbackSize) \in Histories
    BY HistoryTyped, ConstantsTyped DEF AgentTyped, Feedback
<1>4. /\ refines' \in Nat /\ run' \in RunType /\ history' \in Histories /\ stage' \in Stages
    BY <1>1, <1>3, FreshTyped DEF AgentTyped, Stages, Working
<1>5. ops' \in Proposals \cup {<<>>} /\ engine' \in Engines
    BY <1>1 DEF Engines
<1>6. UNCHANGED <<mode, tree, ws, iterations, outcome, todo, verdict, disturbances, seen>>
    BY DEF Propose
<1>7. reused' = {}
    BY <1>6 DEF Propose, VerdictTyped, verdict
<1> QED BY <1>2, <1>4, <1>5, <1>6, <1>7 DEF AgentTyped, VerdictTyped, verdict

LEMMA TypeRaise == ASSUME AgentTyped, VerdictTyped, Raise PROVE AgentTyped' /\ VerdictTyped'
<1>1. ws' \in WorkspaceType /\ ws'.mutated \subseteq DOMAIN ws'.base
    BY CleanedUpTyped DEF Raise, AgentTyped
<1>2. "raised" \in Stages
    BY DEF Stages, Ended
<1>3. "raised" \notin {"targeted", "done"} /\ stage = "loop"
    BY DEF Raise
<1> QED BY <1>1, <1>2, <1>3, TypeStay DEF Raise

\* What follows an evaluated candidate.
LEMMA AfterTyped ==
    ASSUME AgentTyped, NEW out, NEW n, After(out, n)
    PROVE  history' \in Histories /\ run' \in RunType /\ stage' \in {"finish", "loop"}
<1>1. Append1(history, "candidate_validation", FeedbackSize) \in Histories
    BY HistoryTyped, ConstantsTyped DEF AgentTyped, Feedback
<1> QED BY <1>1, FreshTyped DEF After, AgentTyped

LEMMA TypeRebuild == ASSUME AgentTyped, VerdictTyped, Rebuild PROVE AgentTyped' /\ VerdictTyped'
<1>0. /\ iterations' = iterations + 1
      /\ UNCHANGED <<mode, tree, ops, engine, errors, refines, ledger, result, reused>>
      /\ reused = {}
    BY DEF Rebuild, VerdictTyped
<1>1. ws \in WorkspaceType /\ ws.mutated \subseteq DOMAIN ws.base /\ ops \in Proposals \cup {<<>>}
    BY DEF AgentTyped
<1>2. Paths(ops) \in SUBSET Files
    BY <1>1, OpsTyped
<1>3. CASE /\ ws' = Rebuilt(ws, ops) /\ stage' = "validate" /\ report' = <<>>
           /\ impact' \in AnalyzeImpact(Paths(ops), TRUE)
           /\ \E targeted \in {Targeted(impact', Paths(ops), ws'.tree)} :
                todo' = Tiers(targeted, Paths(ops), ws'.tree)
           /\ UNCHANGED <<outcome, history, run, seen, disturbances>>
  <2>1. ws' \in WorkspaceType /\ ws'.mutated \subseteq DOMAIN ws'.base
      BY <1>1, <1>3, RebuiltTyped
  <2>2. impact' \in ImpactType
      BY <1>2, <1>3, ImpactTyped
  <2>3. Targeted(impact', Paths(ops), ws'.tree) \in Seq(Commands)
      BY <2>2, SelectionTyped, EmptySeq
  <2>4. todo' \in Seq(StepType) /\ report' \in Seq(ReportType)
      BY <1>3, <2>3, TiersTyped, EmptySeq
  <2>5. stage' \in Stages
      BY <1>3 DEF Stages, Working
  <2> QED BY <1>0, <1>3, <2>1, <2>2, <2>4, <2>5 DEF AgentTyped, VerdictTyped
<1>4. ASSUME NEW next \in WorkspaceType, next.mutated \subseteq DOMAIN next.base,
             RebuildFails(next), seen' \in SeenType, disturbances' \in 0..MaxDisturbances
      PROVE  AgentTyped' /\ VerdictTyped'
  <2>1. /\ history' \in Histories /\ run' \in RunType /\ stage' \in Stages
      BY <1>4, AfterTyped DEF RebuildFails, Stages, Working
  <2>2. outcome' \in Outcomes
      BY <1>4 DEF RebuildFails, Outcomes
  <2> QED BY <1>0, <1>4, <2>1, <2>2 DEF AgentTyped, VerdictTyped, RebuildFails
<1>5. CASE RebuildFails(Reset(ws)) /\ UNCHANGED <<seen, disturbances>>
  <2>1. Reset(ws) \in WorkspaceType /\ Reset(ws).mutated = {}
      BY <1>1, ResetTyped
  <2> QED BY <1>4, <1>5, <2>1 DEF AgentTyped
<1>6. CASE /\ disturbances < MaxDisturbances
           /\ \E stuck \in SUBSET Paths(ops) :
                /\ RebuildFails(Broken(ws, ops, stuck))
                /\ seen' = [seen EXCEPT !.dirty = @ \/ stuck # {}]
           /\ disturbances' = disturbances + 1
  <2>1. PICK stuck \in SUBSET Paths(ops) :
                /\ RebuildFails(Broken(ws, ops, stuck))
                /\ seen' = [seen EXCEPT !.dirty = @ \/ stuck # {}]
      BY <1>6
  <2>2. Broken(ws, ops, stuck) \in WorkspaceType /\ Broken(ws, ops, stuck).mutated = {}
      BY <1>1, BrokenTyped
  <2> DEFINE b == seen.dirty \/ stuck # {}
  <2>3. b \in BOOLEAN
      BY DEF AgentTyped, SeenType
  <2>4. seen' = [seen EXCEPT !.dirty = b]
      BY <2>1
  <2> HIDE DEF b
  <2>5. seen' \in SeenType
      BY <2>3, <2>4 DEF AgentTyped, SeenType
  <2>6. disturbances' \in 0..MaxDisturbances
      BY <1>6, ConstantsTyped DEF AgentTyped
  <2> QED BY <1>4, <2>1, <2>2, <2>5, <2>6
<1> QED BY <1>3, <1>5, <1>6 DEF Rebuild


LEMMA LeftTyped ==
    ASSUME VerdictTyped, todo # <<>>, NEW step, NEW status
    PROVE  Left(step, status) \in Seq(StepType) /\ Head(todo) \in StepType
<1>1. todo \in Seq(StepType)
    BY DEF VerdictTyped
<1>2. Head(todo) \in StepType /\ Tail(todo) \in Seq(StepType)
    BY <1>1, HeadTailProperties
<1> QED BY <1>2, AmongTyped DEF Left

LEMMA TypeRunInCandidate ==
    ASSUME AgentTyped, VerdictTyped, RunInCandidate PROVE AgentTyped' /\ VerdictTyped'
<1>1. PICK status \in Statuses(Head(todo).cmd, ws.tree), w \in Writes :
         /\ report' = Append(report, [cmd |-> Head(todo).cmd, status |-> status, ran |-> ws.tree])
         /\ todo' = Left(Head(todo), status)
         /\ ws' = WsWith(w) /\ Counted(w) /\ seen' = SeenIn(TRUE, w)
    BY DEF RunInCandidate
<1>2. /\ disturbances' \in 0..MaxDisturbances /\ ws' \in WorkspaceType
      /\ ws'.mutated \subseteq DOMAIN ws'.base /\ seen' \in SeenType
    BY <1>1, WritesTyped DEF AgentTyped
<1>3. todo' \in Seq(StepType) /\ Head(todo) \in StepType
    BY <1>1, LeftTyped DEF RunInCandidate
<1> DEFINE r == [cmd |-> Head(todo).cmd, status |-> status, ran |-> ws.tree]
<1>4. status \in Verdicts
    BY DEF Statuses, Verdicts
<1>5. r \in ReportType
    BY <1>3, <1>4 DEF ReportType, StepType, AgentTyped, WorkspaceType
<1> HIDE DEF r
<1>6. report' \in Seq(ReportType)
    BY <1>1, <1>5, AppendProperties DEF VerdictTyped, r
<1>7. UNCHANGED <<mode, tree, stage, agent, impact, ledger, result, reused>>
    BY DEF RunInCandidate
<1> QED BY <1>2, <1>3, <1>6, <1>7 DEF AgentTyped, VerdictTyped, agent

LEMMA TypeJudge == ASSUME AgentTyped, VerdictTyped, Judge PROVE AgentTyped' /\ VerdictTyped'
<1> DEFINE es == [i \in DOMAIN report |-> EvidenceOf(report[i])]
<1>1. /\ stage = "validate" /\ ledger' = RecordEntries(ledger, es)
      /\ outcome' = Verdict /\ After(Verdict, iterations)
      /\ seen' = [seen EXCEPT !.proven = IF Verdict = "passed" THEN ws.tree ELSE @]
      /\ UNCHANGED <<mode, tree, ws, ops, engine, errors, refines, iterations, todo, report,
                     impact, result, reused, disturbances>>
    BY DEF Judge
<1>2. es \in Seq(EntryType)
  <2>1. /\ Len(report) \in Nat /\ DOMAIN report = 1..Len(report)
        /\ \A i \in DOMAIN report : report[i] \in ReportType
      BY MembersTyped DEF VerdictTyped
  <2>2. \A i \in DOMAIN report : EvidenceOf(report[i]) \in EntryType
      BY <2>1, EvidenceTyped DEF VerdictTyped
  <2>3. es \in [1..Len(report) -> EntryType]
      BY <2>1, <2>2
  <2> HIDE DEF es
  <2> QED BY <2>1, <2>3, SeqDef
<1> HIDE DEF es
<1>3. ledger' \in LedgerType /\ Len(ledger'.entries) <= MaxLedger
    BY <1>1, <1>2, RecordTyped DEF VerdictTyped, LedgerType
<1>4. /\ history' \in Histories /\ run' \in RunType /\ stage' \in {"finish", "loop"}
      /\ outcome' \in Outcomes
    BY <1>1, AfterTyped DEF Verdict, Outcomes
<1>5. seen' \in SeenType
    BY <1>1 DEF AgentTyped, SeenType, WorkspaceType
<1> QED BY <1>1, <1>3, <1>4, <1>5 DEF AgentTyped, VerdictTyped, LedgerType, Stages, Working

LEMMA TypeFinish == ASSUME AgentTyped, VerdictTyped, Finish PROVE AgentTyped' /\ VerdictTyped'
<1>1. PICK survives \in BOOLEAN :
         /\ ws' = CleanedUp(ws, survives)
         /\ result' = [success |-> Succeeded, evidence |-> ledger.entries, leftBehind |-> ws'.left]
    BY DEF Finish
<1>2. ws' \in WorkspaceType /\ ws'.mutated = {}
    BY <1>1, CleanedUpTyped DEF AgentTyped
<1>3. Succeeded \in BOOLEAN /\ ws'.left \in BOOLEAN
    BY <1>2 DEF Succeeded, WorkspaceType, AgentTyped
<1>4. ledger.entries \in Seq(EntryType) /\ Len(ledger.entries) <= MaxLedger
    BY DEF VerdictTyped
<1>5. /\ result' \in [success : BOOLEAN, evidence : Seq(EntryType), leftBehind : BOOLEAN]
      /\ result'.evidence = ledger.entries
  <2> HIDE DEF Succeeded
  <2> QED BY <1>1, <1>3, <1>4
<1>6. stage' \in {"apply", "failed"} /\ stage = "finish"
    BY DEF Finish
<1>7. UNCHANGED <<mode, tree, agent, todo, report, impact, ledger, reused, disturbances, seen>>
    BY DEF Finish
<1>8. reused' = {}
    BY <1>6, <1>7 DEF VerdictTyped
<1> QED BY <1>2, <1>4, <1>5, <1>6, <1>7, <1>8
    DEF AgentTyped, VerdictTyped, agent, Stages, Ended

LEMMA TypePrepare == ASSUME AgentTyped, VerdictTyped, Prepare PROVE AgentTyped' /\ VerdictTyped'
<1>1. stage = "apply" /\ stage' \in {"approval", "failed"}
    BY DEF Prepare
<1>2. UNCHANGED <<mode, tree, ws, agent, todo, verdict, disturbances, seen>>
    BY DEF Prepare
<1> QED BY <1>1, <1>2, TypeStay DEF AgentTyped, Stages, Ended

LEMMA TypeApply == ASSUME AgentTyped, VerdictTyped, Apply PROVE AgentTyped' /\ VerdictTyped'
<1>1. stage = "approval" /\ stage' \in {"select", "failed"}
    BY DEF Apply
<1>2. tree' \in Trees
    BY AppliedTyped DEF Apply, AgentTyped
<1>3. UNCHANGED <<mode, ws, agent, todo, verdict, disturbances, seen>>
    BY DEF Apply
<1> QED BY <1>1, <1>2, <1>3 DEF AgentTyped, VerdictTyped, agent, verdict, Stages, Ended

\* What Select chooses from, in a form to reason with.
LEMMA Selected ==
    ASSUME AgentTyped, VerdictTyped, Select
    PROVE  \E im \in ImpactType : \E checks \in CheckSets : \E expired \in BOOLEAN :
           \E selected \in Seq(Commands) :
              LET reuse == ApplyReuse(selected, im, tree, Reloaded(result.evidence),
                                      checks, expired)
              IN /\ impact' = im /\ reused' = reuse.reused /\ ledger' = reuse.ledger
                 /\ todo' = Tier("targeted", reuse.remaining)
<1> DEFINE lexical == Lexical(Paths(ops), tree)
           evidence == Reloaded(result.evidence)
<1>1. PICK im \in (IF impact.made THEN {impact} ELSE AnalyzeImpact(Paths(ops), FALSE)),
           checks \in CheckSets :
        \E expired \in (IF "age" \in checks THEN BOOLEAN ELSE {FALSE}) :
          /\ impact' = (IF im.made THEN im ELSE [NoImpact EXCEPT !.changed = Paths(ops)])
          /\ \E selected \in {IF im.made THEN Decide(im, tree, lexical) ELSE lexical} :
             \E reuse \in {ApplyReuse(selected, impact', tree, evidence, checks, expired)} :
               /\ reused' = reuse.reused /\ ledger' = reuse.ledger
               /\ todo' = Tier("targeted", reuse.remaining)
  <2>1. PICK im \in (IF impact.made THEN {impact} ELSE AnalyzeImpact(Paths(ops), FALSE)),
             checks \in CheckSets :
          \E expired \in (IF "age" \in checks THEN BOOLEAN ELSE {FALSE}),
             lex \in {Lexical(Paths(ops), tree)}, ev \in {Reloaded(result.evidence)} :
            /\ impact' = (IF im.made THEN im ELSE [NoImpact EXCEPT !.changed = Paths(ops)])
            /\ \E selected \in {IF im.made THEN Decide(im, tree, lex) ELSE lex} :
               \E reuse \in {ApplyReuse(selected, impact', tree, ev, checks, expired)} :
                 /\ reused' = reuse.reused /\ ledger' = reuse.ledger
                 /\ todo' = Tier("targeted", reuse.remaining)
      BY Zenon DEF Select
  <2> QED BY <2>1
<1>2. Paths(ops) \in SUBSET Files
    BY OpsTyped DEF AgentTyped
<1>3. im \in ImpactType /\ impact' \in ImpactType
    BY <1>1, <1>2, ImpactTyped DEF VerdictTyped
<1> DEFINE selected == IF im.made THEN Decide(im, tree, lexical) ELSE lexical
<1>4. selected \in Seq(Commands)
  <2>1. lexical \in Seq(Commands)
      BY <1>3, SelectionTyped, EmptySeq
  <2> HIDE DEF lexical
  <2> QED BY <1>3, <2>1, SelectionTyped
<1> HIDE DEF lexical, evidence
<1>5. PICK expired \in BOOLEAN :
        LET reuse == ApplyReuse(selected, impact', tree, evidence, checks, expired)
        IN /\ reused' = reuse.reused /\ ledger' = reuse.ledger
           /\ todo' = Tier("targeted", reuse.remaining)
    BY <1>1
<1> HIDE DEF selected
<1> QED BY <1>3, <1>4, <1>5 DEF evidence

LEMMA TypeSelect == ASSUME AgentTyped, VerdictTyped, Select PROVE AgentTyped' /\ VerdictTyped'
<1> DEFINE evidence == Reloaded(result.evidence)
<1>1. PICK im \in ImpactType : \E checks \in CheckSets : \E expired \in BOOLEAN :
           \E selected \in Seq(Commands) :
              LET reuse == ApplyReuse(selected, im, tree, evidence, checks, expired)
              IN /\ impact' = im /\ reused' = reuse.reused /\ ledger' = reuse.ledger
                 /\ todo' = Tier("targeted", reuse.remaining)
    BY Selected
<1>2. /\ evidence \in LedgerType /\ Len(evidence.entries) <= MaxLedger
      /\ \A i \in DOMAIN evidence.entries : evidence.entries[i] \in ToSet(result.evidence)
  <2>1. EmptyLedger \in LedgerType
      BY EmptySeq DEF EmptyLedger, LedgerType
  <2> QED BY <2>1, ReloadedTyped, RecordTyped DEF VerdictTyped, Reloaded
<1> HIDE DEF evidence
<1>3. PICK checks \in CheckSets, expired \in BOOLEAN, selected \in Seq(Commands) :
              LET reuse == ApplyReuse(selected, im, tree, evidence, checks, expired)
              IN /\ impact' = im /\ reused' = reuse.reused /\ ledger' = reuse.ledger
                 /\ todo' = Tier("targeted", reuse.remaining)
    BY <1>1
<1> DEFINE reuse == ApplyReuse(selected, im, tree, evidence, checks, expired)
<1>4. /\ reuse.remaining \in Seq(Commands)
      /\ reuse.ledger \in LedgerType /\ reuse.ledger.entries = evidence.entries
      /\ \A e \in reuse.reused : \E i \in DOMAIN evidence.entries : e = evidence.entries[i]
    BY <1>2, ReuseTyped
<1> HIDE DEF reuse
<1>5. todo' \in Seq(StepType)
    BY <1>3, <1>4, TierTyped DEF reuse
<1>6. ledger' \in LedgerType /\ Len(ledger'.entries) <= MaxLedger
    BY <1>2, <1>3, <1>4 DEF reuse
<1>7. reused' \subseteq ToSet(result.evidence)
    BY <1>2, <1>3, <1>4 DEF reuse
<1>8. seen' \in SeenType
    BY DEF Select, AgentTyped, SeenType
<1>9. /\ impact' \in ImpactType /\ stage' = "targeted" /\ outcome' = "applied"
      /\ UNCHANGED <<mode, tree, ws, history, run, ops, engine, errors, refines, iterations,
                     report, result, disturbances>>
    BY <1>3 DEF Select
<1> QED BY <1>5, <1>6, <1>7, <1>8, <1>9
    DEF AgentTyped, VerdictTyped, LedgerType, Stages, Outcomes

LEMMA TypeRunInProject ==
    ASSUME AgentTyped, VerdictTyped, RunInProject PROVE AgentTyped' /\ VerdictTyped'
<1>1. PICK w \in Writes :
         /\ \/ outcome' = "failed" /\ todo' = <<>>
            \/ todo' = Tail(todo) /\ UNCHANGED outcome
         /\ tree' = TreeWith(w) /\ Counted(w) /\ seen' = SeenIn(FALSE, w)
    BY DEF RunInProject
<1>2. disturbances' \in 0..MaxDisturbances /\ tree' \in Trees /\ seen' \in SeenType
    BY <1>1, WritesTyped
<1>3. todo' \in Seq(StepType) /\ outcome' \in Outcomes
  <2>1. todo # <<>> /\ todo \in Seq(StepType)
      BY DEF RunInProject, VerdictTyped
  <2>2. Tail(todo) \in Seq(StepType) /\ <<>> \in Seq(StepType)
      BY <2>1, HeadTailProperties, EmptySeq
  <2> QED BY <1>1, <2>2 DEF AgentTyped, Outcomes
<1> QED BY <1>2, <1>3 DEF RunInProject, AgentTyped, VerdictTyped, verdict

LEMMA TypeRunFullPlan ==
    ASSUME AgentTyped, VerdictTyped, RunFullPlan PROVE AgentTyped' /\ VerdictTyped'
<1>1. stage' \in Stages /\ stage' = "done" /\ outcome' \in Outcomes
    BY DEF RunFullPlan, Stages, Ended, Outcomes
<1> QED BY <1>1 DEF RunFullPlan, AgentTyped, VerdictTyped, verdict

LEMMA TypeStep == ASSUME AgentTyped, VerdictTyped, [Next]_vars PROVE AgentTyped' /\ VerdictTyped'
<1>1. CASE Next
    BY <1>1, TypeEdit, TypeStart, TypeCall, TypeInvalid, TypePropose, TypeRaise, TypeRebuild,
       TypeRunInCandidate, TypeJudge, TypeFinish, TypePrepare, TypeApply, TypeSelect,
       TypeRunInProject, TypeRunFullPlan DEF Next, Step
<1>2. CASE UNCHANGED vars
    BY <1>2 DEF vars, AgentTyped, VerdictTyped
<1> QED BY <1>1, <1>2

\* The state keeps its shape: the tree, the candidate, the tool loop, the reports and the
\* ledger, which never holds more than its bound (EvidenceLedger.record drops the oldest).
THEOREM TypeCorrect == Spec => []TypeOK
<1>1. Init => AgentTyped /\ VerdictTyped
    BY TypeInit
<1>2. AgentTyped /\ VerdictTyped /\ [Next]_vars => (AgentTyped /\ VerdictTyped)'
    BY TypeStep
<1>3. AgentTyped /\ VerdictTyped => TypeOK
  <2> SUFFICES ASSUME AgentTyped, VerdictTyped PROVE TypeOK
      OBVIOUS
  <2>1. /\ ws.tree \in Trees
        /\ {ws.active, ws.left, errors, result.success, result.leftBehind} \subseteq BOOLEAN
      BY DEF AgentTyped, VerdictTyped, WorkspaceType
  <2>2. history.steps \in Nat /\ history.bytes \in Nat /\ run.repeats \in Nat
      BY DEF AgentTyped, Histories, RunType
  <2>3. \A i \in DOMAIN todo : todo[i].cmd \in Commands
    <3>1. \A i \in DOMAIN todo : todo[i] \in StepType
        BY MembersTyped DEF VerdictTyped
    <3> QED BY <3>1 DEF StepType
  <2>4. \A i \in DOMAIN report : report[i].ran \in Trees
    <3>1. \A i \in DOMAIN report : report[i] \in ReportType
        BY MembersTyped DEF VerdictTyped
    <3> QED BY <3>1 DEF ReportType
  <2> QED BY <2>1, <2>2, <2>3, <2>4
      DEF TypeOK, AgentTyped, VerdictTyped, Stages, Engines
<1> QED BY <1>1, <1>2, <1>3, PTL DEF Spec


-----------------------------------------------------------------------------
(* Budgets.                                                                *)

LEMMA TotalTyped ==
    ASSUME NEW S, IsFiniteSet(S), NEW f \in [S -> Nat]
    PROVE  Total(f) \in Nat
<1>1. PICK g : g = Summed(S, f, g) /\ Total(f) = g[S]
    BY FoldIsSum
<1>2. CASE S = {}
  <2>1. g[{}] = 0
      BY <1>1 DEF Summed
  <2> QED BY <1>1, <1>2, <2>1
<1>3. CASE S # {}
    BY <1>3, FoldGrows
<1> QED BY <1>2, <1>3

\* What a step leaves of the budget when it calls nothing: the history only grows.
LongerHistory ==
    /\ history'.steps >= history.steps
    /\ \A t \in Tools : history'.count[t] >= history.count[t]

LEMMA BudgetStays ==
    ASSUME AgentTyped, AgentTyped', BudgetInv, LongerHistory, seen'.executed = seen.executed,
           refines' <= MaxRefineRounds, iterations' <= MaxCandidateIterations,
           stage' \in {"start", "loop", "rebuild"} => iterations' < MaxCandidateIterations
    PROVE  BudgetInv'
<1>1. /\ seen.executed \in [Tools -> Nat] /\ Total(seen.executed) \in Nat
      /\ history \in Histories /\ history' \in Histories
    BY TotalTyped, ConstantsTyped DEF AgentTyped, SeenType
<1>2. Total(seen.executed) <= history.steps /\ history.steps <= history'.steps
    BY DEF BudgetInv, LongerHistory, Histories
<1>3. Total(seen'.executed) <= history'.steps
    BY <1>1, <1>2 DEF Histories
<1>4. ASSUME NEW t \in Tools PROVE seen'.executed[t] <= history'.count[t]
  <2>1. /\ seen.executed[t] \in Nat /\ history.count[t] \in Nat /\ history'.count[t] \in Nat
        /\ seen.executed[t] <= history.count[t] /\ history.count[t] <= history'.count[t]
      BY <1>1 DEF BudgetInv, LongerHistory, Histories
  <2> QED BY <2>1
<1>5. WithinBudgets(seen'.executed)
    BY DEF BudgetInv
<1> QED BY <1>3, <1>4, <1>5 DEF BudgetInv

LEMMA AfterLonger ==
    ASSUME AgentTyped, NEW name \in Tools \cup Feedback, NEW size \in Nat,
           history' \in {history, Append1(history, name, size)}
    PROVE  LongerHistory
<1>1. history \in Histories
    BY DEF AgentTyped
<1>2. /\ Append1(history, name, size).steps = history.steps + 1
      /\ Append1(history, name, size).count = [history.count EXCEPT ![name] = @ + 1]
    BY <1>1, HistoryTyped
<1>3. history.steps \in Nat /\ history.count \in [Tools \cup Feedback -> Nat]
    BY <1>1 DEF Histories
<1>4. \A t \in Tools : [history.count EXCEPT ![name] = @ + 1][t] >= history.count[t]
    BY <1>3
<1> QED BY <1>2, <1>3, <1>4 DEF LongerHistory

LEMMA BudgetInit == Init => BudgetInv
<1> SUFFICES ASSUME Init PROVE BudgetInv
    OBVIOUS
<1>1. PICK earlier \in StartHistories :
        /\ history = earlier.history
        /\ seen = [mirror |-> NoWorkspace.tree, dirty |-> FALSE, edited |-> {},
                   executed |-> earlier.executed, proven |-> NoWorkspace.tree, decided |-> tree]
    BY DEF Init
<1>2. Possible(earlier)
    BY CandidateAssumption
<1>3. refines = 0 /\ iterations = 0
    BY DEF Init
<1>4. seen.executed = earlier.executed
    BY <1>1
<1> QED BY <1>1, <1>2, <1>3, <1>4, ConstantsTyped DEF BudgetInv, Possible

\* A call is let through while the history is shorter than the budget, and makes the
\* history as much longer as the calls.
LEMMA BudgetCall == ASSUME AgentTyped, AgentTyped', BudgetInv, Call PROVE BudgetInv'
<1>1. PICK call \in Calls, size \in Sizes, w \in Writes :
        LET decision == EvaluateCall(history, run, call)
        IN /\ IF decision = "terminate"
                THEN stage' = "finish" /\ engine' = "stopped" /\ UNCHANGED <<history, run>>
                ELSE /\ history' = HistoryAfter(history, call, decision, size)
                     /\ run' = AfterCall(run, call, decision)
                     /\ UNCHANGED <<stage, engine>>
           /\ ws' = (IF Prospective THEN WsWith(w) ELSE ws)
           /\ tree' = (IF Prospective THEN tree ELSE TreeWith(w))
           /\ Counted(w)
           /\ seen' = [SeenIn(Prospective, w) EXCEPT
                        !.executed[call[1]] = @ + (IF decision = "allow" THEN 1 ELSE 0)]
    BY DEF Call
<1> DEFINE decision == EvaluateCall(history, run, call)
           t == call[1]
           d == IF decision = "allow" THEN 1 ELSE 0
           bytes == IF decision = "allow" THEN size ELSE FeedbackSize
           longer == Append1(history, t, bytes)
           executed == [seen.executed EXCEPT ![t] = @ + d]
<1>2. t \in Tools /\ d \in {0, 1} /\ bytes \in Nat
    BY ConstantsTyped DEF Calls
<1>3. /\ seen.executed \in [Tools -> Nat] /\ history \in Histories /\ history.steps \in Nat
      /\ history.count \in [Tools \cup Feedback -> Nat]
    BY DEF AgentTyped, SeenType, Histories
<1>4. seen'.executed = executed
  <2> DEFINE s == SeenIn(Prospective, w)
  <2>1. s.executed = seen.executed
      BY DEF SeenIn, AgentTyped, SeenType
  <2>2. SeenIn(Prospective, w) \in SeenType
    <3>1. Prospective \in BOOLEAN
        BY DEF Prospective
    <3> QED BY <1>1, <3>1, WritesTyped
  <2> HIDE DEF s, d
  <2>3. seen' = [s EXCEPT !.executed[t] = @ + d]
      BY <1>1 DEF s, d
  <2> QED BY <2>1, <2>2, <2>3 DEF s, SeenType
<1>5. /\ refines' = refines /\ iterations' = iterations /\ stage = "loop"
      /\ stage' \in {"finish", "loop"}
    BY <1>1 DEF Call
<1>6. CASE decision = "terminate"
  <2>1. d = 0 /\ history' = history
      BY <1>1, <1>6
  <2>2. executed = seen.executed
      BY <1>3, <2>1
  <2>3. LongerHistory
      BY <1>3, <2>1 DEF LongerHistory
  <2> HIDE DEF executed
  <2> QED BY <1>4, <1>5, <2>2, <2>3, BudgetStays DEF BudgetInv
<1>7. CASE decision # "terminate"
  <2>1. history' = longer
      BY <1>1, <1>7 DEF HistoryAfter
  <2>2. history'.steps = history.steps + 1 /\ history'.count = [history.count EXCEPT ![t] = @ + 1]
    <3> HIDE DEF bytes, t
    <3> QED BY <1>2, <1>3, <2>1, HistoryTyped
  <2>3. CASE d = 0
    <3>1. executed = seen.executed
        BY <1>3, <2>3
    <3>2. LongerHistory
      <4> HIDE DEF bytes, t, d
      <4> QED BY <1>2, <2>1, AfterLonger
    <3> HIDE DEF executed
    <3> QED BY <1>4, <1>5, <3>1, <3>2, BudgetStays DEF BudgetInv
  <2>4. CASE d = 1
    <3>0. decision = "allow"
        BY <2>4
    <3> HIDE DEF d
    <3>1. /\ ~(history.steps >= StepBudget) /\ t \notin Disallowed
          /\ ~(t \in DOMAIN Limits /\ history.count[t] + 1 > Limits[t])
        BY <3>0 DEF EvaluateCall
    <3> HIDE DEF decision, t
    <3>2. /\ Total(seen.executed) \in Nat /\ Total(executed) = Total(seen.executed) + 1
        BY <1>2, <1>3, <2>4, FoldGrows, ConstantsTyped
    <3>3. Total(executed) <= history.steps + 1 /\ history.steps + 1 <= StepBudget
        BY <1>3, <3>1, <3>2, ConstantsTyped DEF BudgetInv
    <3>4. Total(executed) <= StepBudget /\ Total(executed) <= history'.steps
        BY <1>3, <2>2, <3>2, <3>3, ConstantsTyped
    <3>5. ASSUME NEW x \in Tools
          PROVE  /\ executed[x] = IF x = t THEN seen.executed[x] + 1 ELSE seen.executed[x]
                 /\ history'.count[x] = IF x = t THEN history.count[x] + 1 ELSE history.count[x]
                 /\ seen.executed[x] \in Nat /\ history.count[x] \in Nat
                 /\ seen.executed[x] <= history.count[x]
        BY <1>2, <1>3, <2>2, <2>4 DEF BudgetInv
    <3> HIDE DEF executed
    <3>6. \A x \in Tools : executed[x] <= history'.count[x]
        BY <3>5
    <3>7. \A x \in DOMAIN Limits : executed[x] <= Limits[x]
      <4> SUFFICES ASSUME NEW x \in DOMAIN Limits PROVE executed[x] <= Limits[x]
          OBVIOUS
      <4>1. x \in Tools /\ Limits[x] \in Nat /\ seen.executed[x] <= Limits[x]
          BY ToolAssumption DEF BudgetInv, WithinBudgets
      <4>2. CASE x = t
        <5>1. history.count[x] + 1 <= Limits[x]
            BY <3>1, <3>5, <4>1, <4>2
        <5> QED BY <3>5, <4>1, <4>2, <5>1
      <4> QED BY <3>5, <4>1, <4>2
    <3>8. \A x \in Disallowed : executed[x] = 0
        BY <3>1, <3>5 DEF BudgetInv, WithinBudgets, Disallowed
    <3>9. WithinBudgets(executed)
        BY <3>4, <3>7, <3>8 DEF WithinBudgets
    <3> QED BY <1>4, <1>5, <3>4, <3>6, <3>9 DEF BudgetInv
  <2> QED BY <1>2, <2>3, <2>4
<1> QED BY <1>6, <1>7

LEMMA BudgetPropose == ASSUME AgentTyped, AgentTyped', BudgetInv, Propose PROVE BudgetInv'
<1>1. /\ history' \in {history, Append1(history, "implementation_precheck", FeedbackSize)}
      /\ refines' = refines \/ (Refined /\ refines' = refines + 1)
      /\ stage = "loop" /\ iterations' = iterations /\ seen' = seen
    BY DEF Propose
<1>2. "implementation_precheck" \in Tools \cup Feedback /\ FeedbackSize \in Nat
    BY ConstantsTyped DEF Feedback
<1>3. LongerHistory
    BY <1>1, <1>2, AfterLonger
<1>4. refines' <= MaxRefineRounds
    BY <1>1, ConstantsTyped DEF BudgetInv, Refined, AgentTyped
<1> QED BY <1>1, <1>3, <1>4, BudgetStays DEF BudgetInv

\* Another candidate only while there are candidates left.
LEMMA AfterBudget ==
    ASSUME AgentTyped, NEW out, NEW n \in Nat, After(out, n)
    PROVE  /\ LongerHistory
           /\ stage' \in {"start", "loop", "rebuild"} => n < MaxCandidateIterations
<1>1. "candidate_validation" \in Tools \cup Feedback /\ FeedbackSize \in Nat
    BY ConstantsTyped DEF Feedback
<1>2. LongerHistory
    BY <1>1, AfterLonger DEF After
<1> QED BY <1>2, ConstantsTyped DEF After

LEMMA BudgetRebuild == ASSUME AgentTyped, AgentTyped', BudgetInv, Rebuild PROVE BudgetInv'
<1>1. /\ iterations' = iterations + 1 /\ iterations' \in Nat /\ refines' = refines
      /\ iterations' <= MaxCandidateIterations
    BY ConstantsTyped DEF Rebuild, BudgetInv, AgentTyped
<1>2. seen'.executed = seen.executed
    BY DEF Rebuild, AgentTyped, SeenType
<1>3. CASE stage' = "validate" /\ UNCHANGED history
  <2>1. LongerHistory
      BY <1>3 DEF LongerHistory, AgentTyped, Histories
  <2> QED BY <1>1, <1>2, <1>3, <2>1, BudgetStays DEF BudgetInv
<1>4. CASE After("invalid", iterations')
    BY <1>1, <1>2, <1>4, AfterBudget, BudgetStays DEF BudgetInv
<1> QED BY <1>3, <1>4 DEF Rebuild, RebuildFails

LEMMA BudgetJudge == ASSUME AgentTyped, AgentTyped', BudgetInv, Judge PROVE BudgetInv'
<1>1. /\ iterations' = iterations /\ refines' = refines /\ After(Verdict, iterations)
      /\ iterations \in Nat
    BY DEF Judge, AgentTyped
<1>2. seen'.executed = seen.executed
    BY DEF Judge, AgentTyped, SeenType
<1> QED BY <1>1, <1>2, AfterBudget, BudgetStays DEF BudgetInv

\* Nothing else calls tools, and only these start a candidate.
LEMMA BudgetOther ==
    ASSUME AgentTyped, AgentTyped', BudgetInv,
           Edit \/ Start \/ Invalid \/ Raise \/ RunInCandidate \/ Finish \/ Prepare \/ Apply
             \/ Select \/ RunInProject \/ RunFullPlan \/ UNCHANGED vars
    PROVE  BudgetInv'
<1>1. UNCHANGED <<history, refines, iterations>>
    BY DEF Edit, Start, Invalid, Raise, RunInCandidate, Finish, Prepare, Apply, Select,
           RunInProject, RunFullPlan, vars, agent
<1>2. LongerHistory
    BY <1>1 DEF LongerHistory, AgentTyped, Histories
<1>3. seen'.executed = seen.executed
  <2>1. ASSUME NEW c \in BOOLEAN, NEW w \in Writes PROVE SeenIn(c, w).executed = seen.executed
      BY DEF SeenIn, AgentTyped, SeenType
  <2>2. CASE Edit \/ RunInCandidate \/ RunInProject
    <3>1. \E c \in BOOLEAN, w \in Writes : seen' = SeenIn(c, w)
        BY <2>2, Zenon DEF Edit, RunInCandidate, RunInProject
    <3> QED BY <2>1, <3>1
  <2>3. CASE Start \/ Select
      BY <2>3 DEF Start, Select, AgentTyped, SeenType
  <2>4. CASE Invalid \/ Raise \/ Finish \/ Prepare \/ Apply \/ RunFullPlan \/ UNCHANGED vars
      BY <2>4 DEF Invalid, Raise, Finish, Prepare, Apply, RunFullPlan, vars
  <2> QED BY <2>2, <2>3, <2>4
<1>4. stage' \in {"start", "loop", "rebuild"} => stage \in {"start", "loop", "rebuild"}
    BY DEF Edit, Start, Invalid, Raise, RunInCandidate, Finish, Prepare, Apply, Select,
           RunInProject, RunFullPlan, vars
<1> QED BY <1>1, <1>2, <1>3, <1>4, BudgetStays DEF BudgetInv

LEMMA BudgetStep == ASSUME AgentTyped, AgentTyped', BudgetInv, [Next]_vars PROVE BudgetInv'
BY BudgetCall, BudgetPropose, BudgetRebuild, BudgetJudge, BudgetOther DEF Next, Step

\* The tools that really run stay within the agent's budgets, over all rounds and with the
\* calls of earlier attempts (ToolExecutionPolicy.evaluate_call); so do refinements and
\* candidates.
THEOREM BudgetsAreKept == Spec => []CallsWithinBudget
<1>1. Init => AgentTyped /\ VerdictTyped /\ BudgetInv
    BY TypeInit, BudgetInit
<1>2. AgentTyped /\ VerdictTyped /\ BudgetInv /\ [Next]_vars
        => (AgentTyped /\ VerdictTyped /\ BudgetInv)'
    BY TypeStep, BudgetStep
<1>3. BudgetInv => ToolBudgets
    BY DEF BudgetInv, ToolBudgets
<1>4. Spec => []TypeOK
    BY TypeCorrect
<1>5. TypeOK /\ ToolBudgets => CallsWithinBudget
    BY DEF CallsWithinBudget
<1> QED BY <1>1, <1>2, <1>3, <1>4, <1>5, PTL DEF Spec


-----------------------------------------------------------------------------
(* The candidate is BASE plus the operations.                              *)

\* What is observed of a write: where it went, and that nothing else changed.
LEMMA WriteSeen ==
    ASSUME AgentTyped, NEW w \in Writes
    PROVE  /\ \A c \in BOOLEAN : /\ SeenIn(c, w).mirror = seen.mirror
                                 /\ SeenIn(c, w).proven = seen.proven
                                 /\ SeenIn(c, w).decided = seen.decided
           /\ SeenIn(TRUE, w).edited = seen.edited
           /\ ~SeenIn(TRUE, w).dirty => WsWith(w) = ws /\ ~seen.dirty
           /\ SeenIn(FALSE, w).dirty = seen.dirty
           /\ seen.edited \subseteq SeenIn(FALSE, w).edited
           /\ \A f \in Files \ SeenIn(FALSE, w).edited : TreeWith(w)[f] = tree[f]
<1>1. CASE w = <<>>
    BY <1>1 DEF SeenIn, WsWith, TreeWith
<1>2. CASE w # <<>>
  <2>1. seen \in SeenType /\ tree \in [Files -> Contents]
      BY DEF AgentTyped, Trees
  <2>2. \A c \in BOOLEAN : /\ SeenIn(c, w).mirror = seen.mirror
                           /\ SeenIn(c, w).proven = seen.proven
                           /\ SeenIn(c, w).decided = seen.decided
    <3> SUFFICES ASSUME NEW c \in BOOLEAN
                 PROVE  /\ SeenIn(c, w).mirror = seen.mirror
                        /\ SeenIn(c, w).proven = seen.proven
                        /\ SeenIn(c, w).decided = seen.decided
        OBVIOUS
    <3> QED BY <1>2, <2>1 DEF SeenIn, SeenType
  <2>3. SeenIn(TRUE, w).edited = seen.edited /\ SeenIn(TRUE, w).dirty
      BY <1>2, <2>1 DEF SeenIn, SeenType
  <2>4. /\ SeenIn(FALSE, w).dirty = seen.dirty
        /\ SeenIn(FALSE, w).edited = seen.edited \cup {w[1]}
      BY <1>2, <2>1 DEF SeenIn, SeenType
  <2>5. \A f \in Files \ {w[1]} : TreeWith(w)[f] = tree[f]
      BY <1>2, <2>1 DEF TreeWith
  <2> QED BY <2>2, <2>3, <2>4, <2>5
<1> QED BY <1>1, <1>2

\* What the candidate is once the last one is taken back: BASE, as mirrored.
LEMMA ResetIsBase ==
    ASSUME AgentTyped, WorkspaceInv, stage = "rebuild", ~seen.dirty
    PROVE  /\ Reset(ws).tree = seen.mirror /\ Reset(ws).base = ws.base
           /\ \A f \in DOMAIN ws.base : ws.base[f] = seen.mirror[f]
<1>1. /\ ws \in WorkspaceType /\ ws.mutated \subseteq DOMAIN ws.base
      /\ seen.mirror \in [Files -> Contents]
    BY DEF AgentTyped, SeenType, Trees
<1>2. /\ \A f \in DOMAIN ws.base : ws.base[f] = seen.mirror[f]
      /\ \A f \in Files \ ws.mutated : ws.tree[f] = seen.mirror[f]
    BY DEF WorkspaceInv
<1>3. /\ Reset(ws).tree \in [Files -> Contents] /\ Reset(ws).base = ws.base
      /\ \A f \in Files : Reset(ws).tree[f] = IF f \in ws.mutated THEN ws.base[f] ELSE ws.tree[f]
    BY <1>1, ResetTyped DEF WorkspaceType, Trees
<1>4. \A f \in Files : Reset(ws).tree[f] = seen.mirror[f]
    BY <1>1, <1>2, <1>3
<1> QED BY <1>1, <1>2, <1>3, <1>4

LEMMA WorkspaceInit == Init => WorkspaceInv
BY DEF Init, WorkspaceInv

\* Steps that leave the candidate, its operations and what was mirrored alone.
LEMMA WorkspaceStays ==
    ASSUME AgentTyped, WorkspaceInv, UNCHANGED <<mode, ws, ops, report>>,
           seen'.mirror = seen.mirror, seen'.dirty = seen.dirty,
           stage' = "rebuild" => Prospective, stage' = "validate" => stage = "validate",
           stage' \in {"loop", "rebuild"} => stage \in {"loop", "rebuild", "validate"}
    PROVE  WorkspaceInv'
BY DEF WorkspaceInv, Candidate, Prospective

\* Steps after which there is no candidate to speak of.
LEMMA WorkspaceIdle ==
    ASSUME stage' \notin {"loop", "rebuild", "validate"}
    PROVE  WorkspaceInv'
BY DEF WorkspaceInv

LEMMA WorkspaceStart == ASSUME AgentTyped, WorkspaceInv, Start PROVE WorkspaceInv'
<1>1. CASE stage' = "failed"
    BY <1>1, WorkspaceIdle
<1>2. CASE ~Prospective /\ stage' = "loop" /\ mode' = mode
    BY <1>2 DEF WorkspaceInv, Prospective
<1>3. CASE ws' = SetUp(tree) /\ stage' = "loop" /\ seen' = [seen EXCEPT !.mirror = Mirror(tree)]
  <2>1. seen'.mirror = Mirror(tree)
      BY <1>3 DEF AgentTyped, SeenType
  <2>2. ws'.tree = Mirror(tree) /\ DOMAIN ws'.base = {}
      BY <1>3, SetUpTyped DEF AgentTyped
  <2> QED BY <1>3, <2>1, <2>2 DEF WorkspaceInv
<1> QED BY <1>1, <1>2, <1>3 DEF Start

LEMMA WorkspaceCall == ASSUME AgentTyped, WorkspaceInv, Call PROVE WorkspaceInv'
<1>1. PICK call \in Calls, w \in Writes, d \in {0, 1} :
        /\ ws' = (IF Prospective THEN WsWith(w) ELSE ws) /\ Counted(w)
        /\ seen' = [SeenIn(Prospective, w) EXCEPT !.executed[call[1]] = @ + d]
    BY DEF Call
<1>2. /\ stage' \in {"loop", "finish"} /\ UNCHANGED <<mode, ops, report>>
    BY DEF Call, verdict
<1>3. CASE ~Prospective
    BY <1>2, <1>3 DEF WorkspaceInv, Prospective
<1>4. CASE Prospective
  <2>1. SeenIn(TRUE, w) \in SeenType
      BY <1>1, WritesTyped
  <2>2. seen'.mirror = SeenIn(TRUE, w).mirror /\ seen'.dirty = SeenIn(TRUE, w).dirty
      BY <1>1, <1>4, <2>1 DEF SeenType
  <2>3. seen'.mirror = seen.mirror /\ (~seen'.dirty => ws' = ws /\ ~seen.dirty)
      BY <1>1, <1>4, <2>2, WriteSeen
  <2>4. stage = "loop" /\ stage' # "validate" /\ stage' # "rebuild"
      BY <1>2 DEF Call
  <2> QED BY <1>2, <1>4, <2>3, <2>4 DEF WorkspaceInv, Prospective
<1> QED BY <1>3, <1>4

LEMMA WorkspacePropose == ASSUME AgentTyped, WorkspaceInv, Propose PROVE WorkspaceInv'
<1>1. /\ stage = "loop" /\ stage' \in {"loop", "rebuild", "finish"}
      /\ stage' = "rebuild" => Prospective
      /\ UNCHANGED <<mode, ws, seen>>
    BY DEF Propose
<1> QED BY <1>1 DEF WorkspaceInv, Prospective

\* A candidate is built on BASE; one that cannot be built leaves BASE.
LEMMA WorkspaceRebuild == ASSUME AgentTyped, WorkspaceInv, Rebuild PROVE WorkspaceInv'
<1>0. /\ stage = "rebuild" /\ UNCHANGED <<mode, ops>> /\ Prospective
      /\ ws \in WorkspaceType /\ ws.mutated \subseteq DOMAIN ws.base
      /\ ops \in Proposals \cup {<<>>} /\ seen.mirror \in Trees
    BY DEF Rebuild, WorkspaceInv, AgentTyped, SeenType
<1>1. CASE ws' = Rebuilt(ws, ops) /\ stage' = "validate" /\ report' = <<>> /\ seen' = seen
  <2> SUFFICES ASSUME ~seen.dirty
               PROVE  /\ \A f \in DOMAIN ws'.base : ws'.base[f] = seen.mirror[f]
                      /\ \A f \in Files \ ws'.mutated : ws'.tree[f] = seen.mirror[f]
                      /\ ws'.tree = Candidate
      BY <1>0, <1>1 DEF WorkspaceInv, Prospective, Candidate
  <2>1. /\ Reset(ws).tree = seen.mirror
        /\ \A f \in DOMAIN ws.base : ws.base[f] = seen.mirror[f]
      BY <1>0, ResetIsBase
  <2>2. /\ ws'.tree = Applied(ops, seen.mirror) /\ ws'.mutated = Paths(ops)
        /\ \A f \in DOMAIN ws'.base :
              ws'.base[f] = IF f \in DOMAIN ws.base THEN ws.base[f] ELSE seen.mirror[f]
      BY <1>0, <1>1, <2>1, RebuiltTyped
  <2>3. \A f \in Files \ Paths(ops) : Applied(ops, seen.mirror)[f] = seen.mirror[f]
      BY <1>0, AppliedTyped
  <2> QED BY <2>1, <2>2, <2>3 DEF Candidate
<1>2. ASSUME NEW next, RebuildFails(next), seen'.mirror = seen.mirror,
             ~seen'.dirty => /\ ~seen.dirty
                             /\ \A f \in DOMAIN next.base : next.base[f] = seen.mirror[f]
                             /\ \A f \in Files : next.tree[f] = seen.mirror[f]
      PROVE  WorkspaceInv'
  <2>1. ws' = next /\ stage' \in {"finish", "loop"}
      BY <1>2 DEF RebuildFails, After
  <2> QED BY <1>2, <2>1 DEF WorkspaceInv
<1>3. CASE RebuildFails(Reset(ws)) /\ seen' = seen
  <2>1. ~seen.dirty => /\ \A f \in DOMAIN Reset(ws).base : Reset(ws).base[f] = seen.mirror[f]
                       /\ \A f \in Files : Reset(ws).tree[f] = seen.mirror[f]
      BY <1>0, ResetIsBase
  <2> QED BY <1>2, <1>3, <2>1
<1>4. CASE \E stuck \in SUBSET Paths(ops) :
             /\ RebuildFails(Broken(ws, ops, stuck))
             /\ seen' = [seen EXCEPT !.dirty = @ \/ stuck # {}]
  <2>1. PICK stuck \in SUBSET Paths(ops) :
             /\ RebuildFails(Broken(ws, ops, stuck))
             /\ seen' = [seen EXCEPT !.dirty = @ \/ stuck # {}]
      BY <1>4
  <2> DEFINE broken == Broken(ws, ops, stuck)
  <2>2. seen'.mirror = seen.mirror /\ (~seen'.dirty => ~seen.dirty /\ stuck = {})
      BY <2>1 DEF AgentTyped, SeenType
  <2>3. /\ \A f \in Files : f \notin stuck => broken.tree[f] = Reset(ws).tree[f]
        /\ \A f \in DOMAIN broken.base :
              broken.base[f] = IF f \in DOMAIN ws.base THEN ws.base[f] ELSE Reset(ws).tree[f]
      BY <1>0, BrokenTyped
  <2>4. ASSUME ~seen.dirty, stuck = {}
        PROVE  /\ \A f \in DOMAIN broken.base : broken.base[f] = seen.mirror[f]
               /\ \A f \in Files : broken.tree[f] = seen.mirror[f]
    <3>1. /\ Reset(ws).tree = seen.mirror
          /\ \A f \in DOMAIN ws.base : ws.base[f] = seen.mirror[f]
        BY <1>0, <2>4, ResetIsBase
    <3> HIDE DEF broken
    <3> QED BY <2>3, <2>4, <3>1
  <2> QED BY <1>2, <2>1, <2>2, <2>4
<1> QED BY <1>1, <1>3, <1>4 DEF Rebuild

LEMMA WorkspaceRun ==
    ASSUME AgentTyped, VerdictTyped, WorkspaceInv, RunInCandidate PROVE WorkspaceInv'
<1>1. PICK status \in Statuses(Head(todo).cmd, ws.tree), w \in Writes :
         /\ report' = Append(report, [cmd |-> Head(todo).cmd, status |-> status, ran |-> ws.tree])
         /\ ws' = WsWith(w) /\ seen' = SeenIn(TRUE, w)
    BY DEF RunInCandidate
<1>2. seen'.mirror = seen.mirror /\ (~seen'.dirty => ws' = ws /\ ~seen.dirty)
    BY <1>1, WriteSeen
<1>3. UNCHANGED <<mode, ops, stage>> /\ stage = "validate"
    BY DEF RunInCandidate, agent
<1>4. ASSUME ~seen.dirty, NEW i \in DOMAIN report' PROVE report'[i].ran = Candidate
  <2> DEFINE r == [cmd |-> Head(todo).cmd, status |-> status, ran |-> ws.tree]
  <2>1. r.ran = Candidate /\ \A j \in DOMAIN report : report[j].ran = Candidate
      BY <1>3, <1>4 DEF WorkspaceInv
  <2> HIDE DEF r
  <2>2. /\ report \in Seq(ReportType) /\ DOMAIN report = 1..Len(report) /\ Len(report) \in Nat
        /\ report' = Append(report, r)
      BY <1>1, MembersTyped DEF VerdictTyped, r
  <2>3. (i \in DOMAIN report /\ report'[i] = report[i]) \/ report'[i] = r
      BY <2>2, <1>4
  <2> QED BY <2>1, <2>3
<1> QED BY <1>2, <1>3, <1>4 DEF WorkspaceInv, Candidate, Prospective

LEMMA WorkspaceStep ==
    ASSUME AgentTyped, VerdictTyped, WorkspaceInv, [Next]_vars PROVE WorkspaceInv'
<1>1. CASE Edit
  <2>1. PICK w \in Writes : seen' = SeenIn(FALSE, w)
      BY <1>1 DEF Edit
  <2>2. seen'.mirror = seen.mirror /\ seen'.dirty = seen.dirty
      BY <2>1, WriteSeen
  <2> QED BY <1>1, <2>2, WorkspaceStays DEF Edit, agent, verdict, WorkspaceInv
<1>2. CASE Judge
  <2>1. /\ seen'.mirror = seen.mirror /\ seen'.dirty = seen.dirty
        /\ stage = "validate" /\ stage' \in {"loop", "finish"}
        /\ UNCHANGED <<mode, ws, ops, report>>
      BY <1>2 DEF Judge, After, AgentTyped, SeenType
  <2> QED BY <2>1, WorkspaceStays
<1>3. CASE Invalid \/ Raise \/ Finish \/ Prepare \/ Apply \/ Select \/ RunInProject \/ RunFullPlan
    BY <1>3, WorkspaceIdle
    DEF Invalid, Raise, Finish, Prepare, Apply, Select, RunInProject, RunFullPlan
<1>4. CASE UNCHANGED vars
    BY <1>4, WorkspaceStays DEF vars, WorkspaceInv
<1> QED BY <1>1, <1>2, <1>3, <1>4, WorkspaceStart, WorkspaceCall, WorkspacePropose,
           WorkspaceRebuild, WorkspaceRun DEF Next, Step

\* What is validated is BASE plus the current operations: every candidate is taken back
\* before the next one, from what was frozen when its paths were first touched
\* (CandidateWorkspace.rebuild), so nothing of a candidate is left in a later one.
THEOREM CandidatesAreWhole == Spec => []CandidateIsBasePlusOps
<1>1. Init => AgentTyped /\ VerdictTyped /\ WorkspaceInv
    BY TypeInit, WorkspaceInit
<1>2. AgentTyped /\ VerdictTyped /\ WorkspaceInv /\ [Next]_vars
        => (AgentTyped /\ VerdictTyped /\ WorkspaceInv)'
    BY TypeStep, WorkspaceStep
<1>3. WorkspaceInv => CandidateIsBasePlusOps
    BY DEF WorkspaceInv, Candidate, CandidateIsBasePlusOps
<1> QED BY <1>1, <1>2, <1>3, PTL DEF Spec


-----------------------------------------------------------------------------
(* What is handed over was proven, what is applied is what was handed over. *)

LEMMA HandOverInit == Init => HandOverInv
BY DEF Init, HandOverInv

\* Steps before a verdict, with no operations to hand over: nothing is proven yet, and
\* the project is as it was mirrored but for what others edited.
Early == {"loop", "rebuild", "validate", "finish"}
LEMMA HandOverEarly ==
    ASSUME stage' \in Early, outcome' \in {"none", "failed", "invalid"},
           stage' = "validate" => iterations' > 0,
           Prospective' => \A f \in Files : Unedited(f)' => tree'[f] = seen'.mirror[f]
    PROVE  HandOverInv'
BY DEF HandOverInv, Early

\* An attempt that is over, or never had a candidate.
LEMMA HandOverOver ==
    ASSUME stage' \in {"failed", "raised"}, HandOverInv, Prospective' => Prospective,
           UNCHANGED <<ops, report, iterations, outcome, seen>>
    PROVE  HandOverInv'
BY DEF HandOverInv, Proven, Candidate, Prospective

LEMMA HandOverEdit == ASSUME AgentTyped, HandOverInv, Edit PROVE HandOverInv'
<1>1. PICK w \in Writes : tree' = TreeWith(w) /\ seen' = SeenIn(FALSE, w)
    BY DEF Edit
<1>2. /\ seen'.mirror = seen.mirror /\ seen'.proven = seen.proven /\ seen'.dirty = seen.dirty
      /\ seen.edited \subseteq seen'.edited
      /\ \A f \in Files \ seen'.edited : tree'[f] = tree[f]
    BY <1>1, WriteSeen
<1>3. UNCHANGED <<mode, ops, stage, iterations, outcome, report>>
    BY DEF Edit, agent, verdict
<1>4. Proven => Proven'
    BY <1>2, <1>3 DEF Proven, Candidate
<1>5. \A f \in Files : Unedited(f)' => Unedited(f) /\ tree'[f] = tree[f]
    BY <1>2 DEF Unedited
<1>6. Mirrored \cup Paths(ops) \subseteq Files
    BY OpsTyped, ConstantsTyped DEF AgentTyped
<1> QED BY <1>2, <1>3, <1>4, <1>5, <1>6 DEF HandOverInv, Prospective

LEMMA HandOverStart == ASSUME AgentTyped, HandOverInv, Start PROVE HandOverInv'
<1>1. UNCHANGED <<mode, tree, ops, report, iterations, outcome>> /\ stage = "start"
    BY DEF Start, agent, verdict
<1>2. CASE Prospective /\ stage' = "loop" /\ seen' = [seen EXCEPT !.mirror = Mirror(tree)]
  <2>1. seen'.mirror = Mirror(tree)
      BY <1>2 DEF AgentTyped, SeenType
  <2>2. \A f \in Mirrored : tree'[f] = seen'.mirror[f]
      BY <1>1, <2>1, MirrorTyped DEF AgentTyped
  <2> QED BY <1>1, <1>2, <2>2, HandOverEarly DEF HandOverInv, Early, Unedited
<1>3. CASE ~Prospective /\ stage' = "loop"
    BY <1>1, <1>3, HandOverEarly DEF HandOverInv, Early, Prospective
<1>4. CASE Prospective /\ stage' = "failed" /\ seen' = seen
    BY <1>1, <1>4, HandOverOver
<1> QED BY <1>2, <1>3, <1>4 DEF Start

\* The steps of the loop: the project is only written outside prospective mode.
LEMMA HandOverLoop ==
    ASSUME AgentTyped, HandOverInv, Call \/ Invalid \/ Propose PROVE HandOverInv'
<1>1. /\ stage = "loop" /\ stage' \in {"loop", "finish", "rebuild"}
      /\ UNCHANGED <<mode, outcome>>
    BY DEF Call, Invalid, Propose
<1>2. ASSUME Prospective
      PROVE  tree' = tree /\ seen'.mirror = seen.mirror /\ seen'.edited = seen.edited
  <2>1. CASE Call
    <3>1. PICK call \in Calls, w \in Writes, d \in {0, 1} :
            /\ tree' = (IF Prospective THEN tree ELSE TreeWith(w)) /\ Counted(w)
            /\ seen' = [SeenIn(Prospective, w) EXCEPT !.executed[call[1]] = @ + d]
        BY <2>1 DEF Call
    <3>2. SeenIn(TRUE, w) \in SeenType
        BY <3>1, WritesTyped
    <3>3. seen'.mirror = SeenIn(TRUE, w).mirror /\ seen'.edited = SeenIn(TRUE, w).edited
        BY <1>2, <3>1, <3>2 DEF SeenType
    <3> QED BY <1>2, <3>1, <3>3, WriteSeen
  <2>2. CASE Invalid \/ Propose
      BY <2>2 DEF Invalid, Propose
  <2> QED BY <2>1, <2>2
<1> QED BY <1>1, <1>2, HandOverEarly DEF HandOverInv, Early, Unedited, Prospective

LEMMA HandOverRebuild == ASSUME AgentTyped, HandOverInv, Rebuild PROVE HandOverInv'
<1>1. /\ stage = "rebuild" /\ UNCHANGED <<mode, tree>>
      /\ iterations' = iterations + 1 /\ iterations \in Nat
    BY DEF Rebuild, AgentTyped
<1>2. stage' \in {"validate", "loop", "finish"} /\ outcome' \in {"none", "failed", "invalid"}
    BY DEF Rebuild, RebuildFails, After, HandOverInv
<1>3. seen'.mirror = seen.mirror /\ seen'.edited = seen.edited
    BY DEF Rebuild, AgentTyped, SeenType
<1> QED BY <1>1, <1>2, <1>3, HandOverEarly DEF HandOverInv, Early, Unedited, Prospective

LEMMA HandOverRun == ASSUME AgentTyped, HandOverInv, RunInCandidate PROVE HandOverInv'
<1>1. UNCHANGED <<mode, tree, stage, iterations, outcome>> /\ stage = "validate"
    BY DEF RunInCandidate, agent
<1>2. PICK w \in Writes : seen' = SeenIn(TRUE, w)
    BY DEF RunInCandidate
<1>3. seen'.mirror = seen.mirror /\ seen'.edited = seen.edited
    BY <1>2, WriteSeen
<1> QED BY <1>1, <1>3, HandOverEarly DEF HandOverInv, Early, Unedited, Prospective

\* The verdict: a candidate that passed is what was proven.
LEMMA HandOverJudge ==
    ASSUME AgentTyped, WorkspaceInv, HandOverInv, Judge PROVE HandOverInv'
<1>1. /\ stage = "validate" /\ outcome' = Verdict /\ After(Verdict, iterations)
      /\ UNCHANGED <<mode, tree, ops, iterations, report>>
      /\ seen' = [seen EXCEPT !.proven = IF Verdict = "passed" THEN ws.tree ELSE @]
    BY DEF Judge
<1>2. /\ seen'.mirror = seen.mirror /\ seen'.edited = seen.edited /\ seen'.dirty = seen.dirty
      /\ Verdict = "passed" => seen'.proven = ws.tree
    BY <1>1 DEF AgentTyped, SeenType
<1>3. stage' \in {"loop", "finish"}
    BY <1>1 DEF After
<1>4. CASE Verdict = "failed"
    BY <1>1, <1>2, <1>3, <1>4, HandOverEarly DEF HandOverInv, Early, Unedited, Prospective
<1>5. CASE Verdict = "passed"
  <2>1. stage' = "finish"
      BY <1>1, <1>5 DEF After
  <2>2. \A i \in DOMAIN report : report[i].status # "failed"
      BY <1>5 DEF Verdict
  <2>3. Proven'
      BY <1>1, <1>2, <1>5, <2>2 DEF Proven, Candidate, HandOverInv, WorkspaceInv
  <2>4. Prospective' => \A f \in Files : Unedited(f)' => tree'[f] = seen'.mirror[f]
      BY <1>1, <1>2 DEF HandOverInv, Unedited, Prospective
  <2> QED BY <2>1, <2>3, <2>4 DEF HandOverInv
<1> QED BY <1>4, <1>5 DEF Verdict

LEMMA HandOverFinish == ASSUME AgentTyped, HandOverInv, Finish PROVE HandOverInv'
<1>1. /\ stage = "finish" /\ stage' \in {"apply", "failed"}
      /\ stage' = "apply" => Succeeded
      /\ UNCHANGED <<mode, tree, ops, iterations, outcome, report, seen>>
    BY DEF Finish, agent
<1>2. CASE stage' = "failed"
    BY <1>1, <1>2, HandOverOver DEF Prospective
<1>3. CASE stage' = "apply"
    BY <1>1, <1>3 DEF HandOverInv, Proven, Candidate, Succeeded, Unedited, Prospective
<1> QED BY <1>1, <1>2, <1>3

LEMMA HandOverPrepare == ASSUME AgentTyped, HandOverInv, Prepare PROVE HandOverInv'
<1>1. /\ stage = "apply" /\ stage' \in {"approval", "failed"}
      /\ UNCHANGED <<mode, tree, ops, iterations, outcome, report, seen>>
    BY DEF Prepare, agent, verdict
<1>2. CASE stage' = "failed"
    BY <1>1, <1>2, HandOverOver DEF Prospective
<1>3. CASE stage' = "approval"
    BY <1>1, <1>3 DEF HandOverInv, Proven, Candidate, Unedited, Prospective
<1> QED BY <1>1, <1>2, <1>3

\* Operations make of every tree the same files, so what others left alone becomes what
\* was proven.
LEMMA HandOverApply == ASSUME AgentTyped, HandOverInv, Apply PROVE HandOverInv'
<1>1. /\ stage = "approval" /\ stage' \in {"select", "failed"}
      /\ stage' = "select" => tree' = Applied(ops, tree)
      /\ UNCHANGED <<mode, ops, iterations, outcome, report, seen>>
    BY DEF Apply, agent, verdict
<1>2. CASE stage' = "failed"
    BY <1>1, <1>2, HandOverOver DEF Prospective
<1>3. CASE stage' = "select"
  <2>1. ASSUME Prospective, ~seen.dirty, NEW f \in (Mirrored \cup Paths(ops)) \ seen.edited
        PROVE  tree'[f] = seen.proven[f]
    <3>1. /\ tree \in Trees /\ seen.mirror \in Trees /\ ops \in Proposals \cup {<<>>}
          /\ f \in Files
        BY OpsTyped, ConstantsTyped DEF AgentTyped, SeenType
    <3>2. seen.proven = Applied(ops, seen.mirror)
        BY <1>1, <2>1 DEF HandOverInv, Proven, Candidate
    <3>3. /\ Applied(ops, tree)[f] = IF f \in Paths(ops) THEN Made(ops, f) ELSE tree[f]
          /\ Applied(ops, seen.mirror)[f] =
                IF f \in Paths(ops) THEN Made(ops, f) ELSE seen.mirror[f]
        BY <3>1, AppliedTyped
    <3>4. f \notin Paths(ops) => tree[f] = seen.mirror[f]
        BY <1>1, <2>1, <3>1 DEF HandOverInv, Unedited
    <3> QED BY <1>1, <1>3, <3>2, <3>3, <3>4
  <2>2. Prospective /\ outcome = "passed" => Proven'
      BY <1>1 DEF HandOverInv, Proven, Candidate
  <2> QED BY <1>1, <1>3, <2>1, <2>2 DEF HandOverInv, Prospective
<1> QED BY <1>1, <1>2, <1>3

\* After that only others write the project.
LEMMA HandOverLate ==
    ASSUME AgentTyped, HandOverInv, Select \/ RunInProject \/ RunFullPlan PROVE HandOverInv'
<1>1. /\ stage \in {"select", "targeted"} /\ stage' \in {"targeted", "done"}
      /\ UNCHANGED <<mode, ops, iterations, report>>
    BY DEF Select, RunInProject, RunFullPlan, verdict
<1>2. outcome' = "passed" => outcome = "passed"
    BY DEF Select, RunInProject, RunFullPlan
<1>3. /\ seen'.mirror = seen.mirror /\ seen'.proven = seen.proven /\ seen'.dirty = seen.dirty
      /\ seen.edited \subseteq seen'.edited
      /\ \A f \in Files \ seen'.edited : tree'[f] = tree[f]
  <2>1. CASE RunInProject
    <3>1. PICK w \in Writes : tree' = TreeWith(w) /\ seen' = SeenIn(FALSE, w)
        BY <2>1 DEF RunInProject
    <3> QED BY <3>1, WriteSeen
  <2>2. CASE Select
      BY <2>2 DEF Select, AgentTyped, SeenType
  <2>3. CASE RunFullPlan
      BY <2>3 DEF RunFullPlan
  <2> QED BY <2>1, <2>2, <2>3
<1>4. Proven => Proven'
    BY <1>1, <1>3 DEF Proven, Candidate
<1>5. Mirrored \cup Paths(ops) \subseteq Files
    BY OpsTyped, ConstantsTyped DEF AgentTyped
<1> QED BY <1>1, <1>2, <1>3, <1>4, <1>5 DEF HandOverInv, Prospective

LEMMA HandOverStep ==
    ASSUME AgentTyped, WorkspaceInv, HandOverInv, [Next]_vars PROVE HandOverInv'
<1>1. CASE Raise
    BY <1>1, HandOverOver DEF Raise, agent, verdict, Prospective
<1>2. CASE UNCHANGED vars
    BY <1>2 DEF vars, HandOverInv, Proven, Candidate, Unedited, Prospective
<1> QED BY <1>1, <1>2, HandOverEdit, HandOverStart, HandOverLoop, HandOverRebuild, HandOverRun,
           HandOverJudge, HandOverFinish, HandOverPrepare, HandOverApply, HandOverLate
        DEF Next, Step

\* Operations reach the approval only from a candidate whose commands all passed or were
\* skipped, and once applied the project is that candidate, but for what others edited
\* (_build_result; Orchestrator's apply).
THEOREM HandOversAreSound == Spec => []HandOverIsSound
<1>1. Init => AgentTyped /\ VerdictTyped /\ WorkspaceInv /\ HandOverInv
    BY TypeInit, WorkspaceInit, HandOverInit
<1>2. AgentTyped /\ VerdictTyped /\ WorkspaceInv /\ HandOverInv /\ [Next]_vars
        => (AgentTyped /\ VerdictTyped /\ WorkspaceInv /\ HandOverInv)'
    BY TypeStep, WorkspaceStep, HandOverStep
<1>3. HandOverInv => HandOverIsSound
    BY DEF HandOverInv, Proven, Candidate, HandOverIsSound, HandedOverWasProven,
           AppliedTreeWasValidated, HandedOver
<1> QED BY <1>1, <1>2, <1>3, PTL DEF Spec

-----------------------------------------------------------------------------
(* Evidence is reused only for what would pass.                            *)

LEMMA EvidenceInit == Init => EvidenceInv
<1>1. DOMAIN <<>> = {}
    OBVIOUS
<1> QED BY <1>1 DEF Init, EvidenceInv, EmptyLedger, NoResult

\* What an entry says that comes from somewhere else.
LEMMA GenuineMembers ==
    ASSUME NEW s, \A i \in DOMAIN s : Genuine(s[i]), NEW e \in ToSet(s)
    PROVE  Genuine(e)
BY DEF ToSet

LEMMA EvidenceRun ==
    ASSUME AgentTyped, VerdictTyped, EvidenceInv, RunInCandidate PROVE EvidenceInv'
<1>1. PICK status \in Statuses(Head(todo).cmd, ws.tree), w \in Writes :
         report' = Append(report, [cmd |-> Head(todo).cmd, status |-> status, ran |-> ws.tree])
    BY DEF RunInCandidate
<1> DEFINE r == [cmd |-> Head(todo).cmd, status |-> status, ran |-> ws.tree]
<1>2. Genuine(r)
    BY DEF Genuine, Statuses
<1> HIDE DEF r
<1>3. report \in Seq(ReportType) /\ DOMAIN report = 1..Len(report) /\ Len(report) \in Nat
    BY MembersTyped DEF VerdictTyped
<1>4. report' = Append(report, r)
    BY <1>1 DEF r
<1>5. \A i \in DOMAIN report' : (i \in DOMAIN report /\ report'[i] = report[i]) \/ report'[i] = r
    BY <1>3, <1>4
<1>6. UNCHANGED <<ledger, result>> /\ stage' # "targeted"
    BY DEF RunInCandidate
<1> QED BY <1>2, <1>5, <1>6 DEF EvidenceInv

LEMMA EvidenceJudge ==
    ASSUME AgentTyped, VerdictTyped, EvidenceInv, Judge PROVE EvidenceInv'
<1> DEFINE es == [i \in DOMAIN report |-> EvidenceOf(report[i])]
<1>1. ledger' = RecordEntries(ledger, es) /\ UNCHANGED <<report, result>> /\ stage' # "targeted"
    BY DEF Judge, After
<1>2. \A i \in DOMAIN report : report[i] \in ReportType
    BY MembersTyped DEF VerdictTyped
<1>3. \A i \in DOMAIN report : /\ EvidenceOf(report[i]) \in EntryType
                               /\ Genuine(EvidenceOf(report[i]))
    BY <1>2, EvidenceTyped DEF VerdictTyped, EvidenceInv
<1>4. es \in Seq(EntryType) /\ \A i \in DOMAIN es : Genuine(es[i])
  <2>1. Len(report) \in Nat /\ DOMAIN report = 1..Len(report)
      BY MembersTyped DEF VerdictTyped
  <2>2. es \in [1..Len(report) -> EntryType] /\ \A i \in DOMAIN es : Genuine(es[i])
      BY <1>3, <2>1
  <2> HIDE DEF es
  <2> QED BY <2>1, <2>2, SeqDef
<1> HIDE DEF es
<1>5. \A i \in DOMAIN ledger'.entries :
         ledger'.entries[i] \in ToSet(ledger.entries) \cup ToSet(es)
    BY <1>1, <1>4, RecordTyped DEF VerdictTyped, LedgerType
<1>6. \A e \in ToSet(ledger.entries) \cup ToSet(es) : Genuine(e)
    BY <1>4, GenuineMembers DEF EvidenceInv
<1> QED BY <1>1, <1>5, <1>6 DEF EvidenceInv

LEMMA EvidenceSelect ==
    ASSUME AgentTyped, VerdictTyped, EvidenceInv, Select PROVE EvidenceInv'
<1> DEFINE evidence == Reloaded(result.evidence)
<1>1. PICK im \in ImpactType : \E checks \in CheckSets : \E expired \in BOOLEAN :
           \E selected \in Seq(Commands) :
              LET reuse == ApplyReuse(selected, im, tree, evidence, checks, expired)
              IN /\ impact' = im /\ reused' = reuse.reused /\ ledger' = reuse.ledger
                 /\ todo' = Tier("targeted", reuse.remaining)
    BY Selected
<1>2. /\ evidence \in LedgerType
      /\ \A i \in DOMAIN evidence.entries : evidence.entries[i] \in ToSet(result.evidence)
    BY ReloadedTyped DEF VerdictTyped
<1>3. \A e \in ToSet(result.evidence) : Genuine(e)
    BY GenuineMembers DEF EvidenceInv
<1> HIDE DEF evidence
<1>4. PICK checks \in CheckSets, expired \in BOOLEAN, selected \in Seq(Commands) :
              LET reuse == ApplyReuse(selected, im, tree, evidence, checks, expired)
              IN reused' = reuse.reused /\ ledger' = reuse.ledger
    BY <1>1
<1> DEFINE reuse == ApplyReuse(selected, im, tree, evidence, checks, expired)
<1>5. /\ reuse.ledger.entries = evidence.entries
      /\ \A e \in reuse.reused : e.status = "passed" /\ e.print = ContentOf(tree, e.files)
    BY <1>2, ReuseTyped
<1>6. reused' = reuse.reused /\ ledger' = reuse.ledger
    BY <1>4
<1> HIDE DEF reuse
<1>7. UNCHANGED <<report, result>> /\ seen'.decided = tree
    BY DEF Select, AgentTyped, SeenType
<1>8. \A i \in DOMAIN ledger'.entries : Genuine(ledger'.entries[i])
    BY <1>2, <1>3, <1>5, <1>6
<1> QED BY <1>5, <1>6, <1>7, <1>8 DEF EvidenceInv

LEMMA EvidenceStep ==
    ASSUME AgentTyped, VerdictTyped, EvidenceInv, [Next]_vars PROVE EvidenceInv'
<1>1. CASE Rebuild
  <2>1. UNCHANGED <<ledger, result>> /\ report' \in {report, <<>>} /\ stage' # "targeted"
      BY <1>1 DEF Rebuild, RebuildFails, After
  <2>2. DOMAIN <<>> = {}
      OBVIOUS
  <2> QED BY <2>1, <2>2 DEF EvidenceInv
<1>2. CASE Finish
  <2>1. result'.evidence = ledger.entries /\ stage' # "targeted" /\ UNCHANGED <<report, ledger>>
      BY <1>2 DEF Finish
  <2> QED BY <2>1 DEF EvidenceInv
<1>3. CASE Start \/ Call \/ Invalid \/ Propose \/ Raise \/ Prepare \/ Apply \/ RunFullPlan
  <2>1. UNCHANGED <<report, ledger, result>> /\ stage' # "targeted"
      BY <1>3 DEF Start, Call, Invalid, Propose, Raise, Prepare, Apply, RunFullPlan, verdict
  <2> QED BY <2>1 DEF EvidenceInv
<1>4. CASE Edit \/ RunInProject
  <2>1. /\ UNCHANGED <<report, ledger, result, reused, stage>>
        /\ \E w \in Writes : seen' = SeenIn(FALSE, w)
      BY <1>4 DEF Edit, RunInProject, verdict
  <2>2. PICK w \in Writes : seen' = SeenIn(FALSE, w)
      BY <2>1
  <2>3. seen'.decided = seen.decided
      BY <2>2, WriteSeen
  <2> QED BY <2>1, <2>3 DEF EvidenceInv
<1>5. CASE UNCHANGED vars
    BY <1>5 DEF vars, EvidenceInv
<1> QED BY <1>1, <1>2, <1>3, <1>4, <1>5, EvidenceRun, EvidenceJudge, EvidenceSelect
        DEF Next, Step

\* A command is dropped because of evidence only if it would pass now, as far as it reads
\* what the impact analysis relates to the change (EvidenceLedger.find_reusable).
THEOREM ReuseIsSound == Spec => []ReusedWouldPass
<1>1. Init => AgentTyped /\ VerdictTyped /\ EvidenceInv
    BY TypeInit, EvidenceInit
<1>2. AgentTyped /\ VerdictTyped /\ EvidenceInv /\ [Next]_vars
        => (AgentTyped /\ VerdictTyped /\ EvidenceInv)'
    BY TypeStep, EvidenceStep
<1>3. VerdictTyped /\ EvidenceInv => ReusedWouldPass
  <2> SUFFICES ASSUME VerdictTyped, EvidenceInv, stage = "targeted", NEW e \in reused,
                      Reads[e.cmd] \subseteq e.files, ContentOf(e.ran, e.files) = e.print
               PROVE  Passes(e.cmd, seen.decided)
      BY DEF ReusedWouldPass
  <2>1. Passes(e.cmd, e.ran) /\ e.print = ContentOf(seen.decided, e.files)
    <3>1. e \in ToSet(result.evidence) /\ e.status = "passed"
        BY DEF VerdictTyped, EvidenceInv
    <3>2. Genuine(e)
        BY <3>1, GenuineMembers DEF EvidenceInv
    <3> QED BY <3>1, <3>2 DEF Genuine, EvidenceInv
  <2>2. \A f \in e.files : e.ran[f] = seen.decided[f]
    <3>1. \A f \in e.files : /\ ContentOf(e.ran, e.files)[f] = e.ran[f]
                             /\ ContentOf(seen.decided, e.files)[f] = seen.decided[f]
        BY DEF ContentOf
    <3> QED BY <2>1, <3>1
  <2> QED BY <2>1, <2>2 DEF Passes
<1> QED BY <1>1, <1>2, <1>3, PTL DEF Spec
=============================================================================
