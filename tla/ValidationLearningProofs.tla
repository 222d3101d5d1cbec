---------------------- MODULE ValidationLearningProofs ----------------------
(***************************************************************************)
(* Proofs about the shared history and telemetry, for any number of runs,   *)
(* any bounds of the stores and any reports: who has loaded a file holds its *)
(* lock; and when all runs share a project root no update is lost, damage is *)
(* remembered, repair chains are causal and a narrower shadow was earned.   *)
(* And, at the end, about the analysis those reports come from: in any      *)
(* repository and under any bounds, a sure and narrow report is complete.   *)
(***************************************************************************)
EXTENDS ValidationLearning, SemanticImpact, SequenceTheorems, FiniteSetTheorems,
        WellFoundedInduction, TLAPS

-----------------------------------------------------------------------------
(* Natural numbers.                                                        *)

\* A set of natural numbers that is not empty has a least element
LEMMA LeastMember ==
    ASSUME NEW T \in SUBSET Nat, T # {}
    PROVE  \E x \in T : \A y \in T : x <= y
<1> DEFINE R == OpToRel(<, Nat)
<1>1. IsWellFoundedOn(R, Nat)
  BY NatLessThanWellFounded
<1>2. \A p : p \in R <=> p \in Nat \X Nat /\ p[1] < p[2]
  BY DEF OpToRel
<1> HIDE DEF R
<1>3. PICK x \in T : \A y \in T : ~(<<y, x>> \in R)
  BY <1>1, WFMin
<1>4. \A y \in T : <<y, x>> \in R <=> y < x
  BY <1>2
<1>5. \A y \in T : x \in Nat /\ y \in Nat /\ ~(y < x)
  BY <1>3, <1>4
<1>6. \A y \in T : x <= y
  BY <1>5
<1> QED BY <1>6

\* Induction over the natural numbers
LEMMA Induction ==
    ASSUME NEW T \in SUBSET Nat, 0 \in T, \A n \in T : n + 1 \in T
    PROVE  T = Nat
<1> DEFINE Out == Nat \ T
<1> SUFFICES ASSUME Out # {} PROVE FALSE
  OBVIOUS
<1>1. PICK x \in Out : \A y \in Out : x <= y
  BY LeastMember
<1>2. x - 1 \in Nat /\ x - 1 + 1 = x
  BY <1>1
<1>3. x - 1 \in T
  BY <1>1, <1>2
<1> QED BY <1>2, <1>3

\* A bounded set of natural numbers has a greatest element
LEMMA Greatest ==
    ASSUME NEW n \in Nat, NEW S, S \subseteq 0..n, S # {}
    PROVE  \E k \in S : \A j \in S : j <= k
<1> DEFINE T == { n - k : k \in S }
<1>1. T \subseteq Nat /\ T # {}
  <2>1. \A k \in S : n - k \in Nat
    OBVIOUS
  <2>2. PICK k \in S : TRUE
    OBVIOUS
  <2>3. n - k \in T
    BY <2>2
  <2> QED BY <2>1, <2>3
<1>2. PICK x \in T : \A y \in T : x <= y
  BY <1>1, LeastMember
<1>3. PICK k \in S : x = n - k
  OBVIOUS
<1>4. \A j \in S : n - k <= n - j
  BY <1>2, <1>3
<1> QED BY <1>4

-----------------------------------------------------------------------------
(* What is still readable of a damaged history.                            *)

\* The recursion of Readable
Looped(q, g) ==
    [n \in 0..Len(q) |->
        IF n = 0 THEN <<>>
        ELSE IF q[n] = Broken THEN g[n - 1] ELSE Append(g[n - 1], q[n])]

\* There is such a function
LEMMA LoopExists ==
    ASSUME NEW S, NEW q \in Seq(S)
    PROVE  \E g \in [0..Len(q) -> Seq(S)] : g = Looped(q, g)
<1> DEFINE n == Len(q)
           Next1(h, i) == IF q[i] = Broken THEN h ELSE Append(h, q[i])
           Upto(g, m) == g[0] = <<>> /\ \A i \in 1..m : g[i] = Next1(g[i - 1], i)
           N == { m \in Nat : m <= n => \E g \in [0..m -> Seq(S)] : Upto(g, m) }
<1>0. n \in Nat /\ \A i \in 1..n : q[i] \in S
  BY LenProperties, ElementOfSeq
<1>1. 0 \in N
  <2>1. [i \in 0..0 |-> <<>>] \in [0..0 -> Seq(S)]
    OBVIOUS
  <2>2. Upto([i \in 0..0 |-> <<>>], 0)
    OBVIOUS
  <2> QED BY <2>1, <2>2
<1>2. ASSUME NEW m \in N PROVE m + 1 \in N
  <2> HIDE DEF Upto
  <2> SUFFICES ASSUME m + 1 <= n PROVE \E g \in [0..m + 1 -> Seq(S)] : Upto(g, m + 1)
    BY m \in Nat /\ m + 1 \in Nat
  <2>1. m \in Nat /\ m + 1 \in 1..n /\ m <= n
    BY <1>0
  <2>2. PICK g \in [0..m -> Seq(S)] : Upto(g, m)
    BY <2>1
  <2> USE DEF Upto
  <2> DEFINE h == [i \in 0..m + 1 |-> IF i <= m THEN g[i] ELSE Next1(g[m], m + 1)]
  <2> HIDE DEF n
  <2>3. g[m] \in Seq(S) /\ q[m + 1] \in S
    BY <1>0, <2>1
  <2>4. Next1(g[m], m + 1) \in Seq(S)
    BY <2>3, AppendProperties
  <2>5. h \in [0..m + 1 -> Seq(S)]
    <3> HIDE DEF Next1
    <3> QED BY <2>1, <2>4
  <2>6. Upto(h, m + 1)
    <3> HIDE DEF Next1
    <3>1. h[0] = <<>>
      BY <2>1, <2>2
    <3>2. ASSUME NEW i \in 1..m + 1 PROVE h[i] = Next1(h[i - 1], i)
      <4>1. CASE i <= m
        <5>1. i \in 1..m /\ i - 1 \in 0..m /\ i \in 0..m + 1 /\ i - 1 \in 0..m + 1
              /\ i <= m /\ i - 1 <= m
          BY <2>1, <4>1
        <5> QED BY <2>2, <5>1
      <4>2. CASE i = m + 1
        <5>1. i - 1 = m /\ m \in 0..m + 1 /\ i \in 0..m + 1 /\ ~(i <= m) /\ m <= m
          BY <2>1, <4>2
        <5> QED BY <4>2, <5>1
      <4> QED BY <2>1, <4>1, <4>2
    <3> QED BY <3>1, <3>2
  <2> HIDE DEF h
  <2> QED BY <2>5, <2>6
<1>3. n \in N
  <2> HIDE DEF N
  <2>1. N \in SUBSET Nat
    BY DEF N
  <2> QED BY <1>0, <1>1, <1>2, <2>1, Induction
<1>4. PICK g \in [0..n -> Seq(S)] : Upto(g, n)
  <2> HIDE DEF Upto
  <2> QED BY <1>0, <1>3
<1>5. ASSUME NEW i \in 0..n
      PROVE  g[i] = IF i = 0 THEN <<>>
                    ELSE IF q[i] = Broken THEN g[i - 1] ELSE Append(g[i - 1], q[i])
  <2>1. CASE i = 0
    BY <1>4, <2>1
  <2>2. CASE i # 0
    <3>1. i \in 1..n
      BY <1>0, <2>2
    <3> QED BY <1>4, <2>2, <3>1
  <2> QED BY <2>1, <2>2
<1>6. g = Looped(q, g)
  BY <1>5 DEF Looped
<1> QED BY <1>6

\* Of the first m entries of the sequence, p picks those that are not broken, in
\* their order
Picks(q, m, at, p) ==
    /\ p = [i \in 1..Len(at) |-> q[at[i]]]
    /\ \A i \in 1..Len(at) : at[i] \in Nat /\ q[at[i]] # Broken
    /\ \A i, j \in 1..Len(at) : i < j => at[i] < at[j]
    /\ \A k \in 1..m : q[k] # Broken => \E i \in 1..Len(at) : at[i] = k

\* Readable does, and that is all of them when none is broken
LEMMA ReadablePicks ==
    ASSUME NEW S, NEW q \in Seq(S)
    PROVE  /\ \E at \in Seq(1..Len(q)) : Len(at) <= Len(q) /\ Picks(q, Len(q), at, Readable(q))
           /\ ~IsDamaged(q) => Readable(q) = q
<1> DEFINE g == CHOOSE f : f = Looped(q, f)
           Same(m) == g[m] = [i \in 1..m |-> q[i]]
           Claim(m) == /\ \E at \in Seq(1..m) : Len(at) <= m /\ Picks(q, m, at, g[m])
                       /\ ~IsDamaged(q) => Same(m)
           N == { m \in Nat : m <= Len(q) => Claim(m) }
<1>1. g = Looped(q, g)
  <2>1. \E f : f = Looped(q, f)
    BY LoopExists
  <2> QED BY <2>1
<1>2. Readable(q) = g[Len(q)]
  BY DEF Readable, Looped
<1> HIDE DEF g
<1>3. Len(q) \in Nat /\ DOMAIN q = 1..Len(q) /\ q = [i \in 1..Len(q) |-> q[i]]
  BY LenProperties
<1>4. 0 \in N
  <2>1. g[0] = <<>>
    BY <1>1, <1>3 DEF Looped
  <2> DEFINE none == <<>>
  <2>2. none \in Seq(1..0) /\ Len(none) = 0
    OBVIOUS
  <2> HIDE DEF none
  <2>3. 1..Len(none) = {} /\ g[0] = [i \in 1..Len(none) |-> q[none[i]]]
    <3>1. 1..Len(none) = {}
      BY <2>2
    <3>2. [i \in 1..Len(none) |-> q[none[i]]] = <<>>
      BY <3>1
    <3> QED BY <2>1, <3>1, <3>2
  <2>4. Picks(q, 0, none, g[0])
    BY <2>3 DEF Picks
  <2>5. ~IsDamaged(q) => Same(0)
    BY <2>1
  <2>6. Claim(0)
    <3>1. Len(none) <= 0
      BY <2>2
    <3> HIDE DEF Same
    <3> QED BY <2>2, <2>4, <2>5, <3>1
  <2> HIDE DEF Claim
  <2> QED BY <1>3, <2>6
<1>5. ASSUME NEW m \in N PROVE m + 1 \in N
  <2> HIDE DEF Claim
  <2> SUFFICES ASSUME m + 1 <= Len(q) PROVE Claim(m + 1)
    BY m \in Nat /\ m + 1 \in Nat
  <2>1. m \in Nat /\ m + 1 \in 1..Len(q) /\ m <= Len(q) /\ m + 1 \in 0..Len(q)
        /\ m + 1 # 0 /\ (m + 1) - 1 = m
    BY <1>3
  <2>2. Claim(m)
    BY <2>1
  <2> USE DEF Claim
  <2>3. PICK at \in Seq(1..m) : Len(at) <= m /\ Picks(q, m, at, g[m])
    BY <2>2
  <2> DEFINE k == m + 1
  <2>4. k \in Nat /\ k \in 0..Len(q) /\ k # 0 /\ k - 1 = m /\ k \in 1..k
    BY <2>1
  <2> HIDE DEF k
  <2>5. g[k] = IF q[k] = Broken THEN g[m] ELSE Append(g[m], q[k])
    BY <1>1, <2>4 DEF Looped
  <2>6. Len(at) \in Nat /\ DOMAIN at = 1..Len(at) /\ \A i \in 1..Len(at) : at[i] \in 1..m
    BY LenProperties, ElementOfSeq
  <2>7. 1..m \subseteq 1..k /\ \A i \in 1..m : i < k
    BY <2>1, <2>4
  <2>8. CASE q[k] = Broken
    <3>1. at \in Seq(1..k) /\ Len(at) <= k
      BY <2>3, <2>4, <2>6, <2>7, SeqMonotonic
    <3>2. IsDamaged(q)
      BY <1>3, <2>1, <2>8 DEF IsDamaged, k
    <3>3. Picks(q, k, at, g[k])
      <4>1. \A i \in 1..k : i \in 1..m \/ i = k
        BY <2>1, <2>4
      <4> QED BY <4>1, <2>3, <2>5, <2>8 DEF Picks
    <3> QED BY <3>1, <3>2, <3>3 DEF k
  <2>9. CASE q[k] # Broken
    <3> DEFINE new == Append(at, k)
               l == Len(at)
    <3>1. at \in Seq(1..k)
      BY <2>7, SeqMonotonic
    <3>2. new \in Seq(1..k) /\ Len(new) = l + 1 /\ Len(new) <= k
          /\ (\A i \in 1..l : new[i] = at[i]) /\ new[l + 1] = k
      BY <3>1, <2>3, <2>4, <2>6, AppendProperties
    <3>3. g[k] = [i \in 1..Len(new) |-> q[new[i]]]
      <4>1. g[k] = Append([i \in 1..l |-> q[at[i]]], q[k])
        BY <2>3, <2>5, <2>9 DEF Picks
      <4>2. Append([i \in 1..l |-> q[at[i]]], q[k])
              = [i \in 1..l + 1 |-> IF i <= l THEN q[at[i]] ELSE q[k]]
        BY <2>6
      <4>3. \A i \in 1..l + 1 : (IF i <= l THEN q[at[i]] ELSE q[k]) = q[new[i]]
        <5> SUFFICES ASSUME NEW i \in 1..l + 1
                     PROVE  (IF i <= l THEN q[at[i]] ELSE q[k]) = q[new[i]]
          OBVIOUS
        <5>1. i <= l => i \in 1..l
          BY <2>6
        <5>2. ~(i <= l) => i = l + 1
          BY <2>6
        <5> HIDE DEF new, l
        <5> QED BY <3>2, <5>1, <5>2
      <4> HIDE DEF new, l
      <4> QED BY <3>2, <4>1, <4>2, <4>3
    <3>4. Picks(q, k, new, g[k])
      <4>1. \A i \in 1..Len(new) : new[i] \in Nat /\ q[new[i]] # Broken
        <5> SUFFICES ASSUME NEW i \in 1..Len(new) PROVE new[i] \in Nat /\ q[new[i]] # Broken
          OBVIOUS
        <5>1. i \in 1..l \/ i = l + 1
          BY <2>6, <3>2
        <5>2. i \in 1..l => new[i] = at[i] /\ at[i] \in Nat /\ q[at[i]] # Broken
          BY <2>3, <3>2 DEF Picks
        <5> HIDE DEF new, l
        <5> QED BY <3>2, <2>4, <2>9, <5>1, <5>2
      <4>2. \A i, j \in 1..Len(new) : i < j => new[i] < new[j]
        <5> SUFFICES ASSUME NEW i \in 1..Len(new), NEW j \in 1..Len(new), i < j
                     PROVE  new[i] < new[j]
          OBVIOUS
        <5>0. l \in Nat /\ Len(new) = l + 1
          BY <2>6, <3>2
        <5>1. i \in 1..l /\ (j \in 1..l \/ j = l + 1)
          <6> HIDE DEF new, l
          <6> QED BY <5>0
        <5>2. j \in 1..l => new[j] = at[j] /\ at[i] < at[j]
          BY <2>3, <3>2, <5>1 DEF Picks
        <5>3. new[i] = at[i] /\ at[i] < k
          BY <2>6, <2>7, <3>2, <5>1
        <5> HIDE DEF new, l
        <5> QED BY <3>2, <5>1, <5>2, <5>3
      <4>3. \A j \in 1..k : q[j] # Broken => \E i \in 1..Len(new) : new[i] = j
        <5> SUFFICES ASSUME NEW j \in 1..k, q[j] # Broken
                     PROVE  \E i \in 1..Len(new) : new[i] = j
          OBVIOUS
        <5>1. j \in 1..m \/ j = k
          BY <2>1, <2>4
        <5>2. l \in Nat /\ Len(new) = l + 1 /\ l + 1 \in 1..Len(new) /\ 1..l \subseteq 1..Len(new)
          BY <2>6, <3>2
        <5>3. j \in 1..m => \E i \in 1..l : at[i] = j
          BY <2>3 DEF Picks
        <5> HIDE DEF new, l
        <5> QED BY <3>2, <5>1, <5>2, <5>3
      <4> HIDE DEF new
      <4> QED BY <3>3, <4>1, <4>2, <4>3 DEF Picks
    <3>5. ~IsDamaged(q) => Same(k)
      <4> SUFFICES ASSUME ~IsDamaged(q) PROVE Same(k)
        OBVIOUS
      <4>1. g[k] = Append([i \in 1..m |-> q[i]], q[k])
        BY <2>2, <2>5, <2>9
      <4>2. k = m + 1
        BY DEF k
      <4>3. Append([i \in 1..m |-> q[i]], q[k]) = [i \in 1..m + 1 |-> q[i]]
        BY <2>1, <4>2
      <4> QED BY <4>1, <4>2, <4>3
    <3> HIDE DEF new
    <3> QED BY <3>2, <3>4, <3>5 DEF k
  <2> QED BY <2>8, <2>9
<1>6. Len(q) \in N
  <2> HIDE DEF N
  <2>1. N \in SUBSET Nat
    BY DEF N
  <2> QED BY <1>3, <1>4, <1>5, <2>1, Induction
<1>7. Claim(Len(q))
  <2> HIDE DEF Claim
  <2> QED BY <1>3, <1>6
<1> QED BY <1>2, <1>3, <1>7

-----------------------------------------------------------------------------
(* Stores without broken entries.  A broken entry has no name.             *)

Name(e) == "id" \in DOMAIN e /\ e.id # NoParent
Named(q) == \E S : q \in Seq(S) /\ \A e \in S : Name(e)
WholeHistory(s) ==
    /\ s = [corrupt |-> s.corrupt, records |-> s.records]
    /\ s.corrupt \in BOOLEAN /\ Named(s.records)
\* In a file entries may be broken
Entries(q) == \E S : q \in Seq(S) /\ \A e \in S : Name(e) \/ e = Broken
FiledHistory(s) ==
    /\ s = [corrupt |-> s.corrupt, records |-> s.records]
    /\ s.corrupt \in BOOLEAN /\ Entries(s.records)
WholeTelemetry(s) ==
    /\ s = [corrupt |-> s.corrupt, decisions |-> s.decisions, observations |-> s.observations]
    /\ s.corrupt \in BOOLEAN /\ Named(s.decisions) /\ Named(s.observations)

\* A sequence over a set of entries with names
LEMMA OverNamed ==
    ASSUME NEW S, NEW q \in Seq(S), \A e \in S : Name(e)
    PROVE  Named(q)
BY DEF Named

\* Nothing is in an empty sequence
LEMMA EmptyNamed == Named(<<>>)
<1> DEFINE none == {}
<1>1. <<>> \in Seq(none) /\ \A e \in none : Name(e)
  OBVIOUS
<1> HIDE DEF none
<1> QED BY <1>1, OverNamed

\* Every entry of such a sequence has a name
LEMMA EntryNamed ==
    ASSUME NEW q, Named(q), NEW k \in DOMAIN q
    PROVE  Name(q[k])
<1>1. PICK S : q \in Seq(S) /\ \A e \in S : Name(e)
  BY DEF Named
<1>2. q[k] \in S
  BY <1>1
<1> QED BY <1>1, <1>2

\* An entry with a name may be appended
LEMMA AppendNamed ==
    ASSUME NEW q, Named(q), NEW e, Name(e)
    PROVE  Named(Append(q, e))
<1>1. PICK S : q \in Seq(S) /\ \A x \in S : Name(x)
  BY DEF Named
<1>2. q \in Seq(S \cup {e})
  BY <1>1
<1>3. Append(q, e) \in Seq(S \cup {e})
  BY <1>2
<1>4. \A x \in S \cup {e} : Name(x)
  BY <1>1
<1> QED BY <1>3, <1>4 DEF Named

\* What is kept of such a sequence has names
LEMMA KeepNamed ==
    ASSUME NEW q, Named(q), NEW n \in Nat
    PROVE  Named(KeepNewest(q, n)) /\ Named(Kept(q, n))
<1>1. PICK S : q \in Seq(S) /\ \A e \in S : Name(e)
  BY DEF Named
<1>2. KeepNewest(q, n) \in Seq(S) /\ Kept(q, n) \in Seq(S)
  BY <1>1 DEF KeepNewest, Kept
<1> QED BY <1>1, <1>2 DEF Named

\* An entry may be replaced by one with a name
LEMMA PutNamed ==
    ASSUME NEW q, Named(q), NEW k, NEW e, Name(e)
    PROVE  Named([q EXCEPT ![k] = e])
<1>1. PICK S : q \in Seq(S) /\ \A x \in S : Name(x)
  BY DEF Named
<1>2. [q EXCEPT ![k] = e] \in Seq(S \cup {e})
  <2>1. CASE k \in DOMAIN q
    <3>1. q \in Seq(S \cup {e}) /\ k \in 1..Len(q)
      BY <1>1, <2>1
    <3> QED BY <3>1, ExceptSeq
  <2>2. CASE k \notin DOMAIN q
    <3>1. q = [i \in DOMAIN q |-> q[i]]
      BY <1>1
    <3>2. [q EXCEPT ![k] = e] = [i \in DOMAIN q |-> q[i]]
      BY <2>2
    <3>3. q \in Seq(S \cup {e})
      BY <1>1
    <3> QED BY <3>1, <3>2, <3>3
  <2> QED BY <2>1, <2>2
<1>3. \A x \in S \cup {e} : Name(x)
  BY <1>1
<1> QED BY <1>2, <1>3 DEF Named

-----------------------------------------------------------------------------
(* What the managers make of such stores.                                  *)

\* What a file is loaded as is whole; it is marked when anything was lost
LEMMA LoadWhole ==
    ASSUME NEW f, FiledHistory(f.store)
    PROVE  /\ WholeHistory(Load(f))
           /\ f.form = "malformed" \/ IsDamaged(f.store.records) => Load(f).corrupt = TRUE
<1> DEFINE q == f.store.records
<1>1. PICK S : q \in Seq(S) /\ \A e \in S : Name(e) \/ e = Broken
  BY DEF FiledHistory, Entries
<1>2. PICK at \in Seq(1..Len(q)) : Picks(q, Len(q), at, Readable(q))
  BY <1>1, ReadablePicks
<1>3. Named(Readable(q))
  <2> DEFINE T == { e \in S : Name(e) }
  <2>1. \A i \in 1..Len(at) : q[at[i]] \in T
    <3> SUFFICES ASSUME NEW i \in 1..Len(at) PROVE q[at[i]] \in T
      OBVIOUS
    <3>1. at[i] \in 1..Len(q) /\ q[at[i]] # Broken
      BY <1>2 DEF Picks
    <3> QED BY <1>1, <3>1
  <2>2. Readable(q) \in Seq(T)
    <3>1. Len(at) \in Nat
      OBVIOUS
    <3>2. [i \in 1..Len(at) |-> q[at[i]]] \in Seq(T)
      <4> HIDE DEF T
      <4> QED BY <2>1, <3>1
    <3> QED BY <1>2, <3>2 DEF Picks
  <2> QED BY <2>2 DEF Named
<1>4. /\ Load(f) = [corrupt |-> \/ f.form = "malformed" \/ f.store.corrupt \/ IsDamaged(q),
                    records |-> Readable(q)]
      /\ f.store.corrupt \in BOOLEAN /\ IsDamaged(q) \in BOOLEAN
  BY DEF Load, FiledHistory, IsDamaged
<1> HIDE DEF q
<1>5. Load(f).corrupt \in BOOLEAN /\ Load(f).records = Readable(q)
      /\ Load(f) = [corrupt |-> Load(f).corrupt, records |-> Load(f).records]
  BY <1>4
<1>6. f.form = "malformed" \/ IsDamaged(q) => Load(f).corrupt = TRUE
  BY <1>4
<1> QED BY <1>3, <1>5, <1>6 DEF WholeHistory, q

\* A file made from such a store gives the store back
LEMMA LoadHistory ==
    ASSUME NEW s, WholeHistory(s)
    PROVE  Load(FileOf(s)) = s /\ FiledHistory(FileOf(s).store)
<1>1. PICK S : s.records \in Seq(S) /\ \A e \in S : Name(e)
  BY DEF WholeHistory, Named
<1>2. ~IsDamaged(s.records)
  <2>1. \A k \in DOMAIN s.records : s.records[k] # Broken
    BY EntryNamed DEF WholeHistory, Name, Broken
  <2> QED BY <2>1 DEF IsDamaged
<1>3. /\ FileOf(s).form = "json" /\ FileOf(s).store = s
  BY DEF FileOf
<1>4. Readable(s.records) = s.records
  BY <1>1, <1>2, ReadablePicks
<1>5. Load(FileOf(s)).records = s.records
  BY <1>3, <1>4 DEF Load
<1>6. Load(FileOf(s)).corrupt = s.corrupt
  BY <1>2, <1>3 DEF Load, WholeHistory
<1>7. Load(FileOf(s)) = [corrupt |-> Load(FileOf(s)).corrupt, records |-> Load(FileOf(s)).records]
  BY DEF Load
<1>8. FiledHistory(s)
  BY <1>1 DEF FiledHistory, WholeHistory, Entries
<1> QED BY <1>3, <1>5, <1>6, <1>7, <1>8 DEF WholeHistory

\* A file made from a whole telemetry gives it back
LEMMA LoadDecisions ==
    ASSUME NEW s, WholeTelemetry(s)
    PROVE  LoadTelemetry(FileOf(s)) = s
<1>1. /\ Unbroken(s.decisions) = s.decisions
      /\ Unbroken(s.observations) = s.observations
  <2>1. ASSUME NEW q, Named(q) PROVE Unbroken(q) = q
    <3>1. \A k \in DOMAIN q : ~IsBroken(q[k])
      BY <2>1, EntryNamed DEF IsBroken, Name, NoParent
    <3> QED BY <3>1 DEF Unbroken
  <2> QED BY <2>1 DEF WholeTelemetry
<1>2. /\ FileOf(s).form = "json" /\ FileOf(s).store = s
  BY DEF FileOf
<1>3. LoadTelemetry(FileOf(s)) =
        [corrupt |-> \/ s.corrupt
                     \/ Unbroken(s.decisions) # s.decisions
                     \/ Unbroken(s.observations) # s.observations,
         decisions |-> Unbroken(s.decisions),
         observations |-> Unbroken(s.observations)]
  BY <1>2 DEF LoadTelemetry
<1>4. (\/ s.corrupt \/ Unbroken(s.decisions) # s.decisions
       \/ Unbroken(s.observations) # s.observations) = s.corrupt
  BY <1>1 DEF WholeTelemetry
<1> QED BY <1>1, <1>3, <1>4 DEF WholeTelemetry

\* Recording a lifecycle with a name keeps the store whole, and its mark
LEMMA RecordWhole ==
    ASSUME NEW s, WholeHistory(s), NEW r, Name(r)
    PROVE  WholeHistory(Record(s, r)) /\ Record(s, r).corrupt = s.corrupt
<1>1. MaxLifecycles \in Nat
  BY LifecycleAssumption
<1>2. \A q : Named(q) => /\ WholeHistory([s EXCEPT !.records = q])
                         /\ [s EXCEPT !.records = q].corrupt = s.corrupt
  BY DEF WholeHistory
<1>3. CASE Places(s, r.id) # {}
  <2> DEFINE k == CHOOSE k \in Places(s, r.id) : \A j \in Places(s, r.id) : k <= j
  <2>1. Record(s, r) = [s EXCEPT !.records = [s.records EXCEPT ![k] = r]]
    BY <1>3 DEF Record, WholeHistory
  <2> HIDE DEF k
  <2>2. Named([s.records EXCEPT ![k] = r])
    BY PutNamed DEF WholeHistory
  <2> QED BY <1>2, <2>1, <2>2
<1>4. CASE Places(s, r.id) = {}
  <2>1. Record(s, r) = [s EXCEPT !.records = KeepNewest(Append(s.records, r), MaxLifecycles)]
    BY <1>4 DEF Record, WholeHistory
  <2>2. Named(KeepNewest(Append(s.records, r), MaxLifecycles))
    BY <1>1, AppendNamed, KeepNamed DEF WholeHistory
  <2> QED BY <1>2, <2>1, <2>2
<1> QED BY <1>3, <1>4

\* So does every hook that changes the history
LEMMA HistoryAfterWhole ==
    ASSUME NEW t \in Threads, NEW s, WholeHistory(s)
    PROVE  WholeHistory(HistoryAfter(t, s)) /\ HistoryAfter(t, s).corrupt = s.corrupt
<1> DEFINE found == Find(s, run[t].id)
           mine == CHOOSE m \in found : TRUE
<1>2. Name(NewLifecycle(LifecycleId(t)))
  BY DEF Name, NewLifecycle, LifecycleId, NoParent
<1>3. found # {} => Name(mine)
  <2>1. \A m \in found : Name(m)
    BY EntryNamed DEF Find, Places, WholeHistory
  <2> QED BY <2>1
<1>4. found # {} => Name(AddIteration(mine, ThisIteration(t)))
  BY <1>3 DEF AddIteration, Name
<1>5. \A to : found # {} => Name([mine EXCEPT !.state = to])
  BY <1>3 DEF Name
<1>6. \/ HistoryAfter(t, s) = s
      \/ HistoryAfter(t, s) = Record(s, NewLifecycle(LifecycleId(t)))
      \/ found # {} /\ HistoryAfter(t, s) = Record(s, AddIteration(mine, ThisIteration(t)))
      \/ found # {} /\ \E to : HistoryAfter(t, s) = Record(s, [mine EXCEPT !.state = to])
  BY DEF HistoryAfter
<1> HIDE DEF found, mine
<1>7. \A r : Name(r) => WholeHistory(Record(s, r)) /\ Record(s, r).corrupt = s.corrupt
  BY RecordWhole
<1> QED
  <2>1. CASE HistoryAfter(t, s) = s
    BY <2>1
  <2>2. CASE HistoryAfter(t, s) = Record(s, NewLifecycle(LifecycleId(t)))
    BY <2>2, <1>2, <1>7
  <2>3. CASE found # {} /\ HistoryAfter(t, s) = Record(s, AddIteration(mine, ThisIteration(t)))
    BY <2>3, <1>4, <1>7
  <2>4. CASE found # {} /\ \E to : HistoryAfter(t, s) = Record(s, [mine EXCEPT !.state = to])
    BY <2>4, <1>5, <1>7
  <2> QED BY <1>6, <2>1, <2>2, <2>3, <2>4

\* The hooks of the telemetry keep its store whole
LEMMA TelemetryAfterWhole ==
    ASSUME NEW t \in Threads, NEW s, WholeTelemetry(s)
    PROVE  WholeTelemetry(TelemetryAfter(t, s))
<1>1. MaxDecisions \in Nat /\ MaxObservations \in Nat
  BY TelemetryAssumption
<1>2. WholeTelemetry(RecordDecision(s, Decision(RoundId(t), run[t].report, run[t].narrow)))
  <2> DEFINE d == Decision(RoundId(t), run[t].report, run[t].narrow)
  <2>1. Name(d)
    BY DEF Name, Decision, RoundId, NoParent
  <2> HIDE DEF d
  <2>2. Named(Kept(Append(s.decisions, d), MaxDecisions))
    BY <1>1, <2>1, AppendNamed, KeepNamed DEF WholeTelemetry
  <2> QED BY <2>2 DEF RecordDecision, WholeTelemetry, d
<1>3. ASSUME NEW id, NEW quality
      PROVE  WholeTelemetry(FinalizeDecision(s, id, quality))
  <2> DEFINE mine == { k \in DOMAIN s.decisions : s.decisions[k].id = id }
             k == CHOOSE k \in mine : \A j \in mine : j <= k
             judged == [s.decisions[k] EXCEPT !.quality = quality]
             ds == [s.decisions EXCEPT ![k] = judged]
             os == Kept(Append(s.observations, Observation(judged)), MaxObservations)
  <2>1. CASE mine = {}
    BY <2>1 DEF FinalizeDecision
  <2>2. CASE mine # {}
    <3>1. FinalizeDecision(s, id, quality) = [s EXCEPT !.decisions = ds, !.observations = os]
      BY <2>2 DEF FinalizeDecision, WholeTelemetry
    <3>2. k \in mine
      <4>1. Len(s.decisions) \in Nat /\ mine \subseteq 0..Len(s.decisions)
        BY DEF WholeTelemetry, Named
      <4>2. \E i \in mine : \A j \in mine : j <= i
        <5> HIDE DEF mine
        <5> QED BY <2>2, <4>1, Greatest
      <4> QED BY <4>2
    <3>3. Name(judged)
      BY <3>2, EntryNamed DEF WholeTelemetry, Name
    <3>4. Name(Observation(judged))
      BY <3>3 DEF Name, Observation
    <3> HIDE DEF judged, k
    <3>5. Named(ds)
      BY <3>3, PutNamed DEF WholeTelemetry
    <3>6. Named(os)
      BY <1>1, <3>4, AppendNamed, KeepNamed DEF WholeTelemetry
    <3> HIDE DEF ds, os
    <3> QED BY <3>1, <3>5, <3>6 DEF WholeTelemetry
  <2> QED BY <2>1, <2>2
<1> QED BY <1>2, <1>3 DEF TelemetryAfter

-----------------------------------------------------------------------------
(* Locks.                                                                  *)

\* A run is a record; what it has loaded is for a hook at which it stands
IsRun(r) == {"pc", "loaded"} \subseteq DOMAIN r
Holds(t, Ops) == run[t].pc \in Ops /\ run[t].loaded # NotLoaded

\* Who has loaded a file holds its lock
LockInv ==
    /\ run = [ t \in Threads |-> run[t] ]
    /\ historyLock = [ r \in Roots |-> historyLock[r] ]
    /\ telemetryLock = [ r \in Roots |-> telemetryLock[r] ]
    /\ \A t \in Threads :
         /\ IsRun(run[t])
         /\ run[t].loaded # NotLoaded => run[t].pc \in HistoryOps \cup TelemetryOps
         /\ Holds(t, HistoryOps) => historyLock[RootOf[t]] = t
         /\ Holds(t, TelemetryOps) => telemetryLock[RootOf[t]] = t

\* A step of a run outside the managers
Quiet ==
    /\ UNCHANGED <<files, locks, ghosts>>
    /\ \E t \in Threads : \E r :
         IsRun(r) /\ r.loaded = NotLoaded /\ run' = [run EXCEPT ![t] = r]

\* Whatever hook is over, the thread holds nothing any more
LEMMA AfterReleases ==
    ASSUME NEW t \in Threads, IsRun(run[t]), NEW saved
    PROVE  /\ IsRun(After(t, saved)) /\ After(t, saved).loaded = NotLoaded
           /\ IsRun(AfterTelemetry(t, saved)) /\ AfterTelemetry(t, saved).loaded = NotLoaded
<1> DEFINE r == [run[t] EXCEPT !.loaded = NotLoaded]
<1>1. IsRun(r) /\ r.loaded = NotLoaded
  BY DEF IsRun
<1>2. IsRun(AfterTelemetry(t, saved)) /\ AfterTelemetry(t, saved).loaded = NotLoaded
  BY <1>1 DEF AfterTelemetry, IsRun
<1>3. IsRun(Idle) /\ Idle.loaded = NotLoaded
  BY DEF Idle, IsRun
<1>4. IsRun(After(t, saved)) /\ After(t, saved).loaded = NotLoaded
  <2>1. CASE r.pc = "start"
    <3>1. After(t, saved) = [r EXCEPT !.pc = "generate", !.id = IF saved THEN LifecycleId(t) ELSE NoParent]
      BY <2>1 DEF After
    <3> QED BY <3>1, <1>1 DEF IsRun
  <2>2. CASE r.pc = "iterate"
    <3>1. \E a, b : After(t, saved) =
            [r EXCEPT !.pc = "advance2", !.stage = "unknown", !.last = a, !.todo = b]
      BY <2>2 DEF After
    <3> QED BY <3>1, <1>1 DEF IsRun
  <2>3. CASE r.pc = "finish"
    <3>1. \E a, b : After(t, saved) = [Idle EXCEPT !.pc = "done", !.attempt = a, !.round = b]
      BY <2>3 DEF After
    <3> QED BY <3>1, <1>3 DEF IsRun
  <2>4. CASE r.pc \notin {"start", "iterate", "finish"}
    <3>1. \E a, b : After(t, saved) = [r EXCEPT !.todo = a, !.pc = b]
      BY <2>4 DEF After
    <3> QED BY <3>1, <1>1 DEF IsRun
  <2> QED BY <2>1, <2>2, <2>3, <2>4
<1> QED BY <1>2, <1>4

\* The steps that are quiet
LEMMA QuietSteps ==
    ASSUME LockInv, NEW t \in Threads,
           Begin(t) \/ Generate(t) \/ Analyse(t) \/ Validate(t) \/ Review(t) \/ Untraced(t)
    PROVE  Quiet
<1> USE DEF Set, Here, Quiet
<1>1. IsRun(run[t])
  BY DEF LockInv
<1>2. IsRun(Idle) /\ Idle.loaded = NotLoaded
  BY DEF Idle, IsRun
<1>3. CASE Begin(t)
  BY <1>2, <1>3 DEF Begin, IsRun
<1>4. CASE Generate(t)
  BY <1>1, <1>4 DEF Generate, IsRun
<1>5. CASE Analyse(t)
  <2>1. \E a, b : run' = [run EXCEPT ![t] =
                            [run[t] EXCEPT !.pc = "record", !.report = a, !.narrow = b]]
    BY <1>5 DEF Analyse
  <2>2. run[t].loaded = NotLoaded /\ UNCHANGED <<files, locks, ghosts>>
    BY <1>5 DEF Analyse
  <2> QED BY <1>1, <2>1, <2>2 DEF IsRun
<1>6. CASE Validate(t)
  <2>1. PICK targeted \in {"failed", "passed", "not_run"}, broad \in {"failed", "passed", "not_run"} :
          Set(t, [run[t] EXCEPT
                !.pc = IF run[t].decision = NoParent THEN "iterate" ELSE "finalize",
                !.result = IF "failed" \in {targeted, broad} THEN "failed" ELSE "passed",
                !.stage = IF broad = "not_run" THEN "targeted" ELSE "broad",
                !.quality = Classify(run[t].report.scope, targeted # "not_run",
                              targeted = "failed", broad # "not_run", broad = "failed")])
    BY <1>6, Zenon DEF Validate
  <2> DEFINE q == Classify(run[t].report.scope, targeted # "not_run",
                           targeted = "failed", broad # "not_run", broad = "failed")
  <2>2. run[t].loaded = NotLoaded /\ UNCHANGED <<files, locks, ghosts>>
    BY <1>6 DEF Validate
  <2> HIDE DEF q
  <2>3. run' = [run EXCEPT ![t] = [run[t] EXCEPT
                !.pc = IF run[t].decision = NoParent THEN "iterate" ELSE "finalize",
                !.result = IF "failed" \in {targeted, broad} THEN "failed" ELSE "passed",
                !.stage = IF broad = "not_run" THEN "targeted" ELSE "broad",
                !.quality = q]]
    BY <2>1, Zenon DEF q
  <2> QED BY <1>1, <2>2, <2>3 DEF IsRun
<1>7. CASE Review(t)
  BY <1>1, <1>7 DEF Review, IsRun
<1>8. CASE Untraced(t)
  BY <1>1, <1>8, AfterReleases DEF Untraced
<1> QED BY <1>3, <1>4, <1>5, <1>6, <1>7, <1>8

\* At the start nobody has loaded anything
LEMMA LockInit == Init => LockInv
BY DEF Init, LockInv, Idle, IsRun, Holds, NotLoaded

\* One step of a run that has the lock
LEMMA LockStep ==
    ASSUME LockInv, [Next]_vars
    PROVE  LockInv'
<1> USE DEF Set, NotLoaded
<1>a. Free \notin Threads
  BY LearningAssumption
<1>b. /\ \A t \in Threads : RootOf[t] \in Roots
      /\ HistoryOps \cap TelemetryOps = {}
  BY DEF Roots, HistoryOps, TelemetryOps
<1>1. CASE Quiet
  BY <1>1 DEF Quiet, LockInv, IsRun, Holds, files, locks
<1>2. ASSUME NEW t \in Threads, TakeHistory(t)
      PROVE  LockInv'
  <2>1. run' = [run EXCEPT ![t] = [run[t] EXCEPT !.loaded = <<Load(history)>>]]
    BY <1>2 DEF TakeHistory
  <2>2. run[t].pc \in HistoryOps /\ run'[t].pc = run[t].pc /\ IsRun(run'[t])
    BY <1>2, <2>1 DEF TakeHistory, LockInv, IsRun
  <2>3. historyLock[RootOf[t]] = Free /\ historyLock' = [historyLock EXCEPT ![RootOf[t]] = t]
        /\ telemetryLock' = telemetryLock
    BY <1>2 DEF TakeHistory, LockFree
  <2> QED BY <1>a, <1>b, <2>1, <2>2, <2>3 DEF LockInv, IsRun, Holds
<1>3. ASSUME NEW t \in Threads, TakeTelemetry(t)
      PROVE  LockInv'
  <2>1. run' = [run EXCEPT ![t] = [run[t] EXCEPT !.loaded = <<LoadTelemetry(telemetry)>>]]
    BY <1>3 DEF TakeTelemetry
  <2>2. run[t].pc \in TelemetryOps /\ run'[t].pc = run[t].pc /\ IsRun(run'[t])
    BY <1>3, <2>1 DEF TakeTelemetry, LockInv, IsRun
  <2>3. telemetryLock[RootOf[t]] = Free /\ telemetryLock' = [telemetryLock EXCEPT ![RootOf[t]] = t]
        /\ historyLock' = historyLock
    BY <1>3 DEF TakeTelemetry, LockFree
  <2> QED BY <1>a, <1>b, <2>1, <2>2, <2>3 DEF LockInv, IsRun, Holds
<1>4. ASSUME NEW t \in Threads, PutHistory(t) \/ HistoryFails(t)
      PROVE  LockInv'
  <2>1. \E saved : run' = [run EXCEPT ![t] = After(t, saved)]
    BY <1>4 DEF PutHistory, HistoryFails
  <2>2. run[t].pc \in HistoryOps /\ run[t].loaded # NotLoaded
        /\ historyLock' = [historyLock EXCEPT ![RootOf[t]] = Free] /\ telemetryLock' = telemetryLock
    BY <1>4 DEF PutHistory, HistoryFails
  <2>3. IsRun(run'[t]) /\ run'[t].loaded = NotLoaded /\ \A s \in Threads \ {t} : run'[s] = run[s]
    BY <2>1, AfterReleases DEF LockInv
  <2>4. run' = [ s \in Threads |-> run'[s] ]
    BY <2>1 DEF LockInv
  <2>5. \A s \in Threads \ {t} : Holds(s, HistoryOps) => RootOf[s] # RootOf[t]
    BY <2>2 DEF LockInv, Holds
  <2> QED BY <1>b, <2>2, <2>3, <2>4, <2>5 DEF LockInv, Holds
<1>5. ASSUME NEW t \in Threads, PutTelemetry(t) \/ TelemetryFails(t)
      PROVE  LockInv'
  <2>1. \E saved : run' = [run EXCEPT ![t] = AfterTelemetry(t, saved)]
    BY <1>5 DEF PutTelemetry, TelemetryFails
  <2>2. run[t].pc \in TelemetryOps /\ run[t].loaded # NotLoaded
        /\ telemetryLock' = [telemetryLock EXCEPT ![RootOf[t]] = Free] /\ historyLock' = historyLock
    BY <1>5 DEF PutTelemetry, TelemetryFails
  <2>3. IsRun(run'[t]) /\ run'[t].loaded = NotLoaded /\ \A s \in Threads \ {t} : run'[s] = run[s]
    BY <2>1, AfterReleases DEF LockInv
  <2>4. run' = [ s \in Threads |-> run'[s] ]
    BY <2>1 DEF LockInv
  <2>5. \A s \in Threads \ {t} : Holds(s, TelemetryOps) => RootOf[s] # RootOf[t]
    BY <2>2 DEF LockInv, Holds
  <2> QED BY <1>b, <2>2, <2>3, <2>4, <2>5 DEF LockInv, Holds
<1>6. CASE Crash
  <2>1. /\ run' = [ s \in Threads |-> run'[s] ]
        /\ historyLock' = [ r \in Roots |-> historyLock'[r] ]
        /\ telemetryLock' = [ r \in Roots |-> telemetryLock'[r] ]
    BY <1>6 DEF Crash
  <2>2. \A t \in Threads : IsRun(run'[t]) /\ run'[t].loaded = NotLoaded
    BY <1>6 DEF Crash, LockInv, IsRun, Idle, HistoryOps, TelemetryOps
  <2> QED BY <2>1, <2>2 DEF LockInv, Holds
<1>7. CASE DamageHistory \/ DamageTelemetry \/ UNCHANGED vars
  <2>1. UNCHANGED <<run, locks>>
    BY <1>7 DEF DamageHistory, DamageTelemetry, vars
  <2> QED BY <2>1 DEF LockInv, IsRun, Holds, locks
<1> QED BY <1>1, <1>2, <1>3, <1>4, <1>5, <1>6, <1>7, QuietSteps DEF Next, Step

\* A manager that has loaded a file holds the lock of its project root until it has
\* saved or failed (validation_lifecycle.py: "with self._lock").
THEOREM LocksProtect == Spec => []LockInv
BY LockInit, LockStep, PTL DEF Spec

-----------------------------------------------------------------------------
(* No lost update, when there is one lock.                                 *)

SharedRoot == \A s, t \in Threads : RootOf[s] = RootOf[t]

\* What a thread has loaded is what the file still says
LoadedInv ==
    \A t \in Threads :
        /\ Holds(t, HistoryOps) => run[t].loaded = <<Load(history)>>
        /\ Holds(t, TelemetryOps) => run[t].loaded = <<LoadTelemetry(telemetry)>>

\* The files say what was acknowledged, and that is whole; damage has left a mark
StoreInv ==
    /\ acked = [history |-> acked.history, telemetry |-> acked.telemetry]
    /\ WholeHistory(acked.history) /\ WholeTelemetry(acked.telemetry)
    /\ FiledHistory(history.store)
    /\ NoLostUpdate
    /\ "history" \in tainted => acked.history.corrupt = TRUE

SafeInv == LockInv /\ LoadedInv /\ StoreInv /\ faults \in Nat

\* A step disturbs once at most
LEMMA FaultsCounted ==
    ASSUME [Next]_vars
    PROVE  faults' \in {faults, faults + 1}
<1>1. ASSUME NEW t \in Threads, Begin(t) \/ Step(t)
      PROVE  faults' = faults
  BY <1>1 DEF Step, Begin, Generate, Analyse, Validate, Review, Untraced,
              TakeHistory, PutHistory, TakeTelemetry, PutTelemetry
<1>2. ASSUME NEW t \in Threads, HistoryFails(t) \/ TelemetryFails(t)
      PROVE  faults' = faults + 1
  BY <1>2 DEF HistoryFails, TelemetryFails, Disturb
<1>3. CASE Crash \/ DamageHistory \/ DamageTelemetry
  BY <1>3 DEF Crash, DamageHistory, DamageTelemetry, Disturb
<1>4. CASE UNCHANGED vars
  BY <1>4 DEF vars
<1> QED BY <1>1, <1>2, <1>3, <1>4 DEF Next

\* The empty stores are whole, and what missing files are loaded as
LEMMA EmptyStores ==
    /\ WholeHistory(EmptyHistory) /\ Load(NoFile) = EmptyHistory
    /\ WholeTelemetry(EmptyTelemetry)
    /\ FiledHistory(NoFile.store) /\ FiledHistory(NotJson.store)
<1>1. WholeHistory(EmptyHistory)
  BY EmptyNamed DEF EmptyHistory, WholeHistory
<1>2. WholeTelemetry(EmptyTelemetry)
  BY EmptyNamed DEF EmptyTelemetry, WholeTelemetry
<1>3. Load(FileOf(EmptyHistory)) = EmptyHistory /\ FiledHistory(EmptyHistory)
  BY <1>1, LoadHistory DEF FileOf
<1>4. Load(NoFile) = EmptyHistory
  BY <1>3 DEF Load, NoFile, FileOf
<1> QED BY <1>1, <1>2, <1>3, <1>4 DEF NoFile, NotJson

\* At the start the files say what was acknowledged: nothing
LEMMA SafeInit == Init => SafeInv
<1> SUFFICES ASSUME Init PROVE SafeInv
  OBVIOUS
<1>1. LockInv
  BY LockInit
<1>2. LoadedInv
  BY DEF Init, LoadedInv, Idle, Holds, NotLoaded
<1>3. /\ acked = [history |-> EmptyHistory, telemetry |-> EmptyTelemetry]
      /\ history = NoFile /\ LoadTelemetry(telemetry) = EmptyTelemetry /\ tainted = {}
  BY DEF Init, LoadTelemetry
<1>4. StoreInv /\ faults \in Nat
  BY <1>3, EmptyStores DEF StoreInv, NoLostUpdate, Init
<1> QED BY <1>1, <1>2, <1>4 DEF SafeInv

\* Only one thread at a time has loaded a file
LEMMA OneHolder ==
    ASSUME SharedRoot, LockInv, NEW s \in Threads, NEW t \in Threads
    PROVE  /\ Holds(s, HistoryOps) /\ Holds(t, HistoryOps) => s = t
           /\ Holds(s, TelemetryOps) /\ Holds(t, TelemetryOps) => s = t
<1>1. RootOf[s] = RootOf[t]
  BY DEF SharedRoot
<1> QED BY <1>1 DEF LockInv

\* ... and no step changes that, when there is one lock
LEMMA SafeStep ==
    ASSUME SharedRoot, SafeInv, [Next]_vars
    PROVE  SafeInv'
<1> USE DEF NotLoaded
<1>a. LockInv /\ LoadedInv /\ StoreInv
  BY DEF SafeInv
<1>b. LockInv' /\ faults' \in Nat
  BY <1>a, LockStep, FaultsCounted DEF SafeInv
<1>c. HistoryOps \cap TelemetryOps = {}
  BY DEF HistoryOps, TelemetryOps
<1>1. CASE Quiet
  <2>1. LoadedInv'
    BY <1>1, <1>a DEF Quiet, LoadedInv, LockInv, Holds, files
  <2>2. StoreInv'
    BY <1>1, <1>a DEF Quiet, StoreInv, NoLostUpdate, files, ghosts
  <2> QED BY <1>b, <2>1, <2>2 DEF SafeInv
<1>2. ASSUME NEW t \in Threads, TakeHistory(t)
      PROVE  SafeInv'
  <2>1. run' = [run EXCEPT ![t] = [run[t] EXCEPT !.loaded = <<Load(history)>>]]
        /\ run[t].pc \in HistoryOps /\ UNCHANGED <<files, ghosts>>
    BY <1>2 DEF TakeHistory, Set
  <2>2. LoadedInv'
    BY <2>1, <1>a, <1>c DEF LoadedInv, LockInv, IsRun, Holds, files
  <2>3. StoreInv'
    BY <2>1, <1>a DEF StoreInv, NoLostUpdate, files, ghosts
  <2> QED BY <1>b, <2>2, <2>3 DEF SafeInv
<1>3. ASSUME NEW t \in Threads, TakeTelemetry(t)
      PROVE  SafeInv'
  <2>1. run' = [run EXCEPT ![t] = [run[t] EXCEPT !.loaded = <<LoadTelemetry(telemetry)>>]]
        /\ run[t].pc \in TelemetryOps /\ UNCHANGED <<files, ghosts>>
    BY <1>3 DEF TakeTelemetry, Set
  <2>2. LoadedInv'
    BY <2>1, <1>a, <1>c DEF LoadedInv, LockInv, IsRun, Holds, files
  <2>3. StoreInv'
    BY <2>1, <1>a DEF StoreInv, NoLostUpdate, files, ghosts
  <2> QED BY <1>b, <2>2, <2>3 DEF SafeInv
<1>4. ASSUME NEW t \in Threads, PutHistory(t)
      PROVE  SafeInv'
  <2> DEFINE s == acked.history
             after == HistoryAfter(t, s)
  <2>1. Holds(t, HistoryOps) /\ run[t].loaded = <<s>> /\ Load(history) = s
    BY <1>4, <1>a DEF PutHistory, Holds, LoadedInv, StoreInv, NoLostUpdate
  <2>2. WholeHistory(after) /\ after.corrupt = s.corrupt
    BY <1>a, HistoryAfterWhole DEF StoreInv
  <2>3. /\ history' = IF after = s THEN history ELSE FileOf(after)
        /\ acked' = [acked EXCEPT !.history = after]
        /\ telemetry' = telemetry /\ tainted' = tainted
    BY <1>4, <2>1 DEF PutHistory
  <2>4. run' = [run EXCEPT ![t] = After(t, TRUE)] /\ After(t, TRUE).loaded = NotLoaded
    BY <1>4, <1>a, AfterReleases DEF PutHistory, Set, LockInv
  <2> HIDE DEF s, after
  <2>5. Load(history') = after /\ FiledHistory(history'.store)
    <3>1. FiledHistory(history.store)
      BY <1>a DEF StoreInv
    <3> QED BY <2>1, <2>2, <2>3, <3>1, LoadHistory
  <2>6. LoadedInv'
    <3>1. \A u \in Threads \ {t} : ~Holds(u, HistoryOps)
      BY <2>1, <1>a, OneHolder
    <3>2. \A u \in Threads \ {t} : run'[u] = run[u]
      BY <2>4
    <3>3. run'[t].loaded = NotLoaded
      BY <2>4, <1>a DEF LockInv
    <3> QED BY <3>1, <3>2, <3>3, <2>3, <1>a DEF LoadedInv, Holds
  <2>7. StoreInv'
    BY <2>2, <2>3, <2>5, <1>a DEF StoreInv, NoLostUpdate, s
  <2> QED BY <1>b, <2>6, <2>7 DEF SafeInv
<1>5. ASSUME NEW t \in Threads, PutTelemetry(t)
      PROVE  SafeInv'
  <2> DEFINE s == acked.telemetry
             after == TelemetryAfter(t, s)
  <2>1. Holds(t, TelemetryOps) /\ run[t].loaded = <<s>> /\ LoadTelemetry(telemetry) = s
    BY <1>5, <1>a DEF PutTelemetry, Holds, LoadedInv, StoreInv, NoLostUpdate
  <2>2. WholeTelemetry(after)
    BY <1>a, TelemetryAfterWhole DEF StoreInv
  <2>3. /\ telemetry' = IF after = s THEN telemetry ELSE FileOf(after)
        /\ acked' = [acked EXCEPT !.telemetry = after]
        /\ history' = history /\ tainted' = tainted
    BY <1>5, <2>1 DEF PutTelemetry
  <2>4. run' = [run EXCEPT ![t] = AfterTelemetry(t, TRUE)] /\ AfterTelemetry(t, TRUE).loaded = NotLoaded
    BY <1>5, <1>a, AfterReleases DEF PutTelemetry, Set, LockInv
  <2> HIDE DEF s, after
  <2>5. LoadTelemetry(telemetry') = after
    BY <2>1, <2>2, <2>3, LoadDecisions
  <2>6. LoadedInv'
    <3>1. \A u \in Threads \ {t} : ~Holds(u, TelemetryOps)
      BY <2>1, <1>a, OneHolder
    <3>2. \A u \in Threads \ {t} : run'[u] = run[u]
      BY <2>4
    <3>3. run'[t].loaded = NotLoaded
      BY <2>4, <1>a DEF LockInv
    <3> QED BY <3>1, <3>2, <3>3, <2>3, <1>a DEF LoadedInv, Holds
  <2>7. StoreInv'
    BY <2>2, <2>3, <2>5, <1>a DEF StoreInv, NoLostUpdate, s
  <2> QED BY <1>b, <2>6, <2>7 DEF SafeInv
<1>6. ASSUME NEW t \in Threads, HistoryFails(t) \/ TelemetryFails(t)
      PROVE  SafeInv'
  <2>1. UNCHANGED <<files, ghosts>>
    BY <1>6 DEF HistoryFails, TelemetryFails
  <2>2. \E r : run' = [run EXCEPT ![t] = r] /\ r.loaded = NotLoaded
    <3>1. IsRun(run[t])
      BY <1>a DEF LockInv
    <3>2. \/ run' = [run EXCEPT ![t] = After(t, FALSE)]
          \/ run' = [run EXCEPT ![t] = AfterTelemetry(t, FALSE)]
      BY <1>6 DEF HistoryFails, TelemetryFails, Set
    <3> QED BY <3>1, <3>2, AfterReleases
  <2>3. LoadedInv'
    BY <2>1, <2>2, <1>a DEF LoadedInv, LockInv, Holds, files
  <2>4. StoreInv'
    BY <2>1, <1>a DEF StoreInv, NoLostUpdate, files, ghosts
  <2> QED BY <1>b, <2>3, <2>4 DEF SafeInv
<1>7. CASE Crash
  <2>1. UNCHANGED <<files, ghosts>>
    BY <1>7 DEF Crash
  <2>2. \A t \in Threads : run'[t].loaded = NotLoaded
    BY <1>7, <1>a DEF Crash, LockInv, Idle, HistoryOps, TelemetryOps
  <2>3. LoadedInv'
    BY <2>2 DEF LoadedInv, Holds
  <2>4. StoreInv'
    BY <2>1, <1>a DEF StoreInv, NoLostUpdate, files, ghosts
  <2> QED BY <1>b, <2>3, <2>4 DEF SafeInv
<1>8. CASE DamageHistory
  <2>1. FiledHistory(history'.store)
        /\ (history'.form = "malformed" \/ IsDamaged(history'.store.records))
    <3>1. CASE history' = NotJson
      BY <3>1, EmptyStores DEF NotJson
    <3>2. CASE \E k \in DOMAIN history.store.records :
                 history' = FileOf([history.store EXCEPT !.records[k] = Broken])
      <4> DEFINE q == history.store.records
      <4>1. PICK k \in DOMAIN q : history' = FileOf([history.store EXCEPT !.records[k] = Broken])
        BY <3>2
      <4>2. FiledHistory(history.store)
        BY <1>a DEF StoreInv
      <4>3. PICK S : q \in Seq(S) /\ \A e \in S : Name(e) \/ e = Broken
        BY <4>2 DEF FiledHistory, Entries
      <4> DEFINE new == [q EXCEPT ![k] = Broken]
      <4>4. [history.store EXCEPT !.records[k] = Broken]
              = [corrupt |-> history.store.corrupt, records |-> new]
        BY <4>2 DEF FiledHistory
      <4>5. new \in Seq(S \cup {Broken}) /\ k \in DOMAIN new /\ new[k] = Broken
        <5>1. q \in Seq(S \cup {Broken}) /\ k \in 1..Len(q)
          BY <4>1, <4>3
        <5>2. new \in Seq(S \cup {Broken})
          BY <5>1, ExceptSeq
        <5> QED BY <4>1, <5>2
      <4> HIDE DEF new
      <4>6. Entries(new) /\ IsDamaged(new)
        BY <4>3, <4>5 DEF Entries, IsDamaged
      <4>7. history'.store = [corrupt |-> history.store.corrupt, records |-> new]
        BY <4>1, <4>4 DEF FileOf
      <4> QED BY <4>2, <4>6, <4>7 DEF FiledHistory
    <3> QED BY <1>8, <3>1, <3>2 DEF DamageHistory, DamagedHistories
  <2>2. /\ acked' = [acked EXCEPT !.history = Load(history')] /\ tainted' = tainted \cup {"history"}
        /\ telemetry' = telemetry /\ run' = run
    BY <1>8 DEF DamageHistory
  <2>3. \A t \in Threads : run[t].loaded = NotLoaded
    BY <1>8, <1>a DEF DamageHistory, LockInv, Finished, HistoryOps, TelemetryOps
  <2>4. LoadedInv'
    BY <2>2, <2>3 DEF LoadedInv, Holds
  <2>5. WholeHistory(Load(history')) /\ Load(history').corrupt = TRUE
    BY <2>1, LoadWhole
  <2>6. StoreInv'
    BY <2>1, <2>2, <2>5, <1>a DEF StoreInv, NoLostUpdate
  <2> QED BY <1>b, <2>4, <2>6 DEF SafeInv
<1>9. CASE DamageTelemetry
  <2>1. /\ acked' = [acked EXCEPT !.telemetry = EmptyTelemetry] /\ tainted' = tainted \cup {"telemetry"}
        /\ history' = history /\ run' = run /\ LoadTelemetry(telemetry') = EmptyTelemetry
    BY <1>9 DEF DamageTelemetry, LoadTelemetry
  <2>2. \A t \in Threads : run[t].loaded = NotLoaded
    BY <1>9, <1>a DEF DamageTelemetry, LockInv, Finished, HistoryOps, TelemetryOps
  <2>3. LoadedInv'
    BY <2>1, <2>2 DEF LoadedInv, Holds
  <2>4. StoreInv'
    BY <2>1, <1>a, EmptyStores DEF StoreInv, NoLostUpdate
  <2> QED BY <1>b, <2>3, <2>4 DEF SafeInv
<1>10. CASE UNCHANGED vars
  <2>1. LoadedInv' /\ StoreInv'
    BY <1>10, <1>a DEF LoadedInv, StoreInv, NoLostUpdate, Holds, vars, files, ghosts
  <2> QED BY <1>b, <2>1 DEF SafeInv
<1> QED BY <1>a, <1>1, <1>2, <1>3, <1>4, <1>5, <1>6, <1>7, <1>8, <1>9, <1>10, QuietSteps
        DEF Next, Step

\* When all runs of a process work in one project root, every change a manager
\* acknowledged is in the files, whatever crashes and saves that fail: no save takes
\* back what another run recorded.
THEOREM NothingIsLost ==
    ASSUME SharedRoot
    PROVE  Spec => []NoLostUpdate
<1>1. SafeInv /\ [Next]_vars => SafeInv'
  BY SafeStep
<1>2. SafeInv => NoLostUpdate
  BY DEF SafeInv, StoreInv
<1> QED BY <1>1, <1>2, SafeInit, PTL DEF Spec

\* Whatever is recorded after the history was damaged, the recommendation to act on
\* stays the broadest scope.
THEOREM DamageIsRemembered ==
    ASSUME SharedRoot
    PROVE  Spec => []CorruptHistoryNeverTrusted
<1>1. SafeInv /\ [Next]_vars => SafeInv'
  BY SafeStep
<1>2. SafeInv => CorruptHistoryNeverTrusted
  <2>1. \A x : SafestScope({x, "broad"}) = "broad"
    <3> SUFFICES ASSUME NEW x PROVE SafestScope({x, "broad"}) = "broad"
      OBVIOUS
    <3>1. ToSet(ScopeOrder) = {"targeted", "expanded", "broad"}
      BY DEF ToSet, ScopeOrder
    <3>2. \A i \in 1..3 : (\A j \in 1..3 : ScopeOrder[j] \in {x, "broad"} => j <= i) <=> i = 3
      BY DEF ScopeOrder
    <3>3. 3 \in 1..3 /\ ScopeOrder[3] \in {x, "broad"} /\ ScopeOrder[3] = "broad"
      BY DEF ScopeOrder
    <3>4. (CHOOSE i \in 1..3 : /\ ScopeOrder[i] \in {x, "broad"}
                               /\ \A j \in 1..3 : ScopeOrder[j] \in {x, "broad"} => j <= i) = 3
      BY <3>2, <3>3
    <3> QED BY <3>3, <3>4 DEF SafestScope
  <2> SUFFICES ASSUME SafeInv, "history" \in tainted,
                      NEW floor, NEW degraded, NEW recent
               PROVE  RecommendScope(Load(history), floor, degraded, recent).effective = "broad"
    BY DEF CorruptHistoryNeverTrusted
  <2> DEFINE store == Load(history)
             m == Effectiveness(store)
             low == Floor(store, m, floor, degraded, recent)
  <2>2. store.corrupt = TRUE
    BY DEF SafeInv, StoreInv, NoLostUpdate
  <2>3. m.trustworthy = FALSE
    BY <2>2 DEF Effectiveness
  <2> HIDE DEF m, store
  <2>4. low = SafestScope({floor, "broad"})
    BY <2>3 DEF Floor
  <2>5. low = "broad"
    BY <2>1, <2>4
  <2>6. RecommendScope(store, floor, degraded, recent).effective
          = SafestScope({Suggestion(m, low), low})
    BY DEF RecommendScope, m
  <2> QED BY <2>1, <2>5, <2>6 DEF store
<1> QED BY <1>1, <1>2, SafeInit, PTL DEF Spec

-----------------------------------------------------------------------------
(* The runs.                                                               *)

Pcs == HistoryOps \cup TelemetryOps \cup Finished \cup {"generate", "analyse", "validate", "review"}
Fields == {"pc", "attempt", "round", "id", "last", "decision", "report", "narrow", "result",
           "stage", "quality", "todo", "completed", "loaded"}
\* The rounds of an attempt whose iteration may be recorded, and those whose
\* decision may be judged
Done(r) == IF r.pc \in {"advance2", "review", "finish"} THEN r.round ELSE r.round - 1
Judged(r) == IF r.pc \in {"iterate", "advance2", "review", "finish"} THEN r.round ELSE r.round - 1

RunOk(t, r) ==
    /\ DOMAIN r = Fields
    /\ r.pc \in Pcs
    /\ r.attempt \in 0..MaxAttempts[t] /\ r.round \in 1..MaxRounds[t]
    /\ r.todo \in Seq(Working) /\ (r.pc \in {"advance", "advance2"} => r.todo # <<>>)
    /\ r.id \in {NoParent, <<t, r.attempt>>}
    /\ r.loaded # NotLoaded /\ r.pc \in HistoryOps \ {"start"} => r.id # NoParent
    /\ r.last # NoParent => \E m \in Nat : r.last = <<t, r.attempt, m>> /\ m <= Done(r)
    /\ r.decision # NoParent =>
         r.pc \in {"validate", "finalize"} /\ r.decision = <<t, r.attempt, r.round>>

\* A run only goes on, and begins again under another name
Advances(r, n) ==
    /\ r.attempt <= n.attempt
    /\ n.attempt = r.attempt => (n.pc = "start" => r.pc = "start")
    /\ n.attempt = r.attempt /\ n.pc \notin Finished =>
         /\ r.pc \notin Finished
         /\ Done(r) <= Done(n) /\ Judged(r) <= Judged(n)
\* ... and is at its old place in the chain
KeepsLast(r, n) == n.attempt = r.attempt /\ n.pc \notin Finished => n.last = r.last

Moves(t, r, n) == RunOk(t, n) /\ Advances(r, n) /\ KeepsLast(r, n)

\* The counters of a run are natural numbers, and no iteration is ahead of its round
LEMMA Numbers ==
    ASSUME NEW t \in Threads, NEW r, RunOk(t, r)
    PROVE  /\ r.attempt \in Nat /\ r.round \in Nat /\ r.round >= 1
           /\ Done(r) \in Nat /\ Judged(r) \in Nat
           /\ Done(r) <= r.round /\ Judged(r) <= r.round /\ r.round - 1 <= Done(r)
<1>1. MaxAttempts[t] \in Nat /\ MaxRounds[t] \in Nat
  BY LearningAssumption
<1>2. r.attempt \in Nat /\ r.round \in Nat /\ r.round >= 1
  BY <1>1 DEF RunOk
<1> QED BY <1>2 DEF Done, Judged

\* A run that stays where it is
LEMMA Stays ==
    ASSUME NEW t \in Threads, NEW r, RunOk(t, r), NEW x,
           r.pc \notin HistoryOps \/ r.pc = "start" \/ r.id # NoParent \/ x = NotLoaded
    PROVE  Moves(t, r, [r EXCEPT !.loaded = x])
<1> DEFINE n == [r EXCEPT !.loaded = x]
<1>1. DOMAIN n = Fields /\ n.loaded = x /\ \A f \in Fields \ {"loaded"} : n[f] = r[f]
  BY DEF RunOk, Fields
<1>2. /\ n.pc = r.pc /\ n.attempt = r.attempt /\ n.round = r.round /\ n.todo = r.todo
      /\ n.id = r.id /\ n.last = r.last /\ n.decision = r.decision
  BY <1>1 DEF Fields
<1> HIDE DEF n
<1>3. Done(n) = Done(r) /\ Judged(n) = Judged(r)
  BY <1>2 DEF Done, Judged
<1>4. RunOk(t, n)
  BY <1>1, <1>2, <1>3 DEF RunOk
<1> QED BY <1>2, <1>3, <1>4, Numbers DEF Moves, Advances, KeepsLast, n

\* A run that goes on within its attempt
LEMMA GoesOn ==
    ASSUME NEW t \in Threads, NEW r, RunOk(t, r), NEW n,
           DOMAIN n = Fields, n.pc \in Pcs \ {"start"}, r.pc \notin Finished,
           n.attempt = r.attempt, n.round \in 1..MaxRounds[t],
           Done(r) <= Done(n), Judged(r) <= Judged(n),
           n.todo \in Seq(Working), n.pc \in {"advance", "advance2"} => n.todo # <<>>,
           n.id \in {NoParent, <<t, r.attempt>>}, n.loaded = NotLoaded,
           n.last # r.last => n.last = <<t, r.attempt, r.round>> /\ r.round <= Done(n),
           n.decision # NoParent =>
             n.pc \in {"validate", "finalize"} /\ n.decision = <<t, r.attempt, n.round>>
    PROVE  RunOk(t, n) /\ Advances(r, n) /\ (n.last = r.last => KeepsLast(r, n))
<1>1. /\ r.attempt \in Nat /\ r.round \in Nat /\ Done(r) \in Nat
      /\ n.round \in Nat /\ Done(n) \in Int
  <2>1. MaxRounds[t] \in Nat
    BY LearningAssumption
  <2> QED BY <2>1, Numbers DEF Done
<1>2. n.last # NoParent => \E m \in Nat : n.last = <<t, n.attempt, m>> /\ m <= Done(n)
  <2>1. CASE n.last = r.last
    <3> SUFFICES ASSUME r.last # NoParent
                 PROVE  \E m \in Nat : n.last = <<t, n.attempt, m>> /\ m <= Done(n)
      BY <2>1
    <3>1. PICK m \in Nat : r.last = <<t, r.attempt, m>> /\ m <= Done(r)
      BY DEF RunOk
    <3>2. m <= Done(n)
      BY <1>1, <3>1
    <3> QED BY <2>1, <3>1, <3>2
  <2>2. CASE n.last # r.last
    BY <2>2, <1>1
  <2> QED BY <2>1, <2>2
<1>3. RunOk(t, n)
  BY <1>2 DEF RunOk
<1> QED BY <1>1, <1>3 DEF Advances, KeepsLast

\* A run after a hook of the history
LEMMA AfterMoves ==
    ASSUME NEW t \in Threads, NEW saved \in BOOLEAN, RunOk(t, run[t]), run[t].pc \in HistoryOps
    PROVE  LET n == After(t, saved)
           IN /\ RunOk(t, n) /\ Advances(run[t], n)
              /\ run[t].pc # "iterate" \/ ~saved => KeepsLast(run[t], n)
              /\ run[t].pc = "iterate" /\ saved => n.last = RoundId(t) /\ n.pc = "advance2"
                                                   /\ n.attempt = run[t].attempt /\ n.round = run[t].round
<1> DEFINE c == run[t]
           r == [c EXCEPT !.loaded = NotLoaded]
           n == After(t, saved)
<1>0. /\ DOMAIN r = Fields /\ r.loaded = NotLoaded /\ r.pc = c.pc /\ r.attempt = c.attempt
      /\ r.round = c.round /\ r.id = c.id /\ r.last = c.last /\ r.decision = c.decision
      /\ r.todo = c.todo /\ r.result = c.result /\ r.completed = c.completed
  BY DEF RunOk, Fields
<1>n. /\ c.attempt \in Nat /\ c.round \in Nat /\ c.round >= 1
      /\ Done(c) \in Nat /\ Judged(c) \in Nat
      /\ Done(c) <= c.round /\ Judged(c) <= c.round
  BY Numbers
<1>i. LifecycleId(t) = <<t, c.attempt>> /\ RoundId(t) = <<t, c.attempt, c.round>>
  BY DEF LifecycleId, RoundId
<1>c. /\ DOMAIN c = Fields /\ c.round \in 1..MaxRounds[t] /\ c.todo \in Seq(Working)
      /\ c.pc \in {"advance", "advance2"} => c.todo # <<>>
      /\ c.id \in {NoParent, <<t, c.attempt>>} /\ c.decision = NoParent
      /\ c.pc \notin Finished
  BY DEF RunOk, HistoryOps, Finished
<1>p. \A x \in {"generate", "advance2", "advance", "analyse", "review"} : x \in Pcs \ {"start"}
  BY DEF Pcs, HistoryOps
<1>1. CASE c.pc = "start"
  <2>1. n = [r EXCEPT !.pc = "generate", !.id = IF saved THEN LifecycleId(t) ELSE NoParent]
    BY <1>0, <1>1 DEF After
  <2>2. /\ DOMAIN n = Fields /\ n.pc = "generate" /\ n.id \in {NoParent, <<t, c.attempt>>}
        /\ n.loaded = NotLoaded /\ n.attempt = c.attempt /\ n.round = c.round
        /\ n.last = c.last /\ n.decision = c.decision /\ n.todo = c.todo
    BY <2>1, <1>0, <1>i DEF Fields
  <2> HIDE DEF n, r
  <2>3. Done(n) = Done(c) /\ Judged(n) = Judged(c)
    BY <2>2, <1>1 DEF Done, Judged
  <2>4. Done(c) <= Done(n) /\ Judged(c) <= Judged(n)
    BY <2>3, <1>n
  <2> HIDE DEF c
  <2>5. RunOk(t, n) /\ Advances(c, n) /\ KeepsLast(c, n)
    BY <2>2, <2>4, <1>c, <1>p, GoesOn DEF c
  <2> QED BY <2>5, <1>1 DEF n, c
<1>2. CASE c.pc = "iterate"
  <2> DEFINE x == IF r.result = "failed" THEN "repair_required" ELSE "post_validated"
  <2>1. n = [r EXCEPT !.pc = "advance2", !.stage = "unknown",
                      !.last = IF saved THEN RoundId(t) ELSE c.last, !.todo = <<x>>]
    BY <1>0, <1>2 DEF After, Remembered
  <2>2. x \in Working
    BY DEF Working
  <2> HIDE DEF x
  <2>3. /\ DOMAIN n = Fields /\ n.pc = "advance2" /\ n.id = c.id
        /\ n.loaded = NotLoaded /\ n.attempt = c.attempt /\ n.round = c.round
        /\ n.last = (IF saved THEN RoundId(t) ELSE c.last)
        /\ n.decision = c.decision /\ n.todo = <<x>>
    BY <2>1, <1>0 DEF Fields
  <2>4. n.todo \in Seq(Working) /\ n.todo # <<>>
    BY <2>2, <2>3
  <2> HIDE DEF n, r
  <2>5. Done(n) = c.round /\ Judged(n) = c.round
    BY <2>3 DEF Done, Judged
  <2>6. Done(c) <= Done(n) /\ Judged(c) <= Judged(n) /\ c.round <= Done(n)
    BY <2>5, <1>n
  <2>7. n.last # c.last => n.last = <<t, c.attempt, c.round>>
    BY <2>3, <1>i
  <2> HIDE DEF c
  <2>8. RunOk(t, n) /\ Advances(c, n) /\ (n.last = c.last => KeepsLast(c, n))
    BY <2>3, <2>4, <2>6, <2>7, <1>c, <1>p, GoesOn DEF c
  <2>9. CASE saved
    <3>1. n.last = RoundId(t)
      BY <2>3, <2>9
    <3> QED BY <2>3, <2>8, <2>9, <3>1, <1>2 DEF n, c
  <2>10. CASE ~saved
    <3>1. n.last = c.last
      BY <2>3, <2>10
    <3> QED BY <2>8, <2>10, <3>1 DEF n, c
  <2> QED BY <2>9, <2>10
<1>3. CASE c.pc = "finish"
  <2>1. n = [Idle EXCEPT !.pc = "done", !.attempt = c.attempt, !.round = c.round]
    BY <1>0, <1>3 DEF After
  <2>2. /\ DOMAIN n = Fields /\ n.pc = "done" /\ n.id = NoParent
        /\ n.loaded = NotLoaded /\ n.attempt = c.attempt /\ n.round = c.round
        /\ n.last = NoParent /\ n.decision = NoParent /\ n.todo = <<>>
    BY <2>1 DEF Fields, Idle
  <2>3. n.todo \in Seq(Working) /\ c.attempt \in 0..MaxAttempts[t]
    BY <2>2 DEF RunOk
  <2> HIDE DEF n, r, c
  <2>4. RunOk(t, n)
    BY <2>2, <2>3, <1>c DEF RunOk, Pcs, Finished
  <2>5. Advances(c, n) /\ KeepsLast(c, n)
    BY <2>2, <1>n DEF Advances, KeepsLast, Finished
  <2> QED BY <2>4, <2>5, <1>3 DEF n, c
<1>4. CASE c.pc \in {"advance", "advance2"}
  <2> DEFINE rest == IF saved THEN Tail(c.todo) ELSE <<>>
             to == IF rest # <<>> THEN c.pc ELSE IF c.pc = "advance" THEN "analyse" ELSE "review"
  <2>1. n = [r EXCEPT !.todo = rest, !.pc = to]
    BY <1>0, <1>4 DEF After
  <2>2. rest \in Seq(Working) /\ (to \in {"advance", "advance2"} => rest # <<>>)
        /\ to \in {"advance", "advance2", "analyse", "review"}
        /\ (to \in {"advance2", "review"} <=> c.pc = "advance2")
    BY <1>c, <1>4
  <2> HIDE DEF rest, to
  <2>3. /\ DOMAIN n = Fields /\ n.pc = to /\ n.id = c.id
        /\ n.loaded = NotLoaded /\ n.attempt = c.attempt /\ n.round = c.round
        /\ n.last = c.last /\ n.decision = c.decision /\ n.todo = rest
    BY <2>1, <1>0 DEF Fields
  <2> HIDE DEF n, r
  <2>4. Done(n) = Done(c) /\ Judged(n) = Judged(c)
    BY <2>2, <2>3, <1>4 DEF Done, Judged
  <2>5. Done(c) <= Done(n) /\ Judged(c) <= Judged(n)
    BY <2>4, <1>n
  <2> HIDE DEF c
  <2>6. RunOk(t, n) /\ Advances(c, n) /\ KeepsLast(c, n)
    BY <2>2, <2>3, <2>5, <1>c, <1>p, GoesOn DEF c
  <2> QED BY <2>6, <1>4 DEF n, c
<1> QED BY <1>1, <1>2, <1>3, <1>4 DEF HistoryOps

\* A run after a hook of the telemetry
LEMMA AfterTelemetryMoves ==
    ASSUME NEW t \in Threads, NEW saved \in BOOLEAN, RunOk(t, run[t]), run[t].pc \in TelemetryOps
    PROVE  LET n == AfterTelemetry(t, saved)
           IN Moves(t, run[t], n) /\ n.pc # "record"
<1> DEFINE c == run[t]
           r == [c EXCEPT !.loaded = NotLoaded]
           n == AfterTelemetry(t, saved)
           id == IF saved THEN RoundId(t) ELSE NoParent
<1>0. /\ DOMAIN r = Fields /\ r.loaded = NotLoaded /\ r.pc = c.pc /\ r.attempt = c.attempt
      /\ r.round = c.round /\ r.id = c.id /\ r.last = c.last /\ r.decision = c.decision
      /\ r.todo = c.todo
  BY DEF RunOk, Fields
<1>1. n = IF c.pc = "record"
            THEN [r EXCEPT !.pc = "validate", !.narrow = FALSE, !.decision = id]
            ELSE [r EXCEPT !.pc = "iterate", !.quality = "unconfirmed", !.decision = NoParent]
  BY <1>0 DEF AfterTelemetry
<1>2. id \in {NoParent, <<t, c.attempt, c.round>>}
  BY DEF RoundId
<1> HIDE DEF id
<1>3. /\ DOMAIN n = Fields /\ n.id = c.id /\ n.last = c.last
      /\ n.loaded = NotLoaded /\ n.attempt = c.attempt /\ n.round = c.round /\ n.todo = c.todo
      /\ n.pc = (IF c.pc = "record" THEN "validate" ELSE "iterate")
      /\ n.decision = (IF c.pc = "record" THEN id ELSE NoParent)
  BY <1>1, <1>0 DEF Fields
<1> HIDE DEF n, r
<1>4. /\ c.attempt \in Nat /\ c.round \in Nat /\ c.round >= 1
  BY Numbers
<1>5. Done(c) <= Done(n) /\ Judged(c) <= Judged(n)
  BY <1>3, <1>4 DEF Done, Judged, TelemetryOps
<1>6. /\ n.pc \in Pcs \ {"start"} /\ c.pc \notin Finished /\ n.pc \notin {"advance", "advance2", "record"}
      /\ n.decision # NoParent => n.pc \in {"validate", "finalize"} /\ n.decision = <<t, c.attempt, n.round>>
  BY <1>2, <1>3 DEF Pcs, HistoryOps, TelemetryOps, Finished
<1>7. /\ c.round \in 1..MaxRounds[t] /\ c.todo \in Seq(Working) /\ c.id \in {NoParent, <<t, c.attempt>>}
  BY DEF RunOk
<1> HIDE DEF c
<1>8. RunOk(t, n) /\ Advances(c, n) /\ KeepsLast(c, n)
  BY <1>3, <1>5, <1>6, <1>7, GoesOn DEF c
<1> QED BY <1>6, <1>8 DEF Moves, n, c

\* How each action moves the run that takes it
LEMMA GenerateMoves ==
    ASSUME NEW t \in Threads, RunOk(t, run[t]), Generate(t), LockInv
    PROVE  Moves(t, run[t], run'[t]) /\ run'[t].pc # "record"
<1> DEFINE c == run[t]
           n == run'[t]
           all == <<"repaired", "candidate_generated", "validated", "approved", "applied">>
<1>1. c.pc = "generate" /\ c.loaded = NotLoaded
  BY DEF Generate, Here
<1>2. \/ n = [c EXCEPT !.pc = "finish"]
      \/ n = [c EXCEPT !.pc = "advance", !.todo = all]
  BY DEF Generate, Set, LockInv
<1>3. all \in Seq(Working) /\ all # <<>>
  BY DEF Working
<1> HIDE DEF all
<1>4. /\ DOMAIN c = Fields /\ c.round \in 1..MaxRounds[t] /\ c.todo \in Seq(Working)
      /\ c.id \in {NoParent, <<t, c.attempt>>} /\ c.decision = NoParent
  BY <1>1 DEF RunOk
<1>5. /\ DOMAIN n = Fields /\ n.id = c.id /\ n.last = c.last
      /\ n.loaded = NotLoaded /\ n.attempt = c.attempt /\ n.round = c.round
      /\ n.decision = NoParent
      /\ \/ n.pc = "finish" /\ n.todo = c.todo
         \/ n.pc = "advance" /\ n.todo = all
  BY <1>1, <1>2, <1>4 DEF Fields
<1>6. /\ c.attempt \in Nat /\ c.round \in Nat /\ c.round >= 1
  BY Numbers
<1> HIDE DEF n
<1>7. Done(c) <= Done(n) /\ Judged(c) <= Judged(n)
  BY <1>1, <1>5, <1>6 DEF Done, Judged
<1>8. /\ n.pc \in Pcs \ {"start"} /\ c.pc \notin Finished /\ n.pc # "record"
  BY <1>1, <1>5 DEF Pcs, HistoryOps, Finished
<1> HIDE DEF c
<1>9. RunOk(t, n) /\ Advances(c, n) /\ KeepsLast(c, n)
  BY <1>3, <1>4, <1>5, <1>7, <1>8, GoesOn DEF c
<1> QED BY <1>8, <1>9 DEF Moves, n, c

\* The analysis leads to a decision to be recorded
LEMMA AnalyseMoves ==
    ASSUME NEW t \in Threads, RunOk(t, run[t]), Analyse(t), LockInv
    PROVE  Moves(t, run[t], run'[t])
<1> DEFINE c == run[t]
           n == run'[t]
<1>1. c.pc = "analyse" /\ c.loaded = NotLoaded
  BY DEF Analyse, Here
<1>2. \E a, b : n = [c EXCEPT !.pc = "record", !.report = a, !.narrow = b]
  <2>1. PICK r \in ReportsOf[t] :
               Set(t, [run[t] EXCEPT !.pc = "record", !.report = r,
                         !.narrow = WouldNarrow(LoadTelemetry(telemetry).observations,
                                                r.types, r.confidence, r.degraded)])
    BY Zenon DEF Analyse
  <2> DEFINE b == WouldNarrow(LoadTelemetry(telemetry).observations,
                              r.types, r.confidence, r.degraded)
  <2>4. run' = [run EXCEPT ![t] = [c EXCEPT !.pc = "record", !.report = r, !.narrow = b]]
    BY <2>1, Zenon DEF Set
  <2> HIDE DEF b
  <2>2. t \in DOMAIN run
    BY DEF LockInv
  <2>3. n = [c EXCEPT !.pc = "record", !.report = r, !.narrow = b]
    <3> HIDE DEF c
    <3> QED BY <2>2, <2>4
  <2> QED BY <2>3
<1>4. /\ DOMAIN c = Fields /\ c.round \in 1..MaxRounds[t] /\ c.todo \in Seq(Working)
      /\ c.id \in {NoParent, <<t, c.attempt>>} /\ c.decision = NoParent
  BY <1>1 DEF RunOk
<1>5. /\ DOMAIN n = Fields /\ n.id = c.id /\ n.last = c.last
      /\ n.loaded = NotLoaded /\ n.attempt = c.attempt /\ n.round = c.round
      /\ n.decision = NoParent /\ n.pc = "record" /\ n.todo = c.todo
  BY <1>1, <1>2, <1>4 DEF Fields
<1>6. /\ c.attempt \in Nat /\ c.round \in Nat /\ c.round >= 1
  BY Numbers
<1> HIDE DEF n
<1>7. Done(c) <= Done(n) /\ Judged(c) <= Judged(n)
  BY <1>1, <1>5, <1>6 DEF Done, Judged
<1>8. /\ n.pc \in Pcs \ {"start"} /\ c.pc \notin Finished /\ n.pc \notin {"advance", "advance2"}
  BY <1>1, <1>5 DEF Pcs, HistoryOps, TelemetryOps, Finished
<1> HIDE DEF c
<1>9. RunOk(t, n) /\ Advances(c, n) /\ KeepsLast(c, n)
  BY <1>4, <1>5, <1>7, <1>8, GoesOn DEF c
<1> QED BY <1>9 DEF Moves, n, c

\* A validation leads to its outcome, under the decision it had
LEMMA ValidateMoves ==
    ASSUME NEW t \in Threads, RunOk(t, run[t]), Validate(t), LockInv
    PROVE  Moves(t, run[t], run'[t]) /\ run'[t].pc # "record"
<1> DEFINE c == run[t]
           n == run'[t]
           to == IF c.decision = NoParent THEN "iterate" ELSE "finalize"
<1>1. c.pc = "validate" /\ c.loaded = NotLoaded
  BY DEF Validate, Here
<1>2. \E a, b, d : n = [c EXCEPT !.pc = to, !.result = a, !.stage = b, !.quality = d]
  <2>1. PICK targeted \in {"failed", "passed", "not_run"}, broad \in {"failed", "passed", "not_run"} :
          Set(t, [run[t] EXCEPT
                !.pc = IF run[t].decision = NoParent THEN "iterate" ELSE "finalize",
                !.result = IF "failed" \in {targeted, broad} THEN "failed" ELSE "passed",
                !.stage = IF broad = "not_run" THEN "targeted" ELSE "broad",
                !.quality = Classify(run[t].report.scope, targeted # "not_run",
                              targeted = "failed", broad # "not_run", broad = "failed")])
    BY ZenonT(40) DEF Validate
  <2> DEFINE q == Classify(run[t].report.scope, targeted # "not_run",
                           targeted = "failed", broad # "not_run", broad = "failed")
             x == [run[t] EXCEPT
                !.pc = IF run[t].decision = NoParent THEN "iterate" ELSE "finalize",
                !.result = IF "failed" \in {targeted, broad} THEN "failed" ELSE "passed",
                !.stage = IF broad = "not_run" THEN "targeted" ELSE "broad",
                !.quality = q]
  <2>2. Set(t, x)
    BY <2>1, Zenon
  <2>3. \E a, b, d : x = [c EXCEPT !.pc = to, !.result = a, !.stage = b, !.quality = d]
    <3> HIDE DEF q
    <3> QED OBVIOUS
  <2> HIDE DEF x
  <2>4. run' = [run EXCEPT ![t] = x]
    BY <2>2 DEF Set
  <2>5. n = x
    BY <2>4 DEF LockInv
  <2> QED BY <2>3, <2>5
<1>4. /\ DOMAIN c = Fields /\ c.round \in 1..MaxRounds[t] /\ c.todo \in Seq(Working)
      /\ c.id \in {NoParent, <<t, c.attempt>>}
      /\ c.decision # NoParent => c.decision = <<t, c.attempt, c.round>>
  BY DEF RunOk
<1>5. /\ DOMAIN n = Fields /\ n.id = c.id /\ n.last = c.last
      /\ n.loaded = NotLoaded /\ n.attempt = c.attempt /\ n.round = c.round
      /\ n.decision = c.decision /\ n.pc = to /\ n.todo = c.todo
  BY <1>1, <1>2, <1>4 DEF Fields
<1>6. /\ c.attempt \in Nat /\ c.round \in Nat /\ c.round >= 1
  BY Numbers
<1> HIDE DEF n
<1>7. Done(c) <= Done(n) /\ Judged(c) <= Judged(n)
  BY <1>1, <1>5, <1>6 DEF Done, Judged
<1>8. /\ n.pc \in Pcs \ {"start"} /\ c.pc \notin Finished /\ n.pc \notin {"advance", "advance2", "record"}
      /\ n.decision # NoParent => n.pc \in {"validate", "finalize"} /\ n.decision = <<t, c.attempt, n.round>>
  BY <1>1, <1>4, <1>5 DEF Pcs, HistoryOps, TelemetryOps, Finished
<1> HIDE DEF c, to
<1>9. RunOk(t, n) /\ Advances(c, n) /\ KeepsLast(c, n)
  BY <1>4, <1>5, <1>7, <1>8, GoesOn DEF c
<1> QED BY <1>8, <1>9 DEF Moves, n, c

\* A review leads to the end or to another round
LEMMA ReviewMoves ==
    ASSUME NEW t \in Threads, RunOk(t, run[t]), Review(t), LockInv
    PROVE  Moves(t, run[t], run'[t]) /\ run'[t].pc # "record"
<1> DEFINE c == run[t]
           n == run'[t]
<1>1. c.pc = "review" /\ c.loaded = NotLoaded
  BY DEF Review, Here
<1>2. \/ n = [c EXCEPT !.pc = "finish", !.completed = TRUE]
      \/ c.round < MaxRounds[t] /\ n = [c EXCEPT !.pc = "generate", !.round = c.round + 1]
      \/ n = [c EXCEPT !.pc = "finish"]
  BY DEF Review, Set, LockInv
<1>4. /\ DOMAIN c = Fields /\ c.round \in 1..MaxRounds[t] /\ c.todo \in Seq(Working)
      /\ c.id \in {NoParent, <<t, c.attempt>>} /\ c.decision = NoParent
  BY <1>1 DEF RunOk
<1> DEFINE next == c.round + 1
<1>6. /\ c.attempt \in Nat /\ c.round \in Nat /\ c.round >= 1 /\ MaxRounds[t] \in Nat
  BY Numbers, LearningAssumption
<1>3. next \in Nat /\ (c.round < MaxRounds[t] => next \in 1..MaxRounds[t]) /\ next - 1 = c.round
  BY <1>6
<1> HIDE DEF next
<1>5. /\ DOMAIN n = Fields /\ n.id = c.id /\ n.last = c.last
      /\ n.loaded = NotLoaded /\ n.attempt = c.attempt /\ n.todo = c.todo
      /\ n.decision = NoParent
      /\ \/ n.pc = "finish" /\ n.round = c.round
         \/ n.pc = "generate" /\ n.round = next /\ c.round < MaxRounds[t]
  BY <1>1, <1>2, <1>4 DEF Fields, next
<1> HIDE DEF n
<1>7. Done(c) <= Done(n) /\ Judged(c) <= Judged(n)
  BY <1>1, <1>3, <1>5, <1>6 DEF Done, Judged
<1>8. /\ n.pc \in Pcs \ {"start"} /\ c.pc \notin Finished /\ n.pc \notin {"advance", "advance2", "record"}
      /\ n.round \in 1..MaxRounds[t]
  BY <1>1, <1>3, <1>4, <1>5 DEF Pcs, HistoryOps, Finished
<1> HIDE DEF c
<1>9. RunOk(t, n) /\ Advances(c, n) /\ KeepsLast(c, n)
  BY <1>4, <1>5, <1>7, <1>8, GoesOn DEF c
<1> QED BY <1>8, <1>9 DEF Moves, n, c

\* A run begins under a new attempt
LEMMA BeginMoves ==
    ASSUME NEW t \in Threads, RunOk(t, run[t]), Begin(t), LockInv
    PROVE  Moves(t, run[t], run'[t]) /\ run'[t].pc # "record"
<1> DEFINE c == run[t]
           n == run'[t]
           next == c.attempt + 1
<1>1. c.pc \in {"idle", "down"} /\ c.attempt < MaxAttempts[t]
  BY DEF Begin
<1>2. n = [Idle EXCEPT !.pc = "start", !.attempt = next, !.round = c.round]
  BY DEF Begin, Set, LockInv
<1>3. /\ c.attempt \in Nat /\ MaxAttempts[t] \in Nat
  BY Numbers, LearningAssumption
<1>4. next \in 0..MaxAttempts[t] /\ next > c.attempt
  BY <1>1, <1>3
<1>5. /\ DOMAIN n = Fields /\ n.pc = "start" /\ n.attempt = next /\ n.round = c.round
      /\ n.id = NoParent /\ n.last = NoParent /\ n.decision = NoParent /\ n.todo = <<>>
      /\ n.loaded = NotLoaded
  BY <1>2 DEF Idle, Fields
<1>6. n.todo \in Seq(Working) /\ c.round \in 1..MaxRounds[t]
  BY <1>5 DEF RunOk
<1> HIDE DEF n, next
<1>7. RunOk(t, n)
  BY <1>4, <1>5, <1>6 DEF RunOk, Pcs, HistoryOps
<1>8. c.attempt <= n.attempt /\ n.attempt # c.attempt
  BY <1>3, <1>4, <1>5
<1>9. Advances(c, n) /\ KeepsLast(c, n)
  BY <1>8 DEF Advances, KeepsLast
<1> QED BY <1>5, <1>7, <1>9 DEF Moves, n

\* A crash leaves the attempt and the round of every run that was on its way
LEMMA CrashMoves ==
    ASSUME NEW t \in Threads, RunOk(t, run[t]), Crash, LockInv
    PROVE  Moves(t, run[t], run'[t]) /\ run'[t].pc # "record"
<1> DEFINE c == run[t]
           n == run'[t]
<1>0. c.attempt \in Nat /\ Done(c) \in Nat /\ Judged(c) \in Nat
  BY Numbers
<1>1. CASE c.pc \in {"idle", "done"}
  <2>1. n = c
    BY <1>1 DEF Crash
  <2> QED BY <2>1, <1>1, <1>0 DEF Moves, Advances, KeepsLast
<1>2. CASE c.pc \notin {"idle", "done"}
  <2>1. n = [Idle EXCEPT !.pc = "down", !.attempt = c.attempt, !.round = c.round]
    BY <1>2 DEF Crash
  <2>2. /\ DOMAIN n = Fields /\ n.pc = "down" /\ n.attempt = c.attempt /\ n.round = c.round
        /\ n.id = NoParent /\ n.last = NoParent /\ n.decision = NoParent /\ n.todo = <<>>
        /\ n.loaded = NotLoaded
    BY <2>1 DEF Idle, Fields
  <2>3. n.todo \in Seq(Working) /\ c.round \in 1..MaxRounds[t] /\ c.attempt \in 0..MaxAttempts[t]
    BY <2>2 DEF RunOk
  <2> HIDE DEF n, c
  <2>4. RunOk(t, n)
    BY <2>2, <2>3 DEF RunOk, Pcs, Finished
  <2>5. Advances(c, n) /\ KeepsLast(c, n)
    BY <2>2, <1>0 DEF Advances, KeepsLast, Finished
  <2> QED BY <2>2, <2>4, <2>5 DEF Moves, n, c
<1> QED BY <1>1, <1>2

\* What a run that stands at its decision is about to record
KeepsReport(r, n) ==
    n.pc = "record" =>
        /\ r.pc = "record" /\ n.narrow = r.narrow /\ n.report = r.report
        /\ n.attempt = r.attempt /\ n.round = r.round

RunsInv == \A t \in Threads : RunOk(t, run[t])
\* How the runs move in a step
RunsMove ==
    \A u \in Threads :
        /\ RunOk(u, run'[u]) /\ Advances(run[u], run'[u])
        /\ KeepsLast(run[u], run'[u]) \/ (PutHistory(u) /\ run[u].pc = "iterate")
        /\ KeepsReport(run[u], run'[u]) \/ Analyse(u)

\* A step in which one run moves as it may, and the others stay
LEMMA OthersStay ==
    ASSUME RunsInv, NEW t \in Threads, \A u \in Threads \ {t} : run'[u] = run[u],
           /\ RunOk(t, run'[t]) /\ Advances(run[t], run'[t])
           /\ KeepsLast(run[t], run'[t]) \/ (PutHistory(t) /\ run[t].pc = "iterate")
           /\ KeepsReport(run[t], run'[t]) \/ Analyse(t)
    PROVE  RunsMove
<1> SUFFICES ASSUME NEW u \in Threads \ {t}
             PROVE  /\ RunOk(u, run[u]) /\ Advances(run[u], run[u])
                    /\ KeepsLast(run[u], run[u]) /\ KeepsReport(run[u], run[u])
  BY DEF RunsMove
<1>1. RunOk(u, run[u])
  BY DEF RunsInv
<1>2. run[u].attempt \in Nat /\ Done(run[u]) \in Nat /\ Judged(run[u]) \in Nat
  BY <1>1, Numbers
<1> QED BY <1>1, <1>2 DEF Advances, KeepsLast, KeepsReport

\* How the runs move in any step
LEMMA RunsStep ==
    ASSUME LockInv, RunsInv, [Next]_vars
    PROVE  RunsMove
<1> USE DEF Moves
<1>0. \A t \in Threads : RunOk(t, run[t])
  BY DEF RunsInv
<1>l. run = [ t \in Threads |-> run[t] ] /\ (TRUE \in BOOLEAN) /\ (FALSE \in BOOLEAN)
  BY DEF LockInv
<1>1. ASSUME NEW t \in Threads, Begin(t) \/ Generate(t) \/ Analyse(t) \/ Validate(t) \/ Review(t)
      PROVE  RunsMove
  <2>1. \A u \in Threads \ {t} : run'[u] = run[u]
    <3>1. \E n : run' = [run EXCEPT ![t] = n]
      <4>1. CASE Begin(t)
        BY <4>1, Zenon DEF Begin, Set
      <4>2. CASE Generate(t)
        BY <4>2, Zenon DEF Generate, Set
      <4>3. CASE Analyse(t)
        BY <4>3, Zenon DEF Analyse, Set
      <4>4. CASE Validate(t)
        BY <4>4, ZenonT(40) DEF Validate, Set
      <4>5. CASE Review(t)
        BY <4>5, Zenon DEF Review, Set
      <4> QED BY <1>1, <4>1, <4>2, <4>3, <4>4, <4>5
    <3> QED BY <3>1, <1>l
  <2>2. Moves(t, run[t], run'[t]) /\ (run'[t].pc # "record" \/ Analyse(t))
    BY <1>0, <1>1, BeginMoves, GenerateMoves, AnalyseMoves, ValidateMoves, ReviewMoves
  <2> QED BY <2>1, <2>2, OthersStay DEF KeepsReport
<1>2. ASSUME NEW t \in Threads, Untraced(t) \/ PutHistory(t) \/ HistoryFails(t)
      PROVE  RunsMove
  <2>1. PICK saved \in BOOLEAN : /\ run' = [run EXCEPT ![t] = After(t, saved)]
                                 /\ saved => PutHistory(t)
    BY <1>2, <1>l DEF Untraced, PutHistory, HistoryFails, Set
  <2>2. run[t].pc \in HistoryOps
    BY <1>2 DEF Untraced, PutHistory, HistoryFails
  <2> DEFINE n == After(t, saved)
  <2>3. /\ RunOk(t, n) /\ Advances(run[t], n)
        /\ run[t].pc # "iterate" \/ ~saved => KeepsLast(run[t], n)
    BY <1>0, <2>2, AfterMoves
  <2>4. n.pc # "record"
    BY <2>2 DEF After, HistoryOps, Idle
  <2> HIDE DEF n
  <2>5. run'[t] = n /\ \A u \in Threads \ {t} : run'[u] = run[u]
    BY <2>1, <1>l DEF n
  <2>6. KeepsLast(run[t], n) \/ (PutHistory(t) /\ run[t].pc = "iterate")
    BY <2>1, <2>3
  <2> QED BY <2>3, <2>4, <2>5, <2>6, OthersStay DEF KeepsReport
<1>3. ASSUME NEW t \in Threads, PutTelemetry(t) \/ TelemetryFails(t)
      PROVE  RunsMove
  <2>1. PICK saved \in BOOLEAN : run' = [run EXCEPT ![t] = AfterTelemetry(t, saved)]
    BY <1>3, <1>l DEF PutTelemetry, TelemetryFails, Set
  <2>2. run[t].pc \in TelemetryOps
    BY <1>3 DEF PutTelemetry, TelemetryFails
  <2> DEFINE n == AfterTelemetry(t, saved)
  <2>3. Moves(t, run[t], n) /\ n.pc # "record"
    BY <1>0, <2>2, AfterTelemetryMoves
  <2> HIDE DEF n
  <2>4. run'[t] = n /\ \A u \in Threads \ {t} : run'[u] = run[u]
    BY <2>1, <1>l DEF n
  <2> QED BY <2>3, <2>4, OthersStay DEF KeepsReport
<1>4. ASSUME NEW t \in Threads, TakeHistory(t) \/ TakeTelemetry(t)
      PROVE  RunsMove
  <2>1. PICK x : run' = [run EXCEPT ![t] = [run[t] EXCEPT !.loaded = x]]
    BY <1>4 DEF TakeHistory, TakeTelemetry, Set
  <2>2. run[t].pc \notin HistoryOps \/ run[t].pc = "start" \/ run[t].id # NoParent
    BY <1>4 DEF TakeHistory, TakeTelemetry, TelemetryOps, HistoryOps
  <2> DEFINE n == [run[t] EXCEPT !.loaded = x]
  <2>3. Moves(t, run[t], n)
    BY <1>0, <2>2, Stays
  <2>4. KeepsReport(run[t], n)
    BY <1>0 DEF KeepsReport, RunOk, Fields
  <2> HIDE DEF n
  <2>5. run'[t] = n /\ \A u \in Threads \ {t} : run'[u] = run[u]
    BY <2>1, <1>l DEF n
  <2> QED BY <2>3, <2>4, <2>5, OthersStay
<1>5. CASE Crash
  BY <1>0, <1>5, CrashMoves DEF RunsMove, KeepsReport
<1>6. CASE DamageHistory \/ DamageTelemetry \/ UNCHANGED vars
  <2>1. run' = run
    BY <1>6 DEF DamageHistory, DamageTelemetry, vars
  <2> SUFFICES ASSUME NEW u \in Threads
               PROVE  /\ RunOk(u, run[u]) /\ Advances(run[u], run[u])
                      /\ KeepsLast(run[u], run[u]) /\ KeepsReport(run[u], run[u])
    BY <2>1 DEF RunsMove
  <2>2. run[u].attempt \in Nat /\ Done(run[u]) \in Nat /\ Judged(run[u]) \in Nat
    BY <1>0, Numbers
  <2> QED BY <1>0, <2>2 DEF Advances, KeepsLast, KeepsReport
<1> QED BY <1>1, <1>2, <1>3, <1>4, <1>5, <1>6 DEF Next, Step

\* At the start every run is idle
LEMMA RunsInit == Init => RunsInv
<1> SUFFICES ASSUME Init, NEW t \in Threads PROVE RunOk(t, run[t])
  BY DEF RunsInv
<1>1. run[t] = Idle
  BY DEF Init
<1>2. MaxAttempts[t] \in Nat \ {0} /\ MaxRounds[t] \in Nat \ {0}
  BY LearningAssumption
<1>3. 0 \in 0..MaxAttempts[t] /\ 1 \in 1..MaxRounds[t]
  BY <1>2
<1> QED BY <1>1, <1>3 DEF RunOk, Idle, Fields, Pcs, Finished

-----------------------------------------------------------------------------
(* The causal chain.                                                       *)

\* What the iterations of the lifecycle <<u, b>> are, as far as they are kept
Chain(its, u, b) ==
    /\ \E S : its \in Seq(S)
    /\ Len(its) <= MaxIterations
    /\ \A k \in 1..Len(its) : its[k].number \in Nat \ {0} /\ its[k].id = <<u, b, its[k].number>>
    /\ \A j, k \in 1..Len(its) : j < k => its[j].number < its[k].number
    /\ \A k \in 1..Len(its) : k > 1 => its[k].parent = its[k - 1].id
    /\ Len(its) > 0 /\ its[1].parent # NoParent =>
         \E m \in Nat : its[1].parent = <<u, b, m>> /\ m < its[1].number

\* SetToSeq of no element, and of one
LEMMA FewInOrder ==
    /\ SetToSeq({}) = <<>>
    /\ \A x : SetToSeq({x}) = <<x>>
<1>1. SetToSeq({}) = <<>>
  <2>1. Cardinality({}) = 0
    BY FS_EmptySet
  <2>2. \A f \in [1..0 -> {}] : f = <<>>
    OBVIOUS
  <2>3. <<>> \in [1..0 -> {}] /\ IsInjective(<<>>)
    BY DEF IsInjective
  <2> QED BY <2>1, <2>2, <2>3 DEF SetToSeq
<1>2. ASSUME NEW x PROVE SetToSeq({x}) = <<x>>
  <2> DEFINE T == {x}
             one == <<x>>
  <2>1. Cardinality(T) = 1
    BY FS_Singleton
  <2>2. \A f \in [1..1 -> T] : f = one
    OBVIOUS
  <2>3. one \in [1..1 -> T] /\ IsInjective(one)
    BY DEF IsInjective
  <2> HIDE DEF one, T
  <2>4. SetToSeq(T) \in [1..1 -> T]
    BY <2>1, <2>3 DEF SetToSeq
  <2> QED BY <2>2, <2>4 DEF one, T
<1> QED BY <1>1, <1>2

\* The walk of RepairChain, one step and all of it
At(its, i) == { k \in DOMAIN its : its[k].id = i }
Further(its, w) == IF w = <<>> THEN {} ELSE At(its, its[Head(w)].parent) \ ToSet(w)
Walked(its, id, g) ==
    [n \in 0..Len(its) |->
        IF n = 0 THEN SetToSeq(At(its, id))
        ELSE SetToSeq(Further(its, g[n - 1])) \o g[n - 1]]
\* The last m places of a sequence of length l
Back(l, m) == [i \in 1..m |-> l - m + i]
Walk(l) == [n \in 0..l |-> Back(l, IF n < l THEN n + 1 ELSE l)]

\* The walk back along a chain is a sequence of places
LEMMA BackIsSequence ==
    ASSUME NEW l \in Nat, NEW m \in 1..l
    PROVE  /\ Back(l, m) \in Seq(1..l) /\ Len(Back(l, m)) = m /\ Back(l, m) # <<>>
           /\ Head(Back(l, m)) = l - m + 1 /\ ToSet(Back(l, m)) = (l - m + 1)..l
           /\ m < l => <<l - m>> \o Back(l, m) = Back(l, m + 1)
<1>1. \A i \in 1..m : l - m + i \in 1..l
  OBVIOUS
<1>2. Back(l, m) \in Seq(1..l) /\ Len(Back(l, m)) = m /\ DOMAIN Back(l, m) = 1..m
  <2>1. m \in Nat
    OBVIOUS
  <2>2. Back(l, m) \in [1..m -> 1..l]
    BY <1>1 DEF Back
  <2>3. Back(l, m) \in Seq(1..l)
    BY <2>1, <2>2
  <2> QED BY <2>1, <2>2, <2>3
<1>3. Back(l, m)[1] = l - m + 1 /\ 1 \in 1..m
  BY DEF Back
<1>4. Back(l, m) # <<>> /\ Head(Back(l, m)) = l - m + 1
  BY <1>2, <1>3
<1>5. ToSet(Back(l, m)) = (l - m + 1)..l
  <2>1. ToSet(Back(l, m)) = { l - m + i : i \in 1..m }
    BY DEF ToSet, Back
  <2>2. \A x \in (l - m + 1)..l : x - l + m \in 1..m /\ x = l - m + (x - l + m)
    OBVIOUS
  <2>3. \A i \in 1..m : l - m + i \in (l - m + 1)..l
    OBVIOUS
  <2> QED BY <2>1, <2>2, <2>3
<1>6. ASSUME m < l PROVE <<l - m>> \o Back(l, m) = Back(l, m + 1)
  <2> DEFINE s == <<l - m>>
             w == Back(l, m)
             v == Back(l, m + 1)
             k == m + 1
  <2>1. s \in Seq(0..l) /\ Len(s) = 1 /\ s[1] = l - m
    OBVIOUS
  <2>2. w \in Seq(0..l) /\ Len(w) = m /\ \A i \in 1..m : w[i] = l - m + i
    <3>1. 1..l \subseteq 0..l
      OBVIOUS
    <3> QED BY <1>2, <3>1, SeqMonotonic DEF Back
  <2>3. k \in Nat /\ k = m + 1 /\ v = [i \in 1..k |-> l - k + i] /\ m \in Nat
    BY DEF Back
  <2> HIDE DEF s, w, v, k
  <2> DEFINE N == 0..l
             c == s \o w
  <2>4. /\ c \in Seq(N) /\ Len(c) = Len(s) + Len(w)
        /\ \A i \in 1..Len(s) + Len(w) : c[i] = IF i <= Len(s) THEN s[i] ELSE w[i - Len(s)]
    <3> HIDE DEF N
    <3> QED BY <2>1, <2>2, ConcatProperties DEF N
  <2>5. c \in Seq(N) /\ Len(c) = k /\ \A i \in 1..k : c[i] = IF i <= 1 THEN s[i] ELSE w[i - 1]
    <3>1. Len(s) + Len(w) = k
      BY <2>1, <2>2, <2>3
    <3> HIDE DEF c
    <3> QED BY <2>1, <2>4, <3>1
  <2> HIDE DEF c, N
  <2>6. \A i \in 1..k : c[i] = l - k + i
    <3> SUFFICES ASSUME NEW i \in 1..k PROVE c[i] = l - k + i
      OBVIOUS
    <3>1. CASE i = 1
      <4>1. c[i] = s[1] /\ l - k + i = l - m
        BY <2>3, <2>5, <3>1
      <4> QED BY <2>1, <4>1
    <3>2. CASE i # 1
      <4>1. i - 1 \in 1..m /\ ~(i <= 1)
        BY <2>3, <3>2
      <4>2. c[i] = l - m + (i - 1)
        BY <2>2, <2>5, <4>1
      <4> QED BY <2>3, <4>1, <4>2
    <3> QED BY <3>1, <3>2
  <2>7. c = [i \in 1..k |-> c[i]]
    BY <2>5
  <2>8. c = v
    BY <2>3, <2>6, <2>7
  <2> QED BY <2>8 DEF s, w, v, k, c
<1> QED BY <1>2, <1>4, <1>5, <1>6

\* One step of the walk over a chain
LEMMA StepBack ==
    ASSUME NEW its, NEW u, NEW b, Chain(its, u, b), NEW n \in 1..Len(its)
    PROVE  LET w == Walk(Len(its))[n - 1]
           IN SetToSeq(Further(its, w)) \o w = Walk(Len(its))[n]
<1> DEFINE l == Len(its)
           w == Back(l, n)
           f == l - n + 1
<1>1. /\ l \in Nat /\ DOMAIN its = 1..l /\ n \in 1..l /\ f \in 1..l /\ n \in Nat
  BY LenProperties DEF Chain
<1>2. Walk(l)[n - 1] = w /\ Walk(l)[n] = Back(l, IF n < l THEN n + 1 ELSE l)
  <2>1. n - 1 \in 0..l /\ n \in 0..l /\ n - 1 < l /\ (n - 1) + 1 = n
    BY <1>1
  <2> HIDE DEF l
  <2> QED BY <2>1 DEF Walk
<1>3. /\ w \in Seq(1..l) /\ w # <<>> /\ Head(w) = f /\ ToSet(w) = f..l
      /\ n < l => <<l - n>> \o w = Back(l, n + 1)
  BY <1>1, BackIsSequence
<1>4. Further(its, w) = At(its, its[f].parent) \ (f..l)
  BY <1>3 DEF Further
<1>5. \A j, k \in 1..l : its[j].id = its[k].id => j = k
  <2> SUFFICES ASSUME NEW j \in 1..l, NEW k \in 1..l, its[j].id = its[k].id PROVE j = k
    OBVIOUS
  <2>1. its[j].number = its[k].number /\ its[j].number \in Nat
    BY DEF Chain
  <2>2. ~(j < k) /\ ~(k < j)
    BY <2>1 DEF Chain
  <2> QED BY <2>2, <1>1
<1>6. CASE n < l
  <2>1. f - 1 = l - n /\ f > 1 /\ l - n \in 1..l /\ l - n \notin f..l
    BY <1>1, <1>6
  <2>2. its[f].parent = its[l - n].id
    <3>1. its[f].parent = its[f - 1].id
      BY <1>1, <2>1 DEF Chain
    <3> QED BY <3>1, <2>1
  <2>3. At(its, its[f].parent) = {l - n}
    BY <1>1, <1>5, <2>1, <2>2 DEF At
  <2>4. Further(its, w) = {l - n}
    BY <1>4, <2>1, <2>3
  <2> HIDE DEF w
  <2>5. SetToSeq(Further(its, w)) = <<l - n>>
    BY <2>4, FewInOrder
  <2>6. SetToSeq(Further(its, w)) \o w = Back(l, n + 1)
    BY <1>3, <1>6, <2>5
  <2> HIDE DEF l
  <2> QED BY <1>2, <1>6, <2>6 DEF l
<1>7. CASE n = l
  <2>1. f = 1
    BY <1>1, <1>7
  <2>2. At(its, its[1].parent) = {}
    <3> SUFFICES ASSUME NEW k \in 1..l, its[k].id = its[1].parent PROVE FALSE
      BY <1>1 DEF At
    <3>1. its[1].parent # NoParent /\ l > 0
      <4>1. its[k].id = <<u, b, its[k].number>>
        BY DEF Chain
      <4> QED BY <4>1, <1>1 DEF NoParent
    <3>2. PICK m \in Nat : its[1].parent = <<u, b, m>> /\ m < its[1].number
      BY <3>1 DEF Chain
    <3>3. its[k].number = m /\ its[1].number \in Nat
      BY <3>2, <1>1 DEF Chain
    <3>4. k # 1 /\ k > 1
      BY <3>2, <3>3, <1>1
    <3>5. its[1].number < its[k].number
      BY <3>4, <1>1 DEF Chain
    <3> QED BY <3>2, <3>3, <3>5
  <2>3. Further(its, w) = {}
    BY <1>4, <2>1, <2>2
  <2> HIDE DEF w
  <2>4. SetToSeq(Further(its, w)) \o w = w
    BY <2>3, <1>3, FewInOrder
  <2>5. w = Back(l, l)
    BY <1>7 DEF w
  <2> HIDE DEF l
  <2> QED BY <1>2, <1>7, <2>4, <2>5 DEF l
<1>8. n < l \/ n = l
  <2> HIDE DEF l
  <2> QED BY <1>1
<1> QED BY <1>6, <1>7, <1>8

\* The walk from the last iteration of a chain finds all of it
LEMMA WholeChain ==
    ASSUME NEW r, NEW u, NEW b, Chain(r.iterations, u, b), r.iterations # <<>>
    PROVE  RepairChain(r, Last(r.iterations).id) = r.iterations
<1> DEFINE its == r.iterations
           l == Len(its)
           id == Last(its).id
           g == CHOOSE h : h = Walked(its, id, h)
<1>1. /\ l \in Nat /\ l >= 1 /\ DOMAIN its = 1..l /\ its = [i \in 1..l |-> its[i]]
      /\ id = its[l].id
  BY LenProperties DEF Chain, Last
<1>2. SetToSeq(At(its, id)) = Walk(l)[0]
  <2>1. \A j \in 1..l : its[j].id = its[l].id => j = l
    <3> SUFFICES ASSUME NEW j \in 1..l, its[j].id = its[l].id PROVE j = l
      OBVIOUS
    <3>1. its[j].number = its[l].number /\ its[j].number \in Nat /\ l \in 1..l
      BY <1>1 DEF Chain
    <3>2. ~(j < l)
      BY <3>1 DEF Chain
    <3> QED BY <1>1, <3>2
  <2>2. At(its, id) = {l}
    BY <1>1, <2>1 DEF At
  <2>3. Walk(l)[0] = <<l>>
    <3>1. Walk(l)[0] = Back(l, 1)
      BY <1>1 DEF Walk
    <3>2. Back(l, 1) = <<l>>
      BY <1>1 DEF Back
    <3> QED BY <3>1, <3>2
  <2> HIDE DEF id
  <2> QED BY <2>2, <2>3, FewInOrder
<1>3. \A n \in 1..l : LET w == Walk(l)[n - 1]
                      IN SetToSeq(Further(its, w)) \o w = Walk(l)[n]
  BY StepBack
<1> HIDE DEF its, id, l
<1>4. Walk(l) = Walked(its, id, Walk(l))
  <2>1. \A n \in 0..l : Walk(l)[n] = IF n = 0 THEN SetToSeq(At(its, id))
          ELSE SetToSeq(Further(its, Walk(l)[n - 1])) \o Walk(l)[n - 1]
    <3> SUFFICES ASSUME NEW n \in 0..l
                 PROVE  Walk(l)[n] = IF n = 0 THEN SetToSeq(At(its, id))
                          ELSE SetToSeq(Further(its, Walk(l)[n - 1])) \o Walk(l)[n - 1]
      OBVIOUS
    <3>1. n = 0 \/ n \in 1..l
      BY <1>1
    <3> QED BY <3>1, <1>2, <1>3
  <2>2. Walk(l) = [n \in 0..l |-> Walk(l)[n]]
    BY DEF Walk
  <2> QED BY <2>1, <2>2 DEF Walked, l
<1>5. g = Walked(its, id, g)
  <2>1. \E h : h = Walked(its, id, h)
    BY <1>4
  <2> QED BY <2>1
<1>6. RepairChain(r, id) = [ k \in DOMAIN g[l] |-> its[g[l][k]] ]
  BY DEF RepairChain, Walked, At, Further, its, l
<1> HIDE DEF g
<1>7. g[l] = Walk(l)[l]
  <2> DEFINE N == { n \in Nat : n <= l => g[n] = Walk(l)[n] }
  <2>1. 0 \in N
    <3>1. 0 \in 0..l
      BY <1>1
    <3>2. g[0] = SetToSeq(At(its, id))
      BY <1>5, <3>1 DEF Walked, l
    <3> QED BY <1>2, <3>2
  <2>2. ASSUME NEW n \in N PROVE n + 1 \in N
    <3> SUFFICES ASSUME n + 1 <= l PROVE g[n + 1] = Walk(l)[n + 1]
      OBVIOUS
    <3> DEFINE k == n + 1
    <3>1. k \in 1..l /\ k \in 0..l /\ k # 0 /\ k - 1 = n /\ g[n] = Walk(l)[n]
      BY <1>1
    <3> HIDE DEF k
    <3>2. g[k] = SetToSeq(Further(its, g[n])) \o g[n]
      BY <1>5, <3>1 DEF Walked, l
    <3>3. SetToSeq(Further(its, Walk(l)[n])) \o Walk(l)[n] = Walk(l)[k]
      BY <1>3, <3>1
    <3>4. g[k] = Walk(l)[k]
      BY <3>1, <3>2, <3>3
    <3> QED BY <3>4 DEF k
  <2>3. N \in SUBSET Nat
    OBVIOUS
  <2> HIDE DEF N
  <2>4. l \in N
    BY <1>1, <2>1, <2>2, <2>3, Induction
  <2> QED BY <1>1, <2>4 DEF N
<1>8. Walk(l)[l] = [i \in 1..l |-> i]
  <2>1. Walk(l)[l] = Back(l, l)
    BY <1>1 DEF Walk
  <2>2. Back(l, l) = [i \in 1..l |-> i]
    BY <1>1 DEF Back
  <2> QED BY <2>1, <2>2
<1>9. RepairChain(r, id) = its
  BY <1>1, <1>6, <1>7, <1>8
<1> QED BY <1>9 DEF its, id

\* p is the end of q
Ends(p, q) == \E d \in Nat : Len(q) = Len(p) + d /\ \A i \in 1..Len(p) : p[i] = q[i + d]

\* What KeepNewest leaves of a sequence: its end
LEMMA KeptPlaces ==
    ASSUME NEW S, NEW q \in Seq(S), NEW n \in Nat \ {0}, NEW p, p = KeepNewest(q, n)
    PROVE  p \in Seq(S) /\ Len(p) <= n /\ Ends(p, q) /\ (Len(q) > 0 => Len(p) > 0)
<1> USE DEF Ends
<1> DEFINE l == Len(q)
<1>1. l \in Nat
  BY LenProperties
<1>2. CASE l > n
  <2> DEFINE d == l - n
  <2>1. p = SubSeq(q, d + 1, l)
    <3>1. l - n + 1 = d + 1
      OBVIOUS
    <3> QED BY <1>2, <3>1 DEF KeepNewest
  <2>2. d \in Nat /\ d + 1 \in 1..l /\ l - (d + 1) + 1 = n /\ l = n + d /\ l <= l
    BY <1>1, <1>2
  <2>3. SubSeq(q, d + 1, l) \in Seq(S) /\ Len(SubSeq(q, d + 1, l)) = n
        /\ \A i \in 1..n : SubSeq(q, d + 1, l)[i] = q[i + d]
    <3>1. \A i \in 1..n : i + d \in 1..l /\ (d + 1) + i - 1 = i + d
      BY <2>2
    <3> HIDE DEF d
    <3>2. SubSeq(q, d + 1, l) = [i \in 1..n |-> q[(d + 1) + i - 1]]
      BY <2>2, <1>1
    <3>3. SubSeq(q, d + 1, l) = [i \in 1..n |-> q[i + d]]
      BY <3>1, <3>2
    <3>4. \A i \in 1..n : q[i + d] \in S
      BY <3>1, ElementOfSeq
    <3> HIDE DEF l
    <3>5. [i \in 1..n |-> q[i + d]] \in Seq(S) /\ Len([i \in 1..n |-> q[i + d]]) = n
      BY <3>4
    <3> QED BY <3>3, <3>5
  <2> HIDE DEF d, l
  <2> QED BY <2>1, <2>2, <2>3 DEF l
<1>3. CASE ~(l > n)
  <2>1. p = q
    BY <1>3 DEF KeepNewest
  <2>2. l <= n /\ l = l + 0 /\ \A i \in 1..l : i + 0 = i
    BY <1>1, <1>3
  <2> QED BY <2>1, <2>2, <1>1
<1> QED BY <1>2, <1>3

\* A chain goes on with an iteration that names the last one
LEMMA ChainGrows ==
    ASSUME NEW its, NEW u, NEW b, Chain(its, u, b), NEW it, NEW m \in Nat \ {0},
           it.number = m, it.id = <<u, b, m>>,
           Len(its) > 0 => its[Len(its)].number < m /\ it.parent = its[Len(its)].id,
           Len(its) = 0 /\ it.parent # NoParent => \E j \in Nat : it.parent = <<u, b, j>> /\ j < m
    PROVE  LET new == KeepNewest(Append(its, it), MaxIterations)
           IN Chain(new, u, b) /\ Len(new) > 0 /\ new[Len(new)] = it
<1> DEFINE l == Len(its)
           all == Append(its, it)
           new == KeepNewest(all, MaxIterations)
           k == l + 1
<1>1. PICK S : its \in Seq(S)
  BY DEF Chain
<1>2. l \in Nat /\ k \in Nat /\ k = l + 1
  BY <1>1, LenProperties
<1>3. all \in Seq(S \cup {it}) /\ Len(all) = k /\ (\A i \in 1..l : all[i] = its[i]) /\ all[k] = it
  <2>1. its \in Seq(S \cup {it}) /\ it \in S \cup {it}
    BY <1>1
  <2>2. all \in Seq(S \cup {it}) /\ Len(all) = l + 1 /\ (\A i \in 1..l : all[i] = its[i])
        /\ all[l + 1] = it
    BY <2>1, <1>2, AppendProperties
  <2> QED BY <2>2
<1>4. MaxIterations \in Nat \ {0}
  BY LifecycleAssumption
<1> HIDE DEF all
<1>5. PICK d \in Nat : /\ k = Len(new) + d /\ \A i \in 1..Len(new) : new[i] = all[i + d]
  <2> DEFINE T == S \cup {it}
             M == MaxIterations
  <2>0. all \in Seq(T) /\ M \in Nat \ {0} /\ new = KeepNewest(all, M)
    BY <1>3, <1>4
  <2> HIDE DEF T, M, new
  <2>1. Ends(new, all)
    BY <2>0, KeptPlaces
  <2> QED BY <2>1, <1>3 DEF Ends
<1>6. new \in Seq(S \cup {it}) /\ Len(new) <= MaxIterations /\ Len(new) > 0 /\ Len(new) \in Nat
  <2>1. k > 0
    BY <1>2
  <2>2. new \in Seq(S \cup {it}) /\ Len(new) <= MaxIterations /\ (Len(all) > 0 => Len(new) > 0)
    BY <1>3, <1>4, KeptPlaces
  <2> QED BY <2>1, <2>2, <1>3, LenProperties
<1>7. /\ \A i \in 1..l : all[i].number \in Nat \ {0} /\ all[i].id = <<u, b, all[i].number>>
      /\ all[k].number = m /\ all[k].id = <<u, b, m>>
  BY <1>3 DEF Chain
<1>8. \A i \in 1..k : all[i].number \in Nat \ {0} /\ all[i].id = <<u, b, all[i].number>>
  <2> SUFFICES ASSUME NEW i \in 1..k
               PROVE  all[i].number \in Nat \ {0} /\ all[i].id = <<u, b, all[i].number>>
    OBVIOUS
  <2>1. i \in 1..l \/ i = k
    BY <1>2
  <2> HIDE DEF k, l
  <2> QED BY <2>1, <1>7
<1>9. \A i, j \in 1..k : i < j => all[i].number < all[j].number
  <2> SUFFICES ASSUME NEW i \in 1..k, NEW j \in 1..k, i < j
               PROVE  all[i].number < all[j].number
    OBVIOUS
  <2>1. i \in 1..l /\ (j \in 1..l \/ j = k)
    BY <1>2
  <2>2. CASE j \in 1..l
    BY <2>1, <2>2, <1>3 DEF Chain
  <2>3. CASE j = k
    <3>1. its[l].number < m /\ l \in 1..l /\ (i = l \/ i < l)
      BY <2>1, <1>2
    <3>2. i < l => its[i].number < its[l].number
      BY <2>1, <3>1 DEF Chain
    <3>3. its[i].number \in Nat /\ its[l].number \in Nat
      BY <2>1, <3>1 DEF Chain
    <3>4. its[i].number < m
      BY <3>1, <3>2, <3>3
    <3>5. all[j].number = m /\ all[i] = its[i]
      BY <2>1, <2>3, <1>3, <1>7
    <3> QED BY <3>4, <3>5
  <2> QED BY <2>1, <2>2, <2>3
<1>10. \A i \in 1..k : i > 1 => all[i].parent = all[i - 1].id
  <2> SUFFICES ASSUME NEW i \in 1..k, i > 1 PROVE all[i].parent = all[i - 1].id
    OBVIOUS
  <2>1. (i \in 1..l \/ i = k) /\ i - 1 \in 1..l /\ k - 1 = l
    BY <1>2
  <2>2. CASE i \in 1..l
    BY <2>1, <2>2, <1>3 DEF Chain
  <2>3. CASE i = k
    <3>1. l > 0 /\ i - 1 = l
      BY <1>2, <2>1, <2>3
    <3> QED BY <2>1, <2>3, <3>1, <1>3
  <2> QED BY <2>1, <2>2, <2>3
<1>11. all[1].parent # NoParent => \E j \in Nat : all[1].parent = <<u, b, j>> /\ j < all[1].number
  <2>1. CASE l = 0
    <3>1. k = 1 /\ all[1] = it
      BY <1>3, <2>1
    <3> QED BY <2>1, <3>1
  <2>2. CASE l # 0
    <3>1. 1 \in 1..l /\ l > 0
      BY <1>2, <2>2
    <3>2. all[1] = its[1]
      BY <1>3, <3>1
    <3> QED BY <3>1, <3>2 DEF Chain
  <2> QED BY <2>1, <2>2
<1> DEFINE n == Len(new)
<1>12. n \in Nat /\ n > 0 /\ k = n + d
       /\ (\A i \in 1..n : i + d \in 1..k /\ (i > 1 => (i + d) - 1 = (i - 1) + d /\ i - 1 \in 1..n /\ i + d > 1))
  BY <1>2, <1>5, <1>6
<1> HIDE DEF n, k, l
<1>13. \A i \in 1..n : new[i] = all[i + d]
  BY <1>5 DEF n
<1> HIDE DEF new
<1>14. \A i \in 1..n : new[i].number \in Nat \ {0} /\ new[i].id = <<u, b, new[i].number>>
  BY <1>8, <1>12, <1>13
<1>15. \A i, j \in 1..n : i < j => new[i].number < new[j].number
  <2> SUFFICES ASSUME NEW i \in 1..n, NEW j \in 1..n, i < j
               PROVE  new[i].number < new[j].number
    OBVIOUS
  <2>1. i + d < j + d
    BY <1>12
  <2> QED BY <2>1, <1>9, <1>12, <1>13
<1>16. \A i \in 1..n : i > 1 => new[i].parent = new[i - 1].id
  BY <1>10, <1>12, <1>13
<1>17. new[1].parent # NoParent => \E j \in Nat : new[1].parent = <<u, b, j>> /\ j < new[1].number
  <2>1. 1 \in 1..n /\ new[1] = all[1 + d] /\ 1 + d \in 1..k
    BY <1>12, <1>13
  <2>2. CASE d = 0
    BY <2>1, <2>2, <1>11
  <2>3. CASE d # 0
    <3>1. 1 + d > 1 /\ (1 + d) - 1 = d /\ d \in 1..k /\ d < 1 + d
      BY <1>12, <2>1, <2>3
    <3>2. new[1].parent = all[d].id
      BY <1>10, <2>1, <3>1
    <3>3. all[d].id = <<u, b, all[d].number>> /\ all[d].number \in Nat
      BY <1>8, <3>1
    <3>4. all[d].number < new[1].number
      BY <1>9, <2>1, <3>1
    <3> QED BY <3>2, <3>3, <3>4
  <2> QED BY <2>2, <2>3
<1>18. new[n] = it
  <2>1. n \in 1..n /\ n + d = k
    BY <1>12
  <2> QED BY <2>1, <1>3, <1>13
<1>19. (\E T : new \in Seq(T)) /\ n <= MaxIterations
  BY <1>6 DEF n
<1> QED BY <1>12, <1>14, <1>15, <1>16, <1>17, <1>18, <1>19 DEF Chain, n, new, all

-----------------------------------------------------------------------------
(* The records of the history, and the runs that write them.               *)

\* How far the chain of the lifecycle of attempt b is, when its run is at r
Fits(its, b, r) ==
    /\ b <= r.attempt /\ (r.pc = "start" => b < r.attempt)
    /\ b = r.attempt /\ r.pc \notin Finished /\ Len(its) > 0 =>
         its[Len(its)].id = r.last /\ its[Len(its)].number <= Done(r)
Belongs(e, u, b, r) == e.id = <<u, b>> /\ Chain(e.iterations, u, b) /\ Fits(e.iterations, b, r)
RecordOk(e, runs) ==
    /\ e = [id |-> e.id, state |-> e.state, iterations |-> e.iterations]
    /\ e.state \in Working \cup Terminal
    /\ \E u \in Threads : \E b \in Nat : Belongs(e, u, b, runs[u])
Good(q, runs) ==
    /\ \E S : q \in Seq(S)
    /\ Len(q) <= MaxLifecycles
    /\ \A k \in 1..Len(q) : q[k] # Broken => RecordOk(q[k], runs)
    /\ \A j, k \in 1..Len(q) : q[j] # Broken /\ q[j].id = q[k].id => j = k
\* ... and nothing of it is broken
Sound(q, runs) == Good(q, runs) /\ \A k \in 1..Len(q) : RecordOk(q[k], runs)

\* A chain fits its run for as long as the run keeps its place
LEMMA FitsStill ==
    ASSUME NEW t \in Threads, NEW r, RunOk(t, r), NEW n, RunOk(t, n), Advances(r, n),
           NEW its, NEW b \in Nat, Chain(its, t, b), Fits(its, b, r),
           KeepsLast(r, n) \/ b # r.attempt
    PROVE  Fits(its, b, n)
<1>1. /\ r.attempt \in Nat /\ n.attempt \in Nat /\ Done(r) \in Nat /\ Done(n) \in Nat
  BY Numbers
<1>2. b <= n.attempt /\ (n.pc = "start" => b < n.attempt)
  BY <1>1 DEF Fits, Advances
<1>3. ASSUME b = n.attempt, n.pc \notin Finished, Len(its) > 0
      PROVE  its[Len(its)].id = n.last /\ its[Len(its)].number <= Done(n)
  <2>1. r.attempt = n.attempt /\ b = r.attempt
    BY <1>1, <1>3 DEF Fits, Advances
  <2>2. /\ r.pc \notin Finished /\ Done(r) <= Done(n) /\ n.last = r.last
    BY <1>3, <2>1 DEF Advances, KeepsLast
  <2>3. its[Len(its)].number \in Nat
    <3>1. Len(its) \in Nat
      BY LenProperties DEF Chain
    <3>2. Len(its) \in 1..Len(its)
      BY <1>3, <3>1
    <3> QED BY <3>2 DEF Chain
  <2>4. its[Len(its)].id = r.last /\ its[Len(its)].number <= Done(r)
    BY <1>3, <2>1, <2>2 DEF Fits
  <2> QED BY <1>1, <2>2, <2>3, <2>4
<1> QED BY <1>2, <1>3 DEF Fits

\* A record that is sound still is, unless its run has just gone on
LEMMA RecordStill ==
    ASSUME RunsInv, RunsMove, NEW e, RecordOk(e, run),
           \A u \in Threads : KeepsLast(run[u], run'[u]) \/ e.id # <<u, run[u].attempt>>
    PROVE  RecordOk(e, run')
<1>1. PICK u \in Threads : \E b \in Nat : Belongs(e, u, b, run[u])
  BY DEF RecordOk
<1>2. PICK b \in Nat : Belongs(e, u, b, run[u])
  BY <1>1
<1>3. KeepsLast(run[u], run'[u]) \/ b # run[u].attempt
  BY <1>2 DEF Belongs
<1>4. RunOk(u, run[u]) /\ RunOk(u, run'[u]) /\ Advances(run[u], run'[u])
  BY DEF RunsInv, RunsMove
<1> DEFINE n == run'[u]
<1>5. Fits(e.iterations, b, n)
  <2> HIDE DEF n
  <2> QED BY <1>2, <1>3, <1>4, FitsStill DEF Belongs, n
<1>6. Belongs(e, u, b, run'[u])
  BY <1>2, <1>5 DEF Belongs
<1> QED BY <1>6 DEF RecordOk

\* A sound record has a name, which is not that of an attempt that has not begun
LEMMA NameOfRecord ==
    ASSUME NEW e, NEW runs, RecordOk(e, runs)
    PROVE  e.id # NoParent /\ \A t \in Threads : runs[t].pc = "start" /\ runs[t].attempt \in Nat =>
                                 e.id # <<t, runs[t].attempt>>
<1>1. PICK u \in Threads : \E b \in Nat : Belongs(e, u, b, runs[u])
  BY DEF RecordOk
<1>2. PICK b \in Nat : Belongs(e, u, b, runs[u])
  BY <1>1
<1>3. e.id = <<u, b>> /\ (runs[u].pc = "start" => b < runs[u].attempt)
  BY <1>2 DEF Belongs, Fits
<1> QED BY <1>3 DEF NoParent

\* What is readable of a sound history is sound
LEMMA GoodRead ==
    ASSUME NEW q, NEW runs, Good(q, runs)
    PROVE  /\ Sound(Readable(q), runs)
           /\ \A k \in 1..Len(q) : q[k] # Broken => \E i \in 1..Len(Readable(q)) : Readable(q)[i] = q[k]
<1> DEFINE p == Readable(q)
           l == Len(q)
<1>1. PICK S : q \in Seq(S)
  BY DEF Good
<1>2. PICK at \in Seq(1..l) : Len(at) <= l /\ Picks(q, l, at, p)
  BY <1>1, ReadablePicks
<1> HIDE DEF p
<1> DEFINE n == Len(at)
<1>3. n \in Nat /\ l \in Nat /\ n <= l /\ (\A i \in 1..n : at[i] \in 1..l) /\ MaxLifecycles \in Nat
  BY <1>1, <1>2, LenProperties, ElementOfSeq, LifecycleAssumption
<1>4. p = [i \in 1..n |-> q[at[i]]] /\ (\A i \in 1..n : q[at[i]] # Broken)
  BY <1>2 DEF Picks
<1>5. p \in Seq(S) /\ Len(p) = n
  <2>1. \A i \in 1..n : q[at[i]] \in S
    BY <1>1, <1>3
  <2> HIDE DEF n
  <2> QED BY <1>3, <1>4, <2>1
<1>6. Len(p) <= MaxLifecycles
  <2>1. l <= MaxLifecycles
    BY DEF Good
  <2> HIDE DEF l, n
  <2> QED BY <1>3, <1>5, <2>1
<1>7. \A k \in 1..n : RecordOk(p[k], runs)
  <2> SUFFICES ASSUME NEW k \in 1..n PROVE RecordOk(p[k], runs)
    OBVIOUS
  <2>1. p[k] = q[at[k]] /\ at[k] \in 1..l /\ q[at[k]] # Broken
    BY <1>3, <1>4
  <2> QED BY <2>1 DEF Good
<1>8. \A j, k \in 1..n : p[j].id = p[k].id => j = k
  <2> SUFFICES ASSUME NEW j \in 1..n, NEW k \in 1..n, p[j].id = p[k].id PROVE j = k
    OBVIOUS
  <2>1. /\ p[j] = q[at[j]] /\ at[j] \in 1..l /\ q[at[j]] # Broken
        /\ p[k] = q[at[k]] /\ at[k] \in 1..l
    BY <1>3, <1>4
  <2>2. at[j] = at[k]
    BY <2>1 DEF Good
  <2>3. (j < k => at[j] < at[k]) /\ (k < j => at[k] < at[j])
    BY <1>2 DEF Picks
  <2>4. ~(j < k) /\ ~(k < j)
    BY <2>1, <2>2, <2>3, <1>3
  <2> HIDE DEF n
  <2> QED BY <2>4, <1>3
<1>9. \A k \in 1..l : q[k] # Broken => \E i \in 1..n : p[i] = q[k]
  <2> SUFFICES ASSUME NEW k \in 1..l, q[k] # Broken PROVE \E i \in 1..n : p[i] = q[k]
    OBVIOUS
  <2>1. PICK i \in 1..n : at[i] = k
    BY <1>2 DEF Picks
  <2> QED BY <2>1, <1>4
<1> HIDE DEF n
<1>10. Good(p, runs)
  BY <1>5, <1>6, <1>7, <1>8 DEF Good
<1> QED BY <1>5, <1>7, <1>9, <1>10 DEF p, Sound

\* The history stays sound when no record belongs to a run that has gone on
LEMMA GoodStill ==
    ASSUME RunsInv, RunsMove, NEW q, Good(q, run),
           \A u \in Threads : \/ KeepsLast(run[u], run'[u])
                              \/ \A k \in 1..Len(q) : q[k].id # <<u, run[u].attempt>>
    PROVE  Good(q, run')
<1>1. \A k \in 1..Len(q) : q[k] # Broken => RecordOk(q[k], run')
  BY RecordStill DEF Good
<1> QED BY <1>1 DEF Good

\* An entry of a sound history may be lost
LEMMA GoodBroken ==
    ASSUME NEW q, NEW runs, Good(q, runs), NEW k \in DOMAIN q
    PROVE  Good([q EXCEPT ![k] = Broken], runs)
<1> DEFINE p == [q EXCEPT ![k] = Broken]
<1>1. PICK S : q \in Seq(S)
  BY DEF Good
<1>2. q \in Seq(S \cup {Broken}) /\ k \in 1..Len(q) /\ DOMAIN q = 1..Len(q)
  BY <1>1, LenProperties
<1>3. p \in Seq(S \cup {Broken}) /\ Len(p) = Len(q)
  BY <1>2, ExceptSeq
<1>4. \A j \in 1..Len(q) : p[j] = IF j = k THEN Broken ELSE q[j]
  BY <1>2
<1> HIDE DEF p
<1>5. \A j \in 1..Len(p) : p[j] # Broken => RecordOk(p[j], runs)
  BY <1>3, <1>4 DEF Good
<1>6. \A i, j \in 1..Len(p) : p[i] # Broken /\ p[i].id = p[j].id => i = j
  <2> SUFFICES ASSUME NEW i \in 1..Len(p), NEW j \in 1..Len(p), p[i] # Broken, p[i].id = p[j].id
               PROVE  i = j
    OBVIOUS
  <2>1. i # k /\ p[i] = q[i] /\ q[i] # Broken /\ i \in 1..Len(q) /\ j \in 1..Len(q)
    BY <1>3, <1>4
  <2>2. CASE j = k
    <3>1. p[i].id # NoParent
      BY <1>5, <2>1, NameOfRecord
    <3>2. p[j].id = NoParent
      BY <1>4, <2>1, <2>2 DEF Broken
    <3> QED BY <3>1, <3>2
  <2>3. CASE j # k
    <3>1. q[i].id = q[j].id
      BY <1>4, <2>1, <2>3
    <3> QED BY <2>1, <3>1 DEF Good
  <2> QED BY <2>2, <2>3
<1>7. Len(p) <= MaxLifecycles
  BY <1>3 DEF Good
<1> QED BY <1>3, <1>5, <1>6, <1>7 DEF Good, p

\* Recording a sound record keeps a history sound
LEMMA RecordGood ==
    ASSUME NEW s, s = [corrupt |-> s.corrupt, records |-> s.records],
           NEW q, q = s.records, \E S : q \in Seq(S), Len(q) <= MaxLifecycles,
           \A j, k \in 1..Len(q) : q[j].id = q[k].id => j = k,
           NEW runs, NEW r, RecordOk(r, runs),
           \A k \in 1..Len(q) : RecordOk(q[k], runs) \/ q[k].id = r.id
    PROVE  Good(Record(s, r).records, runs)
<1> DEFINE l == Len(q)
<1>1. PICK S : q \in Seq(S)
  OBVIOUS
<1>2. l \in Nat /\ DOMAIN q = 1..l /\ MaxLifecycles \in Nat \ {0}
  BY <1>1, LenProperties, LifecycleAssumption
<1>3. \A e : RecordOk(e, runs) => e # Broken
  BY NameOfRecord DEF Broken
<1>4. Places(s, r.id) = { k \in 1..l : q[k].id = r.id }
  BY <1>2 DEF Places
<1>5. CASE Places(s, r.id) # {}
  <2> DEFINE k == CHOOSE k \in Places(s, r.id) : \A j \in Places(s, r.id) : k <= j
             p == [q EXCEPT ![k] = r]
  <2>1. k \in 1..l /\ q[k].id = r.id
    <3>1. \E i \in Places(s, r.id) : \A j \in Places(s, r.id) : i <= j
      <4>1. Places(s, r.id) \subseteq Nat
        BY <1>4
      <4> QED BY <4>1, <1>5, LeastMember
    <3>2. k \in Places(s, r.id)
      BY <3>1
    <3> QED BY <3>2, <1>4
  <2>2. Record(s, r).records = p
    BY <1>5 DEF Record
  <2> HIDE DEF k
  <2>3. p \in Seq(S \cup {r}) /\ Len(p) = l /\ \A j \in 1..l : p[j] = IF j = k THEN r ELSE q[j]
    <3>1. q \in Seq(S \cup {r}) /\ r \in S \cup {r}
      BY <1>1
    <3> QED BY <1>2, <2>1, <3>1, ExceptSeq
  <2> HIDE DEF p, l
  <2>4. \A j \in 1..l : RecordOk(p[j], runs)
    <3> SUFFICES ASSUME NEW j \in 1..l PROVE RecordOk(p[j], runs)
      OBVIOUS
    <3>1. CASE j = k
      BY <2>3, <3>1
    <3>2. CASE j # k
      <4>1. q[j].id # r.id /\ p[j] = q[j]
        BY <2>1, <2>3, <3>2 DEF l
      <4> QED BY <4>1 DEF l
    <3> QED BY <3>1, <3>2
  <2>5. \A i, j \in 1..l : p[i].id = p[j].id => i = j
    <3>1. \A j \in 1..l : p[j].id = q[j].id
      BY <2>1, <2>3
    <3> QED BY <3>1 DEF l
  <2>6. Good(p, runs)
    BY <2>3, <2>4, <2>5 DEF Good, l
  <2> QED BY <2>2, <2>6
<1>6. CASE Places(s, r.id) = {}
  <2> DEFINE all == Append(q, r)
             n == l + 1
             p == KeepNewest(all, MaxLifecycles)
  <2>1. Record(s, r).records = p
    BY <1>6 DEF Record
  <2>2. n \in Nat /\ n = l + 1
    BY <1>2
  <2>3. all \in Seq(S \cup {r}) /\ Len(all) = n /\ (\A i \in 1..l : all[i] = q[i]) /\ all[n] = r
    <3>1. q \in Seq(S \cup {r}) /\ r \in S \cup {r}
      BY <1>1
    <3> QED BY <3>1, AppendProperties
  <2> HIDE DEF all, n
  <2>4. \A i \in 1..l : q[i].id # r.id
    BY <1>4, <1>6
  <2>5. \A i \in 1..n : RecordOk(all[i], runs)
    <3> SUFFICES ASSUME NEW i \in 1..n PROVE RecordOk(all[i], runs)
      OBVIOUS
    <3>1. i \in 1..l \/ i = n
      BY <1>2, <2>2
    <3> QED BY <3>1, <2>3, <2>4
  <2>6. \A i, j \in 1..n : all[i].id = all[j].id => i = j
    <3> SUFFICES ASSUME NEW i \in 1..n, NEW j \in 1..n, all[i].id = all[j].id PROVE i = j
      OBVIOUS
    <3>1. (i \in 1..l \/ i = n) /\ (j \in 1..l \/ j = n)
      BY <1>2, <2>2
    <3> QED BY <3>1, <2>3, <2>4
  <2> DEFINE M == MaxLifecycles
             T == S \cup {r}
  <2>7. all \in Seq(T) /\ M \in Nat \ {0} /\ p = KeepNewest(all, M)
    BY <1>2, <2>3
  <2> HIDE DEF p, M, T
  <2>8. PICK d \in Nat : n = Len(p) + d /\ \A i \in 1..Len(p) : p[i] = all[i + d]
    <3>1. Ends(p, all)
      BY <2>7, KeptPlaces
    <3> QED BY <3>1, <2>3 DEF Ends
  <2>9. p \in Seq(T) /\ Len(p) <= M
    BY <2>7, KeptPlaces
  <2> DEFINE m == Len(p)
  <2>10. m \in Nat /\ n = m + d /\ \A i \in 1..m : p[i] = all[i + d]
    BY <2>8, <2>9, LenProperties
  <2> HIDE DEF m
  <2>11. \A i \in 1..m : i + d \in 1..n
    BY <2>2, <2>10
  <2>12. \A i \in 1..m : RecordOk(p[i], runs)
    BY <2>5, <2>10, <2>11
  <2>13. \A i, j \in 1..m : p[i].id = p[j].id => i = j
    <3> SUFFICES ASSUME NEW i \in 1..m, NEW j \in 1..m, p[i].id = p[j].id PROVE i = j
      OBVIOUS
    <3>1. i + d = j + d
      BY <2>6, <2>10, <2>11
    <3> QED BY <3>1, <2>10
  <2>14. Good(p, runs)
    BY <2>9, <2>12, <2>13 DEF Good, m, M
  <2> QED BY <2>1, <2>14
<1> QED BY <1>5, <1>6

\* Where an attempt may go, and the states a record may be left in
LEMMA StatesAreKnown ==
    ASSUME NEW from, NEW to, CanTransition(from, to)
    PROVE  to \in Working \cup Terminal
<1>1. from \in Working /\ to \in Allowed[from]
  BY DEF CanTransition, Allowed
<1>2. \A x \in Working : Allowed[x] \subseteq Working \cup Terminal
  <2>1. \A S, T : S \subseteq T => {"abandoned", "failed"} \cup S \subseteq T \cup Terminal
    BY DEF Terminal
  <2>2. /\ {"candidate_generated"} \subseteq Working
        /\ {"validated", "repair_required"} \subseteq Working
        /\ {"approved", "repair_required"} \subseteq Working
        /\ {"applied"} \subseteq Working
        /\ {"post_validated", "repair_required"} \subseteq Working
        /\ {"repaired"} \subseteq Working
    BY DEF Working
  <2>3. {"completed", "repair_required"} \subseteq Working \cup Terminal
        /\ {"candidate_generated", "completed"} \subseteq Working \cup Terminal
        /\ {"abandoned", "failed"} \subseteq Terminal
    BY DEF Working, Terminal
  <2> SUFFICES ASSUME NEW x \in Working PROVE Allowed[x] \subseteq Working \cup Terminal
    OBVIOUS
  <2>4. x \in {"created", "candidate_generated", "validated", "approved", "applied",
               "post_validated", "repair_required", "repaired"}
    BY DEF Working
  <2>5. Allowed[x] = {"abandoned", "failed"} \cup
        (CASE x = "created" -> {"candidate_generated"}
          [] x = "candidate_generated" -> {"validated", "repair_required"}
          [] x = "validated" -> {"approved", "repair_required"}
          [] x = "approved" -> {"applied"}
          [] x = "applied" -> {"post_validated", "repair_required"}
          [] x = "post_validated" -> {"completed", "repair_required"}
          [] x = "repair_required" -> {"repaired"}
          [] x = "repaired" -> {"candidate_generated", "completed"})
    BY DEF Allowed
  <2> QED BY <2>2, <2>3, <2>4, <2>5
<1> QED BY <1>1, <1>2

\* Nothing in a history has this name
Absent(q, id) == \A k \in 1..Len(q) : q[k].id # id

\* A record is found exactly when it is there
LEMMA FoundPlace ==
    ASSUME NEW s, NEW q, q = s.records, \E S : q \in Seq(S), NEW id
    PROVE  /\ Find(s, id) = {} => Absent(q, id)
           /\ \A e \in Find(s, id) : e.id = id /\ \E k \in 1..Len(q) : e = q[k]
<1>1. Len(q) \in Nat /\ DOMAIN q = 1..Len(q)
  BY LenProperties
<1>2. Places(s, id) = { k \in 1..Len(q) : q[k].id = id }
  BY <1>1 DEF Places
<1>3. \A e \in Find(s, id) : \E k \in Places(s, id) : e = q[k]
  BY DEF Find
<1>4. ASSUME Find(s, id) = {} PROVE Places(s, id) = {}
  <2> SUFFICES ASSUME Places(s, id) # {} PROVE FALSE
    OBVIOUS
  <2>1. Places(s, id) \subseteq 0..Len(q)
    BY <1>1, <1>2
  <2>2. PICK k \in Places(s, id) : \A j \in Places(s, id) : j <= k
    BY <1>1, <2>1, Greatest
  <2>3. q[k] \in Find(s, id)
    BY <2>2 DEF Find
  <2> QED BY <1>4, <2>3
<1> QED BY <1>2, <1>3, <1>4 DEF Absent

\* What a hook makes of a sound history is sound when it is over
LEMMA HookGood ==
    ASSUME LockInv, RunsInv, RunsMove, NEW t \in Threads, PutHistory(t),
           NEW s, s = [corrupt |-> s.corrupt, records |-> s.records],
           Sound(s.records, run)
    PROVE  Good(HistoryAfter(t, s).records, run')
<1> DEFINE q == s.records
           c == run[t]
           found == Find(s, c.id)
           mine == CHOOSE m \in found : TRUE
           to == IF c.pc = "finish" THEN FinalState(mine.state, c.completed) ELSE Head(c.todo)
           after == HistoryAfter(t, s)
<1>1. /\ c.pc \in HistoryOps /\ c.loaded # NotLoaded /\ RunOk(t, c)
      /\ \A u \in Threads \ {t} : run'[u] = run[u]
      /\ run'[t] = After(t, TRUE)
  BY DEF PutHistory, Set, RunsInv, LockInv
<1>2. /\ c.pc # "start" => c.id = <<t, c.attempt>>
      /\ LifecycleId(t) = <<t, c.attempt>> /\ RoundId(t) = <<t, c.attempt, c.round>>
  BY <1>1 DEF RunOk, LifecycleId, RoundId
<1>3. \A u \in Threads : KeepsLast(run[u], run'[u]) \/ (u = t /\ c.pc = "iterate")
  BY <1>1 DEF RunsMove, KeepsLast
<1>4. /\ c.attempt \in Nat /\ c.round \in Nat /\ c.round >= 1
      /\ \A u \in Threads : run[u].attempt \in Nat
  BY <1>1, Numbers DEF RunsInv
<1>5. (\E S : q \in Seq(S)) /\ Len(q) <= MaxLifecycles
      /\ \A j, k \in 1..Len(q) : q[j].id = q[k].id => j = k
  BY NameOfRecord DEF Sound, Good, Broken
<1>f. /\ Find(s, c.id) = {} => Absent(q, c.id)
      /\ \A e \in Find(s, c.id) : e.id = c.id /\ \E k \in 1..Len(q) : e = q[k]
  <2> DEFINE i == c.id
  <2>1. \E S : q \in Seq(S)
    BY <1>5
  <2> HIDE DEF i, mine, to, after
  <2>2. /\ Find(s, i) = {} => Absent(q, i)
        /\ \A e \in Find(s, i) : e.id = i /\ \E k \in 1..Len(q) : e = q[k]
    BY <2>1, FoundPlace
  <2> QED BY <2>2 DEF i
<1>6. found # {} => mine.id = c.id /\ RecordOk(mine, run)
  <2>1. found # {} => mine \in found
    OBVIOUS
  <2> HIDE DEF mine
  <2> QED BY <2>1, <1>f DEF Sound
<1>7. found = {} => Absent(q, c.id)
  BY <1>f
<1>8. /\ c.pc = "start" => after = Record(s, NewLifecycle(LifecycleId(t)))
      /\ c.pc # "start" /\ found = {} => after = s
      /\ c.pc = "iterate" /\ found # {} => after = Record(s, AddIteration(mine, ThisIteration(t)))
      /\ c.pc \notin {"start", "iterate"} /\ found # {} =>
           after = IF CanTransition(mine.state, to)
                     THEN Record(s, [mine EXCEPT !.state = to]) ELSE s
  BY DEF HistoryAfter
<1> HIDE DEF after, found, mine, to
<1>9. CASE c.pc = "start"
  <2> DEFINE new == NewLifecycle(LifecycleId(t))
             n == After(t, TRUE)
  <2>1. n.pc = "generate" /\ n.attempt = c.attempt
    BY <1>1, <1>9 DEF After, RunOk, Fields
  <2>2. /\ new.id = <<t, c.attempt>> /\ new.state = "created" /\ new.iterations = <<>>
        /\ new = [id |-> new.id, state |-> new.state, iterations |-> new.iterations]
    BY <1>2 DEF NewLifecycle
  <2> HIDE DEF new, n
  <2>3. Chain(new.iterations, t, c.attempt)
    <3> DEFINE none == <<>>
    <3>1. none \in Seq({}) /\ Len(none) = 0
      OBVIOUS
    <3> HIDE DEF none
    <3>2. 1..Len(none) = {} /\ Len(none) <= MaxIterations /\ ~(Len(none) > 0)
      BY <3>1, LifecycleAssumption
    <3>3. Chain(none, t, c.attempt)
      BY <3>1, <3>2 DEF Chain
    <3> QED BY <2>2, <3>3 DEF none
  <2>4. Fits(new.iterations, c.attempt, n)
    BY <2>1, <2>2, <1>4 DEF Fits
  <2>5. RecordOk(new, run')
    <3>1. Belongs(new, t, c.attempt, run'[t])
      BY <1>1, <2>2, <2>3, <2>4 DEF Belongs, n
    <3>2. new.state \in Working
      BY <2>2 DEF Working
    <3> QED BY <1>4, <2>2, <3>1, <3>2 DEF RecordOk
  <2>6. \A k \in 1..Len(q) : RecordOk(q[k], run')
    BY <1>3, <1>9, RecordStill DEF Sound
  <2>7. Good(Record(s, new).records, run')
    BY <2>5, <2>6, <1>5, RecordGood
  <2> QED BY <1>8, <1>9, <2>7 DEF new, after
<1>10. CASE c.pc # "start" /\ found = {}
  <2>1. \A u \in Threads : \/ KeepsLast(run[u], run'[u])
                           \/ \A k \in 1..Len(q) : q[k].id # <<u, run[u].attempt>>
    BY <1>2, <1>3, <1>7, <1>10 DEF Absent
  <2>2. Good(q, run')
    BY <2>1, GoodStill DEF Sound
  <2> QED BY <1>8, <1>10, <2>2 DEF after
<1>11. CASE c.pc = "iterate" /\ found # {}
  <2> DEFINE its == mine.iterations
             it == ThisIteration(t)
             new == AddIteration(mine, it)
             n == run'[t]
  <2>1. mine.id = <<t, c.attempt>> /\ RecordOk(mine, run)
    BY <1>2, <1>6, <1>11
  <2>2. Chain(its, t, c.attempt) /\ Fits(its, c.attempt, c)
    <3>1. PICK u \in Threads : \E b \in Nat : Belongs(mine, u, b, run[u])
      BY <2>1 DEF RecordOk
    <3>2. PICK b \in Nat : Belongs(mine, u, b, run[u])
      BY <3>1
    <3>3. u = t /\ b = c.attempt
      BY <2>1, <3>2 DEF Belongs
    <3> QED BY <3>2, <3>3 DEF Belongs
  <2>3. it.number = c.round /\ it.id = <<t, c.attempt, c.round>>
        /\ it.parent = IF c.round = 1 THEN NoParent ELSE c.last
    BY <1>2 DEF ThisIteration, Iteration, Kind
  <2>4. Done(c) = c.round - 1 /\ c.pc \notin Finished
    BY <1>11 DEF Done, Finished
  <2> HIDE DEF it
  <2>5. ASSUME Len(its) > 0
        PROVE  its[Len(its)].number < c.round /\ it.parent = its[Len(its)].id
    <3>1. its[Len(its)].id = c.last /\ its[Len(its)].number <= c.round - 1
      BY <2>2, <2>4, <2>5 DEF Fits
    <3>2. its[Len(its)].number \in Nat \ {0}
      <4>1. Len(its) \in Nat
        BY <2>2, LenProperties DEF Chain
      <4>2. Len(its) \in 1..Len(its)
        BY <2>5, <4>1
      <4> QED BY <2>2, <4>2 DEF Chain
    <3>3. its[Len(its)].number < c.round /\ c.round # 1
      BY <3>1, <3>2, <1>4
    <3> QED BY <2>3, <3>1, <3>3
  <2>6. ASSUME it.parent # NoParent
        PROVE  \E j \in Nat : it.parent = <<t, c.attempt, j>> /\ j < c.round
    <3>1. it.parent = c.last
      BY <2>3, <2>6
    <3>2. PICK j \in Nat : c.last = <<t, c.attempt, j>> /\ j <= Done(c)
      BY <1>1, <2>6, <3>1 DEF RunOk
    <3>3. j < c.round
      BY <3>2, <2>4, <1>4
    <3> QED BY <3>1, <3>2, <3>3
  <2> DEFINE more == KeepNewest(Append(its, it), MaxIterations)
  <2>7. Chain(more, t, c.attempt) /\ Len(more) > 0 /\ more[Len(more)] = it
    <3>1. c.round \in Nat \ {0}
      BY <1>4
    <3> HIDE DEF its
    <3> QED BY <2>2, <2>3, <2>5, <2>6, <3>1, ChainGrows
  <2>8. /\ new.id = <<t, c.attempt>> /\ new.state = mine.state /\ new.iterations = more
        /\ new = [id |-> new.id, state |-> new.state, iterations |-> new.iterations]
        /\ mine.state \in Working \cup Terminal
    BY <2>1 DEF RecordOk, AddIteration
  <2>9. /\ n.last = <<t, c.attempt, c.round>> /\ n.pc = "advance2"
        /\ n.attempt = c.attempt /\ n.round = c.round
    BY <1>1, <1>2, <1>11, AfterMoves
  <2> HIDE DEF n, more, new
  <2>10. Fits(more, c.attempt, n)
    BY <2>3, <2>7, <2>9, <1>4 DEF Fits, Done
  <2>11. RecordOk(new, run')
    <3>1. Belongs(new, t, c.attempt, run'[t])
      BY <2>7, <2>8, <2>10 DEF Belongs, n
    <3> QED BY <1>4, <2>8, <3>1 DEF RecordOk
  <2>12. \A k \in 1..Len(q) : RecordOk(q[k], run') \/ q[k].id = new.id
    <3> SUFFICES ASSUME NEW k \in 1..Len(q), q[k].id # <<t, c.attempt>> PROVE RecordOk(q[k], run')
      BY <2>8
    <3>1. \A u \in Threads : KeepsLast(run[u], run'[u]) \/ q[k].id # <<u, run[u].attempt>>
      BY <1>3
    <3> QED BY <3>1, RecordStill DEF Sound
  <2>13. Good(Record(s, new).records, run')
    BY <2>11, <2>12, <1>5, RecordGood
  <2> QED BY <1>8, <1>11, <2>13 DEF new, it, after
<1>12. CASE c.pc \notin {"start", "iterate"} /\ found # {}
  <2>0. \A u \in Threads : KeepsLast(run[u], run'[u])
    BY <1>3, <1>12
  <2>1. CASE CanTransition(mine.state, to)
    <3> DEFINE new == [mine EXCEPT !.state = to]
    <3>1. RecordOk(mine, run')
      BY <2>0, <1>6, <1>12, RecordStill
    <3>2. to \in Working \cup Terminal
      BY <2>1, StatesAreKnown
    <3>3. /\ new.id = mine.id /\ new.state = to /\ new.iterations = mine.iterations
          /\ new = [id |-> new.id, state |-> new.state, iterations |-> new.iterations]
      BY <3>1 DEF RecordOk
    <3> HIDE DEF new
    <3>4. RecordOk(new, run')
      BY <3>1, <3>2, <3>3 DEF RecordOk, Belongs
    <3>5. \A k \in 1..Len(q) : RecordOk(q[k], run')
      BY <2>0, RecordStill DEF Sound
    <3>6. Good(Record(s, new).records, run')
      BY <3>4, <3>5, <1>5, RecordGood
    <3> QED BY <1>8, <1>12, <2>1, <3>6 DEF new, after
  <2>2. CASE ~CanTransition(mine.state, to)
    <3>1. Good(q, run')
      BY <2>0, GoodStill DEF Sound
    <3> QED BY <1>8, <1>12, <2>2, <3>1 DEF after
  <2> QED BY <2>1, <2>2
<1> QED BY <1>9, <1>10, <1>11, <1>12 DEF after

\* The history is sound after every step
HistoryInv == Good(history.store.records, run)

\* No step leaves a record that is not sound
LEMMA HistoryStep ==
    ASSUME SharedRoot, SafeInv, RunsInv, HistoryInv, [Next]_vars
    PROVE  HistoryInv'
<1> DEFINE raw == history.store.records
<1>1. LockInv /\ LoadedInv /\ StoreInv
  BY DEF SafeInv
<1>2. RunsMove
  BY <1>1, RunsStep
<1>3. Load(history).records = Readable(raw) /\ WholeHistory(Load(history))
  BY <1>1 DEF Load, StoreInv, NoLostUpdate
<1>4. /\ Sound(Readable(raw), run)
      /\ \A k \in 1..Len(raw) : raw[k] # Broken =>
           \E i \in 1..Len(Readable(raw)) : Readable(raw)[i] = raw[k]
  BY GoodRead DEF HistoryInv
<1>5. ASSUME NEW t \in Threads, PutHistory(t) PROVE HistoryInv'
  <2> DEFINE s == Load(history)
             after == HistoryAfter(t, s)
  <2>1. run[t].loaded = <<s>>
    BY <1>1, <1>5 DEF PutHistory, LoadedInv, Holds
  <2>2. history' = IF after = s THEN history ELSE FileOf(after)
    BY <1>5, <2>1 DEF PutHistory
  <2>3. Good(after.records, run')
    <3>1. s = [corrupt |-> s.corrupt, records |-> s.records] /\ Sound(s.records, run)
      BY <1>3, <1>4 DEF WholeHistory
    <3> HIDE DEF s
    <3> QED BY <1>1, <1>2, <1>5, <3>1, HookGood
  <2> HIDE DEF after
  <2>4. CASE after # s
    BY <2>2, <2>3, <2>4 DEF FileOf, HistoryInv
  <2>5. CASE after = s
    <3>1. Good(Readable(raw), run') /\ history' = history
      BY <1>3, <2>2, <2>3, <2>5
    <3>2. Sound(Readable(raw), run')
      <4>1. \A k \in 1..Len(Readable(raw)) : Readable(raw)[k] # Broken
        BY <1>4, NameOfRecord DEF Sound, Broken
      <4> QED BY <3>1, <4>1 DEF Sound, Good
    <3>3. \A k \in 1..Len(raw) : raw[k] # Broken => RecordOk(raw[k], run')
      BY <1>4, <3>2 DEF Sound
    <3>4. Good(raw, run')
      BY <3>3 DEF Good, HistoryInv
    <3> QED BY <3>1, <3>4 DEF HistoryInv
  <2> QED BY <2>4, <2>5
<1>6. CASE DamageHistory
  <2>1. run' = run
    BY <1>6 DEF DamageHistory
  <2>2. CASE history' = NotJson
    <3> DEFINE none == <<>>
    <3>1. history'.store.records = none /\ none \in Seq({}) /\ Len(none) = 0
      BY <2>2 DEF NotJson, EmptyHistory
    <3> HIDE DEF none
    <3>2. 1..Len(none) = {} /\ Len(none) <= MaxLifecycles
      BY <3>1, LifecycleAssumption
    <3>3. Good(none, run')
      BY <3>1, <3>2 DEF Good
    <3> QED BY <3>1, <3>3 DEF HistoryInv
  <2>3. CASE \E k \in DOMAIN raw : history' = FileOf([history.store EXCEPT !.records[k] = Broken])
    <3>1. PICK k \in DOMAIN raw : history' = FileOf([history.store EXCEPT !.records[k] = Broken])
      BY <2>3
    <3>2. history'.store.records = [raw EXCEPT ![k] = Broken]
      BY <1>1, <3>1 DEF FileOf, StoreInv, FiledHistory
    <3>3. Good([raw EXCEPT ![k] = Broken], run)
      BY <3>1, GoodBroken DEF HistoryInv
    <3> QED BY <2>1, <3>2, <3>3 DEF HistoryInv
  <2> QED BY <1>6, <2>2, <2>3 DEF DamageHistory, DamagedHistories
<1>7. ASSUME history' = history, \A u \in Threads : KeepsLast(run[u], run'[u])
      PROVE  HistoryInv'
  BY <1>2, <1>7, GoodStill DEF HistoryInv
<1>8. ASSUME ~DamageHistory PROVE history' = history \/ \E t \in Threads : PutHistory(t)
  BY <1>8 DEF Next, Step, Begin, Generate, Analyse, Validate, Review, Untraced, TakeHistory,
              HistoryFails, TakeTelemetry, PutTelemetry, TelemetryFails, Crash, DamageTelemetry,
              vars, files
<1> QED BY <1>2, <1>5, <1>6, <1>7, <1>8 DEF RunsMove

\* There is no record at the start
LEMMA HistoryInit == Init => HistoryInv
<1> DEFINE none == <<>>
<1> SUFFICES ASSUME Init PROVE HistoryInv
  OBVIOUS
<1>1. history.store.records = none /\ none \in Seq({}) /\ Len(none) = 0
  BY DEF Init, NoFile, EmptyHistory
<1> HIDE DEF none
<1>2. 1..Len(none) = {} /\ Len(none) <= MaxLifecycles
  BY <1>1, LifecycleAssumption
<1> QED BY <1>1, <1>2 DEF HistoryInv, Good

-----------------------------------------------------------------------------
(* What a narrower shadow stands on.                                       *)

\* The observations TrustIsEarned counts
Like(os, types, id) ==
    { o \in ToSet(os) : o.id # id /\ o.types \cap types # {} /\ o.quality \in Agreed }
Backed(os, types, id) == Cardinality(Like(os, types, id)) >= MinSamples

\* The observations counted are finitely many
LEMMA LikeIsFinite ==
    ASSUME NEW S, NEW os \in Seq(S), NEW types, NEW id
    PROVE  IsFiniteSet(Like(os, types, id))
<1>1. Len(os) \in Nat /\ DOMAIN os = 1..Len(os) /\ ToSet(os) = { os[i] : i \in 1..Len(os) }
  BY LenProperties DEF ToSet
<1>2. IsFiniteSet(1..Len(os))
  BY <1>1, FS_Interval
<1>3. os \in Surjection(1..Len(os), ToSet(os))
  BY <1>1 DEF Surjection
<1>4. IsFiniteSet(ToSet(os))
  BY <1>2, <1>3, FS_Surjection
<1>5. Like(os, types, id) \in SUBSET ToSet(os)
  BY DEF Like
<1> QED BY <1>4, <1>5, FS_Subset

\* What backs a decision is not taken back by another observation
LEMMA BackedStill ==
    ASSUME NEW S, NEW os \in Seq(S), NEW o, NEW types, NEW id, Backed(os, types, id)
    PROVE  Backed(Append(os, o), types, id)
<1> DEFINE new == Append(os, o)
           A == Like(os, types, id)
           B == Like(new, types, id)
<1>1. new \in Seq(S \cup {o}) /\ \A i \in 1..Len(os) : i \in 1..Len(new) /\ new[i] = os[i]
  <2>1. os \in Seq(S \cup {o}) /\ o \in S \cup {o} /\ Len(os) \in Nat
    BY LenProperties
  <2> QED BY <2>1, AppendProperties
<1>2. DOMAIN os = 1..Len(os) /\ DOMAIN new = 1..Len(new)
  BY <1>1, LenProperties
<1> HIDE DEF new
<1>3. ToSet(os) \subseteq ToSet(new)
  BY <1>1, <1>2 DEF ToSet
<1>4. A \in SUBSET B
  BY <1>3 DEF Like
<1>5. IsFiniteSet(B) /\ IsFiniteSet(A)
  BY <1>1, LikeIsFinite
<1> HIDE DEF A, B
<1>6. Cardinality(A) <= Cardinality(B) /\ Cardinality(A) \in Nat /\ Cardinality(B) \in Nat
  BY <1>4, <1>5, FS_Subset, FS_CardinalityType
<1>7. Cardinality(A) >= MinSamples /\ MinSamples \in Nat
  BY TelemetryAssumption DEF Backed, A
<1> QED BY <1>6, <1>7 DEF Backed, B, new

\* The level is never raised unless Raises says so, and lowering it never narrows
LEMMA NarrowRaises ==
    ASSUME NEW S, NEW os \in Seq(S), NEW types, NEW level \in ToSet(Levels), NEW degraded,
           WouldNarrow(os, types, level, degraded)
    PROVE  Raises(os, types, ScoreOf(level), degraded)
<1> DEFINE base == ScoreOf(level)
<1>1. level \in {"low", "medium", "high"}
  BY DEF ToSet, Levels
<1>2. /\ level = "low" => base = 0
      /\ level = "medium" => base = 50
      /\ level = "high" => base = 100
  <2> DEFINE at == CHOOSE i \in 1..3 : Levels[i] = level
  <2>1. /\ Levels[1] = "low" /\ Levels[2] = "medium" /\ Levels[3] = "high"
        /\ 1 \in 1..3 /\ 2 \in 1..3 /\ 3 \in 1..3 /\ \A i \in 1..3 : i = 1 \/ i = 2 \/ i = 3
    BY DEF Levels
  <2>2. level = "low" => at = 1
    BY <2>1
  <2>3. level = "medium" => at = 2
    BY <2>1
  <2>4. level = "high" => at = 3
    BY <2>1
  <2>5. base = 50 * (at - 1)
    BY DEF ScoreOf
  <2> HIDE DEF at, base
  <2> QED BY <2>2, <2>3, <2>4, <2>5
<1>3. /\ ScopeForLevel["low"] = "broad" /\ ScopeForLevel["medium"] = "expanded"
      /\ ScopeForLevel["high"] = "targeted"
  BY DEF ScopeForLevel
<1>4. \A x : ~NarrowerThan(x, x) /\ ~NarrowerThan(x, "targeted") /\ ~NarrowerThan("broad", x)
  BY DEF NarrowerThan
<1> HIDE DEF base
<1> SUFFICES ASSUME ~Raises(os, types, base, degraded) PROVE FALSE
  BY DEF base
<1> DEFINE D == DropsTo(os, types, base)
<1>5. CASE ~Lowers(os, types)
  BY <1>1, <1>4, <1>5 DEF WouldNarrow, ShadowLevel, base
<1>6. CASE Lowers(os, types)
  <2>1. NarrowerThan(ScopeForLevel[LevelAbove(D)], ScopeForLevel[level])
    BY <1>6 DEF WouldNarrow, ShadowLevel, base
  <2>2. \A k \in D : k \in {25, 75} /\ base > k
    <3> SUFFICES ASSUME NEW k \in D PROVE k \in {25, 75} /\ base > k
      OBVIOUS
    <3>1. PICK t \in Applicable(os, types) : Escapes(os, t) # {}
      BY <1>6 DEF Lowers
    <3> DEFINE n == Cardinality(Trials(os, t))
               e == Cardinality(Escapes(os, t))
    <3>2. k \in {25, 75} /\ n * (base - k) > MaxAdjustment * e
      BY DEF DropsTo, Borders
    <3>3. n \in Nat /\ e \in Nat
      <4>1. Len(os) \in Nat /\ DOMAIN os = 1..Len(os)
        BY LenProperties
      <4>2. IsFiniteSet(DOMAIN os)
        BY <4>1, FS_Interval
      <4>3. Trials(os, t) \in SUBSET DOMAIN os /\ Escapes(os, t) \in SUBSET DOMAIN os
        BY DEF Trials, Escapes
      <4>4. IsFiniteSet(Trials(os, t)) /\ IsFiniteSet(Escapes(os, t))
        BY <4>2, <4>3, FS_Subset
      <4> QED BY <4>4, FS_CardinalityType
    <3> DEFINE x == MaxAdjustment * e
    <3>4. x \in Nat
      <4>1. MaxAdjustment \in Nat
        BY TelemetryAssumption
      <4> HIDE DEF e
      <4> QED BY <4>1, <3>3
    <3>5. base \in {0, 50, 100}
      BY <1>1, <1>2
    <3>6. n * (base - k) > x
      BY <3>2
    <3> HIDE DEF n, x
    <3>7. CASE k = 25
      BY <3>3, <3>4, <3>5, <3>6, <3>7
    <3>8. CASE k = 75
      BY <3>3, <3>4, <3>5, <3>6, <3>8
    <3> QED BY <3>2, <3>7, <3>8
  <2> HIDE DEF D
  <2>3. LevelAbove(D) \in {"low", "medium", "high"}
    BY DEF LevelAbove
  <2>4. CASE level = "low"
    <3>1. 75 \notin D /\ 25 \notin D
      BY <1>2, <2>2, <2>4
    <3>2. LevelAbove(D) = "low"
      BY <3>1 DEF LevelAbove
    <3> QED BY <1>4, <2>1, <2>4, <3>2
  <2>5. CASE level = "medium"
    <3>1. 75 \notin D
      BY <1>2, <2>2, <2>5
    <3>2. LevelAbove(D) \in {"low", "medium"}
      BY <3>1 DEF LevelAbove
    <3> QED BY <1>3, <1>4, <2>1, <2>5, <3>2
  <2>6. CASE level = "high"
    BY <1>3, <1>4, <2>1, <2>6
  <2> QED BY <1>1, <2>4, <2>5, <2>6
<1> QED BY <1>5, <1>6

\* So a shadow that is narrower is backed, when no observation has its name
LEMMA NarrowIsBacked ==
    ASSUME NEW S, NEW os \in Seq(S), NEW types, NEW level \in ToSet(Levels), NEW degraded,
           WouldNarrow(os, types, level, degraded), NEW id,
           \A j, k \in 1..Len(os) : os[j].id = os[k].id => j = k,
           \A k \in 1..Len(os) : os[k].id # id
    PROVE  Backed(os, types, id) /\ ~degraded
<1>1. Raises(os, types, ScoreOf(level), degraded)
  BY NarrowRaises
<1>2. PICK t \in Applicable(os, types) : TRUE
  BY <1>1 DEF Raises
<1> DEFINE T == Trials(os, t)
           L == Like(os, types, id)
           f == [k \in T |-> os[k]]
<1>3. t \in types /\ Escapes(os, t) = {} /\ Cardinality(T) >= MinSamples /\ ~degraded
  BY <1>1, <1>2 DEF Raises, Lowers, Applicable
<1>4. DOMAIN os = 1..Len(os) /\ ToSet(os) = { os[i] : i \in 1..Len(os) }
  BY LenProperties DEF ToSet
<1>5. \A k \in T : k \in 1..Len(os) /\ os[k] \in L
  <2> SUFFICES ASSUME NEW k \in T PROVE k \in 1..Len(os) /\ os[k] \in L
    OBVIOUS
  <2>1. k \in 1..Len(os) /\ t \in os[k].types /\ os[k].quality \in Agreed
    BY <1>3, <1>4 DEF Trials, Escapes
  <2>2. os[k].types \cap types # {} /\ os[k] \in ToSet(os)
    BY <1>3, <1>4, <2>1
  <2> QED BY <2>1, <2>2 DEF Like
<1>6. f \in Injection(T, L)
  <2>1. \A j, k \in T : os[j] = os[k] => j = k
    BY <1>5
  <2> QED BY <1>5, <2>1 DEF Injection, IsInjective
<1>7. IsFiniteSet(L)
  BY LikeIsFinite
<1> HIDE DEF f, T, L
<1>8. Cardinality(T) <= Cardinality(L) /\ IsFiniteSet(T)
  BY <1>6, <1>7, FS_Injection
<1>9. Cardinality(T) \in Nat /\ Cardinality(L) \in Nat /\ MinSamples \in Nat
  BY <1>7, <1>8, FS_CardinalityType, TelemetryAssumption
<1> QED BY <1>3, <1>8, <1>9 DEF Backed, L

-----------------------------------------------------------------------------
(* The telemetry, and the runs that write it.                              *)

Observed(o, u, a, m, r) ==
    /\ o.id = <<u, a, m>> /\ a <= r.attempt
    /\ a = r.attempt /\ r.pc \notin Finished => m <= Judged(r)
ObsOk(o, runs) == \E u \in Threads : \E a \in Nat : \E m \in Nat : Observed(o, u, a, m, runs[u])
Within(s) == Len(s.decisions) <= MaxDecisions /\ Len(s.observations) <= MaxObservations
Whole(d) == {"id", "types", "degraded", "narrow", "quality"} \subseteq DOMAIN d
\* No two entries have the same name
Apart(q) == \A j, k \in 1..Len(q) : q[j].id = q[k].id => j = k
Judgeable(s, runs) ==
    /\ Within(s)
    /\ \A k \in 1..Len(s.decisions) : Whole(s.decisions[k])
    /\ \A k \in 1..Len(s.observations) : ObsOk(s.observations[k], runs)
    /\ Apart(s.observations)

\* A decision, and one that is about to be recorded, has what its shadow stands on
Stands(os, d) == d.narrow => Backed(os, d.types, d.id) /\ ~d.degraded
Pending(os, t, r) ==
    r.pc = "record" /\ r.narrow =>
      Backed(os, r.report.types, <<t, r.attempt, r.round>>) /\ ~r.report.degraded
Trusted(s, runs) ==
    Len(s.observations) < MaxObservations =>
      /\ \A k \in 1..Len(s.decisions) : Stands(s.observations, s.decisions[k])
      /\ \A t \in Threads : Pending(s.observations, t, runs[t])

TelemetryInv ==
    /\ Judgeable(acked.telemetry, run)
    /\ "telemetry" \notin tainted => Trusted(acked.telemetry, run)

\* An observation of a decision that was judged stays one
LEMMA ObsStill ==
    ASSUME RunsInv, RunsMove, NEW o, ObsOk(o, run)
    PROVE  ObsOk(o, run')
<1>1. PICK u \in Threads : \E a \in Nat : \E m \in Nat : Observed(o, u, a, m, run[u])
  BY DEF ObsOk
<1>2. PICK a \in Nat : \E m \in Nat : Observed(o, u, a, m, run[u])
  BY <1>1
<1>3. PICK m \in Nat : Observed(o, u, a, m, run[u])
  BY <1>2
<1> DEFINE r == run[u]
           n == run'[u]
<1>4. RunOk(u, r) /\ RunOk(u, n) /\ Advances(r, n)
  BY DEF RunsInv, RunsMove
<1> HIDE DEF n
<1>5. r.attempt \in Nat /\ n.attempt \in Nat /\ Judged(r) \in Nat /\ Judged(n) \in Nat
  BY <1>4, Numbers
<1>6. Observed(o, u, a, m, n)
  BY <1>3, <1>4, <1>5 DEF Observed, Advances
<1> QED BY <1>6 DEF ObsOk, n

\* A telemetry stays judgeable while the runs go on
LEMMA StoreStill ==
    ASSUME RunsInv, RunsMove, NEW s, Judgeable(s, run)
    PROVE  Judgeable(s, run')
<1>1. \A k \in 1..Len(s.observations) : ObsOk(s.observations[k], run')
  BY ObsStill DEF Judgeable
<1> QED BY <1>1 DEF Judgeable

\* ... and trusted, unless there is another analysis
LEMMA TrustStill ==
    ASSUME NEW s, Trusted(s, run), \A u \in Threads : KeepsReport(run[u], run'[u])
    PROVE  Trusted(s, run')
<1>1. ASSUME NEW u \in Threads, Pending(s.observations, u, run[u])
      PROVE  Pending(s.observations, u, run'[u])
  BY <1>1 DEF Pending, KeepsReport
<1> QED BY <1>1 DEF Trusted

\* What is kept of the telemetry is an end of it
LEMMA KeptIsKeepNewest == \A s, n : Kept(s, n) = KeepNewest(s, n)
BY DEF Kept, KeepNewest

\* Every entry of p is e or in q
OldOrNew(p, q, e) == \A k \in 1..Len(p) : p[k] = e \/ \E i \in 1..Len(q) : p[k] = q[i]

\* Appending to a bounded sequence: what is kept is old, or the new entry; nothing
\* makes room below the bound
LEMMA KeptAppend ==
    ASSUME NEW S, NEW q \in Seq(S), NEW e, NEW n \in Nat \ {0}, NEW p, p = Kept(Append(q, e), n),
           Len(q) <= n
    PROVE  /\ p \in Seq(S \cup {e}) /\ Len(p) <= n
           /\ OldOrNew(p, q, e)
           /\ Len(p) < n => p = Append(q, e)
           /\ Len(p) >= Len(q)
<1> DEFINE all == Append(q, e)
           l == Len(q)
           T == S \cup {e}
<1>1. l \in Nat
  BY LenProperties
<1>2. all \in Seq(T) /\ Len(all) = l + 1 /\ (\A i \in 1..l : all[i] = q[i]) /\ all[l + 1] = e
  <2>1. q \in Seq(T) /\ e \in T
    OBVIOUS
  <2> HIDE DEF T
  <2> QED BY <2>1, AppendProperties
<1>3. p = KeepNewest(all, n)
  BY KeptIsKeepNewest
<1> HIDE DEF all, T
<1>4. p \in Seq(T) /\ Len(p) <= n /\ Ends(p, all)
  BY <1>2, <1>3, KeptPlaces
<1>5. PICK d \in Nat : Len(all) = Len(p) + d /\ \A i \in 1..Len(p) : p[i] = all[i + d]
  BY <1>4 DEF Ends
<1> DEFINE m == Len(p)
<1>6. m \in Nat /\ l + 1 = m + d /\ \A i \in 1..m : p[i] = all[i + d]
  BY <1>2, <1>4, <1>5, LenProperties
<1>7. m < n => p = all
  <2> SUFFICES ASSUME m < n PROVE p = all
    OBVIOUS
  <2>1. CASE Len(all) > n
    <3>1. p = SubSeq(all, Len(all) - n + 1, Len(all))
      BY <1>3, <2>1 DEF KeepNewest
    <3> DEFINE x == Len(all)
    <3>2. x \in Nat /\ x > n /\ (x - n + 1) \in 1..x /\ x - (x - n + 1) + 1 = n
      BY <1>1, <1>2, <2>1
    <3>3. Len(SubSeq(all, x - n + 1, x)) = n
      BY <3>2, <1>2, SubSeqProperties
    <3> QED BY <3>1, <3>3
  <2>2. CASE ~(Len(all) > n)
    BY <1>3, <2>2 DEF KeepNewest
  <2> QED BY <2>1, <2>2
<1> HIDE DEF m, l
<1>8. \A k \in 1..m : p[k] = e \/ \E i \in 1..l : p[k] = q[i]
  <2> SUFFICES ASSUME NEW k \in 1..m PROVE p[k] = e \/ \E i \in 1..l : p[k] = q[i]
    OBVIOUS
  <2>1. k + d \in 1..l \/ k + d = l + 1
    BY <1>1, <1>6
  <2> QED BY <2>1, <1>2, <1>6 DEF l
<1>9. m >= l
  <2>1. CASE m < n
    <3>1. m = l + 1
      BY <1>2, <1>7, <2>1 DEF m, l
    <3> QED BY <1>1, <3>1
  <2>2. CASE ~(m < n)
    BY <1>1, <1>6, <2>2 DEF l
  <2> QED BY <2>1, <2>2
<1> QED BY <1>4, <1>7, <1>8, <1>9 DEF m, l, all, T, OldOrNew

\* Entries with different names still have them when one more is appended
LEMMA KeptApart ==
    ASSUME NEW S, NEW q \in Seq(S), NEW e, NEW n \in Nat \ {0}, Len(q) <= n,
           Apart(q), Absent(q, e.id),
           NEW p, p = Kept(Append(q, e), n)
    PROVE  Apart(p)
<1> DEFINE all == Append(q, e)
           l == Len(q)
           T == S \cup {e}
<1>1. l \in Nat
  BY LenProperties
<1>2. all \in Seq(T) /\ Len(all) = l + 1 /\ (\A i \in 1..l : all[i] = q[i]) /\ all[l + 1] = e
  <2>1. q \in Seq(T) /\ e \in T
    OBVIOUS
  <2> HIDE DEF T
  <2> QED BY <2>1, AppendProperties
<1>3. p = KeepNewest(all, n)
  BY KeptIsKeepNewest
<1> HIDE DEF all, T
<1>4. p \in Seq(T) /\ Ends(p, all)
  BY <1>2, <1>3, KeptPlaces
<1>5. PICK d \in Nat : Len(all) = Len(p) + d /\ \A i \in 1..Len(p) : p[i] = all[i + d]
  BY <1>4 DEF Ends
<1> DEFINE m == Len(p)
<1>6. m \in Nat /\ l + 1 = m + d /\ \A i \in 1..m : p[i] = all[i + d]
  BY <1>2, <1>4, <1>5, LenProperties
<1>7. \A i, j \in 1..(l + 1) : all[i].id = all[j].id => i = j
  <2> HIDE DEF l
  <2> SUFFICES ASSUME NEW i \in 1..(l + 1), NEW j \in 1..(l + 1), all[i].id = all[j].id PROVE i = j
    OBVIOUS
  <2>1. (i \in 1..l \/ i = l + 1) /\ (j \in 1..l \/ j = l + 1)
    BY <1>1
  <2> QED BY <2>1, <1>2 DEF l, Apart, Absent
<1> HIDE DEF m, l
<1> SUFFICES ASSUME NEW i \in 1..m, NEW j \in 1..m, p[i].id = p[j].id PROVE i = j
  BY DEF m, Apart
<1>8. i + d \in 1..(l + 1) /\ j + d \in 1..(l + 1)
  BY <1>1, <1>6
<1>9. i + d = j + d
  BY <1>6, <1>7, <1>8
<1> QED BY <1>6, <1>9

\* A decision that is recorded is trusted as it was when it was made
LEMMA AddDecision ==
    ASSUME NEW runs, NEW s, WholeTelemetry(s), Judgeable(s, runs),
           NEW t \in Threads, runs[t].pc = "record",
           NEW d, Whole(d), d.id = <<t, runs[t].attempt, runs[t].round>>,
           d.types = runs[t].report.types, d.degraded = runs[t].report.degraded,
           d.narrow = runs[t].narrow,
           NEW n, n = RecordDecision(s, d)
    PROVE  Judgeable(n, runs) /\ (Trusted(s, runs) => Trusted(n, runs))
<1> DEFINE q == s.decisions
           p == Kept(Append(q, d), MaxDecisions)
<1>1. PICK S : q \in Seq(S)
  BY DEF WholeTelemetry, Named
<1>2. MaxDecisions \in Nat \ {0} /\ Len(q) <= MaxDecisions
  BY TelemetryAssumption DEF Judgeable, Within
<1>3. n.decisions = p /\ n.observations = s.observations
  BY DEF RecordDecision, WholeTelemetry
<1> HIDE DEF p
<1>4. Len(p) <= MaxDecisions /\ OldOrNew(p, q, d)
  <2>1. p = Kept(Append(q, d), MaxDecisions)
    BY DEF p
  <2> HIDE DEF q
  <2> QED BY <1>1, <1>2, <2>1, KeptAppend
<1>5. \A k \in 1..Len(p) : Whole(p[k])
  BY <1>4 DEF Judgeable, OldOrNew
<1>6. Judgeable(n, runs)
  BY <1>3, <1>4, <1>5 DEF Judgeable, Within
<1>7. ASSUME Trusted(s, runs) PROVE Trusted(n, runs)
  <2> SUFFICES ASSUME Len(s.observations) < MaxObservations PROVE Trusted(n, runs)
    BY <1>3 DEF Trusted
  <2>1. Stands(s.observations, d)
    BY <1>7 DEF Trusted, Pending, Stands
  <2>2. \A k \in 1..Len(p) : Stands(s.observations, p[k])
    BY <1>4, <1>7, <2>1 DEF Trusted, OldOrNew
  <2> QED BY <1>3, <1>7, <2>2 DEF Trusted
<1> QED BY <1>6, <1>7

\* What is kept of the observations when one is made
LEMMA ObservationsKept ==
    ASSUME NEW s, WholeTelemetry(s), Within(s), NEW o,
           NEW p, p = Kept(Append(s.observations, o), MaxObservations)
    PROVE  /\ Len(p) <= MaxObservations /\ Len(p) \in Nat
           /\ OldOrNew(p, s.observations, o)
           /\ Len(p) < MaxObservations => p = Append(s.observations, o)
           /\ Len(p) >= Len(s.observations)
<1> DEFINE os == s.observations
           M == MaxObservations
<1>1. PICK T : os \in Seq(T)
  BY DEF WholeTelemetry, Named
<1>2. M \in Nat \ {0} /\ Len(os) <= M /\ p = Kept(Append(os, o), M)
  BY TelemetryAssumption DEF Within
<1> HIDE DEF os, M
<1>3. p \in Seq(T \cup {o})
  BY <1>1, <1>2, KeptAppend
<1>4. Len(p) <= M /\ OldOrNew(p, os, o)
  BY <1>1, <1>2, KeptAppend
<1>5. Len(p) < M => p = Append(os, o)
  BY <1>1, <1>2, KeptAppend
<1>6. Len(p) >= Len(os)
  BY <1>1, <1>2, KeptAppend
<1> QED BY <1>3, <1>4, <1>5, <1>6, LenProperties DEF os, M

\* The store once decision k has become d, and o was observed
WithOutcome(s, k, d, o) ==
    [s EXCEPT !.decisions[k] = d, !.observations = Kept(Append(@, o), MaxObservations)]

\* A decision that is judged adds an observation under its own name
LEMMA AddObservation ==
    ASSUME NEW runs, NEW s, WholeTelemetry(s), Judgeable(s, runs),
           NEW k \in 1..Len(s.decisions), NEW quality,
           NEW d, d = [s.decisions[k] EXCEPT !.quality = quality],
           NEW o, o = Observation(d), ObsOk(o, runs),
           Absent(s.observations, o.id),
           NEW n, n = WithOutcome(s, k, d, o)
    PROVE  Judgeable(n, runs) /\ (Trusted(s, runs) => Trusted(n, runs))
<1> DEFINE q == s.decisions
           os == s.observations
           p == Kept(Append(os, o), MaxObservations)
           ds == [q EXCEPT ![k] = d]
           M == MaxObservations
<1>1. PICK S : q \in Seq(S)
  BY DEF WholeTelemetry, Named
<1>2. PICK T : os \in Seq(T)
  BY DEF WholeTelemetry, Named
<1>3. M \in Nat \ {0} /\ Len(os) <= M /\ Len(os) \in Nat
  BY <1>2, LenProperties, TelemetryAssumption DEF Judgeable, Within
<1>4. n.decisions = ds /\ n.observations = p
  BY DEF WholeTelemetry, WithOutcome
<1>5. /\ Whole(q[k]) /\ Whole(d) /\ d.id = q[k].id /\ d.types = q[k].types
      /\ d.degraded = q[k].degraded /\ d.narrow = q[k].narrow /\ o.id = d.id
  <2>1. Whole(q[k])
    BY DEF Judgeable
  <2> QED BY <2>1 DEF Whole, Observation
<1>6. Len(ds) = Len(q) /\ \A i \in 1..Len(q) : ds[i] = IF i = k THEN d ELSE q[i]
  <2>1. q \in Seq(S \cup {d}) /\ d \in S \cup {d} /\ k \in 1..Len(q)
    BY <1>1
  <2> QED BY <2>1, ExceptSeq
<1> HIDE DEF ds, p, M
<1>7. /\ Len(p) <= M /\ Len(p) \in Nat
      /\ OldOrNew(p, os, o)
      /\ Len(p) < M => p = Append(os, o)
      /\ Len(p) >= Len(os)
  BY ObservationsKept DEF Judgeable, p, M
<1>8. Judgeable(n, runs)
  <2>1. \A i \in 1..Len(ds) : Whole(ds[i])
    BY <1>5, <1>6 DEF Judgeable
  <2>2. \A i \in 1..Len(p) : ObsOk(p[i], runs)
    BY <1>7 DEF Judgeable, OldOrNew
  <2>3. Apart(p)
    <3>1. p = Kept(Append(os, o), M) /\ Apart(os) /\ Absent(os, o.id)
      BY DEF p, M, Judgeable
    <3> HIDE DEF os
    <3> QED BY <1>2, <1>3, <3>1, KeptApart
  <2>4. Len(q) <= MaxDecisions
    BY DEF Judgeable, Within
  <2>5. Within(n)
    BY <1>4, <1>6, <1>7, <2>4 DEF Within, M
  <2>6. \A i \in 1..Len(n.decisions) : Whole(n.decisions[i])
    BY <1>4, <2>1
  <2>7. Apart(n.observations) /\ \A i \in 1..Len(n.observations) : ObsOk(n.observations[i], runs)
    BY <1>4, <2>2, <2>3
  <2> QED BY <2>5, <2>6, <2>7 DEF Judgeable
<1>9. ASSUME Trusted(s, runs) PROVE Trusted(n, runs)
  <2> SUFFICES ASSUME Len(p) < M PROVE Trusted(n, runs)
    BY <1>4 DEF Trusted, M
  <2>1. Len(os) < M
    BY <1>3, <1>7
  <2>2. p = Append(os, o)
    BY <1>7
  <2>3. ASSUME NEW types, NEW id, Backed(os, types, id) PROVE Backed(p, types, id)
    BY <1>2, <2>2, <2>3, BackedStill
  <2>4. \A i \in 1..Len(q) : Stands(os, q[i])
    BY <1>9, <2>1 DEF Trusted, M
  <2>5. \A u \in Threads : Pending(os, u, runs[u])
    BY <1>9, <2>1 DEF Trusted, M
  <2>6. \A i \in 1..Len(ds) : Stands(p, ds[i])
    <3> SUFFICES ASSUME NEW i \in 1..Len(q) PROVE Stands(p, ds[i])
      BY <1>6
    <3>1. Stands(p, q[i])
      BY <2>3, <2>4 DEF Stands
    <3>2. CASE i = k
      BY <1>5, <1>6, <3>1, <3>2 DEF Stands
    <3>3. CASE i # k
      BY <1>6, <3>1, <3>3
    <3> QED BY <3>2, <3>3
  <2>7. \A u \in Threads : Pending(p, u, runs[u])
    BY <2>3, <2>5 DEF Pending
  <2> QED BY <1>4, <2>6, <2>7 DEF Trusted
<1> QED BY <1>8, <1>9

\* Of an empty store there is nothing to be said
LEMMA EmptyIsJudgeable ==
    ASSUME NEW runs
    PROVE  Judgeable(EmptyTelemetry, runs)
<1> DEFINE none == <<>>
<1>1. /\ EmptyTelemetry.decisions = none /\ EmptyTelemetry.observations = none
      /\ none \in Seq({}) /\ Len(none) = 0
  BY DEF EmptyTelemetry
<1> HIDE DEF none
<1>2. 1..Len(none) = {} /\ Len(none) <= MaxDecisions /\ Len(none) <= MaxObservations
  BY <1>1, TelemetryAssumption
<1> QED BY <1>1, <1>2 DEF Judgeable, Within, Apart

\* What a hook makes of the telemetry is judgeable when it is over, and as trusted
LEMMA HookTrust ==
    ASSUME LockInv, RunsInv, RunsMove, NEW t \in Threads, PutTelemetry(t),
           NEW s, WholeTelemetry(s), Judgeable(s, run),
           NEW n, n = TelemetryAfter(t, s)
    PROVE  Judgeable(n, run') /\ (Trusted(s, run) => Trusted(n, run'))
<1> DEFINE c == run[t]
           m == run'[t]
<1>1. c.pc \in TelemetryOps /\ RunOk(t, c) /\ m = AfterTelemetry(t, TRUE)
  BY DEF PutTelemetry, Set, RunsInv, LockInv
<1>2. \A u \in Threads : KeepsReport(run[u], run'[u])
  <2>1. ~Analyse(t)
    BY <1>1 DEF Analyse, Here, TelemetryOps
  <2>2. \A u \in Threads \ {t} : run'[u] = run[u]
    BY DEF PutTelemetry, Set, LockInv
  <2> QED BY <2>1, <2>2 DEF RunsMove, KeepsReport
<1>3. RoundId(t) = <<t, c.attempt, c.round>>
  BY DEF RoundId
<1>4. CASE c.pc = "record"
  <2> DEFINE d == Decision(RoundId(t), c.report, c.narrow)
  <2>1. n = RecordDecision(s, d)
    BY <1>4 DEF TelemetryAfter
  <2>2. /\ Whole(d) /\ d.id = <<t, c.attempt, c.round>> /\ d.types = c.report.types
        /\ d.degraded = c.report.degraded /\ d.narrow = c.narrow
    BY <1>3 DEF Decision, Whole
  <2> HIDE DEF d
  <2>3. Judgeable(n, run) /\ (Trusted(s, run) => Trusted(n, run))
    BY <1>4, <2>1, <2>2, AddDecision
  <2> QED BY <1>2, <2>3, StoreStill, TrustStill
<1>5. CASE c.pc = "finalize"
  <2> DEFINE q == s.decisions
             id == c.decision
             mine == { k \in DOMAIN q : q[k].id = id }
             k == CHOOSE k \in mine : \A j \in mine : j <= k
             d == [q[k] EXCEPT !.quality = c.quality]
             o == Observation(d)
  <2>1. Judgeable(s, run') /\ (Trusted(s, run) => Trusted(s, run'))
    BY <1>2, StoreStill, TrustStill
  <2>2. CASE mine = {}
    <3>1. n = s
      BY <1>5, <2>2 DEF TelemetryAfter, FinalizeDecision
    <3> QED BY <2>1, <3>1
  <2>3. CASE mine # {}
    <3>1. n = WithOutcome(s, k, d, o)
      BY <1>5, <2>3 DEF TelemetryAfter, FinalizeDecision, WithOutcome
    <3>2. PICK S : q \in Seq(S)
      BY DEF WholeTelemetry, Named
    <3>3. DOMAIN q = 1..Len(q) /\ Len(q) \in Nat
      BY <3>2, LenProperties
    <3>4. k \in mine
      <4>1. mine \subseteq 0..Len(q)
        BY <3>3
      <4>2. \E i \in mine : \A j \in mine : j <= i
        <5> HIDE DEF mine
        <5> QED BY <2>3, <3>3, <4>1, Greatest
      <4> QED BY <4>2
    <3> HIDE DEF k
    <3>5. k \in 1..Len(q) /\ q[k].id = id
      BY <3>3, <3>4
    <3>6. id # NoParent
      <4>1. Name(q[k])
        BY <3>3, <3>5, EntryNamed DEF WholeTelemetry
      <4> QED BY <3>5, <4>1 DEF Name
    <3>7. id = <<t, c.attempt, c.round>>
      BY <1>1, <3>6 DEF RunOk
    <3>8. Whole(q[k])
      BY <3>5 DEF Judgeable
    <3>9. d.id = <<t, c.attempt, c.round>> /\ o.id = <<t, c.attempt, c.round>>
      BY <3>5, <3>7, <3>8 DEF Whole, Observation
    <3>e. d = [s.decisions[k] EXCEPT !.quality = c.quality] /\ o = Observation(d)
      OBVIOUS
    <3> DEFINE quality == c.quality
    <3> HIDE DEF o, d, mine
    <3>10. ObsOk(o, run')
      <4>1. m.pc = "iterate" /\ m.attempt = c.attempt /\ m.round = c.round
        BY <1>1, <1>5 DEF AfterTelemetry, RunOk, Fields
      <4>2. Judged(m) = c.round /\ c.attempt \in Nat /\ c.round \in Nat
        BY <1>1, <4>1, Numbers DEF Judged
      <4> HIDE DEF m
      <4>3. Observed(o, t, c.attempt, c.round, m)
        BY <3>9, <4>1, <4>2 DEF Observed
      <4> QED BY <4>2, <4>3 DEF ObsOk, m
    <3>11. Absent(s.observations, o.id)
      <4> SUFFICES ASSUME NEW i \in 1..Len(s.observations), s.observations[i].id = o.id
                   PROVE  FALSE
        BY DEF Absent
      <4>1. ObsOk(s.observations[i], run)
        BY DEF Judgeable
      <4>2. PICK u \in Threads : \E a \in Nat : \E x \in Nat :
                   Observed(s.observations[i], u, a, x, run[u])
        BY <4>1 DEF ObsOk
      <4>3. PICK a \in Nat : \E x \in Nat : Observed(s.observations[i], u, a, x, run[u])
        BY <4>2
      <4>4. PICK x \in Nat : Observed(s.observations[i], u, a, x, run[u])
        BY <4>3
      <4>5. u = t /\ a = c.attempt /\ x = c.round
        BY <3>9, <4>4 DEF Observed
      <4>6. x <= Judged(c) /\ Judged(c) = c.round - 1 /\ c.round \in Nat
        BY <1>1, <1>5, <4>4, <4>5, Numbers DEF Observed, Judged, Finished
      <4> QED BY <4>5, <4>6
    <3>12. Judgeable(n, run') /\ (Trusted(s, run') => Trusted(n, run'))
      <4>1. d = [s.decisions[k] EXCEPT !.quality = quality] /\ o = Observation(d)
        BY <3>e
      <4>2. Judgeable(s, run') /\ k \in 1..Len(s.decisions)
        BY <2>1, <3>5
      <4> HIDE DEF quality, q
      <4> QED BY <3>1, <3>10, <3>11, <4>1, <4>2, AddObservation
    <3> QED BY <2>1, <3>12
  <2> QED BY <2>2, <2>3
<1> QED BY <1>1, <1>4, <1>5 DEF TelemetryOps

\* What the analysis concludes from the observations is backed by them
LEMMA AnalysisTrust ==
    ASSUME LockInv, StoreInv, RunsInv, NEW t \in Threads, Analyse(t),
           NEW s, s = acked.telemetry, Judgeable(s, run), RunsMove, Trusted(s, run)
    PROVE  Trusted(s, run')
<1> DEFINE c == run[t]
           os == s.observations
           id == <<t, c.attempt, c.round>>
<1>1. RunOk(t, c) /\ c.pc = "analyse" /\ LoadTelemetry(telemetry).observations = os
  BY DEF RunsInv, StoreInv, NoLostUpdate, Analyse, Here
<1>2. PICK r \in ReportsOf[t] :
         run' = [run EXCEPT ![t] = [c EXCEPT !.pc = "record", !.report = r,
                   !.narrow = WouldNarrow(os, r.types, r.confidence, r.degraded)]]
  BY <1>1 DEF Analyse, Set
<1>3. /\ run'[t].report = r /\ run'[t].attempt = c.attempt /\ run'[t].round = c.round
      /\ run'[t].narrow = WouldNarrow(os, r.types, r.confidence, r.degraded)
  BY <1>1, <1>2 DEF LockInv, RunOk, Fields
<1>4. \A u \in Threads \ {t} : run'[u] = run[u]
  BY <1>2 DEF LockInv
<1>5. Absent(os, id)
  <2> SUFFICES ASSUME NEW i \in 1..Len(os), os[i].id = id PROVE FALSE
    BY DEF Absent
  <2>1. ObsOk(os[i], run)
    BY DEF Judgeable
  <2>2. PICK u \in Threads : \E a \in Nat : \E x \in Nat : Observed(os[i], u, a, x, run[u])
    BY <2>1 DEF ObsOk
  <2>3. PICK a \in Nat : \E x \in Nat : Observed(os[i], u, a, x, run[u])
    BY <2>2
  <2>4. PICK x \in Nat : Observed(os[i], u, a, x, run[u])
    BY <2>3
  <2>5. u = t /\ a = c.attempt /\ x = c.round
    BY <2>4 DEF Observed
  <2>6. x <= Judged(c) /\ Judged(c) = c.round - 1 /\ c.round \in Nat
    BY <1>1, <2>4, <2>5, Numbers DEF Observed, Judged, Finished
  <2> QED BY <2>5, <2>6
<1>6. PICK S : os \in Seq(S)
  BY DEF StoreInv, WholeTelemetry, Named
<1>7. r.confidence \in ToSet(Levels)
  BY LearningAssumption
<1>8. ASSUME WouldNarrow(os, r.types, r.confidence, r.degraded)
      PROVE  Backed(os, r.types, id) /\ ~r.degraded
  <2>1. Apart(os) /\ os \in Seq(S)
    BY <1>6 DEF Judgeable
  <2>2. Absent(os, id)
    BY <1>5
  <2> HIDE DEF os, id
  <2>3. (\A j, k \in 1..Len(os) : os[j].id = os[k].id => j = k)
        /\ \A k \in 1..Len(os) : os[k].id # id
    BY <2>1, <2>2 DEF Apart, Absent
  <2> QED BY <1>7, <1>8, <2>1, <2>3, NarrowIsBacked
<1> SUFFICES ASSUME Len(os) < MaxObservations PROVE Trusted(s, run')
  BY DEF Trusted
<1>9. Pending(os, t, run'[t])
  BY <1>3, <1>8 DEF Pending
<1>10. \A u \in Threads : Pending(os, u, run'[u])
  BY <1>4, <1>9 DEF Trusted
<1> QED BY <1>10 DEF Trusted

\* No step leaves a shadow that nothing backs
LEMMA TelemetryStep ==
    ASSUME SharedRoot, SafeInv, RunsInv, TelemetryInv, [Next]_vars
    PROVE  TelemetryInv'
<1> DEFINE s == acked.telemetry
<1>1. LockInv /\ StoreInv /\ WholeTelemetry(s) /\ Judgeable(s, run)
  BY DEF SafeInv, StoreInv, TelemetryInv
<1>2. RunsMove
  BY <1>1, RunsStep
<1>3. Judgeable(s, run')
  BY <1>1, <1>2, StoreStill
<1>4. ASSUME NEW t \in Threads, PutTelemetry(t) PROVE TelemetryInv'
  <2> DEFINE n == TelemetryAfter(t, s)
  <2>1. acked'.telemetry = n /\ tainted' = tainted
    BY <1>1, <1>4 DEF PutTelemetry, StoreInv
  <2>2. Judgeable(n, run') /\ (Trusted(s, run) => Trusted(n, run'))
    BY <1>1, <1>2, <1>4, HookTrust
  <2> QED BY <2>1, <2>2 DEF TelemetryInv
<1>5. ASSUME NEW t \in Threads, Analyse(t) PROVE TelemetryInv'
  <2>1. UNCHANGED ghosts
    BY <1>5 DEF Analyse
  <2>2. Trusted(s, run) => Trusted(s, run')
    BY <1>1, <1>2, <1>5, AnalysisTrust
  <2> QED BY <1>3, <2>1, <2>2 DEF TelemetryInv, ghosts
<1>6. CASE DamageTelemetry
  <2> DEFINE none == EmptyTelemetry
  <2>1. acked'.telemetry = none /\ "telemetry" \in tainted'
    BY <1>1, <1>6 DEF DamageTelemetry, StoreInv
  <2> QED BY <2>1, EmptyIsJudgeable DEF TelemetryInv
<1>7. ASSUME acked'.telemetry = s, tainted \subseteq tainted',
             \A u \in Threads : KeepsReport(run[u], run'[u])
      PROVE  TelemetryInv'
  BY <1>3, <1>7, TrustStill DEF TelemetryInv
<1>8. ASSUME ~DamageTelemetry, \A t \in Threads : ~PutTelemetry(t)
      PROVE  acked'.telemetry = s /\ tainted \subseteq tainted'
  <2>1. CASE \E t \in Threads : PutHistory(t)
    BY <1>1, <2>1 DEF PutHistory, StoreInv
  <2>2. CASE DamageHistory
    BY <1>1, <2>2 DEF DamageHistory, StoreInv
  <2>3. CASE ~DamageHistory /\ \A t \in Threads : ~PutHistory(t)
    BY <1>8, <2>3 DEF Next, Step, Begin, Generate, Analyse, Validate, Review, Untraced, TakeHistory,
                 HistoryFails, TakeTelemetry, TelemetryFails, Crash, vars, ghosts
  <2> QED BY <2>1, <2>2, <2>3
<1> QED BY <1>2, <1>4, <1>5, <1>6, <1>7, <1>8 DEF RunsMove

\* There is no decision at the start
LEMMA TelemetryInit == Init => TelemetryInv
<1> SUFFICES ASSUME Init PROVE TelemetryInv
  OBVIOUS
<1>1. acked.telemetry = EmptyTelemetry /\ \A t \in Threads : run[t].pc = "idle"
  BY DEF Init, Idle
<1>2. Judgeable(EmptyTelemetry, run)
  BY EmptyIsJudgeable
<1>3. Trusted(EmptyTelemetry, run)
  <2> DEFINE none == <<>>
  <2>1. EmptyTelemetry.decisions = none /\ none \in Seq({}) /\ Len(none) = 0
    BY DEF EmptyTelemetry
  <2> HIDE DEF none
  <2>2. 1..Len(none) = {}
    BY <2>1
  <2> QED BY <1>1, <2>1, <2>2 DEF Trusted, Pending
<1> QED BY <1>1, <1>2, <1>3 DEF TelemetryInv

-----------------------------------------------------------------------------
(* Everything at once.                                                     *)

\* Whose locks there are, and how much has gone wrong
OwnedInv ==
    /\ \A r \in Roots : {historyLock[r], telemetryLock[r]} \subseteq Threads \cup {Free}
    /\ faults \in 0..Disturbances

\* Locks are held by threads, and disturbances end
LEMMA OwnedStep ==
    ASSUME LockInv, OwnedInv, [Next]_vars
    PROVE  OwnedInv'
<1>1. faults' \in 0..Disturbances
  <2>1. faults' = faults \/ (faults < Disturbances /\ faults' = faults + 1)
    <3>1. ASSUME NEW t \in Threads, Begin(t) \/ Step(t) PROVE faults' = faults
      BY <3>1 DEF Step, Begin, Generate, Analyse, Validate, Review, Untraced,
                  TakeHistory, PutHistory, TakeTelemetry, PutTelemetry
    <3>2. ASSUME NEW t \in Threads, HistoryFails(t) \/ TelemetryFails(t) PROVE Disturb
      BY <3>2 DEF HistoryFails, TelemetryFails
    <3>3. Crash \/ DamageHistory \/ DamageTelemetry => Disturb
      BY DEF Crash, DamageHistory, DamageTelemetry
    <3>4. UNCHANGED vars => faults' = faults
      BY DEF vars
    <3>5. Disturb => faults < Disturbances /\ faults' = faults + 1
      BY DEF Disturb
    <3> QED BY <3>1, <3>2, <3>3, <3>4, <3>5 DEF Next
  <2> QED BY <2>1, LearningAssumption DEF OwnedInv
<1> DEFINE Fine(l) == \A r \in Roots : l[r] \in Threads \cup {Free}
<1>2. Fine(historyLock) /\ Fine(telemetryLock)
  BY DEF OwnedInv
<1>3. Fine([ r \in Roots |-> Free ])
  OBVIOUS
<1>4. ASSUME NEW l, l = [ r \in Roots |-> l[r] ], Fine(l), NEW x, NEW y \in Threads \cup {Free}
      PROVE  Fine([l EXCEPT ![x] = y])
  BY <1>4
<1>l. /\ historyLock = [ r \in Roots |-> historyLock[r] ]
      /\ telemetryLock = [ r \in Roots |-> telemetryLock[r] ]
  BY DEF LockInv
<1> HIDE DEF Fine
<1>5. Fine(historyLock') /\ Fine(telemetryLock')
  <2>1. ASSUME NEW t \in Threads, Begin(t) \/ Generate(t) \/ Analyse(t) \/ Validate(t) \/ Review(t)
                                  \/ Untraced(t)
        PROVE  UNCHANGED locks
    BY <2>1 DEF Begin, Generate, Analyse, Validate, Review, Untraced
  <2>2. ASSUME NEW t \in Threads, TakeHistory(t) \/ PutHistory(t) \/ HistoryFails(t)
        PROVE  /\ telemetryLock' = telemetryLock
               /\ \E y \in Threads \cup {Free} :
                     historyLock' = [historyLock EXCEPT ![RootOf[t]] = y]
    BY <2>2 DEF TakeHistory, PutHistory, HistoryFails
  <2>3. ASSUME NEW t \in Threads, TakeTelemetry(t) \/ PutTelemetry(t) \/ TelemetryFails(t)
        PROVE  /\ historyLock' = historyLock
               /\ \E y \in Threads \cup {Free} :
                     telemetryLock' = [telemetryLock EXCEPT ![RootOf[t]] = y]
    BY <2>3 DEF TakeTelemetry, PutTelemetry, TelemetryFails
  <2>4. CASE Crash
    BY <1>3, <2>4 DEF Crash
  <2>5. CASE DamageHistory \/ DamageTelemetry \/ UNCHANGED vars
    BY <1>2, <2>5 DEF DamageHistory, DamageTelemetry, vars, locks
  <2>6. CASE UNCHANGED locks
    BY <1>2, <2>6 DEF locks
  <2> QED BY <1>2, <1>4, <1>l, <2>1, <2>2, <2>3, <2>4, <2>5, <2>6 DEF Next, Step
<1> QED BY <1>1, <1>5 DEF OwnedInv, Fine

LearningInv == SafeInv /\ OwnedInv /\ RunsInv /\ HistoryInv /\ TelemetryInv

\* The invariant of the two theorems below holds at the start
LEMMA LearningInit == Init => LearningInv
<1> SUFFICES ASSUME Init PROVE LearningInv
  OBVIOUS
<1>1. OwnedInv
  <2>1. \A t \in Threads : RootOf[t] \in Roots
    BY DEF Roots
  <2> QED BY <2>1, LearningAssumption DEF Init, OwnedInv
<1> QED BY <1>1, SafeInit, RunsInit, HistoryInit, TelemetryInit DEF LearningInv

\* ... and after every step
LEMMA LearningStep ==
    ASSUME SharedRoot, LearningInv, [Next]_vars
    PROVE  LearningInv'
<1>1. LockInv
  BY DEF LearningInv, SafeInv
<1>2. RunsInv'
  BY <1>1, RunsStep DEF LearningInv, RunsInv, RunsMove
<1> QED BY <1>1, <1>2, SafeStep, OwnedStep, HistoryStep, TelemetryStep DEF LearningInv

\* When all runs of a process work in one project root, the chain of a lifecycle's
\* latest iteration is all that was kept of it, in order, although saves fail, processes
\* die and records are damaged; and stores, runs and locks keep their shape and bounds.
THEOREM HistoryStaysCausal ==
    ASSUME SharedRoot
    PROVE  Spec => []HistoryIsCausal
<1>1. LearningInv /\ [Next]_vars => LearningInv'
  BY LearningStep
<1>2. LearningInv => HistoryIsCausal
  <2> SUFFICES ASSUME LearningInv PROVE HistoryIsCausal
    OBVIOUS
  <2> DEFINE q == Load(history).records
  <2>1. Sound(q, run)
    BY GoodRead DEF LearningInv, HistoryInv, Load
  <2>2. PICK S : q \in Seq(S)
    BY <2>1 DEF Sound, Good
  <2>3. DOMAIN q = 1..Len(q)
    BY <2>2, LenProperties
  <2>4. ASSUME NEW k \in 1..Len(q)
        PROVE  /\ q[k].state \in Working \cup Terminal
               /\ Len(q[k].iterations) <= MaxIterations
               /\ q[k].iterations # <<>> =>
                     RepairChain(q[k], Last(q[k].iterations).id) = q[k].iterations
    <3> DEFINE r == q[k]
    <3>1. RecordOk(r, run)
      BY <2>1 DEF Sound
    <3>2. PICK u \in Threads : \E b \in Nat : Belongs(r, u, b, run[u])
      BY <3>1 DEF RecordOk
    <3>3. PICK b \in Nat : Belongs(r, u, b, run[u])
      BY <3>2
    <3>4. Chain(r.iterations, u, b)
      BY <3>3 DEF Belongs
    <3> HIDE DEF r
    <3>5. r.iterations # <<>> => RepairChain(r, Last(r.iterations).id) = r.iterations
      BY <3>4, WholeChain
    <3> QED BY <3>1, <3>4, <3>5 DEF RecordOk, Chain, r
  <2>5. RepairChainIsCausal
    BY <2>3, <2>4 DEF RepairChainIsCausal
  <2>6. Len(q) <= MaxLifecycles
    BY <2>1 DEF Sound, Good
  <2>7. /\ Len(LoadTelemetry(telemetry).decisions) <= MaxDecisions
        /\ Len(LoadTelemetry(telemetry).observations) <= MaxObservations
    BY DEF LearningInv, TelemetryInv, Judgeable, Within, SafeInv, StoreInv, NoLostUpdate
  <2>8. ASSUME NEW t \in Threads
        PROVE  /\ run[t].pc \in HistoryOps \cup TelemetryOps \cup Finished
                                   \cup {"generate", "analyse", "validate", "review"}
               /\ run[t].attempt \in 0..MaxAttempts[t] /\ run[t].round \in 1..MaxRounds[t]
               /\ ToSet(run[t].todo) \subseteq Working
    <3>1. RunOk(t, run[t])
      BY DEF LearningInv, RunsInv
    <3>2. run[t].todo \in Seq(Working)
      BY <3>1 DEF RunOk
    <3>3. ToSet(run[t].todo) \subseteq Working
      BY <3>2 DEF ToSet
    <3> QED BY <3>1, <3>3 DEF RunOk, Pcs
  <2>9. TypeOK
    BY <2>3, <2>4, <2>6, <2>7, <2>8 DEF TypeOK, LearningInv, OwnedInv
  <2> QED BY <2>5, <2>9 DEF HistoryIsCausal
<1> QED BY <1>1, <1>2, LearningInit, PTL DEF Spec

\* When all runs of a process work in one project root, a decision whose shadow is
\* narrower stands on enough others that agreed, for as long as no observation was
\* lost or had to make room: neither a crash between decision and outcome nor another
\* run's decisions and saves leave one that was never earned.
THEOREM TrustWasEarned ==
    ASSUME SharedRoot
    PROVE  Spec => []TrustIsEarned
<1>1. LearningInv /\ [Next]_vars => LearningInv'
  BY LearningStep
<1>2. LearningInv => TrustIsEarned
  <2> DEFINE s == LoadTelemetry(telemetry)
             q == s.decisions
             os == s.observations
  <2> SUFFICES ASSUME LearningInv, Len(os) < MaxObservations, "telemetry" \notin tainted,
                      NEW k \in DOMAIN q, q[k].narrow
               PROVE  /\ Cardinality({ o \in ToSet(os) :
                            o.id # q[k].id /\ o.types \cap q[k].types # {} /\ o.quality \in Agreed })
                          >= MinSamples
                      /\ ~q[k].degraded
    BY DEF TrustIsEarned
  <2>1. s = acked.telemetry /\ WholeTelemetry(s)
    BY DEF LearningInv, SafeInv, StoreInv, NoLostUpdate
  <2>2. Trusted(s, run)
    BY <2>1 DEF LearningInv, TelemetryInv
  <2>3. k \in 1..Len(q)
    <3>1. PICK S : q \in Seq(S)
      BY <2>1 DEF WholeTelemetry, Named
    <3> QED BY <3>1, LenProperties
  <2>4. Backed(os, q[k].types, q[k].id) /\ ~q[k].degraded
    BY <2>2, <2>3 DEF Trusted, Stands
  <2> QED BY <2>4 DEF Backed, Like
<1> QED BY <1>1, <1>2, LearningInit, PTL DEF Spec

-----------------------------------------------------------------------------
(* What the impact analysis leaves out.                                    *)

\* The search before its first level, and one level further unless it was cut
Seeded(seeds) == [seen |-> seeds, frontier |-> seeds, cut |-> FALSE, depth |-> <<>>]
Deeper(repo, s, d) == IF s.cut THEN s ELSE Level(repo, s, d)
Searched(repo, seeds, g) ==
    [d \in 0..MaxDepth |-> IF d = 0 THEN Seeded(seeds) ELSE Deeper(repo, g[d - 1], d)]

\* The recursion of Search has a solution
LEMMA SearchExists ==
    ASSUME NEW repo, NEW seeds
    PROVE  \E g : g = Searched(repo, seeds, g)
<1> DEFINE Upto(g, m) ==
             /\ g[0] = Seeded(seeds)
             /\ \A i \in 1..m : g[i] = Deeper(repo, g[i - 1], i)
           N == { m \in Nat : \E g : Upto(g, m) }
<1>1. 0 \in N
  <2>1. Upto([i \in 0..0 |-> Seeded(seeds)], 0)
    OBVIOUS
  <2> QED BY <2>1
<1>2. ASSUME NEW m \in N PROVE m + 1 \in N
  <2>1. PICK g : Upto(g, m)
    OBVIOUS
  <2> DEFINE h == [i \in 0..m + 1 |-> IF i <= m THEN g[i] ELSE Deeper(repo, g[m], m + 1)]
  <2>2. h[0] = Seeded(seeds)
    BY <2>1
  <2>3. ASSUME NEW i \in 1..m + 1 PROVE h[i] = Deeper(repo, h[i - 1], i)
    <3>1. CASE i <= m
      <4>1. i \in 1..m /\ i \in 0..m + 1 /\ i - 1 \in 0..m + 1 /\ i - 1 <= m
        BY <3>1
      <4> QED BY <2>1, <4>1
    <3>2. CASE i = m + 1
      <4>1. i - 1 = m /\ m \in 0..m + 1 /\ i \in 0..m + 1 /\ ~(i <= m) /\ m <= m
        BY <3>2
      <4> QED BY <3>2, <4>1
    <3> QED BY <3>1, <3>2
  <2> HIDE DEF h
  <2>4. Upto(h, m + 1)
    BY <2>2, <2>3
  <2> QED BY <2>4
<1> HIDE DEF N
<1>3. N \in SUBSET Nat
  BY DEF N
<1>4. MaxDepth \in N
  BY <1>1, <1>2, <1>3, Induction, ImpactAssumption
<1>5. PICK g : Upto(g, MaxDepth)
  BY <1>4 DEF N
<1> DEFINE f == [d \in 0..MaxDepth |-> g[d]]
<1>6. ASSUME NEW d \in 0..MaxDepth
      PROVE  f[d] = IF d = 0 THEN Seeded(seeds) ELSE Deeper(repo, f[d - 1], d)
  <2>1. CASE d = 0
    BY <1>5, <2>1
  <2>2. CASE d # 0
    <3>1. d \in 1..MaxDepth /\ d - 1 \in 0..MaxDepth
      BY <2>2, ImpactAssumption
    <3> QED BY <1>5, <2>2, <3>1
  <2> QED BY <2>1, <2>2
<1>7. f = Searched(repo, seeds, f)
  <2> HIDE DEF Upto
  <2>1. f = [d \in 0..MaxDepth |-> f[d]]
    OBVIOUS
  <2> HIDE DEF f
  <2> QED BY <1>6, <2>1 DEF Searched
<1> QED BY <1>7

\* What the search has seen unless it was cut: the seeds and the files with a
\* depth, each importing one of them, and all importers of those behind the frontier
LevelOk(repo, seeds, s) ==
    ~s.cut =>
      /\ s.seen = seeds \cup DOMAIN s.depth /\ s.frontier \subseteq s.seen
      /\ s.seen \subseteq GraphFiles(repo)
      /\ \A p \in s.seen \ s.frontier : ImportedBy(repo, p) \subseteq s.seen
      /\ \A q \in DOMAIN s.depth : \E p \in s.seen : q \in ImportedBy(repo, p)

\* One more level keeps it so
LEMMA DeeperOk ==
    ASSUME NEW repo, NEW seeds, NEW s, NEW d, LevelOk(repo, seeds, s)
    PROVE  LevelOk(repo, seeds, Deeper(repo, s, d))
<1> DEFINE l == Level(repo, s, d)
           next == NextFrontier(repo, s)
<1> SUFFICES ASSUME ~s.cut, ~l.cut PROVE LevelOk(repo, seeds, l)
  BY DEF Deeper, LevelOk
<1>1. /\ l.seen = s.seen \cup next /\ l.frontier = next
      /\ DOMAIN l.depth = DOMAIN s.depth \cup next
  BY DEF Level
<1> HIDE DEF l
<1>2. \A q \in next : q \notin s.seen /\ \E p \in s.frontier : q \in ImportedBy(repo, p)
  BY DEF NextFrontier
<1>3. \A p \in s.frontier : ImportedBy(repo, p) \subseteq s.seen \cup next
  BY DEF NextFrontier
<1> HIDE DEF next
<1>4. \A p, q : q \in ImportedBy(repo, p) => q \in GraphFiles(repo)
  BY DEF ImportedBy
<1>5. l.seen \subseteq GraphFiles(repo)
  BY <1>1, <1>2, <1>4 DEF LevelOk
<1>6. \A p \in l.seen \ l.frontier : ImportedBy(repo, p) \subseteq l.seen
  BY <1>1, <1>3 DEF LevelOk
<1>7. \A q \in DOMAIN l.depth : \E p \in l.seen : q \in ImportedBy(repo, p)
  BY <1>1, <1>2 DEF LevelOk
<1> QED BY <1>1, <1>5, <1>6, <1>7 DEF LevelOk

\* And so it is when the search ends
LEMMA SearchOk ==
    ASSUME NEW repo, NEW seeds, seeds \subseteq GraphFiles(repo)
    PROVE  LevelOk(repo, seeds, Search(repo, seeds))
<1>1. PICK g : g = Searched(repo, seeds, g) /\ Search(repo, seeds) = g[MaxDepth]
  <2> DEFINE g == CHOOSE g : g = Searched(repo, seeds, g)
  <2>1. g = Searched(repo, seeds, g)
    BY SearchExists
  <2>2. Search(repo, seeds) = g[MaxDepth]
    BY DEF Search, Searched, Seeded, Deeper
  <2> QED BY <2>1, <2>2
<1> DEFINE N == { d \in Nat : d <= MaxDepth => LevelOk(repo, seeds, g[d]) }
<1>2. \A d \in 0..MaxDepth :
          g[d] = IF d = 0 THEN Seeded(seeds) ELSE Deeper(repo, g[d - 1], d)
  <2> DEFINE f == Searched(repo, seeds, g)
  <2>1. \A d \in 0..MaxDepth :
          f[d] = IF d = 0 THEN Seeded(seeds) ELSE Deeper(repo, g[d - 1], d)
    BY DEF Searched
  <2> HIDE DEF f
  <2>2. g = f
    BY <1>1 DEF f
  <2> QED BY <2>1, <2>2
<1>3. 0 \in N
  <2>1. DOMAIN <<>> = {}
    OBVIOUS
  <2>2. LevelOk(repo, seeds, Seeded(seeds))
    BY <2>1 DEF LevelOk, Seeded
  <2>3. g[0] = Seeded(seeds)
    BY <1>2, ImpactAssumption
  <2> QED BY <2>2, <2>3
<1>4. ASSUME NEW d \in N PROVE d + 1 \in N
  <2> SUFFICES ASSUME d + 1 <= MaxDepth PROVE LevelOk(repo, seeds, g[d + 1])
    OBVIOUS
  <2>1. d + 1 \in 0..MaxDepth /\ d + 1 # 0 /\ d + 1 - 1 = d /\ d <= MaxDepth
    BY ImpactAssumption
  <2>2. g[d + 1] = Deeper(repo, g[d], d + 1)
    BY <1>2, <2>1
  <2> QED BY <2>1, <2>2, DeeperOk
<1> HIDE DEF N
<1>5. N \in SUBSET Nat
  BY DEF N
<1>6. MaxDepth \in N
  BY <1>3, <1>4, <1>5, Induction, ImpactAssumption
<1>7. LevelOk(repo, seeds, g[MaxDepth])
  BY <1>6, ImpactAssumption DEF N
<1> QED BY <1>1, <1>7

\* The graph has all files unless their number reaches the bound
LEMMA WholeGraph ==
    ASSUME NEW repo, ~GraphTruncated(repo)
    PROVE  GraphFiles(repo) = Existing(repo)
<1>1. IsFiniteSet(Paths)
  <2> DEFINE n == Len(PathOrder)
             f == [i \in 1..n |-> PathOrder[i]]
  <2>1. n \in Nat /\ DOMAIN PathOrder = 1..n
    BY ImpactAssumption, LenProperties
  <2>2. f \in Surjection(1..n, Paths)
    <3> HIDE DEF n
    <3>1. Paths = { PathOrder[i] : i \in 1..n }
      BY <2>1 DEF Paths, ToSet
    <3> QED BY <3>1 DEF Surjection
  <2>3. IsFiniteSet(1..n)
    BY <2>1, FS_Interval
  <2> QED BY <2>2, <2>3, FS_Surjection
<1>2. IsFiniteSet(Existing(repo))
  BY <1>1, FS_Subset, ImpactAssumption DEF Existing
<1>3. Cardinality(Existing(repo)) \in Nat
  BY <1>2, FS_CardinalityType
<1>4. Cardinality(Existing(repo)) <= MaxFiles
  BY <1>3, ImpactAssumption DEF GraphTruncated
<1> QED BY <1>4 DEF GraphFiles, FirstOf

\* A scope is not the narrowest when a broader one is among the minima
LEMMA Broader ==
    ASSUME NEW S, "expanded" \in S
    PROVE  Broadest(S) # "targeted"
<1> DEFINE Most(i) == Scopes[i] \in S /\ \A j \in 1..3 : Scopes[j] \in S => j <= i
<1>1. Scopes[1] = "targeted" /\ Scopes[2] = "expanded" /\ Scopes[3] = "broad"
  BY DEF Scopes
<1>2. \E i \in 1..3 : Most(i)
  <2>1. CASE "broad" \in S
    BY <1>1, <2>1
  <2>2. CASE "broad" \notin S
    <3>1. \A j \in 1..3 : Scopes[j] \in S => j <= 2
      BY <1>1, <2>2
    <3> QED BY <1>1, <3>1
  <2> QED BY <2>1, <2>2
<1> DEFINE i == CHOOSE i \in 1..3 : Most(i)
<1>3. i \in 1..3 /\ Most(i)
  <2> HIDE DEF Most
  <2> QED BY <1>2
<1> HIDE DEF i
<1>4. i \in {2, 3}
  BY <1>1, <1>3
<1>5. Broadest(S) = Scopes[i]
  BY DEF Broadest, i
<1> QED BY <1>1, <1>4, <1>5

\* What a sure and narrow report tells of the analysis
LEMMA SureAndNarrow ==
    ASSUME NEW repo, NEW changed, NEW lexical,
           NEW a, a = Analyze(repo, changed, lexical),
           NEW s, s = Search(repo, changed \cap Python),
           NEW found, found = Found(repo, changed, DOMAIN s.depth, lexical),
           a.confidence = "high", a.scope = "targeted"
    PROVE  /\ ~Degraded(repo, changed, s, found)
           /\ RemovedPublic(repo, changed) = {}
           /\ DOMAIN a.targets = Selected(found)
<1> DEFINE selected == Selected(found)
           degraded == Degraded(repo, changed, s, found)
           types == { found[t] : t \in selected }
           compared == Cardinality(Compared(repo, changed))
           confidence == Assess(degraded, types, compared, Cardinality(changed))
           hit == GraphTruncated(repo) \/ BoundHit(repo, s) \/ TooMany(found)
                    \/ Unsupported(changed) \cup Uncomparable(repo, changed) # {}
           scope == Recommend(confidence, selected, RemovedPublic(repo, changed),
                              DOMAIN s.depth, hit)
<1>1. changed # {}
  BY DEF Analyze, NothingChanged
<1>2. a = [depth |-> s.depth, targets |-> [ t \in selected |-> found[t] ],
           confidence |-> confidence, degraded |-> degraded, scope |-> scope]
  BY <1>1 DEF Analyze
<1> HIDE DEF degraded, confidence, scope, selected, hit
<1>3. confidence = "high" /\ scope = "targeted" /\ DOMAIN a.targets = selected
  BY <1>2
<1>4. ~degraded
  BY <1>3 DEF confidence, Assess
<1>5. RemovedPublic(repo, changed) = {}
  <2> SUFFICES ASSUME RemovedPublic(repo, changed) # {} PROVE FALSE
    OBVIOUS
  <2>1. PICK S : scope = Broadest(S) /\ "expanded" \in S
    BY DEF scope, Recommend
  <2> QED BY <1>3, <2>1, Broader
<1> QED BY <1>3, <1>4, <1>5 DEF degraded, selected

\* Every file that changed is still there
LEMMA ChangedExists ==
    ASSUME NEW repo, NEW changed, NEW s, NEW found,
           ~Degraded(repo, changed, s, found), RemovedPublic(repo, changed) = {},
           \A p \in changed : repo.now[p] = Missing =>
               Removed(repo.base[p], Missing) \cap Public # {}
    PROVE  changed \subseteq Existing(repo)
<1> SUFFICES ASSUME NEW p \in changed PROVE p \in Existing(repo)
  OBVIOUS
<1>1. p \in Python /\ p \notin Uncomparable(repo, changed) /\ p \in DOMAIN repo.base
  BY DEF Degraded, Unsupported
<1>2. p \in Compared(repo, changed) /\ BaseOf(repo, p) = repo.base[p]
  BY <1>1 DEF Compared, BaseOf
<1>3. repo.now[p] # Missing
  <2> SUFFICES ASSUME repo.now[p] = Missing PROVE FALSE
    OBVIOUS
  <2>1. PICK n : n \in Removed(repo.base[p], Missing) \cap Public
    OBVIOUS
  <2>2. n \in RemovedPublic(repo, changed)
    BY <1>2, <2>1 DEF RemovedPublic
  <2> QED BY <2>2
<1> QED BY <1>1, <1>3 DEF Existing

\* A search that no bound cut has seen everything that depends on the seeds
LEMMA SeenIsClosed ==
    ASSUME NEW repo, NEW seeds, NEW s, LevelOk(repo, seeds, s), ~BoundHit(repo, s),
           GraphFiles(repo) = Existing(repo)
    PROVE  DependsOn(repo, seeds) \subseteq s.seen
<1>1. ~s.cut /\ NextFrontier(repo, s) = {}
  BY DEF BoundHit
<1>2. \A p \in s.seen : ImportedBy(repo, p) \subseteq s.seen
  BY <1>1 DEF LevelOk, NextFrontier
<1>3. s.seen \subseteq Existing(repo) /\ s.seen \in SUBSET Python
  BY <1>1 DEF LevelOk, Existing
<1>4. ASSUME NEW q \in Python, NEW p \in s.seen, ImportsIt(repo, q, p)
      PROVE  q \in s.seen
  <2>1. q \in Existing(repo)
    BY <1>4 DEF ImportsIt, Existing, Missing
  <2>2. CASE q = p
    BY <2>2
  <2>3. CASE q # p
    <3>1. q \in ImportedBy(repo, p)
      BY <1>3, <1>4, <2>1, <2>3 DEF ImportsIt, ImportedBy, Imports
    <3> QED BY <1>2, <3>1
  <2> QED BY <2>2, <2>3
<1>5. Closed(repo, s.seen)
  BY <1>4 DEF Closed
<1>6. seeds \subseteq s.seen
  BY <1>1 DEF LevelOk
<1> QED BY <1>3, <1>5, <1>6 DEF DependsOn

\* A test that was seen is found
LEMMA SeenIsFound ==
    ASSUME NEW repo, NEW changed, changed \subseteq Python, NEW lexical,
           NEW s, LevelOk(repo, changed, s), ~s.cut,
           NEW t \in s.seen \cap TestPaths
    PROVE  t \in DOMAIN Found(repo, changed, DOMAIN s.depth, lexical)
<1>1. changed \cap Python = changed /\ t \in GraphFiles(repo) \cap TestPaths
  BY DEF LevelOk
<1>2. t \in changed \/ Imports(repo, t) \cap (changed \cup DOMAIN s.depth) # {}
  BY DEF LevelOk, ImportedBy
<1>3. Tier(repo, changed, DOMAIN s.depth, t) # "none"
  BY <1>2 DEF Tier
<1> QED BY <1>1, <1>3 DEF Found

\* The inductive invariant: what was answered is what analyze returns
AskInv ==
    question # NoQuestion =>
      answer = Analyze(question.repo, question.changed, question.lexical)

\* A sure and narrow report lists every test that depends on a changed file, over
\* any chain of imports, in any repository: recommend_validation_scope may narrow
\* validation then, whatever the bounds of the analysis are.
THEOREM NarrowReportsAreComplete == AskSpec => []NarrowIsComplete
<1>1. question = NoQuestion /\ answer = NoQuestion => AskInv
  BY DEF AskInv
<1>2. AskInv /\ [Ask]_<<question, answer>> => AskInv'
  BY DEF AskInv, Ask
<1>3. AskInv => NarrowIsComplete
  <2> SUFFICES ASSUME AskInv, question # NoQuestion, answer.confidence = "high",
                      answer.scope = "targeted", GoneWasPublic
               PROVE  DependsOn(question.repo, question.changed) \cap TestPaths
                        \subseteq DOMAIN answer.targets
    BY DEF NarrowIsComplete
  <2> DEFINE repo == question.repo
             changed == question.changed
             s == Search(repo, changed \cap Python)
             found == Found(repo, changed, DOMAIN s.depth, question.lexical)
  <2>1. answer = Analyze(repo, changed, question.lexical)
    BY DEF AskInv
  <2>2. /\ ~Degraded(repo, changed, s, found) /\ RemovedPublic(repo, changed) = {}
        /\ DOMAIN answer.targets = Selected(found)
    <3> HIDE DEF s, repo, changed
    <3>1. s = Search(repo, changed \cap Python)
      BY DEF s
    <3> HIDE DEF found
    <3>2. found = Found(repo, changed, DOMAIN s.depth, question.lexical)
      BY DEF found
    <3> QED BY <2>1, <3>1, <3>2, SureAndNarrow
  <2>3. changed \subseteq Existing(repo)
    BY <2>2, ChangedExists DEF GoneWasPublic
  <2>4. GraphFiles(repo) = Existing(repo)
    BY <2>2, WholeGraph DEF Degraded
  <2>5. changed \cap Python = changed /\ changed \subseteq Python
    BY <2>3 DEF Existing
  <2>6. LevelOk(repo, changed, s)
    BY <2>3, <2>4, <2>5, SearchOk
  <2>7. ~BoundHit(repo, s) /\ ~TooMany(found)
    BY <2>2 DEF Degraded
  <2> HIDE DEF s, repo, changed
  <2>8. DependsOn(repo, changed) \subseteq s.seen
    BY <2>4, <2>6, <2>7, SeenIsClosed
  <2>9. ~s.cut
    BY <2>7 DEF BoundHit
  <2>10. \A t \in s.seen \cap TestPaths : t \in DOMAIN found
    BY <2>5, <2>6, <2>9, SeenIsFound
  <2>11. Selected(found) = DOMAIN found
    BY <2>7 DEF Selected
  <2> QED BY <2>2, <2>8, <2>10, <2>11 DEF repo, changed
<1> QED BY <1>1, <1>2, <1>3, PTL DEF AskSpec
=============================================================================
