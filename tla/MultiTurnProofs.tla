--------------------------- MODULE MultiTurnProofs ---------------------------
(***************************************************************************)
(* Proofs about the multi-turn agent for any files, patches, contracts,    *)
(* commands, budgets and disturbances: types, the bound on repair turns,   *)
(* the account of what was written, and that the agent implements          *)
(* CompletionPromise.                                                      *)
(***************************************************************************)
EXTENDS MultiTurn, FiniteSetTheorems, SequenceTheorems, WellFoundedInduction, TLAPS

-----------------------------------------------------------------------------
(* The inductive invariants.                                               *)

\* Calls that were resumptions
Spare == calls - One(calls > 0)

\* The bound on repairs in terms of what the loop counts: a repair turn that is to
\* come has its place already, and the latest checkpoint has room for one more
\* whenever a call starts from it.
BudgetInv ==
    /\ reviews <= turns.reviewing /\ verifs <= turns.verifying
    /\ turns.repairing + One(pc = "REPAIRING")
          <= MaxRepair + Least(reviews, MaxReview) + Least(verifs, MaxVerification) + Spare
    /\ saved.turns.repairing
          <= MaxRepair + Least(saved.turns.reviewing, MaxReview)
             + Least(saved.turns.verifying, MaxVerification) + Spare
    /\ calls = 0 => pc = "idle" /\ saved.turns = NoTurns
    /\ pc = "idle" => turns = NoTurns

\* The entries of a store.
Held(st) == { st.entries[i] : i \in DOMAIN st.entries }

\* What an entry certifies is so in one of the trees.
Backed(e, S) == \E t \in S : Fingerprint(t, e.paths) = e.print

\* With several commands one of them may have passed in a run that failed: then the
\* entry of one that failed is there as well, and both go stale together.
Blamed(st, e) ==
    /\ Commands # 1
    /\ \E d \in Held(st) : /\ d.valid /\ d.kind = "test" /\ ~d.ok
                           /\ d.paths = e.paths /\ d.print = e.print

\* What a store may be relied on for, by a call whose operations are ops: a valid
\* entry covers them all, since any write invalidates what was there; a passing run
\* or an approval was of the files as they are in a tree of P or of A.
Sound(st, ops, P, A) ==
    \A e \in Held(st) : e.valid /\ e.ok =>
        /\ e.kind \in {"test", "review"} => ops \subseteq e.paths
        /\ e.kind = "test" => Backed(e, P) \/ Blamed(st, e)
        /\ e.kind = "review" => Backed(e, A)

PromiseInv ==
    /\ Sound(store, turns.ops, passed \cup raced, approved \cup raced)
    /\ Sound(saved.store, saved.turns.ops, passed \cup raced, approved \cup raced)
    /\ pc = "assessing" => "test" \in store.ever
    /\ saved.stage # "COMPLETED"

\* The store has never been full, so that nothing was evicted; or a run is one entry
\* and cannot be evicted in part.
RunsAreWhole == Commands = 1 \/ Len(store.entries) < MaxEntries

-----------------------------------------------------------------------------
(* Stores.                                                                 *)

\* FIFO eviction keeps a suffix, all of it unless the result is full.
LEMMA EvictTyped ==
    ASSUME NEW S, NEW s \in Seq(S)
    PROVE  /\ Evict(s) \in Seq(S)
           /\ \A i \in DOMAIN Evict(s) : \E j \in DOMAIN s : Evict(s)[i] = s[j]
           /\ Len(Evict(s)) < MaxEntries => Evict(s) = s
<1>1. CASE Len(s) <= MaxEntries
    BY <1>1, LenProperties, EvidenceAssumption DEF Evict
<1>2. CASE ~(Len(s) <= MaxEntries)
  <2> DEFINE m == Len(s) - MaxEntries + 1
             t == SubSeq(s, m, Len(s))
  <2>1. Len(s) \in Nat /\ m \in Int /\ MaxEntries \in Nat \ {0} /\ m \in 2..Len(s)
      BY <1>2, LenProperties, EvidenceAssumption
  <2>2. \A i \in m..Len(s) : s[i] \in S /\ i \in DOMAIN s
      BY <2>1, LenProperties, ElementOfSeq
  <2>3. /\ t \in Seq(S) /\ Len(t) = MaxEntries
        /\ \A i \in 1..MaxEntries : t[i] = s[m + i - 1]
    <3> HIDE DEF m
    <3>1. /\ SubSeq(s, m, Len(s)) \in Seq(S)
          /\ Len(SubSeq(s, m, Len(s))) = IF m <= Len(s) THEN Len(s) - m + 1 ELSE 0
          /\ \A i \in 1..Len(s) - m + 1 : SubSeq(s, m, Len(s))[i] = s[m + i - 1]
        BY <2>1, <2>2, SubSeqProperties
    <3>2. Len(s) - m + 1 = MaxEntries
        BY <2>1 DEF m
    <3> QED BY <2>1, <3>1, <3>2
  <2>4. Evict(s) = t
      BY <1>2, <2>1 DEF Evict
  <2>5. \A i \in 1..MaxEntries : m + i - 1 \in DOMAIN s
      BY <2>1, LenProperties
  <2> HIDE DEF t, m
  <2>6. DOMAIN t = 1..MaxEntries
      BY <2>3, LenProperties
  <2> QED BY <2>1, <2>3, <2>4, <2>5, <2>6
<1> QED BY <1>1, <1>2

LEMMA HeldTyped ==
    ASSUME NEW st \in StoreType
    PROVE  Held(st) \subseteq EntryType
<1>1. st.entries \in Seq(EntryType)
    BY DEF StoreType
<1> QED BY <1>1, LenProperties, ElementOfSeq DEF Held

\* What record leaves in a store was there or is new, and all of it is there unless
\* something was evicted.
LEMMA RecordTyped ==
    ASSUME NEW st \in StoreType, NEW es \in Seq(EntryType)
    PROVE  /\ RecordAll(st, es) \in StoreType
           /\ Held(RecordAll(st, es)) \subseteq Held(st) \cup { es[i] : i \in DOMAIN es }
           /\ Len(RecordAll(st, es).entries) < MaxEntries =>
                 Held(RecordAll(st, es)) = Held(st) \cup { es[i] : i \in DOMAIN es }
           /\ RecordAll(st, es).ever = st.ever \cup { es[i].kind : i \in DOMAIN es }
<1> DEFINE both == st.entries \o es
<1>1. st.entries \in Seq(EntryType)
    BY DEF StoreType
<1>2. /\ both \in Seq(EntryType) /\ Len(both) = Len(st.entries) + Len(es)
      /\ \A i \in 1..Len(st.entries) + Len(es) :
            both[i] = IF i <= Len(st.entries) THEN st.entries[i] ELSE es[i - Len(st.entries)]
    BY <1>1, ConcatProperties
<1>3. /\ Len(st.entries) \in Nat /\ DOMAIN st.entries = 1..Len(st.entries)
      /\ Len(es) \in Nat /\ DOMAIN es = 1..Len(es)
      /\ DOMAIN both = 1..Len(st.entries) + Len(es)
    BY <1>1, <1>2, LenProperties
<1> HIDE DEF both
<1>4. { both[i] : i \in DOMAIN both } = Held(st) \cup { es[i] : i \in DOMAIN es }
  <2>1. ASSUME NEW i \in DOMAIN both
        PROVE  both[i] \in Held(st) \cup { es[j] : j \in DOMAIN es }
    <3>1. CASE i <= Len(st.entries)
        BY <1>2, <1>3, <3>1 DEF Held
    <3>2. CASE ~(i <= Len(st.entries))
      <4>1. i - Len(st.entries) \in DOMAIN es
          BY <1>3, <3>2
      <4> QED BY <1>2, <1>3, <3>2, <4>1
    <3> QED BY <3>1, <3>2
  <2>2. ASSUME NEW i \in DOMAIN st.entries PROVE \E j \in DOMAIN both : both[j] = st.entries[i]
      BY <1>2, <1>3
  <2>3. ASSUME NEW i \in DOMAIN es PROVE \E j \in DOMAIN both : both[j] = es[i]
    <3>1. Len(st.entries) + i \in DOMAIN both /\ ~(Len(st.entries) + i <= Len(st.entries))
          /\ Len(st.entries) + i - Len(st.entries) = i
        BY <1>3
    <3>2. both[Len(st.entries) + i] = es[i]
        BY <1>2, <1>3, <3>1
    <3> QED BY <3>1, <3>2
  <2> QED BY <2>1, <2>2, <2>3 DEF Held
<1>5. /\ RecordAll(st, es).entries = Evict(both)
      /\ RecordAll(st, es).ever = st.ever \cup { es[i].kind : i \in DOMAIN es }
    BY DEF RecordAll, both
<1>6. { es[i].kind : i \in DOMAIN es } \subseteq Kinds
  <2>1. \A i \in DOMAIN es : es[i] \in EntryType
      BY <1>3, ElementOfSeq
  <2> QED BY <2>1 DEF EntryType
<1>7. RecordAll(st, es) \in StoreType
    BY <1>2, <1>5, <1>6, EvictTyped DEF StoreType, RecordAll
<1>8. Held(RecordAll(st, es)) \subseteq { both[i] : i \in DOMAIN both }
    BY <1>2, <1>5, EvictTyped DEF Held
<1>9. Len(Evict(both)) < MaxEntries => Held(RecordAll(st, es)) = { both[i] : i \in DOMAIN both }
    BY <1>2, <1>5, EvictTyped DEF Held
<1> QED BY <1>4, <1>5, <1>7, <1>8, <1>9

\* record of a single entry.
LEMMA RecordOneTyped ==
    ASSUME NEW st \in StoreType, NEW e \in EntryType
    PROVE  /\ Record(st, e) \in StoreType
           /\ Held(Record(st, e)) \subseteq Held(st) \cup {e}
           /\ Len(Record(st, e).entries) < MaxEntries => Held(Record(st, e)) = Held(st) \cup {e}
           /\ Record(st, e).ever = st.ever \cup {e.kind}
<1> DEFINE es == <<e>>
<1>1. es \in Seq(EntryType) /\ DOMAIN es = {1} /\ es[1] = e
    OBVIOUS
<1>2. { es[i] : i \in DOMAIN es } = {e} /\ { es[i].kind : i \in DOMAIN es } = {e.kind}
    BY <1>1
<1>3. Record(st, e) = RecordAll(st, es)
    BY DEF Record
<1> HIDE DEF es
<1> QED BY <1>1, <1>2, <1>3, RecordTyped

LEMMA EvidenceTyped ==
    ASSUME NEW kind \in Kinds, NEW ok \in BOOLEAN, NEW P \in SUBSET Files, NEW t \in Trees
    PROVE  /\ Fingerprint(t, P) \in Prints
           /\ Evidence(kind, ok, P, t) \in EntryType
<1>1. Fingerprint(t, P) \in [P -> Contents]
    BY DEF Fingerprint, Trees
<1>2. Fingerprint(t, P) \in Prints
    BY <1>1 DEF Prints
<1>3. NoDiff \in Diffs
    BY DEF NoDiff, Diffs
<1> QED BY <1>2, <1>3 DEF Evidence, EntryType, NoRequirement

\* Revalidation keeps what the files on disk still show, and marks the rest.
LEMMA RevalidateTyped ==
    ASSUME NEW st \in StoreType, NEW t
    PROVE  /\ Revalidate(st, t) \in StoreType /\ Revalidate(st, t).ever = st.ever
           /\ \A e \in Held(Revalidate(st, t)) : e.valid => e \in Held(st) /\ ~Stale(e, t)
           /\ \A e \in Held(st) : e.valid /\ ~Stale(e, t) => e \in Held(Revalidate(st, t))
<1> DEFINE new == Revalidate(st, t).entries
           Marked(e) == [e EXCEPT !.valid = e.valid /\ ~Stale(e, t)]
<1>1. st.entries \in Seq(EntryType) /\ st.ever \in SUBSET Kinds
    BY DEF StoreType
<1>2. Len(st.entries) \in Nat /\ DOMAIN st.entries = 1..Len(st.entries)
    BY <1>1, LenProperties
<1>3. new = [i \in DOMAIN st.entries |-> Marked(st.entries[i])]
    BY DEF Revalidate, StoreType
<1>4. ASSUME NEW i \in DOMAIN st.entries
      PROVE  /\ st.entries[i] \in EntryType /\ Marked(st.entries[i]) \in EntryType
             /\ Marked(st.entries[i]).valid => /\ Marked(st.entries[i]) = st.entries[i]
                                               /\ ~Stale(st.entries[i], t)
             /\ st.entries[i].valid /\ ~Stale(st.entries[i], t) =>
                   Marked(st.entries[i]) = st.entries[i]
  <2> DEFINE e == st.entries[i]
  <2>1. e \in EntryType
      BY <1>1, <1>2, ElementOfSeq
  <2>2. (e.valid /\ ~Stale(e, t)) \in BOOLEAN
      BY <2>1 DEF EntryType, Stale
  <2>3. Marked(e) \in EntryType /\ Marked(e).valid = (e.valid /\ ~Stale(e, t))
      BY <2>1, <2>2 DEF EntryType
  <2>4. (e.valid /\ ~Stale(e, t)) = TRUE => Marked(e) = e
      BY <2>1 DEF EntryType
  <2> HIDE DEF Marked
  <2> QED BY <2>1, <2>2, <2>3, <2>4
<1> HIDE DEF Marked
<1>5. new \in Seq(EntryType) /\ DOMAIN new = DOMAIN st.entries
    BY <1>2, <1>3, <1>4
<1>6. Revalidate(st, t) \in StoreType /\ Revalidate(st, t).ever = st.ever
  <2>1. Revalidate(st, t) = [entries |-> new, ever |-> st.ever]
    <3> DEFINE marked == [ i \in DOMAIN st.entries |-> Marked(st.entries[i]) ]
    <3>1. Revalidate(st, t) = [st EXCEPT !.entries = marked]
        BY DEF Revalidate, Marked
    <3>2. new = marked
        BY <1>3
    <3> HIDE DEF marked, new
    <3>3. [st EXCEPT !.entries = marked] = [entries |-> marked, ever |-> st.ever]
        BY DEF StoreType
    <3> QED BY <3>1, <3>2, <3>3
  <2> HIDE DEF new
  <2> QED BY <1>1, <1>5, <2>1 DEF StoreType
<1>7. Held(Revalidate(st, t)) = { Marked(st.entries[i]) : i \in DOMAIN st.entries }
    BY <1>3, <1>5 DEF Held
<1> QED BY <1>4, <1>6, <1>7 DEF Held

\* A write of the agent leaves no valid test and no valid review.
LEMMA InvalidateTyped ==
    ASSUME NEW st \in StoreType, NEW modified, modified # {}, NEW t
    PROVE  /\ InvalidateOnFileMutation(st, modified, t) \in StoreType
           /\ InvalidateOnFileMutation(st, modified, t).ever = st.ever
           /\ \A e \in Held(InvalidateOnFileMutation(st, modified, t)) :
                 e.kind \in GlobalKinds => ~e.valid
<1> DEFINE res == InvalidateOnFileMutation(st, modified, t)
           Kept(e) == e.valid /\ ~(/\ modified # {}
                                   /\ \/ e.kind \in GlobalKinds
                                      \/ e.paths \cap modified # {} /\ Stale(e, t))
           Marked(e) == [e EXCEPT !.valid = Kept(e)]
<1>1. st.entries \in Seq(EntryType) /\ st.ever \in SUBSET Kinds
    BY DEF StoreType
<1>2. Len(st.entries) \in Nat /\ DOMAIN st.entries = 1..Len(st.entries)
    BY <1>1, LenProperties
<1>3. res.entries = [i \in DOMAIN st.entries |-> Marked(st.entries[i])]
    BY DEF InvalidateOnFileMutation, StoreType
<1>4. ASSUME NEW i \in DOMAIN st.entries
      PROVE  /\ Marked(st.entries[i]) \in EntryType
             /\ Marked(st.entries[i]).kind \in GlobalKinds => ~Marked(st.entries[i]).valid
  <2> DEFINE e == st.entries[i]
  <2>1. e \in EntryType
      BY <1>1, <1>2, ElementOfSeq
  <2>2. Kept(e) \in BOOLEAN
      BY <2>1 DEF EntryType, Stale
  <2>3. e.kind \in GlobalKinds => ~Kept(e)
      OBVIOUS
  <2> HIDE DEF Kept
  <2>4. Marked(e) \in EntryType /\ Marked(e).valid = Kept(e) /\ Marked(e).kind = e.kind
      BY <2>1, <2>2 DEF EntryType
  <2> HIDE DEF Marked
  <2> QED BY <2>3, <2>4
<1> HIDE DEF Marked
<1>5. res.entries \in Seq(EntryType) /\ DOMAIN res.entries = DOMAIN st.entries
    BY <1>2, <1>3, <1>4
<1>6. res \in StoreType /\ res.ever = st.ever
  <2>1. res = [entries |-> res.entries, ever |-> st.ever]
      BY DEF InvalidateOnFileMutation, StoreType
  <2> HIDE DEF res
  <2> QED BY <1>1, <1>5, <2>1 DEF StoreType
<1>7. Held(res) = { Marked(st.entries[i]) : i \in DOMAIN st.entries }
    BY <1>3, <1>5 DEF Held
<1> QED BY <1>4, <1>6, <1>7

-----------------------------------------------------------------------------
(* The requirements that are recorded.  Induction over the contract is by  *)
(* the least number that is not in a set.                                  *)

LEMMA LeastMember ==
    ASSUME NEW T \in SUBSET Nat, T # {}
    PROVE  \E x \in T : \A y \in T : x <= y
<1> DEFINE R == OpToRel(<, Nat)
<1>1. IsWellFoundedOn(R, Nat)
    BY NatLessThanWellFounded
<1>2. \A p : p \in R <=> p \in Nat \X Nat /\ p[1] < p[2]
    BY DEF OpToRel
<1> HIDE DEF R
<1>3. PICK x \in T : \A y \in T : ~(<<y, x>> \in R)
    BY <1>1, WFMin
<1>4. \A y \in T : <<y, x>> \in R <=> y < x
    BY <1>2
<1>5. \A y \in T : x \in Nat /\ y \in Nat /\ ~(y < x)
    BY <1>3, <1>4
<1>6. \A y \in T : x <= y
    BY <1>5
<1> QED BY <1>6

LEMMA Induction ==
    ASSUME NEW T \in SUBSET Nat, 0 \in T, \A n \in T : n + 1 \in T
    PROVE  T = Nat
<1> DEFINE Out == Nat \ T
<1> SUFFICES ASSUME Out # {} PROVE FALSE
    OBVIOUS
<1>1. PICK x \in Out : \A y \in Out : x <= y
    BY LeastMember
<1>2. x - 1 \in Nat /\ x - 1 + 1 = x
    BY <1>1
<1>3. x - 1 \in T
    BY <1>1, <1>2
<1> QED BY <1>2, <1>3

\* A loop that appends some of the values it meets builds a sequence of them.
Looped(n, T, e, g) ==
    [i \in 0..n |-> IF i = 0 THEN <<>>
                    ELSE IF i \in T THEN Append(g[i - 1], e[i]) ELSE g[i - 1]]

LEMMA LoopExists ==
    ASSUME NEW n \in Nat, NEW S, NEW T, NEW e \in [1..n -> S]
    PROVE  \E g \in [0..n -> Seq(S)] : g = Looped(n, T, e, g)
<1> DEFINE Next1(h, i) == IF i \in T THEN Append(h, e[i]) ELSE h
           Upto(g, m) == g[0] = <<>> /\ \A i \in 1..m : g[i] = Next1(g[i - 1], i)
           N == { m \in Nat : m <= n => \E g \in [0..m -> Seq(S)] : Upto(g, m) }
<1>1. 0 \in N
  <2>1. [i \in 0..0 |-> <<>>] \in [0..0 -> Seq(S)]
      OBVIOUS
  <2>2. Upto([i \in 0..0 |-> <<>>], 0)
      OBVIOUS
  <2> QED BY <2>1, <2>2
<1>2. ASSUME NEW m \in N PROVE m + 1 \in N
  <2> HIDE DEF Upto
  <2> SUFFICES ASSUME m + 1 <= n PROVE \E g \in [0..m + 1 -> Seq(S)] : Upto(g, m + 1)
      BY m \in Nat /\ m + 1 \in Nat
  <2>1. m \in Nat /\ m + 1 \in 1..n /\ m <= n
      OBVIOUS
  <2>2. PICK g \in [0..m -> Seq(S)] : Upto(g, m)
      BY <2>1
  <2> USE DEF Upto
  <2> DEFINE h == [i \in 0..m + 1 |-> IF i <= m THEN g[i] ELSE Next1(g[m], m + 1)]
  <2>3. g[m] \in Seq(S) /\ e[m + 1] \in S
      BY <2>1
  <2>4. Next1(g[m], m + 1) \in Seq(S)
      BY <2>3, AppendProperties
  <2>5. h \in [0..m + 1 -> Seq(S)]
    <3> HIDE DEF Next1
    <3> QED BY <2>1, <2>4
  <2>6. Upto(h, m + 1)
    <3> HIDE DEF Next1
    <3>1. h[0] = <<>>
        BY <2>1, <2>2
    <3>2. ASSUME NEW i \in 1..m + 1 PROVE h[i] = Next1(h[i - 1], i)
      <4>1. CASE i <= m
        <5>1. i \in 1..m /\ i - 1 \in 0..m /\ i \in 0..m + 1 /\ i - 1 \in 0..m + 1
              /\ i <= m /\ i - 1 <= m
            BY <2>1, <4>1
        <5> QED BY <2>2, <5>1
      <4>2. CASE i = m + 1
        <5>1. i - 1 = m /\ m \in 0..m + 1 /\ i \in 0..m + 1 /\ ~(i <= m) /\ m <= m
            BY <2>1, <4>2
        <5> QED BY <4>2, <5>1
      <4> QED BY <2>1, <4>1, <4>2
    <3> QED BY <3>1, <3>2
  <2> HIDE DEF h
  <2> QED BY <2>5, <2>6
<1>3. n \in N
  <2> HIDE DEF N
  <2>1. N \in SUBSET Nat
      BY DEF N
  <2> QED BY <1>1, <1>2, <2>1, Induction
<1>4. PICK g \in [0..n -> Seq(S)] : Upto(g, n)
  <2> HIDE DEF Upto
  <2> QED BY <1>3
<1>5. ASSUME NEW i \in 0..n
      PROVE  g[i] = IF i = 0 THEN <<>>
                    ELSE IF i \in T THEN Append(g[i - 1], e[i]) ELSE g[i - 1]
  <2>1. CASE i = 0
      BY <1>4, <2>1
  <2>2. CASE i # 0
    <3>1. i \in 1..n
        BY <2>2
    <3> QED BY <1>4, <2>2, <3>1
  <2> QED BY <2>1, <2>2
<1>6. g = Looped(n, T, e, g)
    BY <1>5 DEF Looped
<1> QED BY <1>6

LEMMA LoopTyped ==
    ASSUME NEW n \in Nat, NEW S, NEW T, NEW e \in [1..n -> S], NEW g,
           g = Looped(n, T, e, g)
    PROVE  g[n] \in Seq(S)
<1> DEFINE N == { m \in Nat : m <= n => g[m] \in Seq(S) }
<1>1. 0 \in N
  <2>1. 0 \in 0..n
      OBVIOUS
  <2> QED BY <2>1 DEF Looped
<1>2. ASSUME NEW m \in N PROVE m + 1 \in N
  <2> SUFFICES ASSUME m + 1 <= n PROVE g[m + 1] \in Seq(S)
      OBVIOUS
  <2>1. m \in Nat /\ m + 1 \in 0..n /\ m + 1 \in 1..n /\ m + 1 # 0 /\ m + 1 - 1 = m
      OBVIOUS
  <2>2. g[m] \in Seq(S) /\ e[m + 1] \in S
      BY <2>1
  <2> HIDE DEF N
  <2> DEFINE k == m + 1
  <2>3. k \in 0..n /\ k # 0 /\ k - 1 = m
      BY <2>1
  <2> HIDE DEF k
  <2>4. g[k] = IF k \in T THEN Append(g[m], e[k]) ELSE g[m]
      BY <2>3 DEF Looped
  <2>5. g[m + 1] = IF m + 1 \in T THEN Append(g[m], e[m + 1]) ELSE g[m]
      BY <2>4 DEF k
  <2>6. Append(g[m], e[m + 1]) \in Seq(S)
      BY <2>2, AppendProperties
  <2> QED BY <2>2, <2>5, <2>6
<1>3. n \in N
  <2> HIDE DEF N
  <2>1. N \in SUBSET Nat
      BY DEF N
  <2> QED BY <1>1, <1>2, <2>1, Induction
<1> QED BY <1>3

\* What the requirement engine records are entries about compliance.
LEMMA ComplianceTyped ==
    ASSUME tree \in Trees, NEW s \in StoreType
    PROVE  /\ Compliance(s) \in StoreType
           /\ \A e \in Held(Compliance(s)) : e \in Held(s) \/ e.kind = "compliance"
           /\ Len(Compliance(s).entries) < MaxEntries => Held(s) \subseteq Held(Compliance(s))
<1> DEFINE n == Len(Contract)
           T == { i \in 1..n : Unrecorded(s, i) }
           Entry(i) == [Evidence("compliance", StateOf(Contract, i, Facts(s)) = "SATISFIED",
                                 Contract[i].paths, tree) EXCEPT !.req = i]
           S == { Entry(i) : i \in 1..n }
           e == [i \in 1..n |-> Entry(i)]
           Loop(g) == [i \in 0..n |->
                          IF i = 0 THEN <<>>
                          ELSE IF Unrecorded(s, i) THEN Append(g[i - 1], Entry(i)) ELSE g[i - 1]]
           upTo == CHOOSE g : g = Loop(g)
<1>1. n \in Nat /\ e \in [1..n -> S]
  <2>1. n \in Nat
      BY MultiTurnAssumption
  <2> HIDE DEF n, Entry
  <2> QED BY <2>1
<1>2. Compliance(s) = RecordAll(s, upTo[n])
    BY DEF Compliance
<1>3. ASSUME NEW g
      PROVE  Loop(g) = Looped(n, T, e, g)
  <2> HIDE DEF Entry
  <2>1. \A i \in 0..n : i # 0 => i \in 1..n
      BY <1>1
  <2>2. \A i \in 1..n : e[i] = Entry(i) /\ (i \in T <=> Unrecorded(s, i))
      OBVIOUS
  <2> HIDE DEF T, e, n
  <2> QED BY <2>1, <2>2 DEF Looped
<1>4. \E g : g = Loop(g)
  <2> HIDE DEF T, e, n, Loop, S, Entry, upTo
  <2>1. PICK g \in [0..n -> Seq(S)] : g = Looped(n, T, e, g)
      BY <1>1, LoopExists
  <2>2. Loop(g) = Looped(n, T, e, g)
      BY <1>3
  <2>3. g = Loop(g)
      BY <2>1, <2>2
  <2> QED BY <2>3
<1>5. upTo = Loop(upTo)
  <2> HIDE DEF Loop
  <2> QED BY <1>4, Zenon
<1>6. upTo[n] \in Seq(S)
  <2> HIDE DEF T, e, n, Loop, S, upTo
  <2> QED BY <1>1, <1>3, <1>5, LoopTyped
<1>7. S \subseteq EntryType /\ \A x \in S : x.kind = "compliance"
  <2> SUFFICES ASSUME NEW i \in 1..n PROVE Entry(i) \in EntryType /\ Entry(i).kind = "compliance"
      OBVIOUS
  <2> DEFINE ok == StateOf(Contract, i, Facts(s)) = "SATISFIED"
             ev == Evidence("compliance", ok, Contract[i].paths, tree)
  <2>1. ok \in BOOLEAN /\ Contract[i].paths \in SUBSET Files /\ "compliance" \in Kinds
      BY MultiTurnAssumption DEF Kinds
  <2> HIDE DEF ok
  <2>2. ev \in EntryType
      BY <2>1, EvidenceTyped
  <2>3. ev.kind = "compliance"
      BY DEF Evidence
  <2>4. i \in Nat
      BY <1>1
  <2> HIDE DEF ev
  <2>5. [ev EXCEPT !.req = i] \in EntryType /\ [ev EXCEPT !.req = i].kind = "compliance"
      BY <2>2, <2>3, <2>4 DEF EntryType
  <2> QED BY <2>5 DEF ev, ok
<1> HIDE DEF S, upTo, n
<1>8. upTo[n] \in Seq(EntryType) /\ \A i \in DOMAIN upTo[n] : upTo[n][i] \in S
    BY <1>6, <1>7, SeqMonotonic, LenProperties, ElementOfSeq
<1> QED BY <1>2, <1>7, <1>8, RecordTyped

-----------------------------------------------------------------------------
(* Types.                                                                  *)

LEMMA ConstantsTyped ==
    /\ Base \in Trees /\ Patches \subseteq PatchType /\ Commands \in Nat \ {0}
    /\ MaxTurns \in Nat /\ MaxRepair \in Nat /\ MaxReview \in Nat
    /\ MaxVerification \in Nat /\ MaxCalls \in Nat /\ MaxDisturbances \in Nat
    /\ Allowed \subseteq Files /\ Protected \subseteq Files /\ Docs \subseteq Files
BY MultiTurnAssumption

LEMMA PatchTyped ==
    ASSUME NEW p \in Patches
    PROVE  /\ DOMAIN p \in SUBSET Files /\ DOMAIN p # {}
           /\ \A f \in DOMAIN p : p[f] \in Contents
           /\ \A t \in Trees : Patched(t, p) \in Trees
           /\ \A t \in Trees, P \in SUBSET DOMAIN p : Patched(t, [f \in P |-> p[f]]) \in Trees
<1>1. PICK P \in (SUBSET Files) \ {{}} : p \in [P -> Contents]
    BY ConstantsTyped DEF PatchType
<1>2. DOMAIN p = P /\ \A f \in P : p[f] \in Contents
    BY <1>1
<1> QED BY <1>1, <1>2 DEF Patched, Trees

LEMMA TurnTyped ==
    ASSUME turns \in TurnsType, NEW stage
    PROVE  /\ EndTurn(stage) \in TurnsType /\ EndTurn(stage).ops = turns.ops
           /\ EndTurn(stage).n = turns.n + 1 /\ EndTurn(stage).n # 0
           /\ EndTurn(stage).asked = turns.asked /\ EndTurn(stage).sigs = turns.sigs
           /\ EndTurn(stage).repairing = turns.repairing + One(stage = "REPAIRING")
           /\ EndTurn(stage).reviewing = turns.reviewing + One(stage = "REVIEWING")
           /\ EndTurn(stage).verifying = turns.verifying + One(stage = "VERIFYING")
<1>1. /\ One(stage = "REPAIRING") \in Nat /\ One(stage = "REVIEWING") \in Nat
      /\ One(stage = "VERIFYING") \in Nat
    BY DEF One
<1> DEFINE a == One(stage = "REPAIRING")
           b == One(stage = "REVIEWING")
           c == One(stage = "VERIFYING")
           new == [turns EXCEPT !.n = @ + 1, !.repairing = @ + a, !.reviewing = @ + b,
                                !.verifying = @ + c]
<1>2. EndTurn(stage) = new
    BY DEF EndTurn
<1> HIDE DEF a, b, c
<1>3. a \in Nat /\ b \in Nat /\ c \in Nat
    BY <1>1 DEF a, b, c
<1>4. /\ turns.n \in Nat /\ turns.repairing \in Nat /\ turns.reviewing \in Nat
      /\ turns.verifying \in Nat
    BY DEF TurnsType
<1>5. /\ turns.n + 1 \in Nat /\ turns.n + 1 # 0 /\ turns.repairing + a \in Nat
      /\ turns.reviewing + b \in Nat /\ turns.verifying + c \in Nat
    BY <1>3, <1>4
<1>6. new \in TurnsType
    BY <1>5 DEF TurnsType
<1>7. /\ new.ops = turns.ops /\ new.n = turns.n + 1
      /\ new.asked = turns.asked /\ new.sigs = turns.sigs
      /\ new.repairing = turns.repairing + a
      /\ new.reviewing = turns.reviewing + b
      /\ new.verifying = turns.verifying + c
    BY DEF TurnsType
<1> HIDE DEF new
<1> QED BY <1>2, <1>5, <1>6, <1>7 DEF a, b, c

LEMMA ResultsTyped ==
    ASSUME seen.ok \in [Cmds -> BOOLEAN], turns.ops \in SUBSET Files, tree \in Trees
    PROVE  /\ Results \in Seq(EntryType) /\ DOMAIN Results = Cmds /\ Len(Results) = Commands
           /\ \A c \in Cmds : Results[c] = Evidence("test", seen.ok[c], turns.ops, tree)
<1>1. \A c \in Cmds : Evidence("test", seen.ok[c], turns.ops, tree) \in EntryType
    BY EvidenceTyped DEF Kinds, GlobalKinds
<1> QED BY <1>1, ConstantsTyped DEF Results, Cmds

LEMMA DiffTyped ==
    ASSUME NEW t \in Trees, NEW ops \in SUBSET Files
    PROVE  Diff(t, ops) \in Diffs
BY DEF Diff, Diffs, Trees

\* A checkpoint, or one that could not be written.
SavedOK == /\ saved.turns \in TurnsType /\ saved.store \in StoreType
           /\ saved.turns.n # 0 => saved.stage \in Stages \cup Ends
LEMMA CheckpointTyped ==
    ASSUME SavedOK, disturbed \in Nat, NEW stage \in Stages \cup Ends, Checkpoint(stage),
           turns' \in TurnsType, store' \in StoreType
    PROVE  SavedOK' /\ disturbed' \in Nat
BY DEF Checkpoint, Disturb, May, SavedOK

LEMMA EmptyStoreTyped == EmptyStore \in StoreType
BY DEF EmptyStore, StoreType

LEMMA NoTurnsTyped == NoTurns \in TurnsType
BY DEF NoTurns, TurnsType

LEMMA HeardTyped ==
    ASSUME TypeOK
    PROVE  /\ Heard \in StoreType
           /\ \A e \in Held(Heard) : e \in Held(store) \/ e.kind = "clarification"
           /\ Len(Heard.entries) < MaxEntries => Held(store) \subseteq Held(Heard)
<1> DEFINE ev == Evidence("clarification", FALSE, {}, tree)
<1>1. ev \in EntryType /\ ev.kind = "clarification"
  <2>1. ev \in EntryType
      BY EvidenceTyped DEF TypeOK, Kinds
  <2> QED BY <2>1 DEF Evidence
<1>2. store \in StoreType
    BY DEF TypeOK
<1>3. Heard = IF turns.asked THEN Record(store, ev) ELSE store
    BY DEF Heard
<1> HIDE DEF ev
<1> QED BY <1>1, <1>2, <1>3, RecordOneTyped

\* After a write no test and no review that was recorded before counts.
LEMMA WriteTyped ==
    ASSUME TypeOK, NEW p \in Patches, NEW stage \in Stages, NEW st \in StoreType,
           NEW ts \in TurnsType, Write(p, stage, st, ts)
    PROVE  /\ tree' \in Trees /\ store' \in StoreType /\ turns' \in TurnsType
           /\ turns'.ops = ts.ops \cup DOMAIN p /\ wrote' = wrote \cup DOMAIN p
           /\ wrote' \subseteq Files /\ SavedOK' /\ disturbed' \in Nat
           /\ \A e \in Held(store') : e.valid => e.kind \notin {"test", "review"}
<1>1. /\ DOMAIN p \in SUBSET Files /\ DOMAIN p # {} /\ Patched(tree, p) \in Trees
    BY PatchTyped DEF TypeOK
<1>2. tree' \in Trees
    BY <1>1 DEF Write
<1> DEFINE inv == InvalidateOnFileMutation(st, DOMAIN p, tree')
           d == Evidence("diff", FALSE, DOMAIN p, tree')
           f == Evidence("safety", FALSE, DOMAIN p, tree')
           es == <<d, f>>
<1>3. inv \in StoreType /\ \A e \in Held(inv) : e.kind \in GlobalKinds => ~e.valid
    BY <1>1, InvalidateTyped
<1>4. /\ d \in EntryType /\ f \in EntryType
      /\ d.kind = "diff" /\ f.kind = "safety"
  <2>1. d \in EntryType /\ f \in EntryType
      BY <1>1, <1>2, EvidenceTyped DEF Kinds, GlobalKinds
  <2> QED BY <2>1 DEF Evidence
<1>5. store' = RecordAll(inv, es)
    BY DEF Write
<1> HIDE DEF inv, d, f
<1>6. es \in Seq(EntryType) /\ { es[i] : i \in DOMAIN es } = {d, f}
    BY <1>4
<1> HIDE DEF es
<1>7. store' \in StoreType /\ Held(store') \subseteq Held(inv) \cup {d, f}
    BY <1>3, <1>5, <1>6, RecordTyped
<1>8. \A e \in Held(store') : e.valid => e.kind \notin {"test", "review"}
    BY <1>3, <1>4, <1>7 DEF GlobalKinds
<1>9. turns' = [ts EXCEPT !.ops = @ \cup DOMAIN p] /\ wrote' = wrote \cup DOMAIN p
    BY DEF Write
<1>10. turns' \in TurnsType /\ turns'.ops = ts.ops \cup DOMAIN p
    BY <1>1, <1>9 DEF TurnsType
<1>11. SavedOK' /\ disturbed' \in Nat
    BY <1>7, <1>10, CheckpointTyped DEF Write, TypeOK, SavedOK
<1> QED BY <1>1, <1>2, <1>7, <1>8, <1>9, <1>10, <1>11 DEF TypeOK

\* The results of a run, and of a run of the verification.
LEMMA RunTyped ==
    ASSUME TypeOK, NEW es \in Seq(EntryType), store' = RecordAll(store, es)
    PROVE  store' \in StoreType
BY RecordTyped DEF TypeOK

VerificationResults ==
    Results \o <<Evidence("syntax", SyntaxClean(turns.ops, tree), turns.ops, tree)>>
LEMMA VerificationTyped ==
    ASSUME TypeOK
    PROVE  /\ VerificationResults \in Seq(EntryType)
           /\ \A i \in DOMAIN VerificationResults :
                 \/ i \in Cmds /\ VerificationResults[i] = Results[i]
                 \/ VerificationResults[i].kind = "syntax"
           /\ \A c \in Cmds : c \in DOMAIN VerificationResults /\ VerificationResults[c] = Results[c]
<1> DEFINE e == Evidence("syntax", SyntaxClean(turns.ops, tree), turns.ops, tree)
           last == <<e>>
<1>1. e \in EntryType /\ e.kind = "syntax"
  <2>1. SyntaxClean(turns.ops, tree) \in BOOLEAN
      BY DEF SyntaxClean
  <2>2. turns.ops \in SUBSET Files /\ tree \in Trees
      BY DEF TypeOK, TurnsType
  <2>3. e \in EntryType
      BY <2>1, <2>2, EvidenceTyped DEF Kinds
  <2> QED BY <2>3 DEF Evidence
<1>2. /\ Results \in Seq(EntryType) /\ Len(Results) = Commands
      /\ Commands \in Nat /\ Cmds = 1..Commands
    BY ResultsTyped, ConstantsTyped DEF TypeOK, TurnsType, Cmds
<1>3. VerificationResults = Results \o last
    BY DEF VerificationResults
<1> HIDE DEF e
<1>4. last \in Seq(EntryType) /\ Len(last) = 1 /\ last[1] = e
    BY <1>1
<1> HIDE DEF last
<1>5. /\ VerificationResults \in Seq(EntryType) /\ Len(VerificationResults) = Commands + 1
      /\ \A i \in 1..Commands + 1 : VerificationResults[i] =
            IF i <= Commands THEN Results[i] ELSE last[i - Commands]
  <2> HIDE DEF Results, VerificationResults
  <2>1. /\ Len(Results) + Len(last) = Commands + 1
        /\ Results \in Seq(EntryType) /\ last \in Seq(EntryType)
      BY <1>2, <1>4
  <2>2. Results \o last \in Seq(EntryType)
      BY <2>1, ConcatProperties
  <2>3. Len(Results \o last) = Commands + 1
      BY <2>1, ConcatProperties
  <2>4. \A i \in 1..Len(Results) + Len(last) : (Results \o last)[i] =
            IF i <= Len(Results) THEN Results[i] ELSE last[i - Len(Results)]
      BY <2>1, ConcatProperties
  <2> QED BY <1>2, <1>3, <2>1, <2>2, <2>3, <2>4
<1>6. DOMAIN VerificationResults = 1..Commands + 1
    BY <1>2, <1>5, LenProperties
<1>7. ASSUME NEW i \in 1..Commands + 1
      PROVE  \/ i \in Cmds /\ VerificationResults[i] = Results[i]
             \/ VerificationResults[i].kind = "syntax"
  <2>1. CASE i <= Commands
      BY <1>2, <1>5, <2>1
  <2>2. CASE ~(i <= Commands)
    <3>1. i - Commands = 1
        BY <1>2, <2>2
    <3> QED BY <1>1, <1>4, <1>5, <2>2, <3>1
  <2> QED BY <2>1, <2>2
<1>8. \A c \in Cmds : c \in 1..Commands + 1 /\ c <= Commands
    BY <1>2
<1> QED BY <1>5, <1>6, <1>7, <1>8

LEMMA TypeInit == Init => TypeOK
<1> SUFFICES ASSUME Init PROVE TypeOK
    OBVIOUS
<1>1. Unseen.tree \in Trees /\ Unseen.ok \in [Cmds -> BOOLEAN]
    BY ConstantsTyped DEF Unseen
<1>2. NoCheckpoint.turns = NoTurns /\ NoCheckpoint.store = EmptyStore /\ NoTurns.n = 0
    BY DEF NoCheckpoint, NoTurns
<1> QED BY <1>1, <1>2, EmptyStoreTyped, NoTurnsTyped, ConstantsTyped DEF Init, TypeOK

LEMMA UnseenTyped == Unseen.tree \in Trees /\ Unseen.ok \in [Cmds -> BOOLEAN]
BY ConstantsTyped DEF Unseen

LEMMA TypeCall == ASSUME TypeOK, Call PROVE TypeOK'
<1>1. /\ turns' = saved.turns /\ turns' \in TurnsType /\ store' \in StoreType
    BY RevalidateTyped DEF Call, Restored, TypeOK
<1>2. /\ reviews' \in Nat /\ verifs' \in Nat /\ tried' \in SUBSET Patches
    BY <1>1 DEF Call, TurnsType
<1>3. pc' \in Stages \cup Ends
    BY DEF Call, TypeOK, Stages
<1>4. failure' \in BOOLEAN /\ pending' \in BOOLEAN /\ calls' \in Nat
  <2>1. (calls > 0) \in BOOLEAN
      OBVIOUS
  <2>2. failure' \in {FALSE, calls > 0} /\ pending' = FALSE /\ calls' = calls + 1
      BY DEF Call
  <2>3. failure' \in BOOLEAN
      BY <2>1, <2>2, Zenon
  <2>4. pending' \in BOOLEAN
      BY <2>2
  <2>5. calls \in Nat /\ calls' = calls + 1
      BY <2>2 DEF TypeOK
  <2> QED BY <2>3, <2>4, <2>5
<1>5. /\ UNCHANGED <<tree, saved, seen, disturbed>> /\ review' = "none"
      /\ UNCHANGED <<wrote, passed, approved, raced>>
    BY DEF Call, ghosts
<1> QED BY <1>1, <1>2, <1>3, <1>4, <1>5 DEF TypeOK

\* The turns that end without touching the files or the store.
LEMMA TypeEnds ==
    ASSUME TypeOK,
           \/ OutOfTurns \/ Ask \/ Broken("IMPLEMENTING") \/ Broken("REPAIRING") \/ RepairEmpty
           \/ ImplementEmpty \/ ImplementRejected
           \/ \E p \in Patches : RepairRepeated(p) \/ RepairRejected(p)
    PROVE  TypeOK'
<1> USE DEF Stages, Ends
<1>1. CASE OutOfTurns
    BY <1>1 DEF OutOfTurns, TypeOK, agent, ghosts
<1>2. CASE Ask
  <2>1. turns' \in TurnsType
      BY <1>2 DEF Ask, TypeOK, TurnsType
  <2> QED BY <1>2, <2>1 DEF Ask, Disturb, TypeOK, agent, ghosts
<1>3. ASSUME NEW stage \in {"IMPLEMENTING", "REPAIRING"}, Broken(stage) PROVE TypeOK'
  <2>1. turns' \in TurnsType /\ pc' \in Ends /\ disturbed' \in Nat
      BY <1>3, TurnTyped DEF Broken, TypeOK, Disturb
  <2>2. saved' = [stage |-> pc', turns |-> turns', store |-> store]
      BY <1>3 DEF Broken
  <2>3. saved'.turns \in TurnsType /\ saved'.store \in StoreType /\ saved'.stage \in Stages \cup Ends
      BY <2>1, <2>2 DEF TypeOK
  <2> QED BY <1>3, <2>1, <2>3 DEF Broken, TypeOK, agent, ghosts
<1>4. CASE RepairEmpty
  <2>1. turns' \in TurnsType /\ store' \in StoreType
      BY <1>4, TurnTyped DEF RepairEmpty, TypeOK
  <2>2. SavedOK' /\ disturbed' \in Nat
      BY <1>4, <2>1, CheckpointTyped DEF RepairEmpty, TypeOK, SavedOK
  <2> QED BY <1>4, <2>1, <2>2 DEF RepairEmpty, TypeOK, SavedOK, ghosts
<1>5. CASE ImplementEmpty
  <2>1. turns' \in TurnsType /\ store' \in StoreType /\ pending' \in BOOLEAN
      BY <1>5, TurnTyped, HeardTyped DEF ImplementEmpty, TypeOK, Asked, TurnsType
  <2> QED BY <1>5, <2>1 DEF ImplementEmpty, TypeOK, ghosts
<1>6. CASE ImplementRejected
  <2>1. turns' \in TurnsType /\ store' \in StoreType /\ pending' \in BOOLEAN
      BY <1>6, TurnTyped, HeardTyped DEF ImplementRejected, TypeOK, Asked, TurnsType
  <2>2. SavedOK' /\ disturbed' \in Nat
      BY <1>6, <2>1, CheckpointTyped DEF ImplementRejected, TypeOK, SavedOK
  <2> QED BY <1>6, <2>1, <2>2 DEF ImplementRejected, TypeOK, SavedOK, ghosts
<1>7. ASSUME NEW p \in Patches, RepairRepeated(p) PROVE TypeOK'
  <2>1. turns' \in TurnsType /\ store' \in StoreType
      BY <1>7, TurnTyped DEF RepairRepeated, TypeOK
  <2>2. SavedOK' /\ disturbed' \in Nat
      BY <1>7, <2>1, CheckpointTyped DEF RepairRepeated, TypeOK, SavedOK
  <2> QED BY <1>7, <2>1, <2>2 DEF RepairRepeated, TypeOK, SavedOK, ghosts, agent
<1>8. ASSUME NEW p \in Patches, RepairRejected(p) PROVE TypeOK'
  <2>1. turns' \in TurnsType /\ store' \in StoreType
      BY <1>8, TurnTyped DEF RepairRejected, TypeOK
  <2>2. SavedOK' /\ disturbed' \in Nat
      BY <1>8, <2>1, CheckpointTyped DEF RepairRejected, TypeOK, SavedOK
  <2> QED BY <1>8, <2>1, <2>2 DEF RepairRejected, TypeOK, SavedOK, ghosts
<1> QED BY <1>1, <1>2, <1>3, <1>4, <1>5, <1>6, <1>7, <1>8

\* The turns that write.
LEMMA TypeWrites ==
    ASSUME TypeOK, NEW p \in Patches, Implement(p) \/ Repair(p) PROVE TypeOK'
<1>1. CASE Implement(p)
  <2>1. EndTurn("IMPLEMENTING") \in TurnsType /\ Heard \in StoreType /\ pending' \in BOOLEAN
      BY <1>1, TurnTyped, HeardTyped DEF Implement, Asked, TypeOK, TurnsType
  <2>2. Write(p, "IMPLEMENTING", Heard, EndTurn("IMPLEMENTING")) /\ tried' = tried
      BY <1>1 DEF Implement
  <2>3. /\ tree' \in Trees /\ store' \in StoreType /\ turns' \in TurnsType
        /\ wrote' \subseteq Files /\ SavedOK' /\ disturbed' \in Nat
      BY <2>1, <2>2, WriteTyped DEF Stages
  <2>4. /\ pc' = "TESTING"
        /\ UNCHANGED <<reviews, verifs, review, failure, seen, passed, approved, raced, calls>>
      BY <2>2 DEF Write
  <2> QED BY <2>1, <2>2, <2>3, <2>4 DEF TypeOK, SavedOK, Stages
<1>2. CASE Repair(p)
  <2> DEFINE ts == [EndTurn("REPAIRING") EXCEPT !.sigs = @ \cup {p}]
  <2>1. EndTurn("REPAIRING") \in TurnsType
      BY TurnTyped DEF TypeOK
  <2>2. ts \in TurnsType
      BY <2>1 DEF TurnsType
  <2>3. Write(p, "REPAIRING", store, ts) /\ tried' = tried \cup {p} /\ pending' = pending
      BY <1>2 DEF Repair
  <2> HIDE DEF ts
  <2>4. /\ tree' \in Trees /\ store' \in StoreType /\ turns' \in TurnsType
        /\ wrote' \subseteq Files /\ SavedOK' /\ disturbed' \in Nat
      BY <2>2, <2>3, WriteTyped DEF Stages, TypeOK
  <2>5. /\ pc' = "TESTING"
        /\ UNCHANGED <<reviews, verifs, review, failure, seen, passed, approved, raced, calls>>
      BY <2>3 DEF Write
  <2> QED BY <2>3, <2>4, <2>5 DEF TypeOK, SavedOK, Stages
<1> QED BY <1>1, <1>2

\* Runs, reviews, and what is concluded from them.
LEMMA TypeRuns ==
    ASSUME TypeOK, NEW stage, NEW half \in Halves, RunCommands(stage, half) PROVE TypeOK'
<1>1. PICK ok \in [Cmds -> BOOLEAN] : seen' = [tree |-> tree, ok |-> ok]
    BY DEF RunCommands
<1>2. seen'.tree \in Trees /\ seen'.ok \in [Cmds -> BOOLEAN]
    BY <1>1 DEF TypeOK
<1> QED BY <1>2 DEF RunCommands, TypeOK, agent, ghosts

LEMMA CertifyTyped ==
    ASSUME TypeOK, CertifyRun
    PROVE  /\ passed' \subseteq Trees /\ raced' \subseteq Trees /\ UNCHANGED <<wrote, approved>>
           /\ passed \subseteq passed' /\ raced \subseteq raced'
           /\ AllPassed => tree \in passed' \cup raced'
BY DEF CertifyRun, TypeOK

LEMMA TypeRecords ==
    ASSUME TypeOK, RecordTests \/ Analyze PROVE TypeOK'
<1> USE DEF Stages, Ends
<1>1. CASE RecordTests
  <2>1. Results \in Seq(EntryType)
      BY ResultsTyped DEF TypeOK, TurnsType
  <2>2. turns' \in TurnsType /\ store' \in StoreType
      BY <1>1, <2>1, TurnTyped, RunTyped DEF RecordTests, TypeOK
  <2>3. SavedOK' /\ disturbed' \in Nat
      BY <1>1, <2>2, CheckpointTyped DEF RecordTests, TypeOK, SavedOK
  <2>4. /\ seen' = Unseen /\ failure' = (failure \/ ~AllPassed) /\ pc' \in Stages
        /\ UNCHANGED <<tree, reviews, verifs, tried, review, pending, calls>>
      BY <1>1 DEF RecordTests
  <2>5. failure' \in BOOLEAN
      BY <2>4 DEF TypeOK, AllPassed
  <2>6. /\ passed' \subseteq Trees /\ raced' \subseteq Trees /\ UNCHANGED <<wrote, approved>>
      BY <1>1, CertifyTyped DEF RecordTests
  <2> QED BY <2>2, <2>3, <2>4, <2>5, <2>6, UnseenTyped DEF TypeOK, SavedOK
<1>2. CASE Analyze
  <2> DEFINE ev == Evidence("repair", FALSE, {}, tree)
  <2>1. ev \in EntryType
      BY EvidenceTyped DEF TypeOK, Kinds
  <2> HIDE DEF ev
  <2>2. turns' \in TurnsType
      BY <1>2, TurnTyped DEF Analyze, TypeOK
  <2>3. store' = store \/ store' = Record(store, ev)
      BY <1>2 DEF Analyze, ev
  <2>4. store' \in StoreType
      BY <2>1, <2>3, RecordOneTyped DEF TypeOK
  <2>5. SavedOK' /\ disturbed' \in Nat /\ pc' \in Stages \cup Ends
      BY <1>2, <2>2, <2>4, CheckpointTyped DEF Analyze, TypeOK, SavedOK
  <2> QED BY <1>2, <2>2, <2>4, <2>5 DEF Analyze, TypeOK, SavedOK, agent, ghosts
<1> QED BY <1>1, <1>2

\* The entry of a review.
Verdict(ok) == [Evidence("review", ok, turns.ops, tree) EXCEPT
                   !.diff = Diff(seen.tree, turns.ops)]
LEMMA VerdictTyped ==
    ASSUME TypeOK, NEW ok \in BOOLEAN
    PROVE  /\ Verdict(ok) \in EntryType /\ Verdict(ok).kind = "review" /\ Verdict(ok).ok = ok
           /\ Verdict(ok).paths = turns.ops /\ Verdict(ok).print = Fingerprint(tree, turns.ops)
<1> DEFINE e == Evidence("review", ok, turns.ops, tree)
<1>1. turns.ops \in SUBSET Files /\ tree \in Trees /\ seen.tree \in Trees
    BY DEF TypeOK, TurnsType
<1>2. e \in EntryType /\ Diff(seen.tree, turns.ops) \in Diffs
    BY <1>1, EvidenceTyped, DiffTyped DEF Kinds, GlobalKinds
<1>3. /\ e.kind = "review" /\ e.ok = ok /\ e.paths = turns.ops
      /\ e.print = Fingerprint(tree, turns.ops)
    BY DEF Evidence
<1>4. Verdict(ok) = [e EXCEPT !.diff = Diff(seen.tree, turns.ops)]
    BY DEF Verdict
<1> HIDE DEF e
<1> QED BY <1>2, <1>3, <1>4 DEF EntryType

LEMMA TypeReview ==
    ASSUME TypeOK, \/ BeginReview \/ \E ok \in BOOLEAN : EndReview(ok)
    PROVE  TypeOK'
<1> USE DEF Stages, Ends, Halves
<1>1. CASE BeginReview
  <2>1. seen' = [Unseen EXCEPT !.tree = tree]
      BY <1>1 DEF BeginReview
  <2>2. seen'.tree \in Trees /\ seen'.ok \in [Cmds -> BOOLEAN]
      BY <2>1, UnseenTyped DEF Unseen, TypeOK
  <2> QED BY <1>1, <2>2 DEF BeginReview, TypeOK, agent, ghosts
<1>2. ASSUME NEW ok \in BOOLEAN, EndReview(ok) PROVE TypeOK'
  <2>1. store' = Record(store, Verdict(ok))
      BY <1>2 DEF EndReview, Verdict
  <2>2. store' \in StoreType /\ turns' \in TurnsType
      BY <1>2, <2>1, VerdictTyped, RecordOneTyped, TurnTyped DEF EndReview, TypeOK
  <2>3. /\ pc' \in {"VERIFYING", "FAILED", "REPAIRING"}
        /\ Checkpoint(IF pc' = "FAILED" THEN "FAILED" ELSE "REVIEWING")
      BY <1>2 DEF EndReview
  <2>4. SavedOK' /\ disturbed' \in Nat
      BY <2>2, <2>3, CheckpointTyped DEF TypeOK, SavedOK
  <2>5. reviews' \in Nat /\ failure' \in BOOLEAN
      BY <1>2 DEF EndReview, TypeOK, One
  <2>6. approved' \subseteq Trees /\ raced' \subseteq Trees
      BY <1>2 DEF EndReview, TypeOK
  <2>7. review' \in {"none", "APPROVED", "CHANGES_REQUIRED"} /\ seen' = Unseen
      BY <1>2 DEF EndReview
  <2> QED BY <1>2, <2>2, <2>3, <2>4, <2>5, <2>6, <2>7, UnseenTyped
          DEF EndReview, TypeOK, SavedOK
<1> QED BY <1>1, <1>2

LEMMA NotVerifiedTyped ==
    ASSUME TypeOK, NotVerified, store' \in StoreType
    PROVE  /\ turns' \in TurnsType /\ verifs' \in Nat /\ pc' \in {"FAILED", "REPAIRING"}
           /\ SavedOK' /\ disturbed' \in Nat /\ failure' \in BOOLEAN
<1>1. /\ turns' \in TurnsType /\ verifs' \in Nat /\ pc' \in {"FAILED", "REPAIRING"}
      /\ failure' \in BOOLEAN /\ Checkpoint(IF pc' = "FAILED" THEN "FAILED" ELSE "VERIFYING")
    BY TurnTyped DEF NotVerified, TypeOK
<1>2. SavedOK' /\ disturbed' \in Nat
    BY <1>1, CheckpointTyped DEF TypeOK, SavedOK, Stages, Ends
<1> QED BY <1>1, <1>2

LEMMA TypeVerification ==
    ASSUME TypeOK, RecordVerification \/ Assess PROVE TypeOK'
<1> USE DEF Stages, Ends, Halves
<1>1. CASE RecordVerification
  <2>1. store' = RecordAll(store, VerificationResults)
      BY <1>1 DEF RecordVerification, VerificationResults
  <2>2. store' \in StoreType
      BY <2>1, VerificationTyped, RunTyped
  <2>3. /\ passed' \subseteq Trees /\ raced' \subseteq Trees /\ UNCHANGED <<wrote, approved>>
        /\ seen' = Unseen
      BY <1>1, CertifyTyped DEF RecordVerification
  <2>4. CASE NotVerified
      BY <2>2, <2>3, <2>4, NotVerifiedTyped, UnseenTyped DEF NotVerified, TypeOK, SavedOK
  <2>5. CASE pc' = "assessing" /\ UNCHANGED <<tree, saved, turns, agent, calls, disturbed>>
      BY <2>2, <2>3, <2>5, UnseenTyped DEF TypeOK, agent
  <2> QED BY <1>1, <2>4, <2>5 DEF RecordVerification
<1>2. CASE Assess
  <2> DEFINE s == Revalidate(store, tree)
  <2>1. s \in StoreType
      BY RevalidateTyped DEF TypeOK
  <2>2. store' = Compliance(s) /\ UNCHANGED <<seen, ghosts>>
      BY <1>2 DEF Assess
  <2>3. store' \in StoreType
    <3> HIDE DEF s
    <3> QED BY <2>1, <2>2, ComplianceTyped DEF TypeOK
  <2>4. CASE NotVerified
      BY <2>2, <2>3, <2>4, NotVerifiedTyped DEF NotVerified, TypeOK, SavedOK, ghosts
  <2>5. CASE /\ turns' = EndTurn("VERIFYING") /\ pc' = "COMPLETED"
             /\ Checkpoint("VERIFYING") /\ UNCHANGED <<tree, agent, calls>>
    <3>1. turns' \in TurnsType
        BY <2>5, TurnTyped DEF TypeOK
    <3>2. SavedOK' /\ disturbed' \in Nat
        BY <2>3, <2>5, <3>1, CheckpointTyped DEF TypeOK, SavedOK
    <3> QED BY <2>2, <2>3, <2>5, <3>1, <3>2 DEF TypeOK, SavedOK, agent, ghosts
  <2> QED BY <1>2, <2>4, <2>5 DEF Assess
<1> QED BY <1>1, <1>2

\* Around a call.
LEMMA ForgetTyped ==
    ASSUME TypeOK, Forget, tree' \in Trees, disturbed' \in Nat
    PROVE  TypeOK'
<1>1. /\ turns' = NoTurns /\ store' = EmptyStore /\ seen' = Unseen /\ pc' = "idle"
      /\ reviews' = 0 /\ verifs' = 0 /\ tried' = {} /\ review' = "none"
      /\ failure' = FALSE /\ pending' = FALSE /\ wrote' = wrote \ Unsaved
      /\ UNCHANGED <<saved, passed, approved, raced, calls>>
    BY DEF Forget
<1>2. turns' \in TurnsType /\ store' \in StoreType
    BY <1>1, NoTurnsTyped, EmptyStoreTyped
<1>3. seen'.tree \in Trees /\ seen'.ok \in [Cmds -> BOOLEAN]
    BY <1>1, UnseenTyped
<1>4. failure' \in BOOLEAN /\ pending' \in BOOLEAN
    BY <1>1
<1>5. /\ saved'.turns \in TurnsType /\ saved'.store \in StoreType
      /\ saved'.turns.n # 0 => saved'.stage \in Stages \cup Ends
    BY <1>1 DEF TypeOK
<1>6. /\ wrote' \subseteq Files /\ passed' \subseteq Trees /\ approved' \subseteq Trees
      /\ raced' \subseteq Trees /\ calls' \in Nat
    BY <1>1 DEF TypeOK
<1>7. /\ reviews' \in Nat /\ verifs' \in Nat /\ tried' \subseteq Patches
      /\ review' \in {"none", "APPROVED", "CHANGES_REQUIRED"}
      /\ pc' \in Stages \cup Halves \cup Ends \cup {"idle"}
    BY <1>1
<1> QED BY <1>2, <1>3, <1>4, <1>5, <1>6, <1>7 DEF TypeOK

LEMMA TypeAround ==
    ASSUME TypeOK,
           Return \/ Crash \/ Foreign \/ \E f \in Files, c \in Contents : Edit(f, c)
    PROVE  TypeOK'
<1>1. CASE Return
  <2>1. Forget /\ tree' \in Trees /\ disturbed' \in Nat
      BY <1>1 DEF Return, TypeOK
  <2> QED BY <2>1, ForgetTyped
<1>2. CASE Crash
  <2>1. tree' \in Trees
      BY <1>2, PatchTyped DEF Crash, TypeOK
  <2>2. Forget /\ disturbed' \in Nat
      BY <1>2 DEF Crash, Disturb, May, TypeOK
  <2> QED BY <2>1, <2>2, ForgetTyped
<1>3. CASE Foreign
  <2>1. saved' = [NoCheckpoint EXCEPT !.store = saved.store] /\ disturbed' \in Nat
      BY <1>3 DEF Foreign, Disturb, May, TypeOK
  <2>2. saved'.turns = NoTurns /\ saved'.store = saved.store /\ NoTurns.n = 0
      BY <2>1 DEF NoCheckpoint, NoTurns
  <2> QED BY <1>3, <2>1, <2>2, NoTurnsTyped DEF Foreign, TypeOK, agent
<1>4. ASSUME NEW f \in Files, NEW c \in Contents, Edit(f, c) PROVE TypeOK'
  <2>1. tree' \in Trees /\ disturbed' \in Nat
      BY <1>4 DEF Edit, Disturb, May, TypeOK, Trees
  <2> QED BY <1>4, <2>1 DEF Edit, TypeOK, agent, ghosts
<1> QED BY <1>1, <1>2, <1>3, <1>4

LEMMA TypeStep == TypeOK /\ [Next]_vars => TypeOK'
<1> SUFFICES ASSUME TypeOK, [Next]_vars PROVE TypeOK'
    OBVIOUS
<1>1. CASE UNCHANGED vars
    BY <1>1 DEF vars, TypeOK, agent, ghosts
<1>2. CASE RunTests \/ RunVerification
    BY <1>2, TypeRuns DEF RunTests, RunVerification, Halves
<1>3. CASE Step /\ ~(RunTests \/ RunVerification)
    BY <1>3, TypeEnds, TypeWrites, TypeRecords, TypeReview, TypeVerification, TypeAround
    DEF Step, ImplementBroken, RepairBroken
<1> QED BY <1>1, <1>2, <1>3, TypeCall, TypeAround DEF Next

THEOREM TypeCorrect == Spec => []TypeOK
BY TypeInit, TypeStep, PTL DEF Spec

-----------------------------------------------------------------------------
(* The repair budget.                                                      *)

LEMMA SpareTyped ==
    ASSUME TypeOK
    PROVE  /\ Spare \in Nat
           /\ calls' = calls => Spare' = Spare
           /\ calls' = calls + 1 => Spare' = IF calls = 0 THEN 0 ELSE Spare + 1
BY DEF TypeOK, Spare, One

LEMMA LeastTyped ==
    ASSUME NEW m \in Nat, NEW n \in Nat
    PROVE  /\ Least(m, n) \in Nat
           /\ \A k \in Nat : k <= m => Least(k, n) <= Least(m, n)
           /\ m < n => Least(m + 1, n) = Least(m, n) + 1
BY DEF Least

\* What a turn may leave in the checkpoint: everything, or what was there.
LEMMA CheckpointKeeps ==
    ASSUME NEW stage, Checkpoint(stage)
    PROVE  \/ UNCHANGED saved
           \/ saved'.turns = turns' /\ saved'.store = store' /\ saved'.stage = stage
BY DEF Checkpoint

\* Within a call only the bound on the turns of this call has to be looked at: the
\* checkpoint is this call's, or the one it had.
LEMMA BudgetWithin ==
    ASSUME TypeOK, TypeOK', BudgetInv, pc # "idle", pc' # "idle", UNCHANGED calls,
           UNCHANGED saved \/ saved'.turns = turns',
           reviews' <= turns'.reviewing, verifs' <= turns'.verifying,
           turns'.repairing + One(pc' = "REPAIRING")
              <= MaxRepair + Least(reviews', MaxReview) + Least(verifs', MaxVerification) + Spare
    PROVE  BudgetInv'
<1>1. /\ turns'.repairing \in Nat /\ turns'.reviewing \in Nat /\ turns'.verifying \in Nat
      /\ reviews' \in Nat /\ verifs' \in Nat /\ One(pc' = "REPAIRING") \in {0, 1}
    BY DEF TypeOK, TurnsType, One
<1>2. Spare' = Spare /\ Spare \in Nat
    BY SpareTyped
<1>3. /\ Least(reviews', MaxReview) <= Least(turns'.reviewing, MaxReview)
      /\ Least(verifs', MaxVerification) <= Least(turns'.verifying, MaxVerification)
      /\ Least(reviews', MaxReview) \in Nat /\ Least(turns'.reviewing, MaxReview) \in Nat
      /\ Least(verifs', MaxVerification) \in Nat
      /\ Least(turns'.verifying, MaxVerification) \in Nat /\ MaxRepair \in Nat
    BY <1>1, LeastTyped, ConstantsTyped
<1>4. turns'.repairing <= MaxRepair + Least(turns'.reviewing, MaxReview)
                          + Least(turns'.verifying, MaxVerification) + Spare
    BY <1>1, <1>2, <1>3
<1>5. saved'.turns.repairing
          <= MaxRepair + Least(saved'.turns.reviewing, MaxReview)
             + Least(saved'.turns.verifying, MaxVerification) + Spare
    BY <1>4 DEF BudgetInv
<1>6. calls # 0 /\ calls' # 0
    BY DEF BudgetInv
<1> QED BY <1>2, <1>5, <1>6 DEF BudgetInv

\* A turn that grants no repair.
LEMMA BudgetKept ==
    ASSUME TypeOK, TypeOK', BudgetInv, pc # "idle", pc' # "idle", UNCHANGED calls,
           UNCHANGED saved \/ saved'.turns = turns',
           reviews' \in {reviews, reviews + 1}, verifs' \in {verifs, verifs + 1},
           reviews' - reviews <= turns'.reviewing - turns.reviewing,
           verifs' - verifs <= turns'.verifying - turns.verifying,
           turns'.repairing + One(pc' = "REPAIRING") <= turns.repairing + One(pc = "REPAIRING")
    PROVE  BudgetInv'
<1>1. /\ turns'.repairing \in Nat /\ turns'.reviewing \in Nat /\ turns'.verifying \in Nat
      /\ turns.repairing \in Nat /\ turns.reviewing \in Nat /\ turns.verifying \in Nat
      /\ reviews \in Nat /\ verifs \in Nat /\ reviews' \in Nat /\ verifs' \in Nat
      /\ One(pc' = "REPAIRING") \in {0, 1} /\ One(pc = "REPAIRING") \in {0, 1}
    BY DEF TypeOK, TurnsType, One
<1>2. Spare \in Nat
    BY SpareTyped
<1>3. /\ Least(reviews, MaxReview) <= Least(reviews', MaxReview)
      /\ Least(verifs, MaxVerification) <= Least(verifs', MaxVerification)
      /\ Least(reviews, MaxReview) \in Nat /\ Least(reviews', MaxReview) \in Nat
      /\ Least(verifs, MaxVerification) \in Nat /\ Least(verifs', MaxVerification) \in Nat
      /\ MaxRepair \in Nat
  <2>1. reviews <= reviews' /\ verifs <= verifs'
      BY <1>1
  <2> QED BY <1>1, <2>1, LeastTyped, ConstantsTyped
<1>4. /\ reviews <= turns.reviewing /\ verifs <= turns.verifying
      /\ turns.repairing + One(pc = "REPAIRING")
            <= MaxRepair + Least(reviews, MaxReview) + Least(verifs, MaxVerification) + Spare
    BY DEF BudgetInv
<1>5. reviews' <= turns'.reviewing /\ verifs' <= turns'.verifying
    BY <1>1, <1>4
<1>6. turns'.repairing + One(pc' = "REPAIRING")
         <= MaxRepair + Least(reviews', MaxReview) + Least(verifs', MaxVerification) + Spare
    BY <1>1, <1>2, <1>3, <1>4
<1> QED BY <1>5, <1>6, BudgetWithin

\* The turns that neither review nor verify.
LEMMA BudgetTurns ==
    ASSUME TypeOK, TypeOK', BudgetInv,
           \/ OutOfTurns \/ Ask \/ Broken("IMPLEMENTING") \/ Broken("REPAIRING") \/ RepairEmpty
           \/ ImplementEmpty \/ ImplementRejected \/ RunTests \/ RunVerification \/ BeginReview
           \/ RecordTests
           \/ \E p \in Patches : \/ Implement(p) \/ RepairRepeated(p) \/ RepairRejected(p)
                                 \/ Repair(p)
    PROVE  BudgetInv'
<1>1. /\ turns \in TurnsType /\ reviews \in Nat /\ verifs \in Nat
    BY DEF TypeOK
<1> DEFINE Ended(stage) ==
              \/ turns' = EndTurn(stage)
              \/ \E p : turns' = [EndTurn(stage) EXCEPT !.ops = @ \cup DOMAIN p]
              \/ \E p : turns' = [[EndTurn(stage) EXCEPT !.sigs = @ \cup {p}]
                                     EXCEPT !.ops = @ \cup DOMAIN p]
<1>2. ASSUME NEW stage, Ended(stage)
      PROVE  /\ turns'.repairing = turns.repairing + One(stage = "REPAIRING")
             /\ turns'.reviewing = turns.reviewing + One(stage = "REVIEWING")
             /\ turns'.verifying = turns.verifying + One(stage = "VERIFYING")
  <2>1. EndTurn(stage) \in TurnsType
      BY <1>1, TurnTyped
  <2>2. /\ turns'.repairing = EndTurn(stage).repairing
        /\ turns'.reviewing = EndTurn(stage).reviewing
        /\ turns'.verifying = EndTurn(stage).verifying
      BY <1>2, <2>1 DEF TurnsType
  <2> QED BY <1>1, <2>2, TurnTyped
<1>3. /\ turns.repairing \in Nat /\ turns.reviewing \in Nat /\ turns.verifying \in Nat
    BY <1>1 DEF TurnsType
<1>4. CASE OutOfTurns \/ Ask \/ RunTests \/ RunVerification \/ BeginReview
  <2>1. /\ turns'.repairing = turns.repairing /\ turns'.reviewing = turns.reviewing
        /\ turns'.verifying = turns.verifying
      BY <1>1, <1>4 DEF OutOfTurns, Ask, RunTests, RunVerification, RunCommands, BeginReview,
                        TurnsType
  <2>2. /\ UNCHANGED <<saved, agent, calls>> /\ pc # "idle" /\ pc' # "idle"
        /\ pc' = "REPAIRING" => pc = "REPAIRING"
      BY <1>4 DEF OutOfTurns, Ask, RunTests, RunVerification, RunCommands, BeginReview, Turn,
                  Stages
  <2>3. turns'.repairing + One(pc' = "REPAIRING") <= turns.repairing + One(pc = "REPAIRING")
      BY <1>3, <2>1, <2>2 DEF One
  <2> QED BY <1>1, <1>3, <2>1, <2>2, <2>3, BudgetKept DEF agent
<1>5. ASSUME NEW stage \in {"IMPLEMENTING", "REPAIRING", "TESTING"}, Ended(stage),
             UNCHANGED <<reviews, verifs, calls>>, pc # "idle",
             pc' \notin {"idle", "REPAIRING"}, stage = "REPAIRING" => pc = "REPAIRING",
             UNCHANGED saved \/ saved'.turns = turns'
      PROVE  BudgetInv'
  <2>1. /\ turns'.repairing = turns.repairing + One(stage = "REPAIRING")
        /\ turns'.reviewing = turns.reviewing /\ turns'.verifying = turns.verifying
    <3> HIDE DEF Ended
    <3>1. One(stage = "REVIEWING") = 0 /\ One(stage = "VERIFYING") = 0
        BY <1>5 DEF One
    <3> QED BY <1>2, <1>3, <1>5, <3>1
  <2> HIDE DEF Ended
  <2>2. turns'.repairing + One(pc' = "REPAIRING") <= turns.repairing + One(pc = "REPAIRING")
    <3>1. One(pc' = "REPAIRING") = 0 /\ One(stage = "REPAIRING") <= One(pc = "REPAIRING")
        BY <1>5 DEF One
    <3>2. One(stage = "REPAIRING") \in Nat /\ One(pc = "REPAIRING") \in Nat
        BY DEF One
    <3> QED BY <1>3, <2>1, <3>1, <3>2
  <2>3. reviews' = reviews /\ verifs' = verifs /\ calls' = calls /\ pc' # "idle"
      BY <1>5
  <2>4. /\ reviews' - reviews <= turns'.reviewing - turns.reviewing
        /\ verifs' - verifs <= turns'.verifying - turns.verifying
      BY <1>1, <1>3, <2>1, <2>3
  <2> QED BY <1>5, <2>2, <2>3, <2>4, BudgetKept
<1>6. CASE Broken("IMPLEMENTING")
  <2>1. saved'.turns = turns'
      BY <1>6 DEF Broken
  <2> QED BY <1>5, <1>6, <2>1 DEF Broken, Turn, agent
<1>7. CASE Broken("REPAIRING")
  <2>1. saved'.turns = turns'
      BY <1>7 DEF Broken
  <2> QED BY <1>5, <1>7, <2>1 DEF Broken, Turn, agent
<1>8. CASE RepairEmpty
    BY <1>5, <1>8, CheckpointKeeps DEF RepairEmpty, Turn
<1>9. CASE ImplementEmpty \/ ImplementRejected
    BY <1>5, <1>9, CheckpointKeeps DEF ImplementEmpty, ImplementRejected, Turn
<1>10. CASE RecordTests
    BY <1>5, <1>10, CheckpointKeeps DEF RecordTests
<1>11. ASSUME NEW p \in Patches, RepairRepeated(p) \/ RepairRejected(p) PROVE BudgetInv'
    BY <1>5, <1>11, CheckpointKeeps DEF RepairRepeated, RepairRejected, Turn, agent
<1>12. ASSUME NEW p \in Patches, Implement(p) PROVE BudgetInv'
  <2>1. /\ Checkpoint("IMPLEMENTING") /\ pc' = "TESTING" /\ UNCHANGED <<reviews, verifs, calls>>
        /\ turns' = [EndTurn("IMPLEMENTING") EXCEPT !.ops = @ \cup DOMAIN p]
        /\ pc = "IMPLEMENTING"
      BY <1>12 DEF Implement, Write, Turn
  <2> QED BY <1>5, <2>1, CheckpointKeeps
<1>13. ASSUME NEW p \in Patches, Repair(p) PROVE BudgetInv'
  <2>1. /\ Checkpoint("REPAIRING") /\ pc' = "TESTING" /\ UNCHANGED <<reviews, verifs, calls>>
        /\ turns' = [[EndTurn("REPAIRING") EXCEPT !.sigs = @ \cup {p}]
                        EXCEPT !.ops = @ \cup DOMAIN p]
        /\ pc = "REPAIRING"
      BY <1>13 DEF Repair, Write, Turn
  <2> QED BY <1>5, <2>1, CheckpointKeeps
<1> QED BY <1>4, <1>6, <1>7, <1>8, <1>9, <1>10, <1>11, <1>12, <1>13

\* A repair turn is granted by the analysis while the budget lasts.
LEMMA BudgetAnalyze == ASSUME TypeOK, TypeOK', BudgetInv, Analyze PROVE BudgetInv'
<1>1. /\ turns \in TurnsType /\ turns' = EndTurn("ANALYZING_FAILURE")
      /\ UNCHANGED <<reviews, verifs, calls>> /\ pc = "ANALYZING_FAILURE"
      /\ UNCHANGED saved \/ saved'.turns = turns'
    BY CheckpointKeeps DEF Analyze, TypeOK, agent, Turn
<1>2. /\ turns'.repairing = turns.repairing /\ turns'.reviewing = turns.reviewing
      /\ turns'.verifying = turns.verifying /\ turns.repairing \in Nat
      /\ turns.reviewing \in Nat /\ turns.verifying \in Nat /\ reviews \in Nat /\ verifs \in Nat
    BY <1>1, TurnTyped DEF One, TurnsType, TypeOK
<1>3. CASE pc' = "FAILED"
  <2>1. turns'.repairing + One(pc' = "REPAIRING") <= turns.repairing + One(pc = "REPAIRING")
      BY <1>1, <1>2, <1>3 DEF One
  <2> QED BY <1>1, <1>2, <1>3, <2>1, BudgetKept
<1>4. CASE turns.repairing < MaxRepair /\ pc' = "REPAIRING"
  <2>1. /\ Least(reviews, MaxReview) \in Nat /\ Least(verifs, MaxVerification) \in Nat
        /\ Spare \in Nat /\ MaxRepair \in Nat
      BY <1>2, LeastTyped, SpareTyped, ConstantsTyped
  <2>2. turns'.repairing + One(pc' = "REPAIRING")
           <= MaxRepair + Least(reviews', MaxReview) + Least(verifs', MaxVerification) + Spare
      BY <1>1, <1>2, <1>4, <2>1 DEF One
  <2>3. reviews' <= turns'.reviewing /\ verifs' <= turns'.verifying
      BY <1>1, <1>2 DEF BudgetInv
  <2> QED BY <1>1, <1>4, <2>2, <2>3, BudgetWithin
<1> QED BY <1>3, <1>4 DEF Analyze

\* One more repair turn, with a place of its own: a review that asked for changes or a
\* verification that failed, as far as the budget goes.
LEMMA BudgetGrows ==
    ASSUME TypeOK, TypeOK', BudgetInv, pc \notin {"idle", "REPAIRING"}, UNCHANGED calls,
           UNCHANGED saved \/ saved'.turns = turns', pc' # "idle",
           turns'.repairing = turns.repairing,
           \/ /\ reviews' = reviews + 1 /\ UNCHANGED verifs
              /\ turns'.reviewing = turns.reviewing + 1 /\ turns'.verifying = turns.verifying
              /\ reviews' <= MaxReview
           \/ /\ verifs' = verifs + 1 /\ UNCHANGED reviews
              /\ turns'.verifying = turns.verifying + 1 /\ turns'.reviewing = turns.reviewing
              /\ verifs' <= MaxVerification
    PROVE  BudgetInv'
<1>1. /\ turns.repairing \in Nat /\ turns.reviewing \in Nat /\ turns.verifying \in Nat
      /\ reviews \in Nat /\ verifs \in Nat /\ Spare \in Nat /\ MaxRepair \in Nat
      /\ MaxReview \in Nat /\ MaxVerification \in Nat
    BY SpareTyped, ConstantsTyped DEF TypeOK, TurnsType
<1>2. /\ reviews <= turns.reviewing /\ verifs <= turns.verifying
      /\ turns.repairing
            <= MaxRepair + Least(reviews, MaxReview) + Least(verifs, MaxVerification) + Spare
    BY <1>1 DEF BudgetInv, One
<1>3. /\ Least(reviews, MaxReview) \in Nat /\ Least(verifs, MaxVerification) \in Nat
      /\ reviews' <= MaxReview /\ reviews' = reviews + 1 =>
            Least(reviews', MaxReview) = Least(reviews, MaxReview) + 1
      /\ verifs' <= MaxVerification /\ verifs' = verifs + 1 =>
            Least(verifs', MaxVerification) = Least(verifs, MaxVerification) + 1
    BY <1>1 DEF Least
<1>4. One(pc' = "REPAIRING") \in {0, 1}
    BY DEF One
<1>5. reviews' <= turns'.reviewing /\ verifs' <= turns'.verifying
    BY <1>1, <1>2
<1>6. turns'.repairing + One(pc' = "REPAIRING")
         <= MaxRepair + Least(reviews', MaxReview) + Least(verifs', MaxVerification) + Spare
  <2>1. CASE reviews' = reviews + 1 /\ verifs' = verifs /\ reviews' <= MaxReview
      BY <1>1, <1>2, <1>3, <1>4, <2>1
  <2>2. CASE verifs' = verifs + 1 /\ reviews' = reviews /\ verifs' <= MaxVerification
      BY <1>1, <1>2, <1>3, <1>4, <2>2
  <2> QED BY <2>1, <2>2
<1> QED BY <1>5, <1>6, BudgetWithin

LEMMA BudgetReview ==
    ASSUME TypeOK, TypeOK', BudgetInv, NEW ok \in BOOLEAN, EndReview(ok) PROVE BudgetInv'
<1>1. /\ turns \in TurnsType /\ turns' = EndTurn("REVIEWING") /\ reviews' = reviews + One(~ok)
      /\ UNCHANGED <<verifs, calls>> /\ pc = "judging"
      /\ pc' \in {"VERIFYING", "FAILED", "REPAIRING"}
      /\ pc' = "REPAIRING" => ~ok /\ ~(reviews' > MaxReview)
    BY DEF EndReview, TypeOK
<1>2. UNCHANGED saved \/ saved'.turns = turns'
    BY CheckpointKeeps DEF EndReview
<1>3. /\ turns'.repairing = turns.repairing /\ turns'.reviewing = turns.reviewing + 1
      /\ turns'.verifying = turns.verifying /\ turns.repairing \in Nat
      /\ turns.reviewing \in Nat /\ turns.verifying \in Nat /\ reviews \in Nat /\ verifs \in Nat
      /\ MaxReview \in Nat
    BY <1>1, TurnTyped, ConstantsTyped DEF One, TurnsType, TypeOK
<1>4. CASE pc' = "REPAIRING"
  <2>1. reviews' = reviews + 1 /\ reviews' <= MaxReview
      BY <1>1, <1>3, <1>4 DEF One
  <2> QED BY <1>1, <1>2, <1>3, <1>4, <2>1, BudgetGrows
<1>5. CASE pc' # "REPAIRING"
  <2>1. /\ reviews' \in {reviews, reviews + 1}
        /\ reviews' - reviews <= turns'.reviewing - turns.reviewing
        /\ verifs' - verifs <= turns'.verifying - turns.verifying
        /\ turns'.repairing + One(pc' = "REPAIRING") <= turns.repairing + One(pc = "REPAIRING")
      BY <1>1, <1>3, <1>5 DEF One
  <2> QED BY <1>1, <1>2, <2>1, BudgetKept
<1> QED BY <1>4, <1>5

LEMMA BudgetNotVerified ==
    ASSUME TypeOK, TypeOK', BudgetInv, pc \notin {"idle", "REPAIRING"}, NotVerified
    PROVE  BudgetInv'
<1>1. /\ turns \in TurnsType /\ turns' = EndTurn("VERIFYING") /\ verifs' = verifs + 1
      /\ UNCHANGED <<reviews, calls>>
      /\ pc' \in {"FAILED", "REPAIRING"}
      /\ pc' = "REPAIRING" => ~(verifs' > MaxVerification)
    BY DEF NotVerified, TypeOK
<1>2. UNCHANGED saved \/ saved'.turns = turns'
    BY CheckpointKeeps DEF NotVerified
<1>3. /\ turns'.repairing = turns.repairing /\ turns'.verifying = turns.verifying + 1
      /\ turns'.reviewing = turns.reviewing /\ turns.repairing \in Nat
      /\ turns.reviewing \in Nat /\ turns.verifying \in Nat /\ reviews \in Nat /\ verifs \in Nat
      /\ MaxVerification \in Nat
    BY <1>1, TurnTyped, ConstantsTyped DEF One, TurnsType, TypeOK
<1>4. CASE pc' = "REPAIRING"
  <2>1. verifs' <= MaxVerification
      BY <1>1, <1>3, <1>4
  <2> QED BY <1>1, <1>2, <1>3, <1>4, <2>1, BudgetGrows
<1>5. CASE pc' # "REPAIRING"
  <2>1. turns'.repairing + One(pc' = "REPAIRING") <= turns.repairing + One(pc = "REPAIRING")
      BY <1>3, <1>5 DEF One
  <2>2. /\ verifs' = verifs + 1 /\ reviews' = reviews /\ calls' = calls
        /\ pc # "idle" /\ pc' # "idle"
      BY <1>1
  <2>3. /\ verifs' - verifs <= turns'.verifying - turns.verifying
        /\ reviews' - reviews <= turns'.reviewing - turns.reviewing
      BY <1>3, <2>2
  <2> QED BY <1>2, <2>1, <2>2, <2>3, BudgetKept
<1> QED BY <1>4, <1>5

LEMMA BudgetVerification ==
    ASSUME TypeOK, TypeOK', BudgetInv, RecordVerification \/ Assess PROVE BudgetInv'
<1>1. pc \in {"proving", "assessing"}
    BY DEF RecordVerification, Assess
<1>2. CASE NotVerified
    BY <1>1, <1>2, BudgetNotVerified
<1>3. CASE pc' = "assessing" /\ UNCHANGED <<tree, saved, turns, agent, calls, disturbed>>
  <2>1. turns'.repairing + One(pc' = "REPAIRING") <= turns.repairing + One(pc = "REPAIRING")
      BY <1>1, <1>3 DEF One, TypeOK, TurnsType
  <2> QED BY <1>1, <1>3, <2>1, BudgetKept DEF agent, TypeOK, TurnsType
<1>4. CASE /\ turns' = EndTurn("VERIFYING") /\ pc' = "COMPLETED"
           /\ Checkpoint("VERIFYING") /\ UNCHANGED <<tree, agent, calls>>
  <2>1. /\ turns'.repairing = turns.repairing /\ turns'.verifying = turns.verifying + 1
        /\ turns'.reviewing = turns.reviewing /\ turns.repairing \in Nat
        /\ turns.reviewing \in Nat /\ turns.verifying \in Nat /\ reviews \in Nat /\ verifs \in Nat
      BY <1>4, TurnTyped DEF One, TurnsType, TypeOK
  <2>2. /\ UNCHANGED <<reviews, verifs>>
        /\ verifs' - verifs <= turns'.verifying - turns.verifying
        /\ reviews' - reviews <= turns'.reviewing - turns.reviewing
        /\ turns'.repairing + One(pc' = "REPAIRING") <= turns.repairing + One(pc = "REPAIRING")
      BY <1>1, <1>4, <2>1 DEF One, agent
  <2> QED BY <1>1, <1>4, <2>2, CheckpointKeeps, BudgetKept
<1> QED BY <1>2, <1>3, <1>4 DEF RecordVerification, Assess

\* A resumption may start at a repair that the checkpoint does not count yet: it
\* brings one place with it.
LEMMA BudgetCall == ASSUME TypeOK, TypeOK', BudgetInv, Call PROVE BudgetInv'
<1>1. /\ turns' = saved.turns /\ UNCHANGED saved /\ pc = "idle" /\ calls' = calls + 1
      /\ reviews' = turns'.reviewing /\ verifs' = turns'.verifying
      /\ pc' = IF saved.turns.n = 0 THEN "IMPLEMENTING" ELSE saved.stage
    BY DEF Call, Restored
<1>2. /\ turns'.repairing \in Nat /\ turns'.reviewing \in Nat /\ turns'.verifying \in Nat
      /\ Spare \in Nat /\ Spare' = (IF calls = 0 THEN 0 ELSE Spare + 1)
      /\ MaxRepair \in Nat /\ calls \in Nat
    BY <1>1, SpareTyped, ConstantsTyped DEF TypeOK, TurnsType
<1>3. /\ Least(turns'.reviewing, MaxReview) \in Nat
      /\ Least(turns'.verifying, MaxVerification) \in Nat
    BY <1>2, LeastTyped, ConstantsTyped
<1>4. pc' # "idle" /\ calls' # 0 /\ One(pc' = "REPAIRING") \in {0, 1}
    BY <1>1, <1>2 DEF TypeOK, Stages, Ends, One
<1>5. Spare <= Spare'
    BY <1>2 DEF Spare, One
<1>6. turns'.repairing <= MaxRepair + Least(turns'.reviewing, MaxReview)
                          + Least(turns'.verifying, MaxVerification) + Spare
    BY <1>1 DEF BudgetInv
<1>7. turns'.repairing + One(pc' = "REPAIRING")
         <= MaxRepair + Least(reviews', MaxReview) + Least(verifs', MaxVerification) + Spare'
  <2>1. CASE calls = 0
    <3>1. pc' = "IMPLEMENTING" /\ One(pc' = "REPAIRING") = 0
        BY <1>1, <2>1 DEF BudgetInv, NoTurns, One
    <3> QED BY <1>1, <1>2, <1>3, <1>5, <1>6, <3>1
  <2>2. CASE calls # 0
      BY <1>1, <1>2, <1>3, <1>4, <1>6, <2>2
  <2> QED BY <2>1, <2>2
<1>8. saved'.turns.repairing <= MaxRepair + Least(saved'.turns.reviewing, MaxReview)
                                + Least(saved'.turns.verifying, MaxVerification) + Spare'
    BY <1>1, <1>2, <1>3, <1>5, <1>6
<1>9. reviews' <= turns'.reviewing /\ verifs' <= turns'.verifying
    BY <1>1, <1>2
<1> QED BY <1>4, <1>7, <1>8, <1>9 DEF BudgetInv

LEMMA BudgetAround ==
    ASSUME TypeOK, TypeOK', BudgetInv,
           Return \/ Crash \/ Foreign \/ \E f \in Files, c \in Contents : Edit(f, c)
    PROVE  BudgetInv'
<1>1. Spare' = Spare /\ Spare \in Nat
    BY SpareTyped DEF Return, Crash, Foreign, Edit, Forget
<1>2. /\ NoTurns.repairing = 0 /\ NoTurns.reviewing = 0 /\ NoTurns.verifying = 0
      /\ Least(0, MaxReview) = 0 /\ Least(0, MaxVerification) = 0 /\ MaxRepair \in Nat
    BY ConstantsTyped DEF NoTurns, Least
<1>3. CASE Forget
  <2>1. /\ pc' = "idle" /\ turns' = NoTurns /\ reviews' = 0 /\ verifs' = 0
        /\ UNCHANGED <<saved, calls>>
      BY <1>3 DEF Forget
  <2>2. One(pc' = "REPAIRING") = 0
      BY <2>1 DEF One
  <2> QED BY <1>1, <1>2, <2>1, <2>2 DEF BudgetInv
<1>4. CASE Foreign
  <2>1. /\ saved' = [NoCheckpoint EXCEPT !.store = saved.store] /\ pc = "idle"
        /\ UNCHANGED <<turns, pc, reviews, verifs, calls>>
      BY <1>4 DEF Foreign, agent
  <2>2. saved'.turns = NoTurns
      BY <2>1 DEF NoCheckpoint
  <2> QED BY <1>1, <1>2, <2>1, <2>2 DEF BudgetInv
<1>5. ASSUME NEW f \in Files, NEW c \in Contents, Edit(f, c) PROVE BudgetInv'
    BY <1>1, <1>5 DEF Edit, BudgetInv, agent
<1> QED BY <1>3, <1>4, <1>5 DEF Return, Crash

LEMMA BudgetStep == TypeOK /\ BudgetInv /\ [Next]_vars => BudgetInv'
<1> SUFFICES ASSUME TypeOK, BudgetInv, [Next]_vars PROVE BudgetInv'
    OBVIOUS
<1>1. TypeOK'
    BY TypeStep
<1>2. CASE UNCHANGED vars
  <2>1. UNCHANGED <<reviews, verifs, turns, pc, saved, calls>> /\ Spare' = Spare
      BY <1>2 DEF vars, agent, Spare
  <2> QED BY <2>1 DEF BudgetInv
<1>3. CASE Step
    BY <1>1, <1>3, BudgetTurns, BudgetAnalyze, BudgetReview, BudgetVerification, BudgetAround
    DEF Step, ImplementBroken, RepairBroken
<1> QED BY <1>1, <1>2, <1>3, BudgetCall, BudgetAround DEF Next

LEMMA BudgetInit == Init => BudgetInv
<1> SUFFICES ASSUME Init PROVE BudgetInv
    OBVIOUS
<1>1. /\ NoTurns.repairing = 0 /\ NoTurns.reviewing = 0 /\ NoTurns.verifying = 0
      /\ Least(0, MaxReview) = 0 /\ Least(0, MaxVerification) = 0 /\ MaxRepair \in Nat
    BY ConstantsTyped DEF NoTurns, Least
<1>2. /\ turns = NoTurns /\ saved.turns = NoTurns /\ reviews = 0 /\ verifs = 0 /\ pc = "idle"
      /\ calls = 0 /\ Spare = 0 /\ One(pc = "REPAIRING") = 0
    BY DEF Init, NoCheckpoint, Spare, One
<1> QED BY <1>1, <1>2 DEF BudgetInv

LEMMA BudgetBounds == TypeOK /\ BudgetInv => TurnsWithinBudget
<1> SUFFICES ASSUME TypeOK, BudgetInv PROVE RepairsBounded
    BY DEF TurnsWithinBudget
<1>1. /\ turns.repairing \in Nat /\ turns.reviewing \in Nat /\ turns.verifying \in Nat
      /\ reviews \in Nat /\ verifs \in Nat /\ One(pc = "REPAIRING") \in {0, 1}
    BY DEF TypeOK, TurnsType, One
<1>2. /\ Least(reviews, MaxReview) <= Least(turns.reviewing, MaxReview)
      /\ Least(verifs, MaxVerification) <= Least(turns.verifying, MaxVerification)
      /\ Least(reviews, MaxReview) \in Nat /\ Least(turns.reviewing, MaxReview) \in Nat
      /\ Least(verifs, MaxVerification) \in Nat
      /\ Least(turns.verifying, MaxVerification) \in Nat /\ MaxRepair \in Nat /\ Spare \in Nat
    BY <1>1, LeastTyped, ConstantsTyped, SpareTyped DEF BudgetInv
<1>3. turns.repairing <= MaxRepair + Least(turns.reviewing, MaxReview)
                         + Least(turns.verifying, MaxVerification) + Spare
    BY <1>1, <1>2 DEF BudgetInv
<1> QED BY <1>3 DEF RepairsBounded, Spare

\* The turns keep their types, and the repair turns of a task the bound that the
\* budgets for repairs, reviews and verifications and the resumptions add up to
\* (MultiTurnImplementationAgent.execute), for any budgets and any number of calls.
THEOREM RepairsAreBounded == Spec => []TurnsWithinBudget
BY TypeInit, TypeStep, BudgetInit, BudgetStep, BudgetBounds, PTL DEF Spec

-----------------------------------------------------------------------------
(* The account of what was written.                                        *)

\* The steps of a call that write no file.
Quiet ==
    \/ OutOfTurns \/ Ask \/ ImplementBroken \/ RepairBroken \/ RepairEmpty
    \/ ImplementEmpty \/ ImplementRejected
    \/ \E p \in Patches : RepairRepeated(p) \/ RepairRejected(p)
    \/ RunTests \/ RecordTests \/ Analyze \/ BeginReview
    \/ \E ok \in BOOLEAN : EndReview(ok)
    \/ RunVerification \/ RecordVerification \/ Assess

LEMMA QuietTyped ==
    ASSUME TypeOK, Quiet
    PROVE  /\ turns'.ops = turns.ops /\ UNCHANGED <<tree, wrote>>
           /\ pc # "idle" /\ pc' # "idle"
<1>1. turns \in TurnsType /\ \A stage : EndTurn(stage).ops = turns.ops
    BY TurnTyped DEF TypeOK
<1>2. CASE OutOfTurns \/ Ask
    BY <1>1, <1>2 DEF OutOfTurns, Ask, Turn, TurnsType, Stages, ghosts
<1>3. CASE ImplementBroken \/ RepairBroken
  <2>1. PICK stage \in {"IMPLEMENTING", "REPAIRING"} : Broken(stage)
      BY <1>3 DEF ImplementBroken, RepairBroken
  <2> QED BY <1>1, <2>1 DEF Broken, Turn, ghosts
<1>4. CASE RepairEmpty \/ ImplementEmpty \/ ImplementRejected
    BY <1>1, <1>4 DEF RepairEmpty, ImplementEmpty, ImplementRejected, Turn, ghosts
<1>5. ASSUME NEW p \in Patches, RepairRepeated(p) \/ RepairRejected(p)
      PROVE  /\ turns'.ops = turns.ops /\ UNCHANGED <<tree, wrote>>
             /\ pc # "idle" /\ pc' # "idle"
    BY <1>1, <1>5 DEF RepairRepeated, RepairRejected, Turn, ghosts
<1>6. CASE RunTests \/ RunVerification \/ BeginReview
    BY <1>6 DEF RunTests, RunVerification, RunCommands, BeginReview, Turn, ghosts
<1>7. CASE RecordTests \/ Analyze
    BY <1>1, <1>7 DEF RecordTests, Analyze, CertifyRun, Turn, ghosts
<1>8. ASSUME NEW ok \in BOOLEAN, EndReview(ok)
      PROVE  /\ turns'.ops = turns.ops /\ UNCHANGED <<tree, wrote>>
             /\ pc # "idle" /\ pc' # "idle"
    BY <1>1, <1>8 DEF EndReview
<1>9. CASE RecordVerification
    BY <1>1, <1>9 DEF RecordVerification, NotVerified, CertifyRun
<1>10. CASE Assess
    BY <1>1, <1>10 DEF Assess, NotVerified, ghosts
<1> QED BY <1>2, <1>3, <1>4, <1>5, <1>6, <1>7, <1>8, <1>9, <1>10 DEF Quiet

\* A turn leaves the checkpoint as it was, or saves what it has.
Saves ==
    \/ UNCHANGED saved
    \/ saved'.turns = turns' /\ saved'.store = store' /\ saved'.stage # "COMPLETED"

LEMMA CheckpointSaves ==
    ASSUME NEW stage, stage # "COMPLETED", Checkpoint(stage)
    PROVE  Saves
BY DEF Checkpoint, Saves

\* What the two kinds of writing turn have in common.
LEMMA WritesTyped ==
    ASSUME TypeOK, NEW p \in Patches, Implement(p) \/ Repair(p)
    PROVE  /\ turns'.ops = turns.ops \cup DOMAIN p /\ wrote' = wrote \cup DOMAIN p
           /\ DOMAIN p \subseteq Files /\ tree' \in Trees
           /\ \A e \in Held(store') : e.valid => e.kind \notin {"test", "review"}
           /\ pc # "idle" /\ pc' = "TESTING" /\ UNCHANGED <<passed, approved, raced>>
           /\ Saves
<1>1. CASE Implement(p)
  <2>1. /\ EndTurn("IMPLEMENTING") \in TurnsType /\ Heard \in StoreType
        /\ EndTurn("IMPLEMENTING").ops = turns.ops
      BY <1>1, TurnTyped, HeardTyped DEF TypeOK
  <2>2. Write(p, "IMPLEMENTING", Heard, EndTurn("IMPLEMENTING")) /\ pc = "IMPLEMENTING"
      BY <1>1 DEF Implement, Turn
  <2>3. /\ tree' \in Trees /\ turns'.ops = turns.ops \cup DOMAIN p
        /\ wrote' = wrote \cup DOMAIN p
        /\ \A e \in Held(store') : e.valid => e.kind \notin {"test", "review"}
      BY <2>1, <2>2, WriteTyped DEF Stages
  <2> QED BY <2>2, <2>3, PatchTyped, CheckpointSaves DEF Write
<1>2. CASE Repair(p)
  <2> DEFINE ts == [EndTurn("REPAIRING") EXCEPT !.sigs = @ \cup {p}]
  <2>1. EndTurn("REPAIRING") \in TurnsType /\ EndTurn("REPAIRING").ops = turns.ops
      BY TurnTyped DEF TypeOK
  <2>2. ts \in TurnsType /\ ts.ops = turns.ops
      BY <2>1 DEF TurnsType
  <2>3. Write(p, "REPAIRING", store, ts) /\ pc = "REPAIRING" /\ store \in StoreType
      BY <1>2 DEF Repair, Turn, TypeOK
  <2> HIDE DEF ts
  <2>4. /\ tree' \in Trees /\ turns'.ops = turns.ops \cup DOMAIN p
        /\ wrote' = wrote \cup DOMAIN p
        /\ \A e \in Held(store') : e.valid => e.kind \notin {"test", "review"}
      BY <2>2, <2>3, WriteTyped DEF Stages
  <2> QED BY <2>3, <2>4, PatchTyped, CheckpointSaves DEF Write
<1> QED BY <1>1, <1>2

LEMMA StepSplit == Step => Quiet \/ Return \/ \E p \in Patches : Implement(p) \/ Repair(p)
BY DEF Step, Quiet

LEMMA AccountStep == TypeOK /\ WritesAccounted /\ [Next]_vars => WritesAccounted'
<1> SUFFICES ASSUME TypeOK, WritesAccounted, [Next]_vars PROVE WritesAccounted'
    OBVIOUS
<1>1. CASE UNCHANGED vars
    BY <1>1 DEF vars, ghosts, WritesAccounted
<1>2. CASE Quiet
    BY <1>2, QuietTyped DEF WritesAccounted
<1>3. ASSUME NEW p \in Patches, Implement(p) \/ Repair(p) PROVE WritesAccounted'
    BY <1>3, WritesTyped DEF WritesAccounted
<1>4. CASE Return \/ Crash
    BY <1>4 DEF Return, Crash, Forget, Unsaved, Ends, WritesAccounted
<1>5. CASE Foreign
    BY <1>5 DEF Foreign, WritesAccounted
<1>6. CASE Call
  <2>1. turns' = saved.turns /\ UNCHANGED <<saved, wrote>> /\ pc = "idle"
      BY <1>6 DEF Call, Restored, ghosts
  <2> QED BY <2>1 DEF WritesAccounted
<1>7. ASSUME NEW f \in Files, NEW c \in Contents, Edit(f, c) PROVE WritesAccounted'
    BY <1>7 DEF Edit, ghosts, WritesAccounted
<1> QED BY <1>1, <1>2, <1>3, <1>4, <1>5, <1>6, <1>7, StepSplit DEF Next

\* Whatever a turn wrote and a checkpoint kept is among the operations that the gates
\* of every later call look at, through any number of crashes, failed checkpoints and
\* resumptions (ImplementationTurn.applied_operations, _execute_code_generation).
THEOREM WritesAreAccounted == Spec => []WritesAccounted
<1>1. Init => WritesAccounted
    BY DEF Init, WritesAccounted
<1> QED BY <1>1, TypeInit, TypeStep, AccountStep, PTL DEF Spec

-----------------------------------------------------------------------------
(* The promise.                                                            *)

\* A store stays sound when its valid tests and reviews are kept or new ones are
\* covered, and the entries of failed commands are not dropped.
LEMMA SoundKept ==
    ASSUME NEW st, NEW new, NEW ops, NEW P, NEW A, NEW Q, NEW B, Sound(st, ops, P, A),
           P \subseteq Q, A \subseteq B,
           \A e \in Held(new) : e.valid /\ e.kind \in {"test", "review"} => e \in Held(st),
           Commands # 1 => \A d \in Held(st) : d.valid /\ d.kind = "test" /\ ~d.ok
                                               => d \in Held(new)
    PROVE  Sound(new, ops, Q, B)
<1> SUFFICES ASSUME NEW e \in Held(new), e.valid, e.ok
             PROVE  /\ e.kind \in {"test", "review"} => ops \subseteq e.paths
                    /\ e.kind = "test" => Backed(e, Q) \/ Blamed(new, e)
                    /\ e.kind = "review" => Backed(e, B)
    BY DEF Sound
<1>1. CASE e.kind \in {"test", "review"}
  <2>1. e \in Held(st)
      BY <1>1
  <2>2. /\ ops \subseteq e.paths
        /\ e.kind = "test" => Backed(e, P) \/ Blamed(st, e)
        /\ e.kind = "review" => Backed(e, A)
      BY <1>1, <2>1 DEF Sound
  <2>3. Backed(e, P) => Backed(e, Q)
      BY DEF Backed
  <2>4. Backed(e, A) => Backed(e, B)
      BY DEF Backed
  <2>5. Blamed(st, e) => Blamed(new, e)
      BY DEF Blamed
  <2> QED BY <2>2, <2>3, <2>4, <2>5
<1> QED BY <1>1

\* What a turn has to show.
LEMMA PromiseWithin ==
    ASSUME PromiseInv,
           Sound(store', turns'.ops, passed' \cup raced', approved' \cup raced'),
           passed \subseteq passed', approved \subseteq approved', raced \subseteq raced',
           pc' = "assessing" => "test" \in store'.ever,
           Saves
    PROVE  PromiseInv'
<1>1. CASE UNCHANGED saved
  <2>1. Sound(saved.store, saved.turns.ops, passed \cup raced, approved \cup raced)
      BY DEF PromiseInv
  <2>2. Sound(saved.store, saved.turns.ops, passed' \cup raced', approved' \cup raced')
      BY <2>1, SoundKept
  <2> QED BY <1>1, <2>2 DEF PromiseInv
<1>2. CASE saved'.turns = turns' /\ saved'.store = store' /\ saved'.stage # "COMPLETED"
    BY <1>2 DEF PromiseInv
<1> QED BY <1>1, <1>2 DEF Saves

LEMMA PromiseInit == Init => PromiseInv
<1> SUFFICES ASSUME Init PROVE PromiseInv
    OBVIOUS
<1>1. Held(EmptyStore) = {}
    BY DEF Held, EmptyStore
<1>2. store = EmptyStore /\ saved.store = EmptyStore /\ saved.stage = "none" /\ pc = "idle"
    BY DEF Init, NoCheckpoint
<1> QED BY <1>1, <1>2 DEF PromiseInv, Sound

\* Turns that record nothing about tests and reviews.
LEMMA PromiseQuiet ==
    ASSUME TypeOK, PromiseInv, RunsAreWhole',
           \/ OutOfTurns \/ Ask \/ ImplementBroken \/ RepairBroken \/ RepairEmpty
           \/ ImplementEmpty \/ ImplementRejected \/ RunTests \/ RunVerification \/ BeginReview
           \/ Analyze \/ \E p \in Patches : RepairRepeated(p) \/ RepairRejected(p)
    PROVE  PromiseInv'
<1>1. /\ turns'.ops = turns.ops /\ store \in StoreType
    BY QuietTyped DEF Quiet, TypeOK
<1>2. Sound(store, turns.ops, passed \cup raced, approved \cup raced)
    BY DEF PromiseInv
<1>3. ASSUME UNCHANGED <<store, passed, approved, raced>>, pc' # "assessing",
             Saves
      PROVE  PromiseInv'
    BY <1>1, <1>2, <1>3, PromiseWithin
<1>4. CASE OutOfTurns \/ Ask \/ RunTests \/ RunVerification \/ BeginReview
  <2>1. UNCHANGED <<saved, store, passed, approved, raced>>
      BY <1>4 DEF OutOfTurns, Ask, RunTests, RunVerification, RunCommands, BeginReview, ghosts
  <2>2. pc' # "assessing"
      BY <1>4 DEF OutOfTurns, Ask, RunTests, RunVerification, RunCommands, BeginReview, Turn
  <2> QED BY <1>3, <2>1, <2>2 DEF Saves
<1>5. CASE ImplementBroken \/ RepairBroken
  <2>1. PICK stage \in {"IMPLEMENTING", "REPAIRING"} : Broken(stage)
      BY <1>5 DEF ImplementBroken, RepairBroken
  <2>2. /\ pc' \in {"PAUSED", "FAILED"} /\ UNCHANGED <<store, passed, approved, raced>>
        /\ saved' = [stage |-> pc', turns |-> turns', store |-> store]
      BY <2>1 DEF Broken, ghosts
  <2>3. saved'.turns = turns' /\ saved'.store = store' /\ saved'.stage # "COMPLETED"
      BY <2>2
  <2> QED BY <1>3, <2>2, <2>3 DEF Saves
<1>6. CASE RepairEmpty \/ \E p \in Patches : RepairRepeated(p) \/ RepairRejected(p)
  <2>1. /\ UNCHANGED <<store, passed, approved, raced>> /\ pc' # "assessing"
        /\ Checkpoint("REPAIRING") \/ Checkpoint("FAILED")
      BY <1>6 DEF RepairEmpty, RepairRepeated, RepairRejected, ghosts
  <2> QED BY <1>3, <2>1, CheckpointSaves
<1>7. CASE ImplementEmpty \/ ImplementRejected
  <2>1. /\ UNCHANGED <<passed, approved, raced>> /\ pc' # "assessing" /\ store' = Heard
        /\ UNCHANGED saved \/ Checkpoint("IMPLEMENTING")
      BY <1>7 DEF ImplementEmpty, ImplementRejected, ghosts
  <2>2. /\ \A e \in Held(store') : e.valid /\ e.kind \in {"test", "review"} => e \in Held(store)
        /\ Commands # 1 => Held(store) \subseteq Held(store')
      BY <2>1, HeardTyped DEF RunsAreWhole
  <2>3. Sound(store', turns'.ops, passed' \cup raced', approved' \cup raced')
      BY <1>1, <1>2, <2>1, <2>2, SoundKept
  <2>4. Saves
      BY <2>1, CheckpointSaves DEF Saves
  <2> QED BY <2>1, <2>3, <2>4, PromiseWithin
<1>8. CASE Analyze
  <2> DEFINE ev == Evidence("repair", FALSE, {}, tree)
  <2>1. ev \in EntryType /\ ev.kind = "repair"
    <3>1. ev \in EntryType
        BY EvidenceTyped DEF TypeOK, Kinds
    <3> QED BY <3>1 DEF Evidence
  <2> HIDE DEF ev
  <2>2. /\ UNCHANGED <<passed, approved, raced>> /\ pc' # "assessing"
        /\ store' = store \/ store' = Record(store, ev)
        /\ Checkpoint("ANALYZING_FAILURE") \/ Checkpoint("FAILED")
      BY <1>8 DEF Analyze, ghosts, ev
  <2>3. /\ \A e \in Held(store') : e.valid /\ e.kind \in {"test", "review"} => e \in Held(store)
        /\ Commands # 1 => Held(store) \subseteq Held(store')
      BY <1>1, <2>1, <2>2, RecordOneTyped DEF RunsAreWhole
  <2>4. Sound(store', turns'.ops, passed' \cup raced', approved' \cup raced')
      BY <1>1, <1>2, <2>2, <2>3, SoundKept
  <2> QED BY <2>2, <2>4, CheckpointSaves, PromiseWithin
<1> QED BY <1>4, <1>5, <1>6, <1>7, <1>8

\* After a write nothing is relied on.
LEMMA PromiseWrites ==
    ASSUME TypeOK, PromiseInv, NEW p \in Patches, Implement(p) \/ Repair(p) PROVE PromiseInv'
<1>1. /\ \A e \in Held(store') : e.valid => e.kind \notin {"test", "review"}
      /\ pc' = "TESTING" /\ UNCHANGED <<passed, approved, raced>>
      /\ Saves
    BY WritesTyped DEF Stages
<1>2. Sound(store', turns'.ops, passed' \cup raced', approved' \cup raced')
    BY <1>1 DEF Sound
<1> QED BY <1>1, <1>2, PromiseWithin

\* The entries of a run are about the files as they are when it ends: either that
\* tree is certified, or the entry of a command that failed blames the others.
LEMMA RunIsSound ==
    ASSUME TypeOK, PromiseInv, RunsAreWhole', CertifyRun,
           NEW es \in Seq(EntryType), store' = RecordAll(store, es),
           \A i \in DOMAIN es : (i \in Cmds /\ es[i] = Results[i]) \/ es[i].kind = "syntax",
           \A c \in Cmds : c \in DOMAIN es /\ es[c] = Results[c]
    PROVE  /\ Sound(store', turns.ops, passed' \cup raced', approved' \cup raced')
           /\ "test" \in store'.ever
           /\ passed \subseteq passed' /\ approved \subseteq approved' /\ raced \subseteq raced'
<1> DEFINE New == { es[i] : i \in DOMAIN es }
<1>1. /\ \A c \in Cmds : Results[c] = Evidence("test", seen.ok[c], turns.ops, tree)
      /\ 1 \in Cmds /\ Commands \in Nat /\ (Commands = 1 => Cmds = {1}) /\ store \in StoreType
    BY ResultsTyped, ConstantsTyped DEF TypeOK, TurnsType, Cmds
<1>2. ASSUME NEW c \in Cmds
      PROVE  /\ Results[c].kind = "test" /\ Results[c].ok = seen.ok[c] /\ Results[c].valid
             /\ Results[c].paths = turns.ops
             /\ Results[c].print = Fingerprint(tree, turns.ops)
  <2>1. Results[c] = [kind |-> "test", ok |-> seen.ok[c], paths |-> turns.ops,
                      print |-> Fingerprint(tree, turns.ops), diff |-> NoDiff,
                      req |-> NoRequirement, valid |-> TRUE]
      BY <1>1 DEF Evidence
  <2>2. Results[c].valid = TRUE
      BY <2>1
  <2> QED BY <2>1, <2>2
<1>3. /\ Held(store') \subseteq Held(store) \cup New
      /\ Commands # 1 => Held(store) \cup New \subseteq Held(store')
      /\ store'.ever = store.ever \cup { es[i].kind : i \in DOMAIN es }
    BY <1>1, RecordTyped DEF RunsAreWhole
<1>4. /\ passed \subseteq passed' /\ raced \subseteq raced' /\ UNCHANGED approved
      /\ AllPassed => tree \in passed' \cup raced'
    BY CertifyTyped
<1>5. "test" \in store'.ever
    BY <1>1, <1>2, <1>3
<1>6. ASSUME NEW e \in New, e.valid, e.ok
      PROVE  /\ e.kind \in {"test", "review"} => turns.ops \subseteq e.paths
             /\ e.kind = "test" => Backed(e, passed' \cup raced') \/ Blamed(store', e)
             /\ e.kind # "review"
  <2>1. CASE e.kind = "syntax"
      BY <2>1
  <2>2. ASSUME NEW c \in Cmds, e = Results[c]
        PROVE  /\ e.kind = "test" /\ e.paths = turns.ops
               /\ Backed(e, passed' \cup raced') \/ Blamed(store', e)
    <3>1. /\ e.kind = "test" /\ e.paths = turns.ops /\ seen.ok[c]
          /\ e.print = Fingerprint(tree, turns.ops)
        BY <1>2, <1>6, <2>2
    <3>2. CASE AllPassed
        BY <1>4, <3>1, <3>2 DEF Backed
    <3>3. CASE ~AllPassed
      <4>1. PICK d \in Cmds : ~seen.ok[d]
          BY <3>3 DEF AllPassed
      <4>2. Commands # 1
          BY <1>1, <3>1, <4>1
      <4>3. Results[d] \in New
          OBVIOUS
      <4>4. Results[d] \in Held(store')
          BY <1>3, <4>2, <4>3
      <4>5. /\ Results[d].valid /\ Results[d].kind = "test" /\ ~Results[d].ok
            /\ Results[d].paths = e.paths /\ Results[d].print = e.print
          BY <1>2, <3>1, <4>1
      <4> QED BY <3>1, <4>2, <4>4, <4>5 DEF Blamed
    <3> QED BY <3>1, <3>2, <3>3
  <2> QED BY <2>1, <2>2
<1>7. ASSUME NEW e \in Held(store'), e.valid, e.ok
      PROVE  /\ e.kind \in {"test", "review"} => turns.ops \subseteq e.paths
             /\ e.kind = "test" => Backed(e, passed' \cup raced') \/ Blamed(store', e)
             /\ e.kind = "review" => Backed(e, approved' \cup raced')
  <2> HIDE DEF New
  <2>1. CASE e \in New
      BY <1>6, <1>7, <2>1
  <2>2. CASE e \in Held(store)
    <3>1. /\ e.kind \in {"test", "review"} => turns.ops \subseteq e.paths
          /\ e.kind = "test" => Backed(e, passed \cup raced) \/ Blamed(store, e)
          /\ e.kind = "review" => Backed(e, approved \cup raced)
        BY <1>7, <2>2 DEF PromiseInv, Sound
    <3>2. Backed(e, passed \cup raced) => Backed(e, passed' \cup raced')
        BY <1>4 DEF Backed
    <3>3. Backed(e, approved \cup raced) => Backed(e, approved' \cup raced')
        BY <1>4 DEF Backed
    <3>4. Blamed(store, e) => Blamed(store', e)
        BY <1>3 DEF Blamed
    <3> QED BY <3>1, <3>2, <3>3, <3>4
  <2> QED BY <1>3, <2>1, <2>2
<1> HIDE DEF New
<1> QED BY <1>4, <1>5, <1>7 DEF Sound

LEMMA PromiseTests == ASSUME TypeOK, PromiseInv, RunsAreWhole', RecordTests PROVE PromiseInv'
<1>1. /\ Results \in Seq(EntryType) /\ DOMAIN Results = Cmds /\ store' = RecordAll(store, Results)
      /\ CertifyRun /\ turns'.ops = turns.ops /\ pc' # "assessing"
    BY ResultsTyped, QuietTyped DEF RecordTests, TypeOK, TurnsType, Quiet
<1>2. /\ Sound(store', turns'.ops, passed' \cup raced', approved' \cup raced')
      /\ passed \subseteq passed' /\ approved \subseteq approved' /\ raced \subseteq raced'
    BY <1>1, RunIsSound
<1>3. Saves
    BY CheckpointSaves DEF RecordTests
<1> QED BY <1>1, <1>2, <1>3, PromiseWithin

LEMMA NotVerifiedKeeps ==
    ASSUME NotVerified
    PROVE  /\ Saves
           /\ pc' \in {"FAILED", "REPAIRING"}
BY CheckpointSaves DEF NotVerified

LEMMA PromiseVerification ==
    ASSUME TypeOK, PromiseInv, RunsAreWhole', RecordVerification PROVE PromiseInv'
<1>1. /\ VerificationResults \in Seq(EntryType)
      /\ \A i \in DOMAIN VerificationResults :
            \/ i \in Cmds /\ VerificationResults[i] = Results[i]
            \/ VerificationResults[i].kind = "syntax"
      /\ \A c \in Cmds : c \in DOMAIN VerificationResults /\ VerificationResults[c] = Results[c]
    BY VerificationTyped
<1>2. store' = RecordAll(store, VerificationResults) /\ CertifyRun /\ turns'.ops = turns.ops
    BY QuietTyped DEF RecordVerification, VerificationResults, Quiet
<1>3. /\ Sound(store', turns'.ops, passed' \cup raced', approved' \cup raced')
      /\ passed \subseteq passed' /\ approved \subseteq approved' /\ raced \subseteq raced'
      /\ "test" \in store'.ever
    BY <1>1, <1>2, RunIsSound
<1>4. Saves
    BY NotVerifiedKeeps DEF RecordVerification, Saves
<1> QED BY <1>3, <1>4, PromiseWithin

LEMMA PromiseReview ==
    ASSUME TypeOK, PromiseInv, RunsAreWhole', NEW ok \in BOOLEAN, EndReview(ok)
    PROVE  PromiseInv'
<1>1. /\ Verdict(ok) \in EntryType /\ Verdict(ok).kind = "review" /\ Verdict(ok).ok = ok
      /\ Verdict(ok).paths = turns.ops /\ Verdict(ok).print = Fingerprint(tree, turns.ops)
      /\ store \in StoreType
    BY VerdictTyped DEF TypeOK
<1>2. /\ store' = Record(store, Verdict(ok)) /\ turns'.ops = turns.ops /\ UNCHANGED passed
      /\ pc' # "assessing" /\ approved \subseteq approved' /\ raced \subseteq raced'
      /\ ok => tree \in approved' \cup raced'
    BY QuietTyped DEF EndReview, Verdict, Quiet
<1>3. /\ Held(store') \subseteq Held(store) \cup {Verdict(ok)}
      /\ Commands # 1 => Held(store) \subseteq Held(store')
    BY <1>1, <1>2, RecordOneTyped DEF RunsAreWhole
<1>4. ASSUME NEW e \in Held(store'), e.valid, e.ok
      PROVE  /\ e.kind \in {"test", "review"} => turns.ops \subseteq e.paths
             /\ e.kind = "test" => Backed(e, passed' \cup raced') \/ Blamed(store', e)
             /\ e.kind = "review" => Backed(e, approved' \cup raced')
  <2>1. CASE e = Verdict(ok)
      BY <1>1, <1>2, <1>4, <2>1 DEF Backed
  <2>2. CASE e \in Held(store)
    <3>1. /\ e.kind \in {"test", "review"} => turns.ops \subseteq e.paths
          /\ e.kind = "test" => Backed(e, passed \cup raced) \/ Blamed(store, e)
          /\ e.kind = "review" => Backed(e, approved \cup raced)
        BY <1>4, <2>2 DEF PromiseInv, Sound
    <3>2. Backed(e, passed \cup raced) => Backed(e, passed' \cup raced')
        BY <1>2 DEF Backed
    <3>3. Backed(e, approved \cup raced) => Backed(e, approved' \cup raced')
        BY <1>2 DEF Backed
    <3>4. Blamed(store, e) => Blamed(store', e)
        BY <1>3 DEF Blamed
    <3> QED BY <3>1, <3>2, <3>3, <3>4
  <2> QED BY <1>3, <2>1, <2>2
<1>5. Sound(store', turns'.ops, passed' \cup raced', approved' \cup raced')
    BY <1>2, <1>4 DEF Sound
<1>6. Saves
    BY CheckpointSaves DEF EndReview
<1> QED BY <1>2, <1>5, <1>6, PromiseWithin

\* Revalidation drops no entry of a failed command while it keeps one of a command
\* that passed in the same run.
LEMMA RevalidateSound ==
    ASSUME NEW st \in StoreType, NEW t, NEW ops, NEW P, NEW A, Sound(st, ops, P, A)
    PROVE  Sound(Revalidate(st, t), ops, P, A)
<1> DEFINE new == Revalidate(st, t)
<1>1. /\ \A e \in Held(new) : e.valid => e \in Held(st) /\ ~Stale(e, t)
      /\ \A e \in Held(st) : e.valid /\ ~Stale(e, t) => e \in Held(new)
    BY RevalidateTyped
<1> HIDE DEF new
<1>2. ASSUME NEW e \in Held(new), e.valid, Blamed(st, e) PROVE Blamed(new, e)
  <2>1. PICK d \in Held(st) : /\ d.valid /\ d.kind = "test" /\ ~d.ok
                              /\ d.paths = e.paths /\ d.print = e.print
      BY <1>2 DEF Blamed
  <2>2. ~Stale(d, t)
      BY <1>1, <1>2, <2>1 DEF Stale
  <2> QED BY <1>1, <1>2, <2>1, <2>2 DEF Blamed
<1>3. ASSUME NEW e \in Held(new), e.valid, e.ok
      PROVE  /\ e.kind \in {"test", "review"} => ops \subseteq e.paths
             /\ e.kind = "test" => Backed(e, P) \/ Blamed(new, e)
             /\ e.kind = "review" => Backed(e, A)
    BY <1>1, <1>2, <1>3 DEF Sound
<1> QED BY <1>3 DEF Sound, new

LEMMA PromiseAssess == ASSUME TypeOK, PromiseInv, RunsAreWhole', Assess PROVE PromiseInv'
<1> DEFINE s == Revalidate(store, tree)
<1>1. s \in StoreType /\ Sound(s, turns.ops, passed \cup raced, approved \cup raced)
    BY RevalidateTyped, RevalidateSound DEF TypeOK, PromiseInv
<1>2. /\ store' = Compliance(s) /\ turns'.ops = turns.ops /\ UNCHANGED <<passed, approved, raced>>
    BY QuietTyped DEF Assess, Quiet, ghosts
<1> HIDE DEF s
<1>3. /\ \A e \in Held(store') : e \in Held(s) \/ e.kind = "compliance"
      /\ Commands # 1 => Held(s) \subseteq Held(store')
    BY <1>1, <1>2, ComplianceTyped DEF TypeOK, RunsAreWhole
<1>4. Sound(store', turns'.ops, passed' \cup raced', approved' \cup raced')
    BY <1>1, <1>2, <1>3, SoundKept
<1>5. /\ Saves
      /\ pc' # "assessing"
    BY NotVerifiedKeeps, CheckpointSaves DEF Assess
<1> QED BY <1>2, <1>4, <1>5, PromiseWithin

LEMMA PromiseAround ==
    ASSUME TypeOK, PromiseInv,
           Call \/ Return \/ Crash \/ Foreign \/ \E f \in Files, c \in Contents : Edit(f, c)
    PROVE  PromiseInv'
<1> USE DEF ghosts
<1>1. CASE Call
  <2>1. /\ turns' = saved.turns /\ store' = Revalidate(saved.store, tree)
        /\ UNCHANGED <<saved, passed, approved, raced>>
        /\ pc' \in {"IMPLEMENTING", saved.stage}
        /\ pc' = "IMPLEMENTING" \/ saved.turns.n # 0
      BY <1>1 DEF Call, Restored
  <2>2. pc' # "assessing"
      BY <2>1 DEF TypeOK, Stages, Ends
  <2>3. Sound(store', turns'.ops, passed' \cup raced', approved' \cup raced')
      BY <2>1, RevalidateSound DEF TypeOK, PromiseInv
  <2> QED BY <2>1, <2>2, <2>3, PromiseWithin DEF Saves
<1>2. CASE Forget
  <2>1. /\ store' = EmptyStore /\ pc' = "idle" /\ UNCHANGED <<saved, passed, approved, raced>>
      BY <1>2 DEF Forget
  <2>2. Sound(store', turns'.ops, passed' \cup raced', approved' \cup raced')
      BY <2>1 DEF Sound, Held, EmptyStore
  <2> QED BY <2>1, <2>2, PromiseWithin DEF Saves
<1>3. CASE Foreign
  <2>1. /\ saved' = [NoCheckpoint EXCEPT !.store = saved.store]
        /\ UNCHANGED <<store, turns, pc, passed, approved, raced>>
      BY <1>3 DEF Foreign
  <2>2. saved'.store = saved.store /\ saved'.turns.ops = {} /\ saved'.stage = "none"
      BY <2>1 DEF NoCheckpoint, NoTurns
  <2>3. Sound(saved'.store, saved'.turns.ops, passed' \cup raced', approved' \cup raced')
      BY <2>1, <2>2 DEF PromiseInv, Sound
  <2> QED BY <2>1, <2>2, <2>3 DEF PromiseInv
<1>4. ASSUME NEW f \in Files, NEW c \in Contents, Edit(f, c) PROVE PromiseInv'
    BY <1>4 DEF Edit, PromiseInv
<1> QED BY <1>1, <1>2, <1>3, <1>4 DEF Return, Crash

LEMMA PromiseStep == TypeOK /\ PromiseInv /\ RunsAreWhole' /\ [Next]_vars => PromiseInv'
<1> SUFFICES ASSUME TypeOK, PromiseInv, RunsAreWhole', [Next]_vars PROVE PromiseInv'
    OBVIOUS
<1>1. CASE UNCHANGED vars
    BY <1>1 DEF vars, ghosts, PromiseInv
<1>2. CASE Quiet
    BY <1>2, PromiseQuiet, PromiseTests, PromiseVerification, PromiseReview, PromiseAssess
    DEF Quiet
<1> QED BY <1>1, <1>2, StepSplit, PromiseWrites, PromiseAround DEF Next

-----------------------------------------------------------------------------
(* The refinement, step by step.                                           *)

\* A run that passed certifies the tree it saw; one that failed is a stutter.
LEMMA RunCertifies ==
    ASSUME TypeOK, RecordTests \/ RecordVerification
    PROVE  [Promise!Next]_(Promise!vars)
<1>1. /\ CertifyRun /\ UNCHANGED <<tree, wrote, approved>> /\ seen.tree \in Trees
      /\ (pc' = "COMPLETED") = (pc = "COMPLETED")
    BY QuietTyped DEF RecordTests, RecordVerification, NotVerified, CertifyRun, TypeOK, Quiet
<1>2. CASE AllPassed
  <2>1. passed' = passed \cup {seen.tree}
      BY <1>1, <1>2 DEF CertifyRun
  <2>2. raced' \in {raced} \cup (IF seen.tree # tree THEN {raced \cup {tree}} ELSE {})
      BY <1>1, <1>2 DEF CertifyRun
  <2>3. Promise!Certify
      BY <1>1, <2>1, <2>2 DEF Promise!Certify, Promise!Trees, Trees
  <2> QED BY <2>3 DEF Promise!Next
<1>3. CASE ~AllPassed
    BY <1>1, <1>3 DEF CertifyRun, Promise!vars
<1> QED BY <1>2, <1>3

LEMMA ReviewCertifies ==
    ASSUME TypeOK, NEW ok \in BOOLEAN, EndReview(ok)
    PROVE  [Promise!Next]_(Promise!vars)
<1>1. /\ UNCHANGED <<tree, wrote, passed>> /\ seen.tree \in Trees
      /\ (pc' = "COMPLETED") = (pc = "COMPLETED")
      /\ approved' = IF ok THEN approved \cup {seen.tree} ELSE approved
      /\ raced' = IF ok /\ seen.tree # tree THEN raced \cup {tree} ELSE raced
    BY QuietTyped DEF EndReview, TypeOK, Quiet
<1>2. CASE ok
  <2>1. raced' \in {raced} \cup (IF seen.tree # tree THEN {raced \cup {tree}} ELSE {})
      BY <1>1, <1>2
  <2>2. Promise!Certify
      BY <1>1, <1>2, <2>1 DEF Promise!Certify, Promise!Trees, Trees
  <2> QED BY <2>2 DEF Promise!Next
<1>3. CASE ~ok
    BY <1>1, <1>3 DEF Promise!vars
<1> QED BY <1>2, <1>3

\* An entry that is not stale reads, on everything the agent wrote, as the tree that
\* backs it.
LEMMA BackedReads ==
    ASSUME TypeOK, NEW e, NEW S, Backed(e, S), ~Stale(e, tree), wrote \subseteq e.paths
    PROVE  Promise!AsIn(S, wrote)
<1>1. PICK t \in S : Fingerprint(t, e.paths) = e.print
    BY DEF Backed
<1>2. ASSUME NEW f \in wrote PROVE t[f] = tree[f]
  <2>1. f \in e.paths /\ Fingerprint(tree, e.paths) = Fingerprint(t, e.paths)
      BY <1>1, <1>2 DEF Stale
  <2>2. Fingerprint(tree, e.paths)[f] = Fingerprint(t, e.paths)[f]
      BY <2>1
  <2> QED BY <2>1, <2>2 DEF Fingerprint
<1> QED BY <1>2 DEF Promise!AsIn, Promise!Agree

\* The gates let a task finish only with a passing run and an approval of the files.
LEMMA FinishKeeps ==
    ASSUME TypeOK, WritesAccounted, PromiseInv, Assess, pc' = "COMPLETED"
    PROVE  Promise!Finish
<1> DEFINE s == Revalidate(store, tree)
<1>1. /\ pc = "assessing" /\ UNCHANGED <<tree, wrote, passed, approved, raced>> /\ Ready(s)
    BY QuietTyped DEF Assess, NotVerified, ghosts, Quiet
<1>2. /\ \A e \in Held(s) : e.valid => e \in Held(store) /\ ~Stale(e, tree)
      /\ \A e \in Held(store) : e.valid /\ ~Stale(e, tree) => e \in Held(s)
      /\ s.ever = store.ever
    BY RevalidateTyped DEF TypeOK
<1> HIDE DEF s
<1>3. ReviewApproved(s, Diff(tree, turns.ops), review)
      /\ ValidationPassed(s, tree, turns.ops, Diff(tree, turns.ops), review)
    BY <1>1 DEF Ready, Readiness
<1>4. Failing(s) = {} /\ Passing(s) # {} /\ Approvals(s) # {}
    BY <1>1, <1>2, <1>3 DEF ReviewApproved, ValidationPassed, WasEverRecorded, PromiseInv
<1>5. /\ \A e : e \in Passing(s) <=> e \in Held(s) /\ e.valid /\ e.kind = "test" /\ e.ok
      /\ \A e : e \in Failing(s) <=> e \in Held(s) /\ e.valid /\ e.kind = "test" /\ ~e.ok
      /\ \A e : e \in Approvals(s) <=> e \in Held(s) /\ e.valid /\ e.kind = "review" /\ e.ok
    BY DEF Passing, Failing, Approvals, ValidEvidence, Held
<1>6. wrote \subseteq turns.ops
    BY <1>1 DEF WritesAccounted
<1>7. Promise!AsIn(passed \cup raced, wrote)
  <2>1. PICK e \in Passing(s) : TRUE
      BY <1>4
  <2>2. e \in Held(store) /\ e.valid /\ e.kind = "test" /\ e.ok /\ ~Stale(e, tree)
      BY <1>2, <1>5, <2>1
  <2>3. turns.ops \subseteq e.paths /\ (Backed(e, passed \cup raced) \/ Blamed(store, e))
      BY <2>2 DEF PromiseInv, Sound
  <2>4. ~Blamed(store, e)
    <3> SUFFICES ASSUME NEW d \in Held(store), d.valid, d.kind = "test", ~d.ok,
                        d.paths = e.paths, d.print = e.print
                 PROVE  FALSE
        BY DEF Blamed
    <3>1. ~Stale(d, tree)
        BY <2>2 DEF Stale
    <3>2. d \in Failing(s)
        BY <1>2, <1>5, <3>1
    <3> QED BY <1>4, <3>2
  <2> QED BY <1>6, <2>2, <2>3, <2>4, BackedReads
<1>8. Promise!AsIn(approved \cup raced, wrote)
  <2>1. PICK e \in Approvals(s) : TRUE
      BY <1>4
  <2>2. e \in Held(store) /\ e.valid /\ e.kind = "review" /\ e.ok /\ ~Stale(e, tree)
      BY <1>2, <1>5, <2>1
  <2>3. turns.ops \subseteq e.paths /\ Backed(e, approved \cup raced)
      BY <2>2 DEF PromiseInv, Sound
  <2> QED BY <1>6, <2>2, <2>3, BackedReads
<1> QED BY <1>1, <1>7, <1>8 DEF Promise!Finish

\* The other steps change files, or nothing the promise is about.
LEMMA StepKeeps ==
    ASSUME TypeOK, TypeOK', WritesAccounted, PromiseInv, [Next]_vars
    PROVE  [Promise!Next]_(Promise!vars)
<1> DEFINE Done == pc = "COMPLETED"
<1>1. CASE UNCHANGED vars
    BY <1>1 DEF vars, ghosts, Promise!vars
<1>2. ASSUME (pc' = "COMPLETED") \in {pc = "COMPLETED", FALSE},
             UNCHANGED <<passed, approved, raced>>
      PROVE  [Promise!Next]_(Promise!vars)
  <2>1. tree' \in Promise!Trees /\ wrote' \in SUBSET Files
      BY DEF TypeOK, Trees, Promise!Trees
  <2>2. Promise!Change
      BY <1>2, <2>1 DEF Promise!Change
  <2> QED BY <2>2 DEF Promise!Next
<1>3. CASE Quiet
  <2>1. CASE Assess
    <3>1. CASE pc' = "COMPLETED"
        BY <2>1, <3>1, FinishKeeps DEF Promise!Next
    <3>2. CASE pc' # "COMPLETED"
        BY <1>2, <2>1, <3>2 DEF Assess, ghosts
    <3> QED BY <3>1, <3>2
  <2>2. CASE \/ OutOfTurns \/ Ask \/ RepairEmpty \/ ImplementEmpty \/ ImplementRejected
             \/ \E p \in Patches : RepairRepeated(p) \/ RepairRejected(p)
             \/ RunTests \/ RunVerification \/ Analyze \/ BeginReview
    <3>1. UNCHANGED <<passed, approved, raced>>
        BY <2>2 DEF OutOfTurns, Ask, RepairEmpty, ImplementEmpty, ImplementRejected,
                    RepairRepeated, RepairRejected, RunTests, RunVerification, RunCommands,
                    Analyze, BeginReview, ghosts
    <3>2. pc' # "COMPLETED"
        BY <2>2 DEF OutOfTurns, Ask, RepairEmpty, ImplementEmpty, ImplementRejected,
                    RepairRepeated, RepairRejected, RunTests, RunVerification, RunCommands,
                    Analyze, BeginReview, Turn, Stages
    <3> QED BY <1>2, <3>1, <3>2
  <2>3. CASE ImplementBroken \/ RepairBroken
    <3>1. pc' # "COMPLETED" /\ UNCHANGED <<passed, approved, raced>>
        BY <2>3 DEF ImplementBroken, RepairBroken, Broken, ghosts
    <3> QED BY <1>2, <3>1
  <2> QED BY <1>3, <2>1, <2>2, <2>3, RunCertifies, ReviewCertifies DEF Quiet
<1>4. ASSUME NEW p \in Patches, Implement(p) \/ Repair(p) PROVE [Promise!Next]_(Promise!vars)
  <2>1. pc' # "COMPLETED" /\ UNCHANGED <<passed, approved, raced>>
      BY <1>4, WritesTyped
  <2> QED BY <1>2, <2>1
<1>5. CASE Return \/ Crash
  <2>1. pc' # "COMPLETED" /\ UNCHANGED <<passed, approved, raced>>
      BY <1>5 DEF Return, Crash, Forget
  <2> QED BY <1>2, <2>1
<1>6. CASE Foreign \/ \E f \in Files, c \in Contents : Edit(f, c)
  <2>1. pc' = pc /\ UNCHANGED <<passed, approved, raced>>
      BY <1>6 DEF Foreign, Edit, ghosts
  <2> QED BY <1>2, <2>1
<1>7. CASE Call
  <2>1. pc' # "COMPLETED" /\ UNCHANGED <<passed, approved, raced>>
      BY <1>7 DEF Call, ghosts, PromiseInv
  <2> QED BY <1>2, <2>1
<1> QED BY <1>1, <1>3, <1>4, <1>5, <1>6, <1>7, StepSplit DEF Next

LEMMA InitKeeps == Init => Promise!Init
BY ConstantsTyped DEF Init, Promise!Init, Promise!Trees, Trees

\* The agent implements its promise as long as the store evicts no part of a run:
\* completion is reported only for files that read, on all paths the agent wrote, as
\* when every command passed and as when a reviewer approved them, whatever is
\* edited, lost, resumed or paused in between (_assess_completion, the gates of
\* CompletionDecisionEngine.evaluate).
THEOREM PromiseIsKept == Spec /\ []RunsAreWhole => KeepsPromise
<1>1. TypeOK /\ WritesAccounted /\ PromiseInv /\ RunsAreWhole' /\ [Next]_vars
      => TypeOK' /\ WritesAccounted' /\ PromiseInv' /\ [Promise!Next]_(Promise!vars)
    BY TypeStep, AccountStep, PromiseStep, StepKeeps
<1>2. Init => WritesAccounted
    BY DEF Init, WritesAccounted
<1> QED BY <1>1, <1>2, TypeInit, PromiseInit, InitKeeps, PTL DEF Spec, KeepsPromise, Promise!Spec
=============================================================================
