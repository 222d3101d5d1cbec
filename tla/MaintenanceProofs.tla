-------------------------- MODULE MaintenanceProofs --------------------------
(***************************************************************************)
(* Proofs about maintenance: the executor, for any number of processes,    *)
(* files, defects and disturbances; the runs over it; the tiers the policy *)
(* grants; and what a run reports.                                         *)
(***************************************************************************)
EXTENDS MaintenanceRunner, MaintenanceReport, FiniteSetTheorems, TLAPS

-----------------------------------------------------------------------------
(* Types.                                                                  *)

LEMMA NothingTyped == NoContent \in Contents
BY DEF NoContent, Contents

LEMMA DefectsTyped == ASSUME NEW f PROVE DefectsOf(f) \subseteq Candidates
BY DEF DefectsOf

\* Whatever the agent and a broken write leave in a file is a content
LEMMA ResultsTyped ==
    ASSUME TypeOK, NEW p \in Procs, job[p] \in Candidates
    PROVE  Results(p) \subseteq Contents /\ Torn(p) \subseteq Contents
<1>1. MyFile(p) \in Files /\ Now(p) \in Contents
    BY FileAssumption DEF TypeOK, MyFile, Now
<1>2. seen[p] \in Contents /\ new[p] \in Contents
    BY DEF TypeOK
<1>3. DefectsOf(MyFile(p)) \subseteq Candidates
    BY DefectsTyped
<1>4. seen[p].rev \in Nat /\ Now(p).rev \in Nat /\ new[p].rev \in Nat
    BY <1>1, <1>2 DEF Contents
<1> QED BY <1>1, <1>2, <1>3, <1>4 DEF Results, Torn, Contents

LEMMA DisturbTyped ==
    ASSUME NEW e, TypeOK, Disturb(e)
    PROVE  disturbed' \in 0..MaxDisturbances /\ ordered' \in 0..MaxOrders
BY BoundAssumption DEF Disturb, TypeOK

\* The end of an order, whatever becomes of the journal and the tree
LEMMA EndTyped ==
    ASSUME TypeOK, NEW p \in Procs, End(p)
    PROVE  /\ pc' \in [Procs -> Points] /\ job' \in [Procs -> Candidates \cup {None}]
           /\ seen' \in [Procs -> Contents] /\ key' \in [Procs -> Keys \cup {NoKey}]
           /\ new' \in [Procs -> Contents]
           /\ status' \in [Procs -> Meanings \cup {None}]
           /\ \A q \in Procs : /\ pc'[q] # "idle" => job'[q] \in Candidates
                               /\ q \in Holding' => key'[q] \in Keys
BY NothingTyped DEF TypeOK, End, Points, Holding

\* The same when only the claim is left to settle
LEMMA SettleTyped ==
    ASSUME TypeOK, NEW p \in Procs, NEW point \in {"refused", "finished"}, NEW meaning,
           meaning \in Meanings \cup {None},
           p \in Holding, Settle(p, point, meaning)
    PROVE  /\ pc' \in [Procs -> Points] /\ job' \in [Procs -> Candidates \cup {None}]
           /\ seen' \in [Procs -> Contents] /\ key' \in [Procs -> Keys \cup {NoKey}]
           /\ new' \in [Procs -> Contents]
           /\ status' \in [Procs -> Meanings \cup {None}]
           /\ \A q \in Procs : /\ pc'[q] # "idle" => job'[q] \in Candidates
                               /\ q \in Holding' => key'[q] \in Keys
BY NothingTyped DEF TypeOK, Settle, Goto, Points, Holding

LEMMA MeaningTyped == ASSUME NEW r PROVE Meaning(r) \in Meanings \cup {None}
BY DEF Meaning, Meanings

LEMMA TypeGates == ASSUME TypeOK, NEW p \in Procs, Gates(p) PROVE TypeOK'
<1>1. CASE RefuseEarly(p) \/ Stale(p) \/ Duplicate(p)
    BY <1>1, EndTyped DEF TypeOK, RefuseEarly, Stale, Duplicate, journal, ghosts, bounds
<1>2. CASE CheckFresh(p)
    BY <1>2 DEF TypeOK, CheckFresh, Goto, journal, orderVars, ghosts, bounds, Points, Holding
<1>3. CASE Claim(p)
  <2>1. ExecutionKey(p) \in Keys
      BY <1>3, FileAssumption DEF TypeOK, Claim, ExecutionKey, Keys, Now, MyFile
  <2> QED BY <1>3, <2>1, NothingTyped
          DEF TypeOK, Claim, Goto, ghosts, bounds, Points, Holding
<1> QED BY <1>1, <1>2, <1>3 DEF Gates

LEMMA TypeWork == ASSUME TypeOK, NEW p \in Procs, Work(p) PROVE TypeOK'
<1>0. pc[p] # "idle" => job[p] \in Candidates /\ Now(p) \in Contents /\ MyFile(p) \in Files
    BY FileAssumption DEF TypeOK, Now, MyFile
<1>1. CASE Implement(p)
    BY <1>0, <1>1 DEF TypeOK, Implement, Goto, journal, ghosts, bounds, Points, Holding
<1>2. CASE ImplementFails(p)
    BY <1>2, SettleTyped, MeaningTyped DEF ImplementFails, TypeOK, journal, ghosts, bounds,
       Holding
<1>3. CASE Prepare(p)
    BY <1>0, <1>3, ResultsTyped DEF TypeOK, Prepare, Goto, journal, bounds, Points, Holding
<1>4. CASE PrepareFails(p)
    BY <1>4, SettleTyped, MeaningTyped DEF PrepareFails, TypeOK, journal, ghosts, bounds,
       Holding
<1>5. CASE Approve(p)
    BY <1>5 DEF TypeOK, Approve, Goto, journal, orderVars, ghosts, bounds, Points, Holding
<1>6. CASE NotApproved(p)
    BY <1>6, SettleTyped, MeaningTyped DEF NotApproved, TypeOK, journal, ghosts, bounds,
       Holding
<1> QED BY <1>1, <1>2, <1>3, <1>4, <1>5, <1>6 DEF Work

LEMMA TypeChange == ASSUME TypeOK, NEW p \in Procs, Change(p) PROVE TypeOK'
<1>0. pc[p] # "idle" => job[p] \in Candidates /\ Now(p) \in Contents /\ MyFile(p) \in Files
    BY FileAssumption DEF TypeOK, Now, MyFile
<1>1. CASE Apply(p)
    BY <1>0, <1>1 DEF TypeOK, Apply, Goto, journal, orderVars, bounds, Points, Holding
<1>2. CASE ApplyFails(p)
    BY <1>2, SettleTyped, MeaningTyped DEF ApplyFails, TypeOK, journal, ghosts, bounds, Holding
<1>3. CASE ApplyTears(p)
  <2>1. /\ p \in Holding /\ job[p] \in Candidates /\ key[p] \in Keys
        /\ Settle(p, "refused", Meaning("APPLY_FAILED")) /\ Disturb("torn")
      BY <1>3 DEF ApplyTears, TypeOK, Holding
  <2>2. tree' \in [Files -> Contents]
      BY <1>0, <1>3, <2>1, ResultsTyped DEF ApplyTears, TypeOK
  <2>3. disturbed' \in 0..MaxDisturbances /\ ordered' \in 0..MaxOrders
      BY <2>1, DisturbTyped
  <2> QED BY <1>0, <1>3, <2>1, <2>2, <2>3, SettleTyped, MeaningTyped
          DEF ApplyTears, TypeOK, journal
<1>4. CASE Passes(p)
    BY <1>0, <1>4, SettleTyped, MeaningTyped DEF Passes, TypeOK, journal, bounds, Holding
<1>5. CASE Fails(p)
    BY <1>5, MeaningTyped DEF TypeOK, Fails, Goto, journal, ghosts, bounds, Points, Holding
<1>6. CASE RolledBack(p)
  <2>1. p \in Holding /\ status[p] \in Meanings \cup {None}
      BY <1>6 DEF RolledBack, TypeOK, Holding
  <2>2. tree' \in [Files -> Contents] /\ exposed' \subseteq Files
      BY <1>0, <1>6 DEF RolledBack, TypeOK
  <2> QED BY <1>6, <2>1, <2>2, SettleTyped DEF RolledBack, TypeOK, journal, bounds
<1>7. CASE RollbackFails(p)
  <2>1. p \in Holding /\ status[p] \in Meanings \cup {None}
      BY <1>7 DEF RollbackFails, TypeOK, Holding
  <2>2. tree' \in [Files -> Contents]
      BY <1>0, <1>7, ResultsTyped DEF RollbackFails, TypeOK
  <2>3. disturbed' \in 0..MaxDisturbances /\ ordered' \in 0..MaxOrders
      BY <1>7, DisturbTyped DEF RollbackFails, bounds, TypeOK
  <2> QED BY <1>0, <1>7, <2>1, <2>2, <2>3, SettleTyped DEF RollbackFails, TypeOK, journal
<1> QED BY <1>1, <1>2, <1>3, <1>4, <1>5, <1>6, <1>7 DEF Change

LEMMA TypeStep == TypeOK /\ [Next]_vars => TypeOK'
<1> SUFFICES ASSUME TypeOK, [Next]_vars PROVE TypeOK'
    OBVIOUS
<1>1. ASSUME NEW p \in Procs, NEW c \in Candidates, Begin(p, c) PROVE TypeOK'
    BY <1>1, FileAssumption, BoundAssumption
       DEF TypeOK, Begin, Goto, journal, ghosts, Points, Holding
<1>2. ASSUME NEW p \in Procs, Step(p) PROVE TypeOK'
  <2>1. CASE Gates(p) \/ Work(p) \/ Change(p)
      BY <2>1, TypeGates, TypeWork, TypeChange
  <2>2. CASE Release(p)
      BY <2>2, EndTyped DEF TypeOK, Release, ghosts, bounds
  <2>3. CASE Complete(p)
    <3>1. key[p] \in Keys
        BY <2>3 DEF Complete, TypeOK, Holding
    <3> QED BY <2>3, <3>1, EndTyped DEF TypeOK, Complete, ghosts, bounds
  <2> QED BY <1>2, <2>1, <2>2, <2>3 DEF Step
<1>3. ASSUME NEW p \in Procs, Raise(p) PROVE TypeOK'
  <2>1. key[p] \in Keys /\ End(p) /\ Disturb("raise")
      BY <1>3 DEF Raise, TypeOK, Holding
  <2> QED BY <1>3, <2>1, EndTyped, DisturbTyped DEF TypeOK, Raise, journal
<1>4. ASSUME NEW p \in Procs, Kill(p) PROVE TypeOK'
  <2>1. (p \in Holding => key[p] \in Keys) /\ job[p] \in Candidates
        /\ End(p) /\ Disturb("kill")
      BY <1>4 DEF Kill, TypeOK
  <2>2. tree' \in [Files -> Contents] /\ written' \subseteq Keys
      BY <1>4, <2>1, ResultsTyped DEF Kill, TypeOK, Holding
  <2> QED BY <1>4, <2>1, <2>2, EndTyped, DisturbTyped DEF TypeOK, Kill, journal
<1>5. ASSUME NEW f \in Files, UserEdit(f) PROVE TypeOK'
  <2>1. tree' \in [Files -> Contents]
    <3>1. tree[f].rev \in Nat /\ tree[f].rev + 1 \in Nat /\ DefectsOf(f) \subseteq Candidates
        BY DefectsTyped DEF TypeOK, Contents
    <3> QED BY <1>5, <3>1 DEF UserEdit, TypeOK, Contents
  <2>2. Disturb("edit")
      BY <1>5 DEF UserEdit
  <2> QED BY <1>5, <2>1, <2>2, DisturbTyped
          DEF TypeOK, UserEdit, journal, orderVars, ghosts, Holding
<1>6. CASE UNCHANGED vars
    BY <1>6 DEF vars, TypeOK, journal, orderVars, ghosts, bounds, Holding
<1> QED BY <1>1, <1>2, <1>3, <1>4, <1>5, <1>6 DEF Next

LEMMA TypeInit == Init => TypeOK
BY DefectsTyped, NothingTyped, BoundAssumption
   DEF Init, TypeOK, Contents, Points, Holding

\* The execution of a work order keeps its types, and a process holds a key
\* from the claim to the end.
THEOREM TypeCorrect == Spec => []TypeOK
BY TypeInit, TypeStep, PTL DEF Spec

-----------------------------------------------------------------------------
(* Claims.  A key belongs to one process, is in the journal as long as it  *)
(* does, and is not given back once a file was written under it.           *)

ClaimInv ==
    /\ claimed \cap closed = {}
    /\ written \subseteq claimed \cup closed
    /\ \A p \in Holding : key[p] \in claimed /\ key[p].cand = job[p]
    /\ \A p, q \in Holding : key[p] = key[q] => p = q
    /\ \A p \in Holding :
          key[p] \in written => \/ pc[p] \in {"applied", "rollback", "finished"}
                                \/ pc[p] = "refused" /\ status[p] = "final"
    /\ \A p \in Unsettled : key[p] \in written

\* A step in which p does not touch the journal and goes on with its order
LEMMA ClaimKept ==
    ASSUME ClaimInv, TypeOK, NEW p \in Procs, UNCHANGED <<journal, written, job, key>>,
           NEW point, p \in Holding, pc' = [pc EXCEPT ![p] = point],
           point \notin {"idle", "check", "claim"},
           key[p] \in written =>
              \/ point \in {"applied", "rollback", "finished"}
              \/ point = "refused" /\ status'[p] = "final",
           point \in {"applied", "rollback"} => key[p] \in written,
           \A q \in Procs \ {p} : status'[q] = status[q]
    PROVE  ClaimInv'
<1>1. /\ pc'[p] = point /\ \A q \in Procs \ {p} : pc'[q] = pc[q]
      /\ \A q \in Procs : key'[q] = key[q] /\ job'[q] = job[q]
      /\ claimed' = claimed /\ closed' = closed /\ written' = written
    BY DEF TypeOK, journal
<1>2. Holding' = Holding /\ Holding \subseteq Procs /\ Unsettled' \subseteq Unsettled \cup {p}
    BY <1>1 DEF Holding, Unsettled
<1>3. p \in Unsettled' => key[p] \in written
    BY <1>1 DEF Unsettled
<1>4. \A q \in Unsettled' : q \in Procs /\ key[q] \in written
    BY <1>2, <1>3 DEF ClaimInv, Unsettled
<1>5. \A q \in Holding : key[q] \in written =>
         \/ pc'[q] \in {"applied", "rollback", "finished"}
         \/ pc'[q] = "refused" /\ status'[q] = "final"
    BY <1>1, <1>2 DEF ClaimInv
<1> QED BY <1>1, <1>2, <1>4, <1>5 DEF ClaimInv

\* A step in which p has an order without a claim, before and after
LEMMA ClaimUntouched ==
    ASSUME ClaimInv, TypeOK, NEW p \in Procs, UNCHANGED <<journal, written>>,
           p \notin Holding, p \notin Holding',
           \A q \in Procs \ {p} : /\ pc'[q] = pc[q] /\ key'[q] = key[q] /\ job'[q] = job[q]
                                  /\ status'[q] = status[q]
    PROVE  ClaimInv'
BY DEF ClaimInv, TypeOK, Holding, Unsettled, journal

LEMMA ClaimGates ==
    ASSUME ClaimInv, TypeOK, NEW p \in Procs, Gates(p)
    PROVE  ClaimInv'
<1>1. CASE RefuseEarly(p) \/ Stale(p) \/ Duplicate(p)
    BY <1>1, ClaimUntouched
       DEF RefuseEarly, Stale, Duplicate, End, TypeOK, Holding, ghosts, journal
<1>2. CASE CheckFresh(p)
    BY <1>2, ClaimUntouched
       DEF CheckFresh, Goto, TypeOK, Holding, ghosts, orderVars, journal
<1>3. CASE Claim(p)
  <2> DEFINE k == ExecutionKey(p)
  <2>1. k \notin claimed \cup closed /\ k.cand = job[p]
      BY <1>3 DEF Claim, Taken, ExecutionKey
  <2>2. /\ claimed' = claimed \cup {k} /\ closed' = closed /\ written' = written
        /\ job' = job /\ status' = status
        /\ key' = [key EXCEPT ![p] = k] /\ pc' = [pc EXCEPT ![p] = "implement"]
        /\ pc[p] = "claim"
      BY <1>3 DEF Claim, Goto, ghosts
  <2> HIDE DEF k
  <2>3. /\ Holding' = Holding \cup {p} /\ p \notin Holding
        /\ Unsettled' = Unsettled /\ p \notin Unsettled
      BY <2>2 DEF Holding, Unsettled, TypeOK
  <2>4. /\ key'[p] = k /\ pc'[p] = "implement"
        /\ \A q \in Holding : key'[q] = key[q] /\ pc'[q] = pc[q] /\ q \in Procs /\ q # p
        /\ \A q \in Unsettled : q \in Holding
      BY <2>2, <2>3 DEF TypeOK, Holding, Unsettled
  <2> QED BY <2>1, <2>2, <2>3, <2>4 DEF ClaimInv
<1> QED BY <1>1, <1>2, <1>3 DEF Gates

LEMMA ClaimWork ==
    ASSUME ClaimInv, TypeOK, NEW p \in Procs, Work(p)
    PROVE  ClaimInv'
<1>1. p \in Holding /\ key[p] \notin written
    BY DEF Work, Implement, ImplementFails, Prepare, PrepareFails, Approve, NotApproved,
           Holding, ClaimInv
<1>2. /\ UNCHANGED <<journal, written, job, key>>
      /\ \E point \in {"prepare", "approve", "apply", "refused"} :
              pc' = [pc EXCEPT ![p] = point]
      /\ \A q \in Procs \ {p} : status'[q] = status[q]
    BY DEF Work, Implement, ImplementFails, Prepare, PrepareFails, Approve, NotApproved,
           Settle, Goto, TypeOK, ghosts, orderVars
<1> QED BY <1>1, <1>2, ClaimKept

\* A write by p, after which it holds the key or has left it in the journal
LEMMA ClaimWritten ==
    ASSUME ClaimInv, TypeOK, NEW p \in Procs, UNCHANGED journal,
           written' = written \cup {key[p]}, p \in Holding,
           \/ /\ UNCHANGED <<job, key>>
              /\ \/ pc' = [pc EXCEPT ![p] = "applied"]
                 \/ pc' = [pc EXCEPT ![p] = "refused"] /\ status'[p] = "final"
              /\ \A q \in Procs \ {p} : status'[q] = status[q]
           \/ End(p)
    PROVE  ClaimInv'
<1>1. /\ key[p] \in claimed
      /\ \A q \in Holding' \ {p} : q \in Holding /\ key[q] # key[p] /\ q \in Procs
      /\ \A q \in Unsettled' \ {p} : q \in Unsettled
      /\ \A q \in Procs \ {p} : /\ pc'[q] = pc[q] /\ key'[q] = key[q] /\ job'[q] = job[q]
                                /\ status'[q] = status[q]
    BY DEF ClaimInv, TypeOK, Holding, Unsettled, End
<1>2. \/ p \notin Holding' /\ p \notin Unsettled'
      \/ /\ key'[p] = key[p] /\ job'[p] = job[p]
         /\ \/ pc'[p] \in {"applied", "rollback", "finished"}
            \/ pc'[p] = "refused" /\ status'[p] = "final"
    BY DEF TypeOK, Holding, Unsettled, End
<1>3. claimed' = claimed /\ closed' = closed /\ Holding \subseteq Procs
      /\ Holding' \subseteq Procs /\ Unsettled' \subseteq Procs
    BY DEF journal, Holding, Unsettled
<1>4. \A q \in Holding' : /\ q \in Holding /\ key'[q] = key[q] /\ job'[q] = job[q]
                          /\ key[q] \in claimed /\ key[q].cand = job[q]
    BY <1>1, <1>2, <1>3 DEF ClaimInv
<1>5. \A q \in Unsettled' : key'[q] \in written'
    BY <1>1, <1>2, <1>3 DEF ClaimInv
<1>6. \A q \in Holding' : key'[q] \in written' =>
         \/ pc'[q] \in {"applied", "rollback", "finished"}
         \/ pc'[q] = "refused" /\ status'[q] = "final"
    BY <1>1, <1>2, <1>3, <1>4 DEF ClaimInv
<1>7. \A q, r \in Holding' : key'[q] = key'[r] => q = r
    BY <1>4 DEF ClaimInv
<1>8. written' \subseteq claimed' \cup closed' /\ claimed' \cap closed' = {}
    BY <1>1, <1>3 DEF ClaimInv
<1> QED BY <1>3, <1>4, <1>5, <1>6, <1>7, <1>8 DEF ClaimInv

LEMMA ClaimChange ==
    ASSUME ClaimInv, TypeOK, NEW p \in Procs, Change(p)
    PROVE  ClaimInv'
<1>1. CASE Apply(p)
    BY <1>1, ClaimWritten DEF Apply, Goto, TypeOK, orderVars, Holding
<1>2. CASE ApplyFails(p)
    BY <1>2, ClaimKept DEF ApplyFails, Settle, Goto, TypeOK, ghosts, Holding, ClaimInv
<1>3. CASE ApplyTears(p)
    BY <1>3, ClaimWritten DEF ApplyTears, Settle, Goto, TypeOK, Holding, Meaning,
       RETRYABLE_STATUSES
<1>4. CASE Passes(p) \/ Fails(p) \/ RolledBack(p) \/ RollbackFails(p)
  <2>1. p \in Unsettled /\ key[p] \in written
      BY <1>4 DEF Passes, Fails, RolledBack, RollbackFails, Unsettled, ClaimInv
  <2>2. /\ UNCHANGED <<journal, written, job, key>>
        /\ \E point \in {"rollback", "finished"} : pc' = [pc EXCEPT ![p] = point]
        /\ \A q \in Procs \ {p} : status'[q] = status[q]
      BY <1>4 DEF Passes, Fails, RolledBack, RollbackFails, Settle, Goto, TypeOK, ghosts
  <2> QED BY <2>1, <2>2, ClaimKept DEF Unsettled, Holding
<1> QED BY <1>1, <1>2, <1>3, <1>4 DEF Change

\* The end of p's order by which its key leaves the journal, or stays in it
LEMMA ClaimEnded ==
    ASSUME ClaimInv, TypeOK, NEW p \in Procs, p \in Holding, End(p), UNCHANGED written,
           \/ UNCHANGED journal
           \/ claimed' = claimed \ {key[p]} /\ closed' = closed \cup {key[p]}
           \/ /\ claimed' = claimed \ {key[p]} /\ closed' = closed
              /\ key[p] \notin written
    PROVE  ClaimInv'
<1>1. /\ key[p] \in claimed
      /\ \A q \in Holding' : q \in Holding /\ key[q] # key[p] /\ q \in Procs
      /\ \A q \in Unsettled' : q \in Unsettled
      /\ \A q \in Holding' \cup Unsettled' :
            /\ pc'[q] = pc[q] /\ key'[q] = key[q] /\ job'[q] = job[q]
            /\ status'[q] = status[q]
    BY DEF ClaimInv, TypeOK, Holding, Unsettled, End
<1>2. Holding \subseteq Procs /\ Holding' \subseteq Procs /\ Unsettled' \subseteq Procs
    BY DEF Holding, Unsettled
<1> QED BY <1>1, <1>2 DEF ClaimInv, journal

LEMMA ClaimStep == TypeOK /\ ClaimInv /\ [Next]_vars => ClaimInv'
<1> SUFFICES ASSUME TypeOK, ClaimInv, [Next]_vars PROVE ClaimInv'
    OBVIOUS
<1>1. ASSUME NEW p \in Procs, NEW c \in Candidates, Begin(p, c) PROVE ClaimInv'
    BY <1>1, ClaimUntouched DEF Begin, Goto, TypeOK, Holding, ghosts, journal
<1>2. ASSUME NEW p \in Procs, Step(p) PROVE ClaimInv'
  <2>1. CASE Gates(p) \/ Work(p) \/ Change(p)
      BY <2>1, ClaimGates, ClaimWork, ClaimChange
  <2>2. CASE Release(p)
    <3>1. p \in Holding /\ key[p] \notin written
        BY <2>2 DEF Release, ToRelease, Holding, ClaimInv
    <3> QED BY <2>2, <3>1, ClaimEnded DEF Release, ghosts
  <2>3. CASE Complete(p)
      BY <2>3, ClaimEnded DEF Complete, Holding, ghosts
  <2> QED BY <1>2, <2>1, <2>2, <2>3 DEF Step
<1>3. ASSUME NEW p \in Procs, Raise(p) PROVE ClaimInv'
    BY <1>3, ClaimEnded DEF Raise, Holding
<1>4. ASSUME NEW p \in Procs, Kill(p) PROVE ClaimInv'
  <2>1. CASE p \notin Holding
      BY <1>4, <2>1, ClaimUntouched DEF Kill, End, TypeOK, Holding
  <2>2. CASE p \in Holding
      BY <1>4, <2>2, ClaimEnded, ClaimWritten DEF Kill
  <2> QED BY <2>1, <2>2
<1>5. ASSUME NEW f \in Files, UserEdit(f) PROVE ClaimInv'
    BY <1>5 DEF UserEdit, ClaimInv, Holding, Unsettled, journal, orderVars, ghosts
<1>6. CASE UNCHANGED vars
    BY <1>6 DEF vars, ClaimInv, Holding, Unsettled, journal, orderVars, ghosts
<1> QED BY <1>1, <1>2, <1>3, <1>4, <1>5, <1>6 DEF Next

THEOREM ClaimsAreExclusive == Spec => []ClaimInv
<1>1. Init => ClaimInv
    BY DEF Init, ClaimInv, Holding, Unsettled
<1> QED BY <1>1, ClaimStep, TypeCorrect, PTL DEF Spec

\* No file is written twice for one candidate on one content.
THEOREM WritesAreSingle == Spec => []AppliedOnce
<1>1. ClaimInv => AppliedOnce
    BY DEF ClaimInv, AppliedOnce, Holding
<1> QED BY <1>1, ClaimsAreExclusive, PTL

\* A claim nobody works on belongs to an execution that was cut short.
THEOREM ClaimsAreHandedBack == Spec => []HandedBack
<1>1. Init => HandedBack
    BY DEF Init, HandedBack
<1>2. TypeOK /\ ClaimInv /\ HandedBack /\ [Next]_vars => HandedBack'
  <2> SUFFICES ASSUME TypeOK, ClaimInv, HandedBack, [Next]_vars,
                      NEW k \in claimed', k \notin abandoned'
               PROVE  \E q \in Holding' : key'[q] = k
      BY DEF HandedBack
  <2>1. abandoned \subseteq abandoned' /\ \A q \in Holding : q \in Procs
      BY DEF Next, Begin, Step, Gates, RefuseEarly, CheckFresh, Stale, Claim, Duplicate,
         Work, Implement, ImplementFails, Prepare, PrepareFails, Approve, NotApproved,
         Change, Apply, ApplyFails, ApplyTears, Passes, Fails, RolledBack, RollbackFails,
         Release, Complete, Raise, Kill, UserEdit, ghosts, vars, Holding
  <2>2. CASE k \notin claimed
    <3>1. PICK p \in Procs : Claim(p)
        BY <2>2 DEF Next, Begin, Step, Gates, RefuseEarly, CheckFresh, Stale, Duplicate,
           Work, Implement, ImplementFails, Prepare, PrepareFails, Approve, NotApproved,
           Change, Apply, ApplyFails, ApplyTears, Passes, Fails, RolledBack, RollbackFails,
           Release, Complete, Raise, Kill, UserEdit, journal, vars
    <3> QED BY <2>2, <3>1 DEF Claim, Goto, Holding, TypeOK
  <2>3. CASE k \in claimed
    <3>1. PICK q \in Holding : key[q] = k
        BY <2>1, <2>3 DEF HandedBack
    <3>2. q \in Procs
        BY DEF Holding
    <3>3. ASSUME NEW p \in Procs, End(p), k \in claimed', p \in Holding => k # key[p]
          PROVE  q \in Holding' /\ key'[q] = k
        BY <3>1, <3>2, <3>3 DEF End, Holding, TypeOK
    <3>4. ASSUME NEW p \in Procs, Step(p) PROVE q \in Holding' /\ key'[q] = k
      <4>1. CASE Release(p) \/ Complete(p)
          BY <3>3, <4>1 DEF Release, Complete
      <4>2. CASE Gates(p)
          BY <3>1, <3>2, <4>2 DEF Gates, RefuseEarly, CheckFresh, Stale, Claim, Duplicate,
             End, Goto, Holding, TypeOK, orderVars
      <4>3. CASE Work(p)
          BY <3>1, <3>2, <4>3 DEF Work, Implement, ImplementFails, Prepare, PrepareFails,
             Approve, NotApproved, Settle, Goto, Holding, TypeOK, orderVars
      <4>4. CASE Change(p)
          BY <3>1, <3>2, <4>4 DEF Change, Apply, ApplyFails, ApplyTears, Passes, Fails,
             RolledBack, RollbackFails, Settle, Goto, Holding, TypeOK, orderVars
      <4> QED BY <3>4, <4>1, <4>2, <4>3, <4>4 DEF Step
    <3>5. ASSUME NEW p \in Procs, Raise(p) \/ Kill(p)
          PROVE q \in Holding' /\ key'[q] = k
        BY <3>3, <3>5 DEF Raise, Kill, journal
    <3>6. ASSUME NEW p \in Procs, NEW c \in Candidates, Begin(p, c)
          PROVE q \in Holding' /\ key'[q] = k
        BY <3>1, <3>2, <3>6 DEF Begin, Goto, Holding, TypeOK
    <3>7. ASSUME NEW f \in Files, UserEdit(f) PROVE q \in Holding' /\ key'[q] = k
        BY <3>1, <3>7 DEF UserEdit, Holding, orderVars
    <3>8. CASE UNCHANGED vars
        BY <3>1, <3>8 DEF vars, Holding, orderVars
    <3> QED BY <3>4, <3>5, <3>6, <3>7, <3>8 DEF Next
  <2> QED BY <2>2, <2>3
<1> QED BY <1>1, <1>2, TypeCorrect, ClaimsAreExclusive, PTL DEF Spec

-----------------------------------------------------------------------------
(* Marks.  What a process may put back is as safe as what is in the tree   *)
(* while nobody's change of the file is unsettled.                         *)

\* The keys that wrote and that nobody can settle any more
Dead == {k \in claimed \cap written : \A q \in Holding : key[q] # k}

Safe(f, content) ==
    \/ ~ByAgent(content) \/ <<f, content>> \in accepted
    \/ f \in alarm \cup exposed
    \/ \E k \in Dead : FileOf[k.cand] = f

Relying == {p \in Procs : pc[p] \in {"approve", "apply", "applied", "rollback"}}

MarkInv ==
    /\ \A p \in Relying : Safe(MyFile(p), seen[p])
    /\ \A f \in Files : Safe(f, tree[f]) \/ \E q \in Unsettled : MyFile(q) = f

\* A key that nobody holds stays so: it cannot be claimed again
LEMMA DeadStays == TypeOK /\ ClaimInv /\ [Next]_vars => Dead \subseteq Dead'
<1> SUFFICES ASSUME TypeOK, ClaimInv, [Next]_vars, NEW k \in Dead PROVE k \in Dead'
    OBVIOUS
<1>0. /\ k \in claimed /\ k \in written
      /\ \A q \in Procs : q \in Holding => key[q] # k
    BY DEF Dead, Holding
<1>1. ASSUME NEW p \in Procs, End(p), k \in claimed', k \in written' PROVE k \in Dead'
    BY <1>0, <1>1 DEF End, Dead, Holding, TypeOK
<1>2. ASSUME UNCHANGED <<claimed, key>>, k \in written',
             \A q \in Procs : q \in Holding' => q \in Holding
      PROVE  k \in Dead'
    BY <1>0, <1>2 DEF Dead, Holding
<1>3. ASSUME NEW p \in Procs, Step(p) PROVE k \in Dead'
  <2>1. CASE RefuseEarly(p) \/ Stale(p) \/ Duplicate(p)
      BY <1>0, <1>1, <2>1 DEF RefuseEarly, Stale, Duplicate, journal, ghosts
  <2>2. CASE CheckFresh(p)
      BY <1>0, <1>2, <2>2 DEF CheckFresh, Goto, journal, orderVars, ghosts, Holding, TypeOK
  <2>3. CASE Claim(p)
    <3>1. key'[p] # k
        BY <1>0, <2>3 DEF Claim, Taken, TypeOK
    <3>2. k \in claimed' /\ k \in written'
          /\ \A q \in Procs \ {p} : key'[q] = key[q] /\ pc'[q] = pc[q]
        BY <1>0, <2>3 DEF Claim, Goto, TypeOK, ghosts
    <3> QED BY <1>0, <3>1, <3>2 DEF Dead, Holding
  <2>4. CASE Work(p)
      BY <1>0, <1>2, <2>4 DEF Work, Implement, ImplementFails, Prepare, PrepareFails,
         Approve, NotApproved, Settle, Goto, journal, orderVars, ghosts, Holding, TypeOK
  <2>5. CASE Change(p)
      BY <1>0, <1>2, <2>5 DEF Change, Apply, ApplyFails, ApplyTears, Passes, Fails,
         RolledBack, RollbackFails, Settle, Goto, journal, orderVars, ghosts, Holding, TypeOK
  <2>6. CASE Release(p) \/ Complete(p)
    <3>1. p \in Holding
        BY <2>6 DEF Release, Complete, ToRelease, Holding
    <3> QED BY <1>0, <1>1, <2>6, <3>1 DEF Release, Complete, ghosts
  <2> QED BY <1>3, <2>1, <2>2, <2>3, <2>4, <2>5, <2>6 DEF Step, Gates
<1>4. ASSUME NEW p \in Procs, Raise(p) \/ Kill(p) PROVE k \in Dead'
    BY <1>0, <1>1, <1>4 DEF Raise, Kill, journal
<1>5. ASSUME NEW p \in Procs, NEW c \in Candidates, Begin(p, c) PROVE k \in Dead'
    BY <1>0, <1>2, <1>5 DEF Begin, Goto, journal, ghosts, Holding, TypeOK
<1>6. ASSUME NEW f \in Files, UserEdit(f) PROVE k \in Dead'
    BY <1>0, <1>2, <1>6 DEF UserEdit, journal, orderVars, ghosts, Holding
<1>7. CASE UNCHANGED vars
    BY <1>0, <1>2, <1>7 DEF vars, journal, orderVars, ghosts, Holding
<1> QED BY <1>3, <1>4, <1>5, <1>6, <1>7 DEF Next

LEMMA SafeStays ==
    ASSUME TypeOK, ClaimInv, [Next]_vars
    PROVE  \A f, content : Safe(f, content) => Safe(f, content)'
<1>1. Dead \subseteq Dead'
    BY DeadStays
<1>2. accepted \subseteq accepted' /\ alarm \subseteq alarm' /\ exposed \subseteq exposed'
    BY DEF Next, Begin, Step, Gates, RefuseEarly, CheckFresh, Stale, Claim, Duplicate,
       Work, Implement, ImplementFails, Prepare, PrepareFails, Approve, NotApproved,
       Change, Apply, ApplyFails, ApplyTears, Passes, Fails, RolledBack, RollbackFails,
       Release, Complete, Raise, Kill, UserEdit, ghosts, vars
<1> QED BY <1>1, <1>2 DEF Safe

\* The step of p disturbs only what p relies on, and a file it changes is safe or
\* has a change that is not settled
LEMMA MarkKept ==
    ASSUME MarkInv, TypeOK, NEW p \in Procs,
           \A f, content : Safe(f, content) => Safe(f, content)',
           \A q \in Procs \ {p} : pc'[q] = pc[q] /\ seen'[q] = seen[q] /\ job'[q] = job[q],
           p \in Relying' => \/ p \in Relying /\ seen'[p] = seen[p] /\ job'[p] = job[p]
                             \/ Safe(MyFile(p), seen[p])',
           p \in Unsettled => \/ p \in Unsettled' /\ job'[p] = job[p]
                              \/ \A f \in Files : MyFile(p) = f => Safe(f, tree[f])',
           \A f \in Files : \/ tree'[f] = tree[f] \/ Safe(f, tree[f])'
                            \/ \E q \in Unsettled' : MyFile(q)' = f
    PROVE  MarkInv'
<1>1. ASSUME NEW q \in Relying' PROVE Safe(MyFile(q), seen[q])'
  <2>1. CASE q \in Relying /\ seen'[q] = seen[q] /\ job'[q] = job[q]
    <3>1. Safe(MyFile(q), seen[q])
        BY <2>1 DEF MarkInv
    <3> QED BY <2>1, <3>1 DEF Safe, MyFile
  <2> QED BY <1>1, <2>1 DEF Relying
<1>2. ASSUME NEW f \in Files, ~Safe(f, tree[f])' PROVE \E q \in Unsettled' : MyFile(q)' = f
  <2>1. CASE tree'[f] = tree[f]
    <3>1. ~Safe(f, tree[f])
        BY <1>2, <2>1 DEF Safe
    <3>2. PICK q \in Unsettled : MyFile(q) = f
        BY <3>1 DEF MarkInv
    <3>3. q \in Unsettled' /\ job'[q] = job[q]
        BY <1>2, <3>2 DEF Unsettled
    <3> QED BY <3>2, <3>3 DEF MyFile
  <2> QED BY <1>2, <2>1
<1> QED BY <1>1, <1>2 DEF MarkInv

\* The end of p's order, after which its key is dead if it wrote and held it, and
\* what is in the file it changed is of p
LEMMA MarkEnded ==
    ASSUME MarkInv, TypeOK, ClaimInv, NEW p \in Procs, End(p),
           \A f, content : Safe(f, content) => Safe(f, content)',
           p \in Unsettled => UNCHANGED claimed /\ written \subseteq written',
           \A f \in Files : \/ tree'[f] = tree[f]
                            \/ /\ f = MyFile(p) /\ p \in Holding
                               /\ UNCHANGED claimed /\ key[p] \in written'
    PROVE  MarkInv'
<1>1. /\ p \notin Holding' /\ p \notin Relying'
      /\ \A q \in Procs \ {p} : /\ pc'[q] = pc[q] /\ seen'[q] = seen[q] /\ job'[q] = job[q]
                                /\ key'[q] = key[q] /\ (q \in Holding' => q \in Holding)
    BY DEF End, TypeOK, Holding, Relying
<1>2. ASSUME p \in Holding, UNCHANGED claimed, key[p] \in written'
      PROVE  \A f \in Files : MyFile(p) = f => Safe(f, tree[f])'
  <2>1. key[p] \in claimed' /\ key[p].cand = job[p]
      BY <1>2 DEF ClaimInv
  <2>2. \A q \in Holding' : key'[q] # key[p]
      BY <1>1, <1>2 DEF ClaimInv, Holding
  <2>3. key[p] \in Dead'
      BY <1>2, <2>1, <2>2 DEF Dead
  <2> QED BY <2>1, <2>3 DEF Safe, MyFile
<1>3. p \in Unsettled => p \in Holding /\ key[p] \in written
    BY DEF Unsettled, Holding, ClaimInv
<1> QED BY <1>1, <1>2, <1>3, MarkKept

LEMMA MarkWork ==
    ASSUME MarkInv, TypeOK, ClaimInv, NEW p \in Procs, Work(p),
           \A f, content : Safe(f, content) => Safe(f, content)'
    PROVE  MarkInv'
<1>0. p \notin Unsettled /\ \A f \in Files : tree'[f] = tree[f]
    BY DEF Work, Implement, ImplementFails, Prepare, PrepareFails, Approve, NotApproved,
           Unsettled
<1>1. \A q \in Procs \ {p} : pc'[q] = pc[q] /\ seen'[q] = seen[q] /\ job'[q] = job[q]
    BY DEF Work, Implement, ImplementFails, Prepare, PrepareFails, Approve, NotApproved,
           Settle, Goto, orderVars, TypeOK
<1>2. CASE Prepare(p)
  <2>1. MyFile(p) \in Files /\ job' = job /\ seen'[p] = tree[MyFile(p)] /\ tree' = tree
      BY <1>2, FileAssumption DEF Prepare, TypeOK, MyFile, Now
  <2>2. Safe(MyFile(p), tree[MyFile(p)]) \/ MyFile(p) \in exposed'
      BY <1>0, <1>2, <2>1 DEF Prepare, MarkInv
  <2>3. Safe(MyFile(p), seen[p])'
    <3>1. CASE MyFile(p) \in exposed'
        BY <2>1, <3>1 DEF Safe, MyFile
    <3>2. CASE Safe(MyFile(p), tree[MyFile(p)])
        BY <2>1, <3>2 DEF Safe, MyFile
    <3> QED BY <2>2, <3>1, <3>2
  <2> QED BY <1>0, <1>1, <2>3, MarkKept
<1>3. CASE ~Prepare(p)
  <2>1. p \in Relying' => p \in Relying /\ seen'[p] = seen[p] /\ job'[p] = job[p]
      BY <1>3 DEF Work, Implement, ImplementFails, PrepareFails, Approve, NotApproved,
         Settle, Goto, orderVars, TypeOK, Relying
  <2> QED BY <1>0, <1>1, <2>1, MarkKept
<1> QED BY <1>2, <1>3

LEMMA MarkChange ==
    ASSUME MarkInv, TypeOK, ClaimInv, NEW p \in Procs, Change(p),
           \A f, content : Safe(f, content) => Safe(f, content)'
    PROVE  MarkInv'
<1>0. \A q \in Procs \ {p} : pc'[q] = pc[q] /\ seen'[q] = seen[q] /\ job'[q] = job[q]
    BY DEF Change, Apply, ApplyFails, ApplyTears, Passes, Fails, RolledBack, RollbackFails,
           Settle, Goto, orderVars, TypeOK
<1>1. p \in Relying' => p \in Relying /\ seen'[p] = seen[p] /\ job'[p] = job[p]
    BY DEF Change, Apply, ApplyFails, ApplyTears, Passes, Fails, RolledBack, RollbackFails,
           Settle, Goto, orderVars, TypeOK, Relying
<1>2. job'[p] = job[p] /\ MyFile(p) \in Files
      /\ \A f \in Files : tree'[f] = tree[f] \/ f = MyFile(p)
    BY FileAssumption
       DEF Change, Apply, ApplyFails, ApplyTears, Passes, Fails, RolledBack, RollbackFails,
           Settle, Goto, orderVars, TypeOK, MyFile
<1>3. CASE Apply(p) \/ Fails(p)
  <2>1. p \in Unsettled'
      BY <1>3 DEF Apply, Fails, Goto, Unsettled, TypeOK
  <2> QED BY <1>0, <1>1, <1>2, <2>1, MarkKept DEF MyFile
<1>4. CASE ApplyFails(p)
  <2>1. p \notin Unsettled /\ tree' = tree
      BY <1>4 DEF ApplyFails, Unsettled
  <2> QED BY <1>0, <1>1, <2>1, MarkKept
<1>5. CASE MyFile(p) \in exposed' \cup alarm'
  <2>1. \A f \in Files : f = MyFile(p) => Safe(f, tree[f])'
      BY <1>5 DEF Safe
  <2> QED BY <1>0, <1>1, <1>2, <2>1, MarkKept
<1>6. CASE Passes(p)
  <2>1. \A f \in Files : f = MyFile(p) => Safe(f, tree[f])'
      BY <1>6 DEF Passes, Now, Safe
  <2> QED BY <1>0, <1>1, <1>2, <2>1, MarkKept
<1>7. CASE RolledBack(p) /\ MyFile(p) \notin exposed'
  <2>1. p \in Relying /\ tree'[MyFile(p)] = seen[p]
      BY <1>2, <1>7 DEF RolledBack, Relying, TypeOK
  <2>2. Safe(MyFile(p), seen[p])
      BY <2>1 DEF MarkInv
  <2>3. \A f \in Files : f = MyFile(p) => Safe(f, tree[f])'
      BY <2>1, <2>2 DEF Safe
  <2> QED BY <1>0, <1>1, <1>2, <2>3, MarkKept
<1> QED BY <1>3, <1>4, <1>5, <1>6, <1>7
        DEF Change, ApplyTears, RollbackFails

LEMMA MarkStep == TypeOK /\ ClaimInv /\ MarkInv /\ [Next]_vars => MarkInv'
<1> SUFFICES ASSUME TypeOK, ClaimInv, MarkInv, [Next]_vars PROVE MarkInv'
    OBVIOUS
<1>0. \A f, content : Safe(f, content) => Safe(f, content)'
    BY SafeStays
<1>1. ASSUME NEW p \in Procs, Gates(p) PROVE MarkInv'
  <2>1. CASE RefuseEarly(p) \/ Stale(p) \/ Duplicate(p)
      BY <1>0, <2>1, MarkEnded DEF RefuseEarly, Stale, Duplicate, Unsettled
  <2>2. CASE CheckFresh(p) \/ Claim(p)
    <3>1. /\ p \notin Unsettled /\ p \notin Relying' /\ tree' = tree
          /\ \A q \in Procs \ {p} : pc'[q] = pc[q] /\ seen'[q] = seen[q] /\ job'[q] = job[q]
        BY <2>2 DEF CheckFresh, Claim, Goto, Unsettled, Relying, orderVars, TypeOK
    <3> QED BY <1>0, <3>1, MarkKept
  <2> QED BY <1>1, <2>1, <2>2 DEF Gates
<1>2. ASSUME NEW p \in Procs, Release(p) \/ Complete(p) PROVE MarkInv'
    BY <1>0, <1>2, MarkEnded DEF Release, Complete, ToRelease, Unsettled
<1>3. ASSUME NEW p \in Procs, Raise(p) PROVE MarkInv'
    BY <1>0, <1>3, MarkEnded DEF Raise, Unsettled
<1>4. ASSUME NEW p \in Procs, Kill(p) PROVE MarkInv'
  <2>1. End(p) /\ UNCHANGED claimed /\ written \subseteq written'
      BY <1>4 DEF Kill, journal
  <2>2. \A f \in Files : \/ tree'[f] = tree[f]
                         \/ f = MyFile(p) /\ p \in Holding /\ key[p] \in written'
      BY <1>4 DEF Kill, Holding, TypeOK
  <2> QED BY <1>0, <2>1, <2>2, MarkEnded
<1>5. ASSUME NEW p \in Procs, NEW c \in Candidates, Begin(p, c) PROVE MarkInv'
  <2>1. /\ p \notin Unsettled /\ p \notin Relying' /\ tree' = tree
        /\ \A q \in Procs \ {p} : pc'[q] = pc[q] /\ seen'[q] = seen[q] /\ job'[q] = job[q]
      BY <1>5 DEF Begin, Goto, Unsettled, Relying, TypeOK
  <2> QED BY <1>0, <2>1, MarkKept
<1>6. ASSUME NEW f \in Files, UserEdit(f) PROVE MarkInv'
  <2>1. tree'[f].by \in {"user", "absent"} /\ \A g \in Files \ {f} : tree'[g] = tree[g]
      BY <1>6 DEF UserEdit, TypeOK
  <2>2. Safe(f, tree[f])'
      BY <2>1 DEF Safe, ByAgent
  <2>3. Relying' = Relying /\ Unsettled' = Unsettled /\ seen' = seen /\ job' = job
      BY <1>6 DEF UserEdit, Relying, Unsettled, orderVars
  <2>4. ASSUME NEW q \in Relying' PROVE Safe(MyFile(q), seen[q])'
    <3>1. Safe(MyFile(q), seen[q])
        BY <2>3 DEF MarkInv
    <3> QED BY <1>0, <2>3, <3>1 DEF Safe, MyFile
  <2>5. ASSUME NEW g \in Files, ~Safe(g, tree[g])'
        PROVE  \E q \in Unsettled' : MyFile(q)' = g
    <3>1. g # f
        BY <2>2, <2>5
    <3>2. ~Safe(g, tree[g])
        BY <1>0, <2>1, <2>5, <3>1 DEF Safe
    <3> QED BY <2>3, <3>2 DEF MarkInv, MyFile
  <2> QED BY <2>4, <2>5 DEF MarkInv
<1>7. CASE UNCHANGED vars
    BY <1>7 DEF vars, MarkInv, Relying, Unsettled, Safe, Dead, Holding, MyFile, ByAgent,
       journal, orderVars, ghosts
<1>8. ASSUME NEW p \in Procs, Work(p) \/ Change(p) PROVE MarkInv'
    BY <1>0, <1>8, MarkWork, MarkChange
<1> QED BY <1>1, <1>2, <1>3, <1>4, <1>5, <1>6, <1>7, <1>8 DEF Next, Step

\* Outside the files that were left unprotected, a content of the agent that no
\* execution completed with is marked by a claim in progress or by the report that
\* a rollback failed.
THEOREM LeftoversAreMarked == Spec => []UnvalidatedIsMarked
<1>1. Init => MarkInv
    BY DEF Init, MarkInv, Safe, ByAgent, Relying
<1>2. TypeOK /\ ClaimInv /\ MarkInv => UnvalidatedIsMarked
  <2> SUFFICES ASSUME TypeOK, ClaimInv, MarkInv, NEW f \in Files \ exposed,
                      ByAgent(tree[f]), <<f, tree[f]>> \notin accepted, f \notin alarm
               PROVE  \E k \in claimed \cap written : FileOf[k.cand] = f
      BY DEF UnvalidatedIsMarked, Marked
  <2>1. CASE Safe(f, tree[f])
      BY <2>1 DEF Safe, Dead
  <2>2. CASE \E q \in Unsettled : MyFile(q) = f
    <3>1. PICK q \in Unsettled : MyFile(q) = f
        BY <2>2
    <3>2. q \in Holding /\ key[q] \in written
        BY DEF Unsettled, Holding, ClaimInv
    <3> QED BY <3>1, <3>2 DEF ClaimInv, MyFile
  <2> QED BY <2>1, <2>2 DEF MarkInv
<1> QED BY <1>1, <1>2, MarkStep, TypeCorrect, ClaimsAreExclusive, PTL DEF Spec

-----------------------------------------------------------------------------
(* The runner is a client of the executor.                                 *)

\* Every step of a run is one of the executor's, or none of its business.
LEMMA RunnerStepExecutes == RunnerNext => [Next]_vars
<1> SUFFICES ASSUME RunnerNext PROVE [Next]_vars
    OBVIOUS
<1>1. ASSUME NEW p \in Procs, Discover(p) \/ GiveUp(p) \/ Persist(p) \/ PersistFails(p)
      PROVE  UNCHANGED vars
    BY <1>1 DEF Discover, GiveUp, Persist, PersistFails
<1>2. ASSUME NEW p \in Procs, NEW c \in Candidates, Start(p, c) PROVE Next
    BY <1>2 DEF Start, Next
<1>3. ASSUME NEW p \in Procs, Execute(p) PROVE Next
    BY <1>3 DEF Execute, Next
<1>4. ASSUME NEW p \in Procs, Die(p) PROVE [Next]_vars
    BY <1>4 DEF Die, Next
<1>5. ASSUME NEW f \in Files, Edit(f) PROVE Next
    BY <1>5 DEF Edit, Next
<1>6. ASSUME Malformed PROVE UNCHANGED vars
    BY <1>6 DEF Malformed
<1> QED BY <1>1, <1>2, <1>3, <1>4, <1>5, <1>6 DEF RunnerNext, Progress

\* Whatever is true of the executions of any process in any order is true of those
\* of the runs: MaintenanceRunner implements MaintenanceExecutor.
THEOREM RunsExecute == RunnerSpec => Spec
<1>1. RunnerInit => Init
    BY DEF RunnerInit
<1>2. [RunnerNext]_allVars => [Next]_vars
    BY RunnerStepExecutes DEF allVars
<1> QED BY <1>1, <1>2, PTL DEF RunnerSpec, Spec

\* So no run writes a file twice for one defect of one content.
THEOREM RunsWriteOnce == RunnerSpec => []AppliedOnce
BY RunsExecute, WritesAreSingle, PTL

-----------------------------------------------------------------------------
(* What a step of an execution leaves alone.                               *)

\* A process keeps its order until it is done with it.
LEMMA StepKeepsJob ==
    ASSUME TypeOK, NEW p \in Procs, Step(p) \/ Raise(p), pc'[p] # "idle"
    PROVE  job'[p] = job[p]
<1>1. ~End(p)
    BY DEF End, TypeOK
<1>2. CASE Gates(p)
    BY <1>1, <1>2 DEF Gates, RefuseEarly, CheckFresh, Stale, Claim, Duplicate, orderVars
<1>3. CASE Work(p)
    BY <1>3 DEF Work, Implement, ImplementFails, Prepare, PrepareFails, Approve, NotApproved,
                Settle, orderVars
<1>4. CASE Change(p)
    BY <1>4 DEF Change, Apply, ApplyFails, ApplyTears, Passes, Fails, RolledBack,
                RollbackFails, Settle, orderVars
<1>5. CASE Release(p) \/ Complete(p) \/ Raise(p)
    BY <1>1, <1>5 DEF Release, Complete, Raise
<1> QED BY <1>2, <1>3, <1>4, <1>5 DEF Step

\* And leaves the others where they are.
LEMMA StepsApart ==
    ASSUME TypeOK, NEW p \in Procs, Step(p) \/ Raise(p) \/ Kill(p), NEW q \in Procs \ {p}
    PROVE  pc'[q] = pc[q] /\ job'[q] = job[q]
<1>1. ASSUME End(p) PROVE pc'[q] = pc[q] /\ job'[q] = job[q]
    BY <1>1 DEF End, TypeOK
<1>2. ASSUME NEW x, Goto(p, x) PROVE pc'[q] = pc[q]
    BY <1>2 DEF Goto, TypeOK
<1>3. ASSUME NEW x, NEW m, Settle(p, x, m) PROVE pc'[q] = pc[q] /\ job'[q] = job[q]
    BY <1>3 DEF Settle, Goto, TypeOK
<1>4. CASE Gates(p)
    BY <1>1, <1>2, <1>4 DEF Gates, RefuseEarly, CheckFresh, Stale, Claim, Duplicate, orderVars
<1>5. CASE Work(p)
    BY <1>2, <1>3, <1>5 DEF Work, Implement, ImplementFails, Prepare, PrepareFails, Approve,
                            NotApproved, orderVars
<1>6. CASE Change(p)
    BY <1>2, <1>3, <1>6 DEF Change, Apply, ApplyFails, ApplyTears, Passes, Fails, RolledBack,
                            RollbackFails, orderVars
<1>7. CASE Release(p) \/ Complete(p) \/ Raise(p) \/ Kill(p)
    BY <1>1, <1>7 DEF Release, Complete, Raise, Kill
<1> QED BY <1>4, <1>5, <1>6, <1>7 DEF Step

-----------------------------------------------------------------------------
(* Types.                                                                  *)

LEMMA RunnerStepTyped ==
    ASSUME TypeOK, RunnerNext PROVE TypeOK'
BY TypeStep, RunnerStepExecutes

LEMMA HydratedTyped ==
    ASSUME RunnerTypeOK, NEW S PROVE Hydrated(S) \in [Candidates -> Nat]
BY DEF RunnerTypeOK, Hydrated

LEMMA LoseTyped ==
    ASSUME RunnerTypeOK, NEW S \in SUBSET Candidates, Lose(S)
    PROVE  failed' \in [Candidates -> Nat] /\ forgotten' \subseteq Candidates
BY DEF RunnerTypeOK, Lose

LEMMA LeaveTyped ==
    ASSUME RunnerTypeOK, NEW p \in Procs, Leave(p)
    PROVE  /\ stage' \in [Procs -> {"off", "run"}]
           /\ found' \in [Procs -> SUBSET Candidates]
           /\ picked' \in [Procs -> SUBSET Candidates]
           /\ fails' \in [Procs -> [Candidates -> Nat]]
           /\ spent' \in [Procs -> 0..MaxExecuted]
           /\ \A q \in Procs : picked'[q] \subseteq found'[q]
           /\ \A q \in Procs \ {p} : stage'[q] = stage[q] /\ found'[q] = found[q]
BY RunnerAssumption DEF RunnerTypeOK, Leave, NoFailures

LEMMA LearnTyped ==
    ASSUME RunnerTypeOK, NEW p \in Procs, job[p] \in Candidates, Learn(p)
    PROVE  /\ fails' \in [Procs -> [Candidates -> Nat]]
           /\ failed' \in [Candidates -> Nat]
<1>1. fails[p] \in [Candidates -> Nat] /\ fails[p][job[p]] + 1 \in Nat
    BY DEF RunnerTypeOK
<1>2. fails' \in [Procs -> [Candidates -> Nat]]
    BY <1>1 DEF RunnerTypeOK, Learn
<1>3. failed[job[p]] + 1 \in Nat
    BY DEF RunnerTypeOK
<1>4. failed' \in [Candidates -> Nat]
    BY <1>3 DEF RunnerTypeOK, Learn
<1> QED BY <1>2, <1>4

LEMMA RunnerTypeStep == RunnerTypeOK /\ [RunnerNext]_allVars => RunnerTypeOK'
<1> SUFFICES ASSUME RunnerTypeOK, [RunnerNext]_allVars PROVE RunnerTypeOK'
    OBVIOUS
<1>t. TypeOK
    BY DEF RunnerTypeOK
<1>1. ASSUME NEW p \in Procs, Discover(p) PROVE RunnerTypeOK'
  <2>1. TypeOK'
      BY <1>1, <1>t, RunnerStepTyped DEF RunnerNext
  <2>2. PICK S \in SUBSET Candidates :
          /\ found' = [found EXCEPT ![p] = S] /\ fails' = [fails EXCEPT ![p] = Hydrated(S)]
          /\ \E T \in SUBSET S : picked' = [picked EXCEPT ![p] = T]
      BY <1>1 DEF Discover
  <2>3. Hydrated(S) \in [Candidates -> Nat]
      BY HydratedTyped
  <2>4. /\ stage' = [stage EXCEPT ![p] = "run"] /\ pc[p] = "idle" /\ pc' = pc /\ job' = job
        /\ UNCHANGED <<spent, storeVars, failed, forgotten, losses>>
      BY <1>1 DEF Discover, vars, orderVars
  <2> QED BY <2>1, <2>2, <2>3, <2>4 DEF RunnerTypeOK, storeVars
<1>2. ASSUME NEW p \in Procs, NEW c \in Candidates, Start(p, c) PROVE RunnerTypeOK'
  <2>1. TypeOK'
      BY <1>2, <1>t, RunnerStepTyped DEF RunnerNext, Progress
  <2>2. /\ c \in picked[p] /\ stage[p] = "run" /\ spent[p] < MaxExecuted
        /\ job' = [job EXCEPT ![p] = c] /\ pc' = [pc EXCEPT ![p] = "check"]
        /\ picked' = [picked EXCEPT ![p] = @ \ {c}] /\ spent' = [spent EXCEPT ![p] = @ + 1]
        /\ UNCHANGED <<stage, found, fails, storeVars, failed, forgotten, losses>>
      BY <1>2 DEF Start, Begin, Goto
  <2>3. spent[p] + 1 \in 0..MaxExecuted
      BY <2>2, RunnerAssumption DEF RunnerTypeOK
  <2>4. /\ \A q \in Procs : picked'[q] \subseteq found'[q]
        /\ \A q \in Procs : pc'[q] # "idle" => stage'[q] = "run" /\ job'[q] \in found'[q]
      BY <2>2 DEF RunnerTypeOK, TypeOK
  <2>5. picked' \in [Procs -> SUBSET Candidates]
      BY <2>2 DEF RunnerTypeOK
  <2> QED BY <2>1, <2>2, <2>3, <2>4, <2>5 DEF RunnerTypeOK, storeVars
<1>3. ASSUME NEW p \in Procs, GiveUp(p) PROVE RunnerTypeOK'
  <2>1. TypeOK'
      BY <1>3, <1>t, RunnerStepTyped DEF RunnerNext, Progress
  <2> QED BY <1>3, <2>1 DEF RunnerTypeOK, GiveUp, vars, orderVars, storeVars
<1>4. ASSUME NEW p \in Procs, Execute(p) PROVE RunnerTypeOK'
  <2>1. TypeOK'
      BY <1>4, <1>t, RunnerStepTyped DEF RunnerNext, Progress
  <2>2. job[p] \in Candidates /\ stage[p] = "run" /\ pc[p] # "idle" /\ job[p] \in found[p]
      BY <1>4 DEF Execute, RunnerTypeOK, TypeOK
  <2>3. /\ UNCHANGED <<stage, found, picked, spent, storeVars, forgotten, losses>>
        /\ fails' \in [Procs -> [Candidates -> Nat]] /\ failed' \in [Candidates -> Nat]
    <3>1. CASE pc'[p] = "idle"
        BY <1>4, <2>2, <3>1, LearnTyped DEF Execute, Learn
    <3>2. CASE pc'[p] # "idle"
        BY <1>4, <3>2 DEF Execute, RunnerTypeOK, runnerVars, runVars
    <3> QED BY <3>1, <3>2
  <2>4. ASSUME NEW q \in Procs, pc'[q] # "idle"
        PROVE  stage'[q] = "run" /\ job'[q] \in found'[q]
    <3>1. CASE q = p
        BY <1>4, <1>t, <2>2, <2>3, <2>4, <3>1, StepKeepsJob DEF Execute
    <3>2. CASE q # p
        BY <1>4, <1>t, <2>3, <2>4, <3>2, StepsApart DEF Execute, RunnerTypeOK
    <3> QED BY <3>1, <3>2
  <2> QED BY <2>1, <2>3, <2>4 DEF RunnerTypeOK, storeVars
<1>5. ASSUME NEW p \in Procs, Persist(p) PROVE RunnerTypeOK'
  <2>1. TypeOK' /\ pc' = pc /\ job' = job /\ pc[p] = "idle"
      BY <1>5, <1>t, RunnerStepTyped DEF RunnerNext, Progress, Persist, vars, orderVars
  <2>2. PICK stays \in SUBSET Candidates :
          /\ known' = stays
          /\ recorded' = [c \in Candidates |-> IF c \in stays THEN Merged(p, c) ELSE 0]
          /\ Lose({c \in (known \cup found[p]) \ stays : failed[c] > 0})
      BY <1>5 DEF Persist, RunnerTypeOK
  <2>3. \A c \in Candidates : Merged(p, c) \in Nat
      BY DEF Merged, RunnerTypeOK
  <2>4. {c \in (known \cup found[p]) \ stays : failed[c] > 0} \in SUBSET Candidates
      BY DEF RunnerTypeOK
  <2>5. failed' \in [Candidates -> Nat] /\ forgotten' \subseteq Candidates
      BY <2>2, <2>4, LoseTyped
  <2>6. Leave(p) /\ losses' = losses
      BY <1>5 DEF Persist
  <2> QED BY <2>1, <2>2, <2>3, <2>5, <2>6, LeaveTyped DEF RunnerTypeOK
<1>6. ASSUME NEW p \in Procs, PersistFails(p) PROVE RunnerTypeOK'
  <2>1. TypeOK' /\ pc' = pc /\ job' = job /\ pc[p] = "idle"
      BY <1>6, <1>t, RunnerStepTyped DEF RunnerNext, PersistFails, vars, orderVars
  <2>2. failed' \in [Candidates -> Nat] /\ forgotten' \subseteq Candidates
      BY <1>6, LoseTyped DEF PersistFails, RunnerTypeOK
  <2>3. losses' \in 0..MaxLosses /\ Leave(p) /\ UNCHANGED storeVars
      BY <1>6, RunnerAssumption DEF PersistFails, Mishap, RunnerTypeOK
  <2> QED BY <2>1, <2>2, <2>3, LeaveTyped DEF RunnerTypeOK, storeVars
<1>7. ASSUME Malformed PROVE RunnerTypeOK'
  <2>1. TypeOK' /\ pc' = pc /\ job' = job /\ UNCHANGED runVars
      BY <1>7, <1>t, RunnerStepTyped DEF RunnerNext, Malformed, vars, orderVars
  <2>2. failed' \in [Candidates -> Nat] /\ forgotten' \subseteq Candidates
      BY <1>7, LoseTyped DEF Malformed, RunnerTypeOK
  <2>3. losses' \in 0..MaxLosses
      BY <1>7, RunnerAssumption DEF Malformed, Mishap, RunnerTypeOK
  <2> QED BY <1>7, <2>1, <2>2, <2>3 DEF RunnerTypeOK, Malformed, runVars, NoFailures
<1>8. ASSUME NEW p \in Procs, Die(p) PROVE RunnerTypeOK'
  <2>1. TypeOK'
      BY <1>8, <1>t, RunnerStepTyped DEF RunnerNext
  <2>2. failed' \in [Candidates -> Nat] /\ forgotten' \subseteq Candidates
      BY <1>8, LoseTyped DEF Die, RunnerTypeOK
  <2>3. losses' \in 0..MaxLosses /\ Leave(p) /\ UNCHANGED storeVars
      BY <1>8, RunnerAssumption DEF Die, Mishap, RunnerTypeOK
  <2>4. pc'[p] = "idle" /\ \A q \in Procs \ {p} : pc'[q] = pc[q] /\ job'[q] = job[q]
    <3>1. CASE Kill(p)
        BY <1>t, <3>1, StepsApart DEF Kill, End, TypeOK
    <3>2. CASE pc[p] = "idle" /\ UNCHANGED vars
        BY <3>2 DEF vars, orderVars
    <3> QED BY <1>8, <3>1, <3>2 DEF Die
  <2> QED BY <2>1, <2>2, <2>3, <2>4, LeaveTyped DEF RunnerTypeOK, storeVars
<1>9. ASSUME NEW f \in Files, Edit(f) PROVE RunnerTypeOK'
  <2>1. TypeOK'
      BY <1>9, <1>t, RunnerStepTyped DEF RunnerNext
  <2> QED BY <1>9, <2>1 DEF RunnerTypeOK, Edit, UserEdit, orderVars, runnerVars, runVars, storeVars
<1>10. CASE UNCHANGED allVars
  <2>1. TypeOK'
      BY <1>10, <1>t, TypeStep DEF allVars
  <2> QED BY <1>10, <2>1 DEF RunnerTypeOK, allVars, runnerVars, runVars, storeVars, vars, orderVars
<1> QED BY <1>1, <1>2, <1>3, <1>4, <1>5, <1>6, <1>7, <1>8, <1>9, <1>10 DEF RunnerNext, Progress

LEMMA RunnerTypeInit == RunnerInit => RunnerTypeOK
<1> SUFFICES ASSUME RunnerInit PROVE RunnerTypeOK
    OBVIOUS
<1>1. Init => TypeOK
    BY TypeInit
<1> QED BY <1>1, RunnerAssumption DEF RunnerInit, RunnerTypeOK, NoFailures, Init

\* The variables of the runs keep their types, and an order is always one of a run
\* that has found its candidate.
THEOREM RunnerTypeCorrect == RunnerSpec => []RunnerTypeOK
BY RunnerTypeInit, RunnerTypeStep, PTL DEF RunnerSpec

-----------------------------------------------------------------------------
(* Failures.  What the store and the candidates of a run count is related  *)
(* to what has happened, candidate by candidate: the store is never ahead, *)
(* a run that has found the candidate is exact, and when there is none the *)
(* store is.  Two runs at a time would each be exact about its own only.   *)

Exact(c) ==
    /\ recorded[c] <= failed[c]
    /\ \A p \in Procs : stage[p] = "run" /\ c \in found[p] => fails[p][c] = failed[c]
    /\ (\A p \in Procs : stage[p] = "off" \/ c \notin found[p]) => recorded[c] = failed[c]

HistoryInv ==
    /\ \A c \in Candidates : /\ c \notin known => recorded[c] = 0
                             /\ c \notin forgotten => Exact(c)
    /\ \A p \in Procs : /\ \A c \in picked[p] : fails[p][c] < MaxFailures
                        /\ pc[p] # "idle" => /\ fails[p][job[p]] < MaxFailures
                                             /\ job[p] \notin picked[p]

\* What a step that ends the run leaves to show
LEMMA LeftHistory ==
    ASSUME RunnerTypeOK, RunnerTypeOK', NEW r, Procs = {r}, Leave(r), pc'[r] = "idle",
           \A c \in Candidates :
               /\ c \notin known' => recorded'[c] = 0
               /\ c \notin forgotten' => recorded'[c] = failed'[c]
    PROVE  HistoryInv'
<1>1. /\ stage'[r] = "off" /\ picked'[r] = {}
    BY DEF Leave, RunnerTypeOK
<1>2. ASSUME NEW c \in Candidates, c \notin forgotten' PROVE Exact(c)'
  <2>1. recorded'[c] = failed'[c] /\ failed'[c] \in Nat
      BY <1>2 DEF RunnerTypeOK
  <2> QED BY <1>1, <2>1 DEF Exact
<1> QED BY <1>1, <1>2 DEF HistoryInv

LEMMA HistoryStep ==
    ASSUME NEW r, Procs = {r}, RunnerTypeOK, RunnerTypeOK', HistoryInv, [RunnerNext]_allVars
    PROVE  HistoryInv'
<1>t. TypeOK /\ r \in Procs
    BY DEF RunnerTypeOK
<1>1. CASE Discover(r)
  <2>1. PICK S \in SUBSET Candidates :
          /\ found' = [found EXCEPT ![r] = S] /\ fails' = [fails EXCEPT ![r] = Hydrated(S)]
          /\ \E T \in SUBSET {c \in S : Eligible(c, Hydrated(S))} :
               picked' = [picked EXCEPT ![r] = T]
      BY <1>1 DEF Discover
  <2>2. /\ stage[r] = "off" /\ stage'[r] = "run" /\ pc'[r] = "idle"
        /\ UNCHANGED <<known, recorded, failed, forgotten>>
      BY <1>1 DEF Discover, RunnerTypeOK, vars, storeVars
  <2>3. found'[r] = S /\ fails'[r] = Hydrated(S)
      BY <2>1 DEF RunnerTypeOK
  <2>4. \A c \in picked'[r] : c \in Candidates /\ fails'[r][c] < MaxFailures
      BY <2>1, <2>3 DEF RunnerTypeOK, Eligible
  <2>5. \A c \in Candidates : c \notin forgotten => recorded[c] = failed[c]
      BY <2>2 DEF HistoryInv, Exact
  <2>6. ASSUME NEW c \in Candidates, c \notin forgotten' PROVE Exact(c)'
    <3>1. c \in S => fails'[r][c] = recorded[c]
        BY <2>3 DEF Hydrated, HistoryInv
    <3>2. recorded[c] = failed[c] /\ recorded[c] \in Nat
        BY <2>2, <2>5, <2>6 DEF RunnerTypeOK
    <3> QED BY <2>2, <2>3, <3>1, <3>2 DEF Exact
  <2> QED BY <2>2, <2>4, <2>6 DEF HistoryInv
<1>2. ASSUME NEW c \in Candidates, Start(r, c) PROVE HistoryInv'
  <2>1. /\ c \in picked[r] /\ job'[r] = c /\ picked'[r] = picked[r] \ {c}
        /\ UNCHANGED <<stage, found, fails, known, recorded, failed, forgotten>>
      BY <1>2 DEF Start, Begin, RunnerTypeOK, TypeOK, storeVars
  <2> QED BY <2>1 DEF HistoryInv, Exact
<1>3. CASE GiveUp(r)
  <2>1. /\ picked'[r] = {} /\ UNCHANGED <<pc, job>>
        /\ UNCHANGED <<stage, found, fails, known, recorded, failed, forgotten>>
      BY <1>3 DEF GiveUp, RunnerTypeOK, vars, orderVars, storeVars
  <2> QED BY <2>1 DEF HistoryInv, Exact
<1>4. CASE Execute(r)
  <2>1. /\ stage[r] = "run" /\ pc[r] # "idle" /\ job[r] \in Candidates /\ job[r] \in found[r]
        /\ job[r] \notin picked[r]
      BY <1>4 DEF Execute, RunnerTypeOK, TypeOK, HistoryInv
  <2>2. CASE pc'[r] = "idle"
    <3>1. Learn(r)
        BY <1>4, <2>2 DEF Execute
    <3>2. UNCHANGED <<stage, found, picked, known, recorded, forgotten>>
        BY <3>1 DEF Learn, storeVars
    <3>3. \A c \in Candidates \ {job[r]} : fails'[r][c] = fails[r][c] /\ failed'[c] = failed[c]
        BY <3>1 DEF Learn, RunnerTypeOK
    <3>4. ASSUME job[r] \notin forgotten
          PROVE  /\ failed'[job[r]] = fails'[r][job[r]] /\ recorded[job[r]] <= failed'[job[r]]
      <4>1. /\ failed[job[r]] = fails[r][job[r]] /\ recorded[job[r]] <= failed[job[r]]
            /\ failed[job[r]] \in Nat /\ recorded[job[r]] \in Nat
          BY <2>1, <3>4 DEF HistoryInv, Exact, RunnerTypeOK
      <4>2. \/ fails' = fails /\ failed' = failed
            \/ /\ fails' = [fails EXCEPT ![r][job[r]] = @ + 1]
               /\ failed' = [failed EXCEPT ![job[r]] = @ + 1]
          BY <3>1, <3>4 DEF Learn
      <4>3. CASE fails' = fails /\ failed' = failed
          BY <4>1, <4>3
      <4>4. CASE /\ fails' = [fails EXCEPT ![r][job[r]] = @ + 1]
                 /\ failed' = [failed EXCEPT ![job[r]] = @ + 1]
        <5>1. fails'[r][job[r]] = fails[r][job[r]] + 1 /\ failed'[job[r]] = failed[job[r]] + 1
            BY <2>1, <4>4 DEF RunnerTypeOK
        <5> QED BY <4>1, <5>1
      <4> QED BY <4>2, <4>3, <4>4
    <3>5. ASSUME NEW c \in Candidates, c \notin forgotten' PROVE Exact(c)'
      <4>1. CASE c = job[r]
          BY <2>1, <3>2, <3>4, <3>5, <4>1 DEF Exact
      <4>2. CASE c # job[r]
          BY <3>2, <3>3, <3>5, <4>2 DEF Exact, HistoryInv
      <4> QED BY <4>1, <4>2
    <3>6. \A c \in picked'[r] : fails'[r][c] < MaxFailures
        BY <2>1, <3>2, <3>3 DEF HistoryInv, RunnerTypeOK
    <3> QED BY <2>2, <3>2, <3>5, <3>6 DEF HistoryInv
  <2>3. CASE pc'[r] # "idle"
    <3>1. job'[r] = job[r] /\ UNCHANGED runnerVars
        BY <1>4, <1>t, <2>3, StepKeepsJob DEF Execute
    <3> QED BY <2>1, <3>1 DEF HistoryInv, Exact, runnerVars, runVars, storeVars
  <2> QED BY <2>2, <2>3
<1>5. CASE Persist(r)
  <2>1. Leave(r) /\ pc'[r] = "idle" /\ stage[r] = "run"
      BY <1>5 DEF Persist, vars
  <2>2. PICK stays \in SUBSET (known \cup found[r]) :
          /\ known' = stays
          /\ recorded' = [c \in Candidates |-> IF c \in stays THEN Merged(r, c) ELSE 0]
          /\ Lose({c \in (known \cup found[r]) \ stays : failed[c] > 0})
      BY <1>5 DEF Persist
  <2>3. ASSUME NEW c \in Candidates, c \notin forgotten' PROVE recorded'[c] = failed'[c]
    <3>1. /\ c \notin forgotten /\ failed'[c] = failed[c] /\ failed[c] \in Nat
          /\ recorded[c] \in Nat
          /\ c \in (known \cup found[r]) \ stays => ~(failed[c] > 0)
        BY <2>2, <2>3 DEF Lose, RunnerTypeOK
    <3>2. Exact(c) /\ (c \notin known => recorded[c] = 0)
        BY <3>1 DEF HistoryInv
    <3>3. CASE c \in stays
      <4>1. recorded'[c] = Merged(r, c)
          BY <2>2, <3>3
      <4>2. CASE c \in found[r]
          BY <2>1, <3>1, <3>2, <4>1, <4>2 DEF Merged, Exact
      <4>3. CASE c \notin found[r]
          BY <3>1, <3>2, <4>1, <4>3 DEF Merged, Exact
      <4> QED BY <4>2, <4>3
    <3>4. CASE c \notin stays
      <4>1. recorded'[c] = 0
          BY <2>2, <3>4
      <4>2. c \in known \cup found[r] => failed[c] = 0
          BY <3>1, <3>4
      <4>3. c \notin known \cup found[r] => failed[c] = 0
          BY <3>2 DEF Exact
      <4> QED BY <3>1, <4>1, <4>2, <4>3
    <3> QED BY <3>3, <3>4
  <2>4. \A c \in Candidates : c \notin known' => recorded'[c] = 0
      BY <2>2
  <2> QED BY <2>1, <2>3, <2>4, LeftHistory
<1>6. CASE PersistFails(r) \/ Die(r)
  <2>1. /\ Leave(r) /\ Lose(found[r]) /\ UNCHANGED <<known, recorded>> /\ stage[r] = "run"
      BY <1>6 DEF PersistFails, Die, storeVars
  <2>2. pc'[r] = "idle"
      BY <1>6, <1>t DEF PersistFails, Die, Kill, End, TypeOK, vars
  <2>3. ASSUME NEW c \in Candidates, c \notin forgotten' PROVE recorded'[c] = failed'[c]
    <3>1. c \notin forgotten /\ c \notin found[r] /\ failed'[c] = failed[c]
        BY <2>1, <2>3 DEF Lose
    <3> QED BY <2>1, <3>1 DEF HistoryInv, Exact
  <2>4. \A c \in Candidates : c \notin known' => recorded'[c] = 0
      BY <2>1 DEF HistoryInv
  <2> QED BY <2>1, <2>2, <2>3, <2>4, LeftHistory
<1>7. CASE Malformed
  <2>1. /\ recorded' = NoFailures /\ Lose(known)
        /\ UNCHANGED <<stage, found, picked, fails, pc, job>>
      BY <1>7 DEF Malformed, vars, orderVars, runVars
  <2>2. ASSUME NEW c \in Candidates, c \notin forgotten' PROVE Exact(c)'
    <3>1. c \notin forgotten /\ c \notin known /\ failed'[c] = failed[c] /\ failed[c] \in Nat
        BY <2>1, <2>2 DEF Lose, RunnerTypeOK
    <3>2. recorded[c] = 0 /\ recorded'[c] = 0
        BY <2>1, <3>1 DEF HistoryInv, NoFailures
    <3> QED BY <2>1, <3>1, <3>2 DEF HistoryInv, Exact
  <2> QED BY <2>1, <2>2 DEF HistoryInv, NoFailures
<1>8. ASSUME NEW f \in Files, Edit(f) PROVE HistoryInv'
    BY <1>8 DEF Edit, UserEdit, orderVars, runnerVars, runVars, storeVars, HistoryInv, Exact
<1>9. CASE UNCHANGED allVars
    BY <1>9 DEF allVars, runnerVars, runVars, storeVars, vars, orderVars, HistoryInv, Exact
<1> QED BY <1>1, <1>2, <1>3, <1>4, <1>5, <1>6, <1>7, <1>8, <1>9 DEF RunnerNext, Progress

LEMMA HistoryInit == RunnerInit => HistoryInv
BY DEF RunnerInit, Init, HistoryInv, Exact, NoFailures

LEMMA HistoryCorrect == ASSUME NEW r, Procs = {r} PROVE RunnerSpec => []HistoryInv
<1>1. RunnerTypeOK /\ RunnerTypeOK' /\ HistoryInv /\ [RunnerNext]_allVars => HistoryInv'
    BY HistoryStep
<1> QED BY <1>1, HistoryInit, RunnerTypeCorrect, PTL DEF RunnerSpec

\* With one run at a time no candidate is executed that has failed as often as the
\* policy tolerates, however many runs and candidates there are, whatever is evicted
\* and whoever dies: unless its own history was lost.
THEOREM RetriesAreBounded == ASSUME NEW r, Procs = {r} PROVE RunnerSpec => []FailuresAddUp
<1>1. RunnerTypeOK /\ HistoryInv => FailuresAddUp
    BY DEF RunnerTypeOK, TypeOK, HistoryInv, Exact, FailuresAddUp
<1> QED BY <1>1, RunnerTypeCorrect, HistoryCorrect, PTL

\* And between runs the store has counted every failure whose history is not lost.
THEOREM StoreIsExact == ASSUME NEW r, Procs = {r} PROVE RunnerSpec => []StoreRemembers
<1>1. HistoryInv => StoreRemembers
    BY DEF HistoryInv, Exact, StoreRemembers
<1> QED BY <1>1, HistoryCorrect, PTL

-----------------------------------------------------------------------------
(* The tiers.                                                              *)

\* The combinator of the policy can only lower: its result is one of the tiers it
\* combines and no stronger than any.
LEMMA Weakest ==
    ASSUME NEW tiers \in SUBSET TIER_ORDER, tiers # {}
    PROVE  /\ weakest_tier(tiers) \in tiers
           /\ \A other \in tiers : weakest_tier(tiers) <= other
<1>1. \E tier \in tiers : \A other \in tiers : tier <= other
  <2>1. CASE 0 \in tiers
    BY <2>1 DEF TIER_ORDER, OBSERVE_ONLY, EXECUTE_AUTONOMOUSLY
  <2>2. CASE 0 \notin tiers /\ 1 \in tiers
    BY <2>2 DEF TIER_ORDER, OBSERVE_ONLY, EXECUTE_AUTONOMOUSLY
  <2>3. CASE 0 \notin tiers /\ 1 \notin tiers /\ 2 \in tiers
    BY <2>3 DEF TIER_ORDER, OBSERVE_ONLY, EXECUTE_AUTONOMOUSLY
  <2>4. CASE 0 \notin tiers /\ 1 \notin tiers /\ 2 \notin tiers /\ 3 \in tiers
    BY <2>4 DEF TIER_ORDER, OBSERVE_ONLY, EXECUTE_AUTONOMOUSLY
  <2>5. CASE \A n \in 0..3 : n \notin tiers
    <3>1. \A tier \in tiers : tier = 4
      BY <2>5 DEF TIER_ORDER, OBSERVE_ONLY, EXECUTE_AUTONOMOUSLY
    <3>. QED  BY <3>1
  <2>. QED  BY <2>1, <2>2, <2>3, <2>4, <2>5
<1>. QED  BY <1>1 DEF weakest_tier

LEMMA CapsAreTiers ==
    ASSUME NEW facts \in Evidence, NEW tier \in TIER_ORDER, NEW executions \in Nat
    PROVE  Caps(facts, tier, executions) \in SUBSET TIER_ORDER
BY DEF Caps, When, TIER_ORDER, OBSERVE_ONLY, RECOMMEND, PLAN_ONLY,
       EXECUTE_WITH_EXISTING_APPROVAL, EXECUTE_AUTONOMOUSLY

\* "The granted tier is never stronger than the configured tier", whatever tier is
\* configured and whatever is known of the candidate.
THEOREM GrantNeverStronger ==
    ASSUME NEW facts \in Evidence, NEW tier, NEW executions \in Nat
    PROVE  /\ decide(facts, tier, executions).granted \in TIER_ORDER
           /\ decide(facts, tier, executions).granted <= Configured(tier)
<1>1. Configured(tier) \in TIER_ORDER
  BY DEF Configured, TIER_ORDER, OBSERVE_ONLY, EXECUTE_AUTONOMOUSLY
<1>2. CASE Blocked(facts)
  <2>1. {Configured(tier), OBSERVE_ONLY} \in SUBSET TIER_ORDER
    BY <1>1 DEF TIER_ORDER, OBSERVE_ONLY, EXECUTE_AUTONOMOUSLY
  <2>. QED  BY <2>1, <1>2, Weakest DEF decide
<1>3. CASE ~Blocked(facts)
  <2>1. Caps(facts, Configured(tier), executions) \in SUBSET TIER_ORDER
    BY <1>1, CapsAreTiers
  <2>2. Configured(tier) \in Caps(facts, Configured(tier), executions)
    BY DEF Caps
  <2>. QED  BY <2>1, <2>2, <1>3, Weakest DEF decide
<1>. QED  BY <1>2, <1>3

\* What may execute was cleared of every refusal: no protected file, no path outside
\* the repository, no worn out candidate, no kind without a remedy, no execution the
\* budget has no room for; and without approval only on established evidence.
THEOREM ExecutionIsWarranted ==
    ASSUME NEW facts \in Evidence, NEW tier, NEW executions \in Nat,
           may_execute(decide(facts, tier, executions))
    PROVE  /\ facts.paths = {"plain"} /\ ~facts.worn /\ facts.actionable /\ ~facts.many
           /\ facts.confidence >= 1 /\ executions > 0
           /\ decide(facts, tier, executions).granted = EXECUTE_AUTONOMOUSLY =>
                facts.confidence = 2 /\ facts.established /\ ~facts.uncertain
<1> DEFINE granted == decide(facts, tier, executions).granted
           caps == Caps(facts, Configured(tier), executions)
<1>1. ~Blocked(facts) /\ granted \in {3, 4}
  BY DEF may_execute, decide, EXECUTING_TIERS, EXECUTE_WITH_EXISTING_APPROVAL,
         EXECUTE_AUTONOMOUSLY
<1>2. Configured(tier) \in TIER_ORDER
  BY DEF Configured, TIER_ORDER, OBSERVE_ONLY, EXECUTE_AUTONOMOUSLY
<1>3. caps \in SUBSET TIER_ORDER /\ Configured(tier) \in caps
  BY <1>2, CapsAreTiers DEF Caps
<1>4. \A other \in caps : granted <= other
  BY <1>1, <1>3, Weakest DEF decide
<1>5. 1 \notin caps /\ 2 \notin caps
  BY <1>1, <1>4
<1>6. granted = 4 => 3 \notin caps
  BY <1>4
<1>7. /\ facts.actionable /\ facts.paths # {} /\ ~facts.many
      /\ ~(facts.confidence < 1) /\ executions # 0
  BY <1>5 DEF Caps, When, RECOMMEND, PLAN_ONLY
<1>8. granted = 4 =>
         ~facts.uncertain /\ ~(facts.confidence < 2) /\ facts.established
  BY <1>6 DEF Caps, When, EXECUTE_WITH_EXISTING_APPROVAL
<1>9. facts.paths = {"plain"} /\ ~facts.worn
  BY <1>1, <1>7 DEF Blocked, rejected_paths, Evidence, PathKinds
<1>10. facts.confidence \in 0..2 /\ facts.established \in BOOLEAN
  BY DEF Evidence
<1>. QED  BY <1>7, <1>8, <1>9, <1>10 DEF EXECUTE_AUTONOMOUSLY

-----------------------------------------------------------------------------
(* What a run reports.                                                     *)

\* A candidate has an outcome exactly if it went all the way, in the run and in the
\* store; between runs there is no outcome; the candidate that is executed has none
\* yet; and it counts as repaired once the executor has answered that it completed.
ReportTyped ==
    /\ at \in {"off", "run", "executing", "returned"}
    /\ phase \in [Ids -> States] /\ outcome \in [Ids -> ReassessmentOutcomes]
    /\ stored \in [Ids -> [phase : States, outcome : ReassessmentOutcomes]]
    /\ consumed \in [executed : 0..max_candidates_executed, elapsed : 0..max_elapsed_seconds]
    /\ IsFiniteSet(scanned) /\ IsFiniteSet(kept) /\ Cardinality(kept) <= max_candidates
    /\ answer.completed \in BOOLEAN
ReportInv ==
    /\ ReportTyped
    /\ at = "off" => outcome = Pending
    /\ at \in {"executing", "returned"} => subject \in Ids /\ phase[subject] = "executing"
    /\ at = "returned" /\ answer.completed => subject \in repaired
    /\ \A id \in Ids : /\ AsItWent(phase[id], outcome[id])
                       /\ AsItWent(stored[id].phase, stored[id].outcome)
                       /\ outcome[id] = "resolved" => id \in repaired

\* What _safe_transition may do.
LEMMA MovedTyped ==
    ASSUME NEW state \in States, NEW requested \in States
    PROVE  /\ Moved(state, requested) \in States
           /\ Moved(state, requested) \in {state, requested}
BY DEF Moved

LEMMA StatesAre ==
    States = {"detected", "triaged", "selected", "planned", "executing", "validated",
              "reassessed", "deferred", "rejected", "blocked"}
BY DEF States, ALLOWED_CANDIDATE_TRANSITIONS

\* The way of an executed candidate, and of one that is not executed.
LEMMA WayToReport ==
    /\ Moved("executing", "reassessed") = "reassessed"
    /\ Through("executing", "validated", "reassessed") = "reassessed"
    /\ Through("selected", "planned", "executing") = "executing"
    /\ Through("selected", "planned", "deferred") = "deferred"
    /\ Moved("selected", "planned") = "planned"
BY DEF Moved, Through, ALLOWED_CANDIDATE_TRANSITIONS

\* A verdict is none of "pending", and a failed execution has not resolved anything.
LEMMA VerdictTyped ==
    ASSUME NEW before, NEW after, NEW work
    PROVE  reassess(before, after, work) \in ReassessmentOutcomes \ {"pending"}
BY DEF reassess, ReassessmentOutcomes

LEMMA CreditedTyped ==
    ASSUME NEW succeeded \in BOOLEAN, NEW verdict \in ReassessmentOutcomes \ {"pending"}
    PROVE  /\ Credited(succeeded, verdict) \in ReassessmentOutcomes \ {"pending"}
           /\ Credited(succeeded, verdict) = "resolved" => succeeded
BY DEF Credited, ReassessmentOutcomes

LEMMA ReportInitial == ReportInit => ReportInv
<1> SUFFICES ASSUME ReportInit PROVE ReportInv
    OBVIOUS
<1>1. IsFiniteSet({}) /\ Cardinality({}) = 0
    BY FS_EmptySet
<1> QED BY <1>1, StatesAre, ReportAssumption
        DEF ReportInit, ReportInv, ReportTyped, AsItWent, Untouched, Pending, Detected,
            NoAnswer, ReassessmentOutcomes

LEMMA ReportFinish ==
    ASSUME Finish
    PROVE  /\ at' = "off" /\ outcome' = Pending /\ phase' = Untouched
           /\ phase' \in [Ids -> States] /\ outcome' \in [Ids -> ReassessmentOutcomes]
           /\ consumed' \in [executed : 0..max_candidates_executed,
                             elapsed : 0..max_elapsed_seconds]
           /\ IsFiniteSet(scanned') /\ answer'.completed \in BOOLEAN
           /\ \A id \in Ids : AsItWent(phase'[id], outcome'[id]) /\ outcome'[id] # "resolved"
BY FS_EmptySet, StatesAre, ReportAssumption
   DEF Finish, Untouched, Pending, NoAnswer, AsItWent, ReassessmentOutcomes

LEMMA ReportSurvey == ASSUME ReportInv, Survey PROVE ReportInv'
<1>1. PICK S \in SUBSET defects : IsFiniteSet(S) /\ \E verdict \in [S -> Verdicts] :
        \E plannable \in SUBSET S : \E selected \in SUBSET plannable :
          /\ scanned' = S
          /\ phase' = [id \in Ids |->
                CASE id \notin S -> "detected"
                  [] id \in S /\ verdict[id].blocked -> Moved("detected", "blocked")
                  [] id \in selected -> Through("detected", "triaged", "selected")
                  [] id \in plannable \ selected -> Through("detected", "triaged", "deferred")
                  [] OTHER -> Moved("detected", "triaged")]
    BY DEF Survey
<1>2. \A state \in {Moved("detected", "blocked"), Through("detected", "triaged", "selected"),
                   Through("detected", "triaged", "deferred"), Moved("detected", "triaged")} :
        state \in States \ {"reassessed"}
    BY StatesAre DEF Moved, Through, ALLOWED_CANDIDATE_TRANSITIONS
<1>3. phase' \in [Ids -> States \ {"reassessed"}]
    BY <1>1, <1>2, StatesAre
<1>4. at' = "run" /\ outcome' = Pending
    BY DEF Survey, ReportInv
<1>5. ReportTyped'
    BY <1>1, <1>3 DEF Survey, ReportInv, ReportTyped, storeState
<1> QED BY <1>3, <1>4, <1>5
        DEF Survey, ReportInv, AsItWent, Pending, storeState, ReassessmentOutcomes

LEMMA ReportOne ==
    ASSUME ReportInv, NEW id \in Ids, Plan(id) \/ Defer(id) \/ Hand(id)
    PROVE  ReportInv'
<1>1. /\ phase' \in [Ids -> States]
      /\ \A other \in Ids : other # id => phase'[other] = phase[other]
      /\ phase[id] = "selected" /\ phase'[id] \in States \ {"reassessed"}
      /\ Hand(id) => phase'[id] = "executing" /\ subject' = id
    BY WayToReport, StatesAre DEF Plan, Defer, Hand, ReportInv, ReportTyped
<1>2. consumed' \in [executed : 0..max_candidates_executed, elapsed : 0..max_elapsed_seconds]
    BY ReportAssumption DEF Plan, Defer, Hand, Affordable, ReportInv, ReportTyped
<1>3. /\ at = "run" /\ at' \in {"run", "executing"}
      /\ at' = "executing" => Hand(id)
      /\ UNCHANGED <<answer, scanned, outcome, storeState, repaired>>
    BY DEF Plan, Defer, Hand
<1>4. ReportTyped'
    BY <1>1, <1>2, <1>3 DEF ReportInv, ReportTyped, storeState
<1> QED BY <1>1, <1>3, <1>4 DEF ReportInv, AsItWent, storeState

LEMMA ReportAnswer == ASSUME ReportInv, Answer PROVE ReportInv'
<1>1. /\ at = "executing" /\ at' = "returned"
      /\ UNCHANGED <<subject, scanned, cleared, phase, outcome, consumed, kept, stored>>
    BY DEF Answer, storeState
<1>2. /\ answer'.completed \in BOOLEAN /\ repaired \subseteq repaired'
      /\ answer'.completed => subject \in repaired'
  <2>1. CASE /\ answer' = [completed |-> TRUE, validation |-> "passed", semantic |-> "passed"]
             /\ repaired' = repaired \cup {subject}
      BY <2>1
  <2>2. CASE answer' \in Failures /\ UNCHANGED repaired
    <3>1. answer'.completed = FALSE
        BY <2>2 DEF Failures
    <3> QED BY <2>2, <3>1
  <2> QED BY <2>1, <2>2 DEF Answer
<1>3. subject \in Ids /\ phase[subject] = "executing"
    BY <1>1 DEF ReportInv
<1>4. ReportTyped'
    BY <1>1, <1>2 DEF ReportInv, ReportTyped
<1>5. \A id \in Ids : /\ AsItWent(phase'[id], outcome'[id])
                      /\ AsItWent(stored'[id].phase, stored'[id].outcome)
                      /\ outcome'[id] = "resolved" => id \in repaired'
    BY <1>1, <1>2 DEF ReportInv
<1> QED BY <1>1, <1>2, <1>3, <1>4, <1>5 DEF ReportInv

LEMMA ReportReassess == ASSUME ReportInv, Reassess PROVE ReportInv'
<1>1. PICK verdict \in ReassessmentOutcomes \ {"pending"}, time \in 0..max_elapsed_seconds :
        /\ outcome' = [outcome EXCEPT ![subject] = Credited(answer.completed, verdict)]
        /\ consumed' = [consumed EXCEPT !.elapsed =
               IF @ + time > max_elapsed_seconds THEN max_elapsed_seconds ELSE @ + time]
  <2>1. PICK degraded \in BOOLEAN, time \in 0..max_elapsed_seconds :
          LET work == [executed |-> TRUE, degraded |-> degraded,
                       validation |-> answer.validation, semantic |-> answer.semantic]
              said == {reassess(Gone, Gone, work)}
                      \cup IF subject \in defects THEN Again(work) ELSE {}
          IN /\ \E verdict \in said :
                  outcome' = [outcome EXCEPT ![subject] = Credited(answer.completed, verdict)]
             /\ consumed' = [consumed EXCEPT !.elapsed =
                    IF @ + time > max_elapsed_seconds THEN max_elapsed_seconds ELSE @ + time]
      BY DEF Reassess
  <2> DEFINE work == [executed |-> TRUE, degraded |-> degraded,
                      validation |-> answer.validation, semantic |-> answer.semantic]
             said == {reassess(Gone, Gone, work)}
                     \cup IF subject \in defects THEN Again(work) ELSE {}
  <2>2. PICK verdict \in said :
           outcome' = [outcome EXCEPT ![subject] = Credited(answer.completed, verdict)]
      BY <2>1
  <2> HIDE DEF work
  <2>3. said \subseteq ReassessmentOutcomes \ {"pending"}
      BY VerdictTyped DEF Again
  <2> HIDE DEF said
  <2> QED BY <2>1, <2>2, <2>3
<1>2. /\ subject \in Ids /\ phase[subject] = "executing" /\ at' = "run"
      /\ answer.completed => subject \in repaired
      /\ UNCHANGED <<scanned, storeState, repaired>> /\ answer' = NoAnswer
    BY DEF Reassess, ReportInv
<1>3. /\ phase' \in [Ids -> States] /\ phase'[subject] = "reassessed"
      /\ \A id \in Ids : id # subject => phase'[id] = phase[id]
    BY <1>2, WayToReport, StatesAre DEF Reassess, ReportInv, ReportTyped
<1>4. /\ outcome'[subject] \in ReassessmentOutcomes \ {"pending"}
      /\ outcome'[subject] = "resolved" => subject \in repaired
      /\ \A id \in Ids : id # subject => outcome'[id] = outcome[id]
      /\ outcome' \in [Ids -> ReassessmentOutcomes]
    BY <1>1, <1>2, CreditedTyped DEF ReportInv, ReportTyped
<1>5. consumed' \in [executed : 0..max_candidates_executed, elapsed : 0..max_elapsed_seconds]
    BY <1>1, ReportAssumption DEF ReportInv, ReportTyped
<1>6. ReportTyped'
    BY <1>2, <1>3, <1>4, <1>5 DEF ReportInv, ReportTyped, NoAnswer, storeState
<1> QED BY <1>2, <1>3, <1>4, <1>6, StatesAre DEF ReportInv, AsItWent, storeState

LEMMA ReportStore == ASSUME ReportInv, Store PROVE ReportInv'
<1>1. PICK K \in SUBSET (kept \cup scanned), renewed \in SUBSET (kept \cap scanned) :
        /\ IF Cardinality(kept \cup scanned) > max_candidates
           THEN Cardinality(K) = max_candidates
           ELSE K = kept \cup scanned
        /\ kept' = K
        /\ stored' = [id \in Ids |->
              CASE id \notin K -> Detected
                [] id \in K /\ id \in (scanned \ kept) \cup renewed ->
                      [phase |-> phase[id], outcome |-> outcome[id]]
                [] OTHER -> stored[id]]
    BY DEF Store
<1>2. IsFiniteSet(kept \cup scanned) /\ IsFiniteSet(K)
    BY FS_Union, FS_Subset DEF ReportInv, ReportTyped
<1>3. Cardinality(K) <= max_candidates
  <2>1. Cardinality(kept \cup scanned) \in Nat /\ max_candidates \in Nat
      BY <1>2, FS_CardinalityType, ReportAssumption
  <2>2. CASE Cardinality(kept \cup scanned) > max_candidates
      BY <1>1, <2>1, <2>2
  <2>3. CASE ~(Cardinality(kept \cup scanned) > max_candidates)
    <3>1. K = kept \cup scanned
        BY <1>1, <2>3
    <3> QED BY <2>1, <2>3, <3>1
  <2> QED BY <2>2, <2>3
<1>4. ASSUME NEW id \in Ids
      PROVE  /\ stored'[id] \in [phase : States, outcome : ReassessmentOutcomes]
             /\ AsItWent(stored'[id].phase, stored'[id].outcome)
  <2>1. /\ Detected \in [phase : States, outcome : ReassessmentOutcomes]
        /\ AsItWent(Detected.phase, Detected.outcome)
      BY StatesAre DEF Detected, ReassessmentOutcomes, AsItWent
  <2>2. /\ phase[id] \in States /\ outcome[id] \in ReassessmentOutcomes
        /\ stored[id] \in [phase : States, outcome : ReassessmentOutcomes]
        /\ AsItWent(phase[id], outcome[id]) /\ AsItWent(stored[id].phase, stored[id].outcome)
    <3>1. /\ phase \in [Ids -> States] /\ outcome \in [Ids -> ReassessmentOutcomes]
          /\ stored \in [Ids -> [phase : States, outcome : ReassessmentOutcomes]]
        BY DEF ReportInv, ReportTyped
    <3>2. AsItWent(phase[id], outcome[id]) /\ AsItWent(stored[id].phase, stored[id].outcome)
        BY DEF ReportInv
    <3> QED BY <3>1, <3>2
  <2> DEFINE taken == [phase |-> phase[id], outcome |-> outcome[id]]
  <2>3. stored'[id] \in {Detected, taken, stored[id]}
    <3> HIDE DEF taken
    <3>1. stored'[id] = CASE id \notin K -> Detected
                          [] id \in K /\ id \in (scanned \ kept) \cup renewed -> taken
                          [] OTHER -> stored[id]
        BY <1>1 DEF taken
    <3> QED BY <3>1
  <2>4. /\ taken \in [phase : States, outcome : ReassessmentOutcomes]
        /\ taken.phase = phase[id] /\ taken.outcome = outcome[id]
      BY <2>2
  <2> HIDE DEF taken
  <2> QED BY <2>1, <2>2, <2>3, <2>4
<1>5. stored' \in [Ids -> [phase : States, outcome : ReassessmentOutcomes]]
    BY <1>1, <1>4
<1>6. Finish
    BY DEF Store
<1>7. ReportTyped'
    BY <1>1, <1>2, <1>3, <1>5, <1>6, ReportFinish DEF ReportTyped
<1> QED BY <1>4, <1>6, <1>7, ReportFinish DEF ReportInv

LEMMA ReportLost == ASSUME ReportInv, Lost PROVE ReportInv'
<1>1. CASE Finish /\ UNCHANGED storeState
    BY <1>1, ReportFinish DEF ReportInv, ReportTyped, storeState
<1>2. CASE kept' = {} /\ stored' = [id \in Ids |-> Detected] /\ UNCHANGED <<runState, repaired>>
  <2>1. ReportTyped'
      BY <1>2, StatesAre, FS_EmptySet, ReportAssumption
      DEF ReportInv, ReportTyped, Detected, ReassessmentOutcomes, runState
  <2>2. UNCHANGED <<at, subject, answer, phase, outcome, repaired>>
      BY <1>2 DEF runState
  <2>3. ASSUME NEW id \in Ids PROVE AsItWent(stored'[id].phase, stored'[id].outcome)
    <3>1. stored'[id].phase = "detected" /\ stored'[id].outcome = "pending"
        BY <1>2 DEF Detected
    <3>2. AsItWent("detected", "pending")
        BY StatesAre DEF AsItWent, ReassessmentOutcomes
    <3> QED BY <3>1, <3>2
  <2>4. ASSUME NEW id \in Ids
        PROVE  /\ AsItWent(phase'[id], outcome'[id])
               /\ outcome'[id] = "resolved" => id \in repaired'
      BY <2>2 DEF ReportInv
  <2>5. /\ at' = "off" => outcome' = Pending
        /\ at' \in {"executing", "returned"} => subject' \in Ids /\ phase'[subject'] = "executing"
        /\ at' = "returned" /\ answer'.completed => subject' \in repaired'
      BY <2>2 DEF ReportInv
  <2> QED BY <2>1, <2>3, <2>4, <2>5 DEF ReportInv
<1> QED BY <1>1, <1>2 DEF Lost

LEMMA ReportStep == ReportInv /\ [ReportNext]_reportVars => ReportInv'
<1> SUFFICES ASSUME ReportInv, [ReportNext]_reportVars PROVE ReportInv'
    OBVIOUS
<1>1. CASE UserChanges \/ UNCHANGED reportVars
    BY <1>1 DEF UserChanges, ReportInv, ReportTyped, AsItWent, reportVars, runState, storeState
<1> QED BY <1>1, ReportSurvey, ReportOne, ReportAnswer, ReportReassess, ReportStore,
           ReportLost DEF ReportNext

LEMMA ReportCorrect == ReportSpec => []ReportInv
BY ReportInitial, ReportStep, PTL DEF ReportSpec

\* What runs report is so, whatever the policy grants, the executor answers, the scans
\* see and the store loses, and for any budgets, retention and number of candidates.
THEOREM ReportsAreSound == ReportSpec => []ReportsAreTrue
<1>1. ReportInv => ReportsAreTrue
    BY DEF ReportInv, ReportTyped, ReportsAreTrue
<1> QED BY <1>1, ReportCorrect, PTL

=============================================================================
