--------------------------- MODULE MCDagAmendment ---------------------------
EXTENDS DagAmendment, TLC

CONSTANTS a, b, c

\* Dependency lists of at most one subtask.
DepLists == {{}} \cup {{s} : s \in Ids}
OneLink == {Nothing} \cup {(s :> d) : s \in Ids, d \in DepLists}
AtMostOne == {{}} \cup {{s} : s \in Ids}

\* Proposals with at most two of their four parts, each part about one subtask.
PartCount(p) ==
  Cardinality({<<"inv", s>> : s \in p.inv} \cup {<<"drops", s>> : s \in p.drops} \cup
              {<<"adds", s>> : s \in DOMAIN p.adds} \cup {<<"updates", s>> : s \in DOMAIN p.updates})
DagProposals == {p \in [kind : {"dag"}, inv : AtMostOne, reps : OneLink, drops : AtMostOne,
                        adds : OneLink, updates : OneLink] :
                   PartCount(p) \in 1..2 /\ (p.inv = {} => p.reps = Nothing)}
PlanProposals == {p \in [kind : {"plan"}, inv : {{}}, reps : {Nothing}, drops : {{}},
                         adds : OneLink, updates : OneLink] : PartCount(p) > 0}
SmallProposals == DagProposals \cup PlanProposals

AllModes == [autonomous : BOOLEAN, freshIds : BOOLEAN]
Reviewed == [autonomous : {FALSE}, freshIds : {TRUE}]

\* b depends on a; c is not there yet.
TwoSteps == [st |-> (a :> "PENDING") @@ (b :> "PENDING") @@ (c :> "absent"),
             deps |-> (a :> {}) @@ (b :> {a}) @@ (c :> {})]
=============================================================================
