------------------------------ MODULE MCLearning ------------------------------
(***************************************************************************)
(* Two runs and their shared history, with what the impact analysis of small *)
(* repositories reports; and, apart from them, every question one may ask    *)
(* the analysis about such a repository.                                    *)
(***************************************************************************)
EXTENDS ValidationLearning, SemanticImpact, TLC

CONSTANTS r1, r2, main, tree, base, mid, app, web, t1, t2

\* base <- mid <- app <- web are modules, t1 and t2 tests; base loses, keeps,
\* changes or cannot show its function, which was public or was not
MCOrder == <<base, mid, app, web, t1, t2>>
MCDerives == (t1 :> base) @@ (t2 :> mid)
Unchanged == Parsed("_h" :> 1)
Repos ==
    { [now |-> (base :> now) @@ [p \in {mid, app, web, t1, t2} |-> Unchanged],
       base |-> (base :> was) @@ (mid :> Parsed("_h" :> 2)) @@
                [p \in {app, web, t1, t2} |-> Unchanged],
       imports |-> (base :> {}) @@ (mid :> i1) @@ (app :> i2) @@ (web :> i3) @@
                   (t1 :> i4) @@ (t2 :> i5),
       dynamic |-> dynamic,
       refs |-> [p \in {base, mid, app, web} |-> {}] @@ (t1 :> {"f"}) @@ (t2 :> {})] :
         now \in {Missing, Unparsed, Parsed("f" :> 1), Parsed("f" :> 2)},
         was \in {Parsed("f" :> 1), Unchanged}, i1 \in SUBSET {base, app},
         i2 \in {{}, {base}, {mid}}, i3 \in {{}, {app}}, i4 \in {{}, {base}, {mid}},
         i5 \in SUBSET {mid, app, web}, dynamic \in {{}, {app}} }
MCQuestions == [repo : Repos, changed : {{base}, {base, mid}, {mid}, {app}}, lexical : {{}, {t2}}]

\* What a run keeps of a report
Summary(report) ==
    [confidence |-> report.confidence, scope |-> report.scope,
     degraded |-> report.degraded, targets |-> DOMAIN report.targets,
     types |-> { report.targets[t] : t \in DOMAIN report.targets }]
\* The first run's reports are fairly sure, the second's find nothing to run
Likely == [confidence |-> "medium", scope |-> "expanded", degraded |-> FALSE, targets |-> {t2},
           types |-> {"reverse_dependency"}]
Unsure == [confidence |-> "low", scope |-> "broad", degraded |-> TRUE, targets |-> {}, types |-> {}]
MCReports == (r1 :> {Likely}) @@ (r2 :> {Unsure})
ASSUME {Likely, Unsure} \subseteq { Summary(Analyze(q.repo, q.changed, q.lexical)) : q \in MCQuestions }

MCDefects == <<"d1">>
OneAndTwo == (r1 :> 1) @@ (r2 :> 2)
ThreeAndOne == (r1 :> 3) @@ (r2 :> 1)
OneRoot == [ t \in {r1, r2} |-> main ]
OwnTrees == (r1 :> main) @@ (r2 :> tree)

\* Apart from them: before any run, and without disturbances
AskFirst == faults = 0 /\ (\A t \in Threads : run[t] = Idle) /\ Ask /\ UNCHANGED vars
MCInit == Init /\ question = NoQuestion /\ answer = NoQuestion

\* What a run does by itself commutes with the steps of the other, which never look at
\* it: it is done first, and only a crash may come before it.
\* Saves fail for the run of three rounds, and the process dies before its third.
ByItself == {"generate", "validate", "review"}
Turn(t) ==
    \A u \in Threads \ {t} :
        run[u].pc \in ByItself => run[t].pc \in ByItself /\ t = r1
MCNext ==
    \/ AskFirst
    \/ /\ question = NoQuestion /\ UNCHANGED <<question, answer>>
       /\ \/ \E t \in Threads : Turn(t) /\ (Begin(t) \/ Step(t))
          \/ Turn(r1) /\ (HistoryFails(r1) \/ TelemetryFails(r1))
          \/ run[r1].round < 3 /\ Crash
          \/ DamageHistory \/ DamageTelemetry
MCSpec == MCInit /\ [][MCNext]_<<vars, question, answer>>
=============================================================================
