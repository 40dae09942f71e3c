------------------------------ MODULE MCPromotion ------------------------------
EXTENDS PromotionService, HelmValues, TLC

CONSTANTS j1, j2, p1, p2, s1, s2, v1, v2, dev, prod, qa, q1, q2, x1, x2, x3

(* Each kind of value in the base against each in the stage, at the top, below *)
(* it and below that.  A key is named for what the base and the stage have     *)
(* there; under <<"map", "map">> it all comes again.                           *)
Kinds == {"missing", "null", "scalar", "list", "map"}
Keys  == (Kinds \X Kinds) \ {<<"missing", "missing">>}
Both  == <<"map", "map">>
OnlyBase  == <<"scalar", "missing">>
OnlyStage == <<"missing", "scalar">>

Value(kind, x, below) ==
  CASE kind = "null"   -> Null
    [] kind = "scalar" -> Scalar(x)
    [] kind = "list"   -> List(<<x>>)
    [] kind = "map"    -> Map(below)

AllKinds(side, x, below) ==
  LET leaf == <<OnlyBase, OnlyStage>>[side] :> Scalar(x) IN
  [key \in {k \in Keys : k[side] # "missing"} |->
     Value(key[side], x, IF key = Both THEN below ELSE leaf)]

ThreeLevels(side, x) ==
  AllKinds(side, x, AllKinds(side, x, AllKinds(side, x, <<OnlyBase, OnlyStage>>[side] :> Scalar(x))))

BaseValues  == ThreeLevels(1, x1)
StageValues == ThreeLevels(2, x2)
NextValues  == (Both :> Scalar(x2)) @@ (OnlyBase :> Null)
OtherValues == Both :> Map(OnlyStage :> List(<<x2>>))

AllPaths ==
  LET maps  == {key \in Keys : "map" \in ToSet(key)}
      above == {<<>>, <<Both>>, <<Both, Both>>}
  IN  {path \o <<key>> : path \in above, key \in Keys}
        \union {path \o <<key, leaf>> : path \in above, key \in maps, leaf \in {OnlyBase, OnlyStage}}

Values(kvs) == [values |-> kvs, version |-> NoVersion]
Broken      == [broken |-> TRUE, version |-> NoVersion]
File(x)     == [file |-> x]
Chart(version, app) == [chart |-> [version |-> version, appVersion |-> app]]

At2(dir, files) == [p \in {dir \o path : path \in DOMAIN files} |-> files[Inside(p, dir)]]

(* s1 at first, with files for dev; later with a chart of its own elsewhere, *)
(* and files for prod; and s2, whose base values are broken.                 *)
First ==
  At2(Base(s1), (<<"helm", s1, "Chart.yaml">>  :> Chart(NoVersion, v1))
             @@ (<<"helm", s1, "values.yaml">> :> Values(BaseValues))
             @@ (<<"job.yaml">>                :> File(x1)))
  @@ At2(StageOf(dev, s1), (<<"helm", s1, "values.yaml">> :> Values(StageValues))
                        @@ (<<"job.yaml">>                :> File(x2)))
Later ==
  At2(Base(s1), <<"slo.yaml">> :> File(x1))
  @@ At2(<<"chart">>, (<<"Chart.yaml">>  :> Chart(v1, v2))
                   @@ (<<"values.yaml">> :> Values(NextValues)))
  @@ At2(StageOf(prod, s1), <<"helm", s1, "values.yaml">> :> Values(OtherValues))
Other ==
  At2(Base(s2), (<<"helm", s2, "Chart.yaml">>  :> Chart(v1, v2))
             @@ (<<"helm", s2, "values.yaml">> :> Broken))
  @@ At2(StageOf(prod, s2), (<<"helm", s2, "values.yaml">> :> Values(OtherValues))
                         @@ (<<"job.yaml">>                :> File(x2)))

ThreeWorkspaces == ("first" :> First) @@ ("later" :> Later) @@ ("other" :> Other)

(* TLC merges each two of their values.yaml files once. *)
ValuesFiles ==
  UNION {{ThreeWorkspaces[w][path] :
            path \in {p \in DOMAIN ThreeWorkspaces[w] : Last(p) = "values.yaml"}} :
           w \in DOMAIN ThreeWorkspaces}
AnyValues  == ValuesFiles \union {NoFile}
EachMerged == [files \in AnyValues \X AnyValues |-> MergeValues(files[1], files[2])]
MergeOnce(base, stage) == EachMerged[<<base, stage>>]

Repository ==
  Shipyard :> [shipyard |-> <<[name |-> dev, sequences |-> <<q1>>],
                              [name |-> prod, sequences |-> <<q2>>]>>]
TwoBranches == (dev :> (<<s2, "old.yaml">> :> File(x3))) @@ (prod :> (<<"README.md">> :> File(x3)))
SomeNames   == {<<prod, s2>>}

Plain(w, s, v) ==
  [service |-> s, workspace |-> w, version |-> v, stage |-> NoName, sequence |-> NoName,
   listed |-> TRUE, chart_base |-> <<>>, useChart |-> "neither"]
WithChart(st, v) ==
  [Plain("later", s1, v) EXCEPT !.stage = st, !.chart_base = <<"chart">>,
                                !.useChart = "appVersion"]

To(s, st, v) == [understood |-> TRUE, service |-> s, stage |-> st, version |-> v]
Ignored      == [To(s1, dev, v1) EXCEPT !.understood = FALSE]

Scenario(first, second, one, other) ==
  [call    |-> (j1 :> first) @@ (j2 :> second),
   request |-> (p1 :> one) @@ (p2 :> other)]

(* Two jobs called in all sorts of ways: a sequence of another stage, or that *)
(* is not the first; a stage the shipyard has not; a chart that is copied, or *)
(* is where it belongs already; no ci_config.yaml entry; no chart to take a   *)
(* version from, or one that has none.                                        *)
Calls ==
  {Plain("first", s1, v1), Plain("other", s2, NoVersion),
   WithChart(prod, NoVersion), WithChart(NoName, v2),
   [Plain("first", s1, v1) EXCEPT !.stage = qa],
   [Plain("first", s1, v2) EXCEPT !.chart_base = ChartIn(Base(s1), s1)],
   [Plain("first", s1, v1) EXCEPT !.sequence = q2],
   [Plain("first", s1, v2) EXCEPT !.stage = prod, !.sequence = q2],
   [Plain("first", s1, NoVersion) EXCEPT !.useChart = "version"],
   [Plain("later", s1, NoVersion) EXCEPT !.useChart = "version"],
   [Plain("other", s2, v2) EXCEPT !.listed = FALSE]}
Deployments == {Scenario(first, second, Ignored, Ignored) : first, second \in Calls}

(* Two services go to one stage, or one of them twice; a release, a stage or  *)
(* a label is missing; the name of the stage has the service's in it.         *)
OfTwoServices(one, other) ==
  Scenario(Plain("first", s1, v1), Plain("other", s2, v2), one, other)
Concurrent ==
  {OfTwoServices(To(s1, dev, v1), To(s2, dev, v2)),
   OfTwoServices(To(s2, prod, v2), To(s1, qa, v1)),
   OfTwoServices(To(s1, dev, v2), To(s1, dev, NoVersion)),
   Scenario(Plain("first", s1, v1), WithChart(NoName, v2), To(s1, dev, v1), To(s1, dev, v2))}

AllScenarios == Deployments \union Concurrent

(* Two promotions of different services to one stage, and nothing goes wrong. *)
TwoServices == {OfTwoServices(To(s1, dev, v1), To(s2, dev, v2))}

(* A job that gives a stage but no sequence. *)
OneStageGiven ==
  {Scenario([Plain("first", s1, v1) EXCEPT !.stage = prod], Plain("other", s2, v2),
            Ignored, Ignored)}

AllFaults ==
  {"send failed", "send lost", "secret", "clone", "move", "add", "commit",
   "push failed", "push lost", "restart"}

================================================================================
