------------------------------- MODULE MCSuite -------------------------------
(* Instances of Suite for TLC: documents that set one or two keys beside a *)
(* base document of each scenario type, command lines, programs, metrics.  *)
EXTENDS Suite

Threshold(metric, stat, op, duration, float, policy) ==
  [metric |-> metric, stat |-> stat, operator |-> op,
   target |-> <<[duration |-> duration, float |-> float]>>,
   on_no_data |-> policy, abort_on_fail |-> FALSE, delay_abort_eval |-> 0]

Latency == Threshold("latency", "p95", "<", <<2>>, Nil, "")
Errors  == Threshold("errors", "count", "<=", <<0>>, <<0>>, "")
Abort(th) == [th EXCEPT !.abort_on_fail = TRUE]

Delay(type, duration, min, max, mean, std_dev) ==
  [type |-> type, duration |-> duration, min |-> min, max |-> max, mean |-> mean,
   std_dev |-> std_dev]

Constant == [EmptyScenario EXCEPT !.type = "constant_vus", !.vus = 2, !.run_period = 5]
Arrival  == [EmptyScenario EXCEPT !.type = "arrival_rate", !.target_tps = 2, !.max_vus = 4,
                                  !.run_period = 5]
Ramping  == [EmptyScenario EXCEPT !.type = "ramping_vus",
                                  !.stages = <<[target |-> 2, duration |-> 1]>>]
Bases == {Constant, Arrival, Ramping}

\* One key of a document, set to one of its values.
Keys ==
  [ type |-> {"other"}, vus |-> {0, -1}, target_tps |-> {0}, max_vus |-> {0, 3},
    burst_buffer |-> {-1, 2}, run_period |-> {0},
    stages |-> {<<>>, <<[target |-> -1, duration |-> 1]>>, <<[target |-> 1, duration |-> 0]>>},
    ramp_up |-> {-1}, ramp_down |-> {-1}, drain |-> {-1, 2}, drain_period |-> {3},
    max_pretest_retries |-> {<<-1>>, <<0>>}, min_ready_ratio |-> {-1, 50, 101},
    startup_grace_period |-> {-1}, vu_timeout |-> {-1, 1, 2},
    allow_unbounded_iterations |-> {TRUE}, watchdog_stall_threshold |-> {-1},
    watchdog_interval |-> {-1},
    params |-> {{[key |-> "k", value |-> "v"]}, {[key |-> "k", value |-> ""]}},
    strict |-> {"off", "fatal", "loud"}, malformed |-> {TRUE},
    http |-> {<<[EmptyHTTP EXCEPT !.timeout = -1]>>, <<[EmptyHTTP EXCEPT !.max_idle_conns = -1]>>,
              <<[EmptyHTTP EXCEPT !.idle_conn_timeout = -1]>>, <<EmptyHTTP>>},
    http_clients |-> {{[name |-> "a", config |-> Nil]}, {[name |-> "a", config |-> <<EmptyHTTP>>]}} ]

With(d, k, x) == [d EXCEPT ![k] = x]
OneKey == UNION {{With(d, k, x) : x \in Keys[k]} : d \in Bases, k \in DOMAIN Keys}
TwoKeys ==
  {With(With(Arrival, "vu_timeout", t), "max_vus", n) : t \in {1, 2}, n \in {1, 2, 3, 4}}
    \cup {With(With(d, "vu_timeout", 0), "allow_unbounded_iterations", TRUE) : d \in Bases}
    \cup {With(With(d, "drain", 2), "drain_period", 3) : d \in Bases}

Delays ==
  {Delay("fixed", x, 0, 0, 0, 0) : x \in {0, 2}}
    \cup {Delay("range", 0, lo, hi, 0, 0) : lo \in {-1, 0, 2}, hi \in {0, 1, 3}}
    \cup {Delay("expo", 0, lo, hi, m, 0) : lo \in {-1, 0, 2}, hi \in {-1, 0, 1}, m \in {0, 1}}
    \cup {Delay("gaussian", 0, lo, hi, 1, sd) : lo \in {0, 2}, hi \in {0, 1, 3}, sd \in {0, 1}}
    \cup {Delay("uniform", 0, 0, 1, 1, 1)}
WithDelays == {With(Constant, k, <<d>>) : k \in {"interaction_delay", "think_time"}, d \in Delays}

ThresholdLists ==
  { <<Latency>>, <<Errors>>, <<Latency, Errors>>, <<Abort(Latency)>>, <<Abort(Errors), Latency>>,
    <<Threshold("errors", "count", ">=", Nil, <<1>>, "pass")>>,
    <<Threshold("errors", "count", "<=", Nil, <<0>>, "fail")>>,
    <<Threshold("load", "value", ">", Nil, <<1>>, "ignore")>>,
    <<Threshold("ok", "rate", ">=", Nil, <<50>>, "skip")>>,
    <<Threshold("ok", "rate", ">", Nil, <<50>>, "zero"), Threshold("ok", "rate", "<", Nil, <<99>>, "")>>,
    <<Threshold("latency", "mean", "<=", <<2>>, Nil, "zero"), Threshold("latency", "max", ">", <<1>>, Nil, "")>>,
    <<Threshold("vuhive.vu.active", "count", "<", Nil, <<9>>, "")>>,
    <<Threshold("latency", "p95", "<", Nil, <<1>>, "")>>,
    <<Threshold("errors", "count", "<", <<1>>, Nil, "")>>,
    <<Latency, Threshold("latency", "count", "<", Nil, <<1>>, "")>>,
    <<[Latency EXCEPT !.metric = ""]>>, <<[Latency EXCEPT !.stat = "p42"]>>,
    <<[Latency EXCEPT !.operator = "=="]>>, <<[Latency EXCEPT !.target = Nil]>>,
    <<[Latency EXCEPT !.on_no_data = "maybe"]>>, <<[Latency EXCEPT !.delay_abort_eval = -1]>> }
WithThresholds == {With(Constant, "thresholds", ths) : ths \in ThresholdLists}
StrictDoc ==
  With(With(With(Constant, "thresholds", <<Latency>>), "strict", "fatal"),
       "params", {[key |-> "k", value |-> "v"]})

Doc(sc0) == [readable |-> TRUE, version |-> "1.0", default_scenario |-> "main",
             scenarios |-> "main" :> sc0]
Base == Doc(Constant)

MCDocuments ==
  {Doc(d) : d \in Bases \cup OneKey \cup TwoKeys \cup WithDelays \cup WithThresholds \cup {StrictDoc}}
    \cup {[Base EXCEPT !.readable = FALSE], [Base EXCEPT !.version = "2.0"],
          [Base EXCEPT !.default_scenario = ""], [Base EXCEPT !.default_scenario = "other"],
          [Base EXCEPT !.scenarios = <<>>],
          [Base EXCEPT !.scenarios = @ @@ ("other" :> Ramping)]}

Flags0 == [parse |-> TRUE, version |-> FALSE, scenario |-> "", strict |-> FALSE,
           strict_fatal |-> FALSE, format |-> "console", report_out |-> FALSE, json_out |-> FALSE]
MCCommandLines ==
  {Flags0, [Flags0 EXCEPT !.parse = FALSE], [Flags0 EXCEPT !.version = TRUE],
   [Flags0 EXCEPT !.scenario = "other"], [Flags0 EXCEPT !.strict = TRUE],
   [Flags0 EXCEPT !.strict = TRUE, !.strict_fatal = TRUE],
   [Flags0 EXCEPT !.format = "json", !.report_out = TRUE, !.json_out = TRUE]}

Hooks == [RunVU |-> TRUE, HandleSummary |-> TRUE]
MCPrograms ==
  {"main" :> Hooks, "main" :> [Hooks EXCEPT !.HandleSummary = FALSE],
   "main" :> [Hooks EXCEPT !.RunVU = FALSE], "" :> Hooks, "other" :> Hooks}

Cell(name, kind, tags, obs) == [name |-> name, kind |-> kind, tags |-> tags, group |-> "", obs |-> obs]
MCRecordings ==
  { {},
    {Cell("latency", "duration", "", <<1, 1>>), Cell("latency", "duration", "t=1", <<3>>)},
    {Cell("latency", "duration", "", <<1>>), Cell("errors", "counter", "", <<1>>)},
    {Cell("ok", "rate", "", <<1, 1>>), Cell("ok", "rate", "t=1", <<0, 2>>)},
    {Cell("load", "gauge", "", <<0>>), Cell("load", "gauge", "t=1", <<2>>)},
    {Cell("load", "gauge", "", <<NaN>>)},
    {Cell("latency", "gauge", "", <<1>>),
     Cell("vuhive.checks.passed", "counter", "login", <<2>>),
     Cell("vuhive.checks.failed", "counter", "login", <<1>>),
     [Cell("vuhive.group.cart.duration", "duration", "", <<1, 2>>) EXCEPT !.group = "cart"]} }
=============================================================================
