---------------------------- MODULE ScenarioConfig ----------------------------
(***************************************************************************)
(* Loading a configuration (internal/config): the document as mapstructure *)
(* decodes it, its conversion to the model the engines run, the defaults   *)
(* and the validation, which stops at the first field it rejects; and the  *)
(* delay generators (internal/delay) that the validated delays feed.       *)
(*                                                                         *)
(* A duration is a number of seconds, a ratio a percentage.  A pointer is  *)
(* a sequence of at most one value.  A text that does not parse is the     *)
(* flag "malformed"; a threshold's target is the pair of what its text     *)
(* parses to, as a duration and as a float.                                *)
(***************************************************************************)
EXTENDS Integers, Sequences, FiniteSets, SequencesExt

Nil == <<>>

-----------------------------------------------------------------------------
(* Vocabulary. *)

durationStats == {"p50", "p90", "p95", "p99", "mean", "max"}
IsDurationStat(stat) == stat \in durationStats
validStats == durationStats \cup {"count", "rate", "value"}
validOperators == {"<", "<=", ">", ">="}
validOnNoData == {"", "zero", "fail", "pass", "ignore", "skip"}
validStrictModes == {"", "off", "warn", "fatal"}

InferredMetricKind(stat) ==
  IF IsDurationStat(stat) THEN "duration"
  ELSE [count |-> "counter", rate |-> "rate", value |-> "gauge"][stat]

DefaultGuardDeadline == 30
IsStrictEnabled(mode) == mode \in {"warn", "fatal"}

-----------------------------------------------------------------------------
(* What an absent key of the document decodes to, and the conversion of a  *)
(* decoded scenario to the model: a second name for drain, and the default *)
(* number of PreTest retries.                                              *)

EmptyScenario ==
  [ type |-> "", vus |-> 0, target_tps |-> 0, max_vus |-> 0, burst_buffer |-> 0,
    stages |-> <<>>, ramp_up |-> 0, run_period |-> 0, ramp_down |-> 0,
    drain |-> 0, drain_period |-> 0, max_pretest_retries |-> Nil,
    min_ready_ratio |-> 0, startup_grace_period |-> 0,
    vu_timeout |-> 0, allow_unbounded_iterations |-> FALSE,
    watchdog_stall_threshold |-> 0, watchdog_interval |-> 0,
    params |-> {}, strict |-> "", interaction_delay |-> Nil, think_time |-> Nil,
    thresholds |-> <<>>, http |-> Nil, http_clients |-> {}, malformed |-> FALSE ]

EmptyHTTP ==
  [timeout |-> 0, max_idle_conns |-> 0, max_idle_conns_per_host |-> 0, idle_conn_timeout |-> 0]

\* What decoding guarantees of a document, whatever its text: fields that are
\* absent have their zero value, numbers are numbers and lists are lists.
IsList(s) == Len(s) \in Nat /\ DOMAIN s = 1..Len(s)

DecodedNumbers ==
  {"vus", "target_tps", "max_vus", "burst_buffer", "ramp_up", "run_period", "ramp_down", "drain",
   "drain_period", "min_ready_ratio", "startup_grace_period", "vu_timeout",
   "watchdog_stall_threshold", "watchdog_interval"}

DecodedDelay(d) == \A f \in {"duration", "min", "max", "mean", "std_dev"} : d[f] \in Int

DecodedThreshold(th) ==
  /\ {"metric", "stat", "operator", "target", "on_no_data"} \subseteq DOMAIN th
  /\ th.target = Nil \/ (Head(th.target).duration \in Seq(Int) /\ Head(th.target).float \in Seq(Int))

DecodedScenario(d) ==
  /\ DOMAIN d = DOMAIN EmptyScenario
  /\ \A f \in DecodedNumbers : d[f] \in Int
  /\ d.allow_unbounded_iterations \in BOOLEAN
  /\ d.max_pretest_retries \in Seq(Int)
  /\ \A f \in {"interaction_delay", "think_time"} : \A i \in DOMAIN d[f] : DecodedDelay(d[f][i])
  /\ \A i \in DOMAIN d.stages : d.stages[i].target \in Int /\ d.stages[i].duration \in Int
  /\ IsList(d.thresholds) /\ \A i \in DOMAIN d.thresholds : DecodedThreshold(d.thresholds[i])

DecodedDocument(c) ==
  /\ DOMAIN c = {"readable", "version", "default_scenario", "scenarios"}
  /\ \A n \in DOMAIN c.scenarios : DecodedScenario(c.scenarios[n])

ToModel(d) ==
  [d EXCEPT
     !.drain = IF d.drain = 0 /\ d.drain_period # 0 THEN d.drain_period ELSE d.drain,
     !.max_pretest_retries = IF d.max_pretest_retries = Nil THEN <<3>> ELSE @]

MaxPreTestRetriesOf(sc) == Head(sc.max_pretest_retries)

-----------------------------------------------------------------------------
(* Validation: what each validator accepts.  The code returns at the first *)
(* field it rejects; which one the error names is left out.                *)

ValidateFixedDelay(d) == d.duration > 0

\* Mutation: the bounds are not compared.
BoundsNotCompared(d) == d.min >= 0 /\ d.max > 0

ValidateRangeDelay(d) == d.min >= 0 /\ d.max > 0 /\ d.max >= d.min

ValidateClamps(d) ==
  d.min >= 0 /\ d.max >= 0 /\ (d.min > 0 /\ d.max > 0 => d.max >= d.min)

ValidateExpoDelay(d) == d.mean > 0 /\ ValidateClamps(d)
ValidateGaussianDelay(d) == d.mean > 0 /\ d.std_dev > 0 /\ ValidateClamps(d)

\* The registry of validators by strategy; another type has none.
ValidateDelayConfig(d) ==
  CASE d.type = "fixed"    -> ValidateFixedDelay(d)
    [] d.type = "range"    -> ValidateRangeDelay(d)
    [] d.type = "expo"     -> ValidateExpoDelay(d)
    [] d.type = "gaussian" -> ValidateGaussianDelay(d)
    [] OTHER               -> FALSE

ValidateHTTPConfig(c) ==
  c.timeout >= 0 /\ c.max_idle_conns >= 0 /\ c.max_idle_conns_per_host >= 0 /\ c.idle_conn_timeout >= 0

\* Little's law: ceil(target_tps * vu_timeout); whole seconds need no rounding.
RequiredVUs(sc) == sc.target_tps * sc.vu_timeout

ValidatePacing(sc) ==
  CASE sc.type = "constant_vus" -> sc.vus > 0 /\ sc.run_period > 0
    [] sc.type = "arrival_rate" ->
         /\ sc.target_tps > 0 /\ sc.max_vus > 0 /\ sc.run_period > 0
         /\ sc.vu_timeout > 0 => sc.max_vus >= RequiredVUs(sc)
         /\ sc.burst_buffer >= 0
    [] sc.type = "ramping_vus" ->
         /\ sc.stages # <<>>
         /\ \A i \in DOMAIN sc.stages : sc.stages[i].target >= 0 /\ sc.stages[i].duration > 0
    [] OTHER -> FALSE

\* The default that is written between the checks of the pacing and the rest.
GuardDeadline(sc) ==
  IF sc.vu_timeout = 0 /\ ~sc.allow_unbounded_iterations
  THEN [sc EXCEPT !.vu_timeout = DefaultGuardDeadline] ELSE sc

ValidateBounds(sc) ==
  /\ sc.vu_timeout >= 0 /\ sc.ramp_up >= 0 /\ sc.ramp_down >= 0 /\ sc.drain >= 0
  /\ MaxPreTestRetriesOf(sc) >= 0 /\ sc.min_ready_ratio \in 0..100
  /\ sc.startup_grace_period >= 0
  /\ sc.watchdog_stall_threshold >= 0 /\ sc.watchdog_interval >= 0
  /\ sc.strict \in validStrictModes
  /\ \A p \in sc.params : p.key # "" /\ p.value # ""

ValidateThreshold(th) ==
  /\ th.metric # "" /\ th.stat \in validStats /\ th.operator \in validOperators
  /\ th.target # Nil /\ th.on_no_data \in validOnNoData /\ th.delay_abort_eval >= 0
  /\ (IF IsDurationStat(th.stat) THEN Head(th.target).duration ELSE Head(th.target).float) # Nil

\* The policy validation fills in, and the target it parses.
Resolved(th) ==
  [th EXCEPT !.on_no_data = IF @ # "" THEN @
                            ELSE IF th.stat \in {"count", "value"} THEN "zero" ELSE "fail"]
TargetOf(th) ==
  Head(IF IsDurationStat(th.stat) THEN Head(th.target).duration ELSE Head(th.target).float)

ConflictingKinds(ths) ==
  \E i, j \in DOMAIN ths :
    /\ ths[i].metric = ths[j].metric
    /\ InferredMetricKind(ths[i].stat) # InferredMetricKind(ths[j].stat)

ValidateScenario(sc) ==
  /\ ValidatePacing(sc) /\ ValidateBounds(sc)
  /\ \A i \in DOMAIN sc.interaction_delay : ValidateDelayConfig(sc.interaction_delay[i])
  /\ \A i \in DOMAIN sc.think_time : ValidateDelayConfig(sc.think_time[i])
  /\ \A i \in DOMAIN sc.http : ValidateHTTPConfig(sc.http[i])
  /\ \A c \in sc.http_clients : c.name # "" /\ c.config # Nil /\ ValidateHTTPConfig(Head(c.config))
  /\ \A i \in DOMAIN sc.thresholds : ValidateThreshold(sc.thresholds[i])
  /\ ~ConflictingKinds(sc.thresholds)

Normalised(sc) ==
  LET g == GuardDeadline(sc) IN [g EXCEPT !.thresholds = [i \in DOMAIN @ |-> Resolved(@[i])]]

Validate(c) ==
  /\ c.version = "1.0" /\ DOMAIN c.scenarios # {}
  /\ c.default_scenario # "" => c.default_scenario \in DOMAIN c.scenarios
  /\ \A n \in DOMAIN c.scenarios : ValidateScenario(c.scenarios[n])

\* Load and LoadFromFile: an unreadable or ill-typed document is a ConfigError,
\* a rejected one a ValidationError; the scenarios are validated in no order.
LoadConfig(file) ==
  LET c == [file EXCEPT !.scenarios = [n \in DOMAIN @ |-> ToModel(@[n])]]
  IN  IF ~file.readable \/ \E n \in DOMAIN file.scenarios : file.scenarios[n].malformed
      THEN [err |-> "config", config |-> Nil]
      ELSE IF ~Validate(c) THEN [err |-> "validation", config |-> Nil]
      ELSE [err |-> "nil",
            config |-> <<[c EXCEPT !.scenarios = [n \in DOMAIN @ |-> Normalised(@[n])]]>>]

-----------------------------------------------------------------------------
(* Delay generators: the delays Next may return, when the distribution     *)
(* draws any of "draws" (its raw value before clamping).                   *)

Clamped(d, x) ==
  LET low == IF d.min > 0 /\ x < d.min THEN d.min ELSE x
  IN  IF d.max > 0 /\ low > d.max THEN d.max ELSE low

AtLeast0(x) == IF x < 0 THEN 0 ELSE x

RangeDelays(d) ==
  LET lo == AtLeast0(d.min)
      a  == IF d.max < lo THEN d.max ELSE lo
      b  == IF d.max < lo THEN lo ELSE d.max
  IN  a..b

FixedDelays(d) == {AtLeast0(d.duration)}
ExpoDelays(d, draws) == {Clamped(d, x) : x \in draws \cap Nat}
GaussianDelays(d, draws) == {Clamped(d, AtLeast0(x)) : x \in draws}

NewDelayGenerator(d, draws) ==
  CASE d.type = "fixed"    -> FixedDelays(d)
    [] d.type = "range"    -> RangeDelays(d)
    [] d.type = "expo"     -> ExpoDelays(d, draws)
    [] d.type = "gaussian" -> GaussianDelays(d, draws)
    [] OTHER               -> {}
=============================================================================
