----------------------------- MODULE MetricReader -----------------------------
(***************************************************************************)
(* Reading the metrics after the run (internal/metric/aggregator.go): a    *)
(* store is the registry's map from names to kinds and the set of cells,   *)
(* one per name and tags.  A cell's "obs" is the counter's value, the      *)
(* rate's numerators and denominator, the gauge's value, or the            *)
(* histogram's samples.  Only the cells of one kind share a name.          *)
(*                                                                         *)
(* NaN is the gauge value that no comparison holds of and that JSON cannot *)
(* encode.                                                                 *)
(***************************************************************************)
EXTENDS ScenarioConfig

NaN == -99

CellsOf(store, kind, name) == {c \in store.cells : c.kind = kind /\ c.name = name}

HasType(store, name) == name \in DOMAIN store.types
NamesByType(store, kind) == {n \in DOMAIN store.types : store.types[n] = kind}

SumOf(cells, i) == FoldSet(LAMBDA c, sum : sum + c.obs[i], 0, cells)

AggregatedCounterValue(store, name) == SumOf(CellsOf(store, "counter", name), 1)

\* Numerators over denominators of all tag variants, in percent.
RateData(store, name) ==
  LET rates == CellsOf(store, "rate", name)
  IN  IF SumOf(rates, 2) = 0 THEN Nil ELSE <<(100 * SumOf(rates, 1)) \div SumOf(rates, 2)>>
AggregatedRateValue(store, name) ==
  IF RateData(store, name) = Nil THEN 0 ELSE Head(RateData(store, name))

\* The value of an arbitrary tag variant: the values it may be.
LastGaugeValues(store, name) ==
  LET gauges == CellsOf(store, "gauge", name)
  IN  IF gauges = {} THEN {0} ELSE {c.obs[1] : c \in gauges}

\* The samples of all tag variants together, in ascending order.
MergedHistogram(store, name) ==
  LET cells == SetToSeq(CellsOf(store, "duration", name))
  IN  SortSeq(FlattenSeq([i \in DOMAIN cells |-> cells[i].obs]), <)

\* The library's rounding: the rank of a percentile among n samples.
Rank(q, n) == LET r == (q * n + 50) \div 100 IN IF r < 1 THEN 1 ELSE r

SnapshotStat(samples, stat) ==
  LET n == Len(samples)
  IN  CASE n = 0         -> 0
        [] stat = "mean" -> FoldSeq(+, 0, samples) \div n
        [] stat = "max"  -> samples[n]
        [] stat = "min"  -> samples[1]
        [] OTHER -> samples[Rank([p50 |-> 50, p90 |-> 90, p95 |-> 95, p99 |-> 99][stat], n)]

CheckCounters == {"vuhive.checks.passed", "vuhive.checks.failed"}

\* One line per check name, over the counters of passed and failed checks.
CheckSummaries(store) ==
  LET Count(name, tag) == SumOf({c \in CellsOf(store, "counter", name) : c.tags = tag}, 1)
      tags == {c.tags : c \in {d \in store.cells : d.name \in CheckCounters}}
  IN  {[name |-> t, passed |-> Count("vuhive.checks.passed", t),
        failed |-> Count("vuhive.checks.failed", t)] : t \in tags \ {""}}

\* One line per group path, over the histograms that groups create.
GroupSummaries(store) ==
  {[name |-> c.group, samples |-> MergedHistogram(store, c.name)] :
     c \in {d \in store.cells : d.kind = "duration" /\ d.group # ""}}

-----------------------------------------------------------------------------
(* Registering (registry.go): the first kind of a name stays.              *)

\* The map "types" with the names of "more" that it does not have.
Register(types, more) ==
  [n \in DOMAIN types \cup DOMAIN more |-> IF n \in DOMAIN types THEN types[n] ELSE more[n]]
Collides(types, name, kind) == name \in DOMAIN types /\ types[name] # kind

-----------------------------------------------------------------------------
(* SLA thresholds (internal/sla): the verdicts a threshold may get.  Only  *)
(* a gauge with several tag variants leaves a choice.                      *)

Compare(actual, op, target) ==
  /\ actual # NaN
  /\ CASE op = "<"  -> actual < target
       [] op = "<=" -> actual <= target
       [] op = ">"  -> actual > target
       [] op = ">=" -> actual >= target

ResolveOnNoData(th) == Resolved(th).on_no_data

EvaluateNoData(th) ==
  CASE ResolveOnNoData(th) \in {"pass", "ignore", "skip"} -> TRUE
    [] ResolveOnNoData(th) = "zero" -> Compare(0, th.operator, TargetOf(th))
    [] OTHER -> FALSE

\* The values the threshold compares, or none when it sees no data.
ActualValues(store, th) ==
  IF ~HasType(store, th.metric) THEN {}
  ELSE IF IsDurationStat(th.stat)
       THEN LET samples == MergedHistogram(store, th.metric)
            IN  IF samples = <<>> THEN {} ELSE {SnapshotStat(samples, th.stat)}
  ELSE IF th.stat = "count" THEN {AggregatedCounterValue(store, th.metric)}
  ELSE IF th.stat = "rate"
       THEN LET r == RateData(store, th.metric) IN IF r = Nil THEN {} ELSE {Head(r)}
  ELSE LastGaugeValues(store, th.metric)

EvaluateThreshold(store, th) ==
  LET actual == ActualValues(store, th)
  IN  IF actual = {} THEN {EvaluateNoData(th)}
      ELSE {Compare(x, th.operator, TargetOf(th)) : x \in actual}

\* Mutation: the last verdict overwrites the others.
LastVerdictWins(verdicts) == IF verdicts = <<>> THEN TRUE ELSE verdicts[Len(verdicts)]

AllPassed(verdicts) == \A i \in DOMAIN verdicts : verdicts[i]
=============================================================================
