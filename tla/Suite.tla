-------------------------------- MODULE Suite --------------------------------
(***************************************************************************)
(* A suite from its registration to the exit code (pkg/vuhive/suite.go,    *)
(* internal/runner, internal/cli, internal/report): scenarios are          *)
(* registered, Execute parses the flags, loads the configuration, resolves *)
(* the scenario, runs it, evaluates the strict diagnostics and the SLA     *)
(* thresholds, writes the reports, calls HandleSummary and returns.        *)
(*                                                                         *)
(* The executor is one step here, with any outcome of RunOutcome that the  *)
(* scenario's thresholds allow, which ScenarioRun promises and Executor is *)
(* shown to keep; with it come the metrics that the run recorded and the   *)
(* parameters that the context of Setup saw.                               *)
(***************************************************************************)
EXTENDS MetricReader, RunOutcome

CONSTANTS
  Documents,     \* the configuration files: as decoded, or unreadable
  CommandLines,  \* the parsed flags
  Programs,      \* what the test developer registers: name |-> hooks
  Recordings     \* sets of cells a run may leave behind

ASSUME DocumentAssumption == \A d \in Documents : DecodedDocument(d)

\* A name has one kind (MetricStore), and a variant of a metric one cell.
ASSUME RecordingAssumption ==
  \A cells \in Recordings :
    /\ IsFiniteSet(cells)
    /\ \A c \in cells : c.kind \in {"duration", "counter", "rate", "gauge"}
    /\ \A c, d \in cells : c.name = d.name => c.kind = d.kind

VARIABLES
  file, flags,   \* the inputs
  registered,    \* the suite's scenarios
  executed,      \* RegisterScenario panics from now on
  spc,           \* where RunSuite stands
  scenario,      \* the resolved scenario's configuration, or none
  logger,        \* "none", "open" or "closed"
  store,         \* the metrics
  run,           \* what the executor left: aborted, parameters Setup saw
  diagnostics,   \* strict diagnostics
  verdicts,      \* one per threshold
  allPassed,
  reports,       \* the documents written
  summary,       \* what HandleSummary was given, or none
  result         \* what Execute returns, or none

suiteVars == <<file, flags, registered, executed, spc, scenario, logger, store, run,
               diagnostics, verdicts, allPassed, reports, summary, result>>

inputs == <<file, flags, registered, executed>>
evaluation == <<diagnostics, verdicts, allPassed>>
outputs == <<reports, summary, result>>

\* The metrics the engine itself creates, of which one stands for all.
BuiltIns == [n \in {"vuhive.vu.active"} |-> "gauge"]

NewStore == [types |-> [n \in CheckCounters |-> "counter"], cells |-> {}]
NoRun == [aborted |-> FALSE, setupSaw |-> {}]

SuiteInit ==
  /\ file \in Documents
  /\ flags \in CommandLines
  /\ registered = <<>>
  /\ executed = FALSE
  /\ spc = "main"
  /\ scenario = Nil
  /\ logger = "none"
  /\ store = NewStore
  /\ run = NoRun
  /\ diagnostics = {}
  /\ verdicts = <<>>
  /\ allPassed = FALSE
  /\ reports = {}
  /\ summary = Nil
  /\ result = Nil

\* RegisterScenario, which panics without a name or RunVU, and after Execute.
RegisterScenarios ==
  /\ spc = "main" /\ registered = <<>>
  /\ registered' \in Programs
  /\ spc' = IF "" \in DOMAIN registered' \/ \E n \in DOMAIN registered' : ~registered'[n].RunVU
            THEN "panic" ELSE "main"
  /\ UNCHANGED <<file, flags, executed, scenario, logger, store, run, evaluation, outputs>>

RegisterScenarioLate ==
  /\ spc = "done"
  /\ executed
  /\ spc' = "panic"
  /\ UNCHANGED <<inputs, scenario, logger, store, run, evaluation, outputs>>

ExecuteWithArgs ==
  /\ spc = "main" /\ registered # <<>>
  /\ executed' = TRUE
  /\ spc' = "resolve"
  /\ UNCHANGED <<file, flags, registered, scenario, logger, store, run, evaluation, outputs>>

\* The public package's type of an internal error; another error is handed on.
TranslateError(err) ==
  CASE err = "config"     -> "vuhive.ConfigError"
    [] err = "validation" -> "vuhive.ValidationError"
    [] err = "not found"  -> "vuhive.ScenarioNotFoundError"
    [] err = "setup"      -> "vuhive.SetupError"
    [] err = "quorum"     -> "vuhive.StartupQuorumError"
    [] OTHER              -> err

Return(passed, aborted, err) ==
  /\ spc' = "done"
  /\ result' = <<[passed |-> passed, aborted |-> aborted, err |-> TranslateError(err)]>>

ExitCode(r) == IF r.err # "nil" \/ ~r.passed \/ r.aborted THEN 1 ELSE 0

-----------------------------------------------------------------------------
(* Resolve: flags, version, configuration, scenario, in this order. *)

TargetScenario(cfg) ==
  IF flags.scenario # "" THEN flags.scenario ELSE cfg.default_scenario

ResolutionError ==
  LET loaded == LoadConfig(file)
  IN  IF ~flags.parse THEN "config"
      ELSE IF loaded.err # "nil" THEN loaded.err
      ELSE LET cfg == Head(loaded.config)
               target == TargetScenario(cfg)
           IN  IF target = "" \/ target \notin DOMAIN registered
                  \/ target \notin DOMAIN cfg.scenarios
               THEN "not found" ELSE "nil"

ShowVersion ==
  /\ spc = "resolve" /\ flags.parse /\ flags.version
  /\ Return(TRUE, FALSE, "nil")
  /\ UNCHANGED <<inputs, scenario, logger, store, run, evaluation, reports, summary>>

ResolveFails ==
  /\ spc = "resolve" /\ ~(flags.parse /\ flags.version)
  /\ ResolutionError # "nil"
  /\ Return(FALSE, FALSE, ResolutionError)
  /\ UNCHANGED <<inputs, scenario, logger, store, run, evaluation, reports, summary>>

\* The scenario is resolved, the logger started, the thresholds' metrics
\* registered under the kind their statistic implies; the first threshold of a
\* metric decides.
PreRegisterThresholdMetrics(types, ths) ==
  LET First(n) == CHOOSE i \in DOMAIN ths :
                    /\ ths[i].metric = n
                    /\ \A j \in DOMAIN ths : ths[j].metric = n => i <= j
  IN  Register(types, [n \in {ths[i].metric : i \in DOMAIN ths} |->
                         InferredMetricKind(ths[First(n)].stat)])

Resolve ==
  /\ spc = "resolve" /\ ~flags.version
  /\ ResolutionError = "nil"
  /\ LET cfg == Head(LoadConfig(file).config)
         sc  == cfg.scenarios[TargetScenario(cfg)]
     IN  /\ scenario' = <<sc>>
         /\ store' = [store EXCEPT !.types = PreRegisterThresholdMetrics(@, sc.thresholds)]
  /\ logger' = "open"
  /\ spc' = "execute"
  /\ UNCHANGED <<inputs, run, evaluation, outputs>>

sc == Head(scenario)
hooks == registered[TargetScenario(Head(LoadConfig(file).config))]

-----------------------------------------------------------------------------
(* The run. *)

\* A metric the engine creates panics when a threshold registered its name
\* under another kind; nothing recovers it.
EngineMetricCollides ==
  /\ spc = "execute"
  /\ \E n \in DOMAIN BuiltIns : Collides(store.types, n, BuiltIns[n])
  /\ spc' = "panic"
  /\ UNCHANGED <<inputs, scenario, logger, store, run, evaluation, outputs>>

\* What the executor can leave behind; only a threshold with abort_on_fail is
\* watched, and none before Setup has returned.
Outcomes ==
  LET watched == \E i \in DOMAIN sc.thresholds : sc.thresholds[i].abort_on_fail
  IN  {FailedSetup} \cup UNION {RunOutcomes(breached) : breached \in {FALSE, watched}}

\* Execute.  What a virtual user records under a name of another kind panics
\* in the hook, is recovered there, and is not in the store.
Execute ==
  /\ spc = "execute"
  /\ ~\E n \in DOMAIN BuiltIns : Collides(store.types, n, BuiltIns[n])
  /\ \E cells \in Recordings, o \in Outcomes, saw \in SUBSET {p.key : p \in sc.params} :
       LET known == Register(store.types, BuiltIns)
           kept  == {c \in cells : ~Collides(known, c.name, c.kind)}
           named == [n \in {c.name : c \in kept} |-> (CHOOSE c \in kept : c.name = n).kind]
       IN  /\ o.err # "nil" => cells = {} /\ saw = {}
           /\ store' = [types |-> Register(known, named), cells |-> kept]
           /\ run' = [aborted |-> o.aborted, setupSaw |-> saw]
           /\ IF o.err = "nil" THEN spc' = "strict" /\ UNCHANGED result
              ELSE Return(FALSE, FALSE, o.err)
  /\ logger' = "closed"
  /\ UNCHANGED <<inputs, scenario, evaluation, reports, summary>>

-----------------------------------------------------------------------------
(* After the run: strict diagnostics, thresholds, reports, the hook. *)

ResolveStrictMode ==
  CASE flags.strict_fatal                  -> "fatal"
    [] flags.strict /\ ~flags.strict_fatal -> "warn"
    [] OTHER -> IF sc.strict = "off" THEN "" ELSE sc.strict

\* The parameters the context of Setup has not seen.
UnusedParams == {p.key : p \in sc.params} \ run.setupSaw

HasObservedData(th) ==
  /\ HasType(store, th.metric)
  /\ IF IsDurationStat(th.stat) THEN MergedHistogram(store, th.metric) # <<>>
     ELSE IF th.stat = "count" THEN AggregatedCounterValue(store, th.metric) > 0
     ELSE IF th.stat = "rate" THEN RateData(store, th.metric) # Nil
     ELSE \E x \in LastGaugeValues(store, th.metric) : x # 0

EvaluateStrictDiagnostics ==
  /\ spc = "strict"
  /\ diagnostics' =
       IF ~IsStrictEnabled(ResolveStrictMode) THEN {}
       ELSE {[kind |-> "unused_param", of |-> p] : p \in UnusedParams}
              \cup {[kind |-> "unmatched_threshold", of |-> sc.thresholds[i].metric] :
                      i \in {j \in DOMAIN sc.thresholds : ~HasObservedData(sc.thresholds[j])}}
  /\ spc' = "sla"
  /\ UNCHANGED <<inputs, scenario, logger, store, run, verdicts, allPassed, outputs>>

EvaluateSLA ==
  /\ spc = "sla"
  /\ verdicts' \in {v \in [DOMAIN sc.thresholds -> BOOLEAN] :
                      \A i \in DOMAIN v : v[i] \in EvaluateThreshold(store, sc.thresholds[i])}
  /\ allPassed' = /\ AllPassed(verdicts')
                  /\ ~run.aborted
                  /\ ~(ResolveStrictMode = "fatal" /\ diagnostics # {})
  /\ spc' = "report"
  /\ UNCHANGED <<inputs, scenario, logger, store, run, diagnostics, outputs>>

\* The console report ends with the verdict and the exit code it stands for.
ConsoleReport(sink) ==
  LET verdict == IF run.aborted THEN "ABORTED" ELSE IF ~allPassed THEN "FAILED" ELSE "PASSED"
  IN  [sink |-> sink, format |-> "console", passed |-> verdict = "PASSED",
       aborted |-> verdict = "ABORTED", thresholds |-> verdicts, diagnostics |-> diagnostics]

JSONReport(sink) ==
  [sink |-> sink, format |-> "json", passed |-> allPassed, aborted |-> run.aborted,
   thresholds |-> verdicts, diagnostics |-> diagnostics]

\* The encoder writes nothing when a gauge is not a number.
Encodable == \A n \in NamesByType(store, "gauge") : NaN \notin LastGaugeValues(store, n)

WriteReport(sink, format) ==
  IF format = "json" THEN IF Encodable THEN {JSONReport(sink)} ELSE {}
  ELSE {ConsoleReport(sink)}

\* A file that cannot be created is logged, by the closed logger, and skipped.
ReportExecution ==
  /\ spc = "report"
  /\ \E creatable \in SUBSET {"report file", "json file"} :
       LET sink == IF flags.report_out THEN "report file" ELSE "stdout"
       IN  reports' =
             (IF flags.report_out /\ sink \notin creatable THEN {}
              ELSE WriteReport(sink, flags.format))
               \cup (IF flags.json_out /\ "json file" \in creatable
                     THEN WriteReport("json file", "json") ELSE {})
  /\ spc' = IF hooks.HandleSummary THEN "summary" ELSE "return"
  /\ UNCHANGED <<inputs, scenario, logger, store, run, evaluation, summary, result>>

\* BuildSummaryData is not given the diagnostics; the hook's error is only logged.
MetricSummaries ==
  LET Lines(kind, Read(_)) ==
        {[name |-> n, type |-> kind, read |-> Read(n)] : n \in NamesByType(store, kind)}
  IN  Lines("duration", LAMBDA n : LET s == MergedHistogram(store, n)
                                   IN  {Len(s), SnapshotStat(s, "p95"), SnapshotStat(s, "max")})
        \cup Lines("counter", LAMBDA n : {AggregatedCounterValue(store, n)})
        \cup Lines("gauge", LAMBDA n : LastGaugeValues(store, n))
        \cup Lines("rate", LAMBDA n : {AggregatedRateValue(store, n)})

BuildSummaryData ==
  [passed |-> allPassed, aborted |-> run.aborted, thresholds |-> verdicts,
   diagnostics |-> {}, metrics |-> MetricSummaries,
   checks |-> CheckSummaries(store), groups |-> GroupSummaries(store)]

\* The public SummaryData has no field for the diagnostics either.
ConvertReportSummaryToPublic(s) == [f \in DOMAIN s \ {"diagnostics"} |-> s[f]]

HandleSummary ==
  /\ spc = "summary"
  /\ summary' = <<ConvertReportSummaryToPublic(BuildSummaryData)>>
  /\ spc' = "return"
  /\ UNCHANGED <<inputs, scenario, logger, store, run, evaluation, reports, result>>

ReturnResult ==
  /\ spc = "return"
  /\ Return(allPassed, run.aborted, "nil")
  /\ UNCHANGED <<inputs, scenario, logger, store, run, evaluation, reports, summary>>

SuiteNext ==
  \/ RegisterScenarios \/ RegisterScenarioLate \/ ExecuteWithArgs
  \/ ShowVersion \/ ResolveFails \/ Resolve
  \/ EngineMetricCollides \/ Execute
  \/ EvaluateStrictDiagnostics \/ EvaluateSLA
  \/ ReportExecution \/ HandleSummary \/ ReturnResult

SuiteSpec == SuiteInit /\ [][SuiteNext]_suiteVars

-----------------------------------------------------------------------------
(* Properties. *)

SuiteTypeOK ==
  /\ spc \in {"main", "resolve", "execute", "strict", "sla", "report", "summary", "return",
              "done", "panic"}
  /\ logger \in {"none", "open", "closed"}
  /\ Len(scenario) <= 1 /\ Len(summary) <= 1 /\ Len(result) <= 1
  /\ \A n \in DOMAIN store.types : store.types[n] \in {"duration", "counter", "rate", "gauge"}
  /\ \A c \in store.cells : HasType(store, c.name) /\ store.types[c.name] = c.kind

\* What the engines and the generators need of a delay: some draw, never
\* negative, and within the bounds the document set.
DelayIsUsable(d) ==
  LET delays == NewDelayGenerator(d, -1..3)
  IN  /\ delays # {}
      /\ \A x \in delays : /\ x >= 0
                           /\ d.type # "fixed" /\ d.max > 0 => x <= d.max
                           /\ d.type # "fixed" /\ d.min > 0 => x >= d.min

\* A configuration that was accepted can be run: it satisfies what the pacing
\* engines, the deadline of an iteration, the delay generators, the metric
\* registry and the SLA evaluator assume of it.  Validation, defaults and the
\* consumers are far apart in the code (validate.go and dto.go against
\* pacing engines, delay.go and evaluator.go).
ValidatedScenarioRuns ==
  scenario # Nil =>
    /\ CASE sc.type = "constant_vus" -> sc.vus > 0 /\ sc.run_period > 0
         [] sc.type = "arrival_rate" ->
              sc.max_vus > 0 /\ sc.target_tps > 0 /\ sc.burst_buffer >= 0 /\ sc.run_period > 0
         [] sc.type = "ramping_vus"  ->
              /\ sc.stages # <<>>
              /\ \A i \in DOMAIN sc.stages : sc.stages[i].target >= 0 /\ sc.stages[i].duration > 0
         [] OTHER -> FALSE
    /\ sc.vu_timeout > 0 \/ (sc.vu_timeout = 0 /\ sc.allow_unbounded_iterations)
    /\ sc.drain >= 0 /\ sc.ramp_up >= 0 /\ sc.ramp_down >= 0
    /\ MaxPreTestRetriesOf(sc) >= 0
    /\ \A d \in Range(sc.interaction_delay) \cup Range(sc.think_time) : DelayIsUsable(d)
    /\ \A i \in DOMAIN sc.thresholds :
         LET th == sc.thresholds[i]
         IN  /\ TargetOf(th) \in Int
             /\ th.on_no_data # ""
             /\ th.metric \notin CheckCounters =>
                  store.types[th.metric] = InferredMetricKind(th.stat)

\* The exit code, the console verdict, the JSON document and the summary are
\* computed in four places; they tell the same: exit code 0 of a run means that
\* it was not aborted, that every threshold it measured holds, and, when strict
\* diagnostics are fatal, that there was none.
VerdictsAgree ==
  spc = "done" /\ result # Nil /\ ~flags.version =>
    LET r == Head(result)
    IN  /\ ExitCode(r) = 0 =>
             /\ scenario # Nil /\ ~run.aborted
             /\ \A i \in DOMAIN sc.thresholds :
                  LET th     == sc.thresholds[i]
                      actual == ActualValues(store, th)
                  IN  \/ \E x \in actual : Compare(x, th.operator, TargetOf(th))
                      \/ actual = {} /\ th.on_no_data # "fail"
             /\ ResolveStrictMode = "fatal" => diagnostics = {}
        /\ \A d \in reports : (d.passed /\ ~d.aborted <=> ExitCode(r) = 0) /\ d.aborted = r.aborted
        /\ summary # Nil => /\ Head(summary).passed = r.passed
                            /\ Head(summary).thresholds = verdicts
        /\ r.err # "nil" => reports = {} /\ summary = Nil

\* "Treats missing data as an SLA failure" (SPECIFICATION.md:631): a threshold
\* whose metric recorded nothing is judged by its on_no_data policy.
OnNoDataDecides ==
  spc = "done" /\ verdicts # <<>> =>
    \A i \in DOMAIN sc.thresholds :
      ~\E c \in store.cells : c.name = sc.thresholds[i].metric
        => verdicts[i] = EvaluateNoData(sc.thresholds[i])
=============================================================================
