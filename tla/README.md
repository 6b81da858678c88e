# vuhive in TLA+

vuhive is a load-testing framework: a scenario's `RunVU` hook is run by many
virtual users (goroutines), a *pacing engine* decides how many there are and when
they iterate, an *executor* wraps the engine with `Setup`, `Teardown` and an abort
monitor, and metrics, thresholds and a runner turn what happened into a verdict.

This directory holds TLA+ models of the concurrent core of the framework and of the
services around it (configuration, suite, metrics, watchdog, contexts, data sets, the
clients), TLC configurations that check them on small instances, and TLAPS proofs. Run them
from this directory:

    tlasany M.tla                        # parse
    tlc -workers 2 -config X.cfg M       # model-check (the cfgs are listed below)
    tlapm M_proofs.tla                   # check the proofs

Line references are to the repository's files; `PROJECT.json` maps every
definition to the lines it models.

## 1. Inventory

| Part | State | Operations | Interacts with | Hard behaviour | What makes it correct |
|---|---|---|---|---|---|
| **startup quorum gate** `engine/quorum.go` | two atomic counters, two channels, each closed under a `sync.Once`, the abort error | `RecordReady`, `RecordFailed`, `WaitReady`, `AwaitQuorum`, `triggerAbort` | every virtual user and the engine | votes of many goroutines, a grace timer and cancellation, all unordered | one decision; nobody runs before it; nobody waits for ever; the error says what is true |
| **virtual-user lifecycle** `engine/supervisor.go`, `iteration.go`, the worker bodies | program counter, retry counter, iteration context, gauges and counters | supervised `PreTest` with retries, gate, iterations, classification, `AfterTest`, deferred calls | gate, engine (stop channel, context), metrics, user hooks | panics, deadlines, shutdown during a backoff, order of the deferred calls | every iteration is counted exactly once; at most one begins after the stop; the gauge returns to zero |
| **constant_vus** `engine/constant_vus.go` | one stop channel for all | staggered spawn, await, active phase, drain | gate, workers, drain | cancellation in each phase | `Run` returns, after everybody |
| **arrival_rate** `engine/arrival_rate.go` | token channel, sequence number, dispatch context | spawn a pool, await, ramp-up, limiter, close, drain | gate, workers, limiter | a bounded buffer, drops, close with tokens queued, six ways out | tokens are conserved; a graceful end serves the queue |
| **ramping_vus** `engine/ramping_vus.go` | list of workers with a stop channel each, stage, level | `adjustWorkers`, stages, ticks, ramp-down | gate, workers, drain | virtual users stopped while they start up; channels closed from three places | every stop channel is closed once and none is forgotten |
| **drain** `engine/drain.go` | helper's `waitCh` | wait, time out, cancel, wait again | engines | waits without a limit | never returns while a worker lives |
| **pacing engine contract** `engine/pacer.go` | — | `Run` | executor | — | what the executor may rely on |
| **executor, abort monitor** `engine/executor.go`, `abort.go` | `Aborted`, `AbortReason`; the monitor's reason, channel, cancel | `Execute`: `Setup`, engine, abort decision, `Teardown` | engine, monitor, metrics | the monitor decides while the engine ends | teardown once and alone; an abort is reported, with its reason; no goroutine is left |
| **watchdog** `engine/watchdog.go` | four atomic words per virtual user, the list of trackers under a mutex | begin, end, periodic check | workers, the iteration histogram | the checker reads one word after the other while iterations end and begin | an iteration is counted as stalled at most once; one that hangs is flagged |
| **scenario context** `engine/context.go`, adapters in `vuhive/suite.go` | the iteration, child contexts per group path, pooled adapters, cached check counters, accessed parameters | groups, parameters, checks, `Sleep` | hooks, metrics, strict mode | contexts and adapters outlive the iteration they were made for and move between virtual users | what runs in a group runs in its own virtual user's current iteration |
| **metric storage** `metric/{registry,storage,counter,rate,...}.go` | copy-on-write maps read without a lock, cells of one or two words | register, get-or-create, add | everyone who records | look, lock, look again; two adds for one observation | one cell per key, and no observation is lost |
| **reading metrics, SLA** `metric/aggregator.go`, `sla/` | the verdicts | statistics, comparison, no-data policy | the metrics, the runner | no data, several tags, NaN | the verdict is what the thresholds say of what was recorded |
| **configuration, delays** `config/`, `delay/` | the scenario | decoding, defaults, validation; delays | everything | checks before defaults, nil pointers, durations against numbers | what validation accepts, the engines can run |
| **runner, suite, reports, strict mode** `runner/`, `vuhive/suite.go`, `report/`, `cli/`, `engine/strict.go` | registered scenarios, flags, the result, documents | `Execute`: resolve, run, diagnose, judge, report, `HandleSummary` | all of the above | an early return at every step; one verdict computed in four places | the exit code, the console, the documents and the summary agree |
| **data sets** `vuhive/data` | an atomic cursor, each virtual user's iteration | load, `Next` by strategy | workers | many callers, exhaustion | a queue deals each record once |
| **HTTP client** `vuhive/http/{client,request,transport}.go` | configuration, process-wide cache of default clients | `Default`, `New`, `MustGet`, `Do`, `RoundTrip` | virtual users, metrics, later executions of the process | racing creators; a body that breaks off after a good status | every request is counted once, and where its execution's collector is |
| **SSE stream** `vuhive/http/sse.go` | the stream's context and body, a monitor and a pump goroutine, the events channel | connect, `Next`, `Events`, `Close` | the iteration's context | cancellation against a blocked read, a full channel | no goroutine outlives the stream's owner |
| **Kafka, NATS clients** `vuhive/{kafka,nats}` | the position in the topic, batches; connection, subscriptions | produce and consume; publish, request, subscribe | an external broker, metrics | several virtual users on one client, errors beside records, `Close` meanwhile | a record reaches one reader; a call is counted as its caller saw it end |
| **conversation example** `examples/conversation_flow` | a session with a reader goroutine and two channels | open, post, await events, close | an external server | the reader sends while the flow leaves | the reader ends; each conversation is counted once |
| **logger, command line, other examples** | — | output, flags | — | — | — |

Everything in one process: nothing is persisted, so there is no crash recovery,
and the only messages are values in Go channels.

### How the core fits together

    Executor --- calls Run of ---> pacing engine --- spawns ---> virtual users
       |                               |    \                     /     |
       |  starts                       |     +--- quorum gate ---+      | hooks
       v                               |                                v
    abort monitor --- cancels ---> run context, stop channels ---> RunVU, AfterTest

## 2. Modules

| Module | Models | EXTENDS |
|---|---|---|
| `StartupQuorumGate` | the gate's atomics, channels and onces | — |
| `VUWorker` | the goroutine of one virtual user, common to the three engines | `StartupQuorumGate` |
| `Pacer` | what `Run` does in each engine: `AwaitQuorum`, `drainWorkers`, cancellation from outside; the properties all engines have | `VUWorker` |
| `ConstantVUs`, `ArrivalRate`, `RampingVUs` | the three engines, each composed with its workers | `Pacer` |
| `PacingEngine` | the abstract specification: what `Run` promises its caller | — |
| `RunOutcome` | the errors, aborts and reasons that a run may leave to its caller | — |
| `ScenarioRun` | the abstract specification: what `Execute` promises the runner | `RunOutcome` |
| `Executor` | `Execute` and the abort monitor over **any** engine that keeps the contract; refines `ScenarioRun` | `PacingEngine` |
| `Pacer_proofs` | lemmas about the shared steps | `Pacer` |
| `ConstantVUs_proofs`, `ArrivalRate_proofs`, `RampingVUs_proofs` | theorems about each engine | the engine, `Pacer_proofs` |
| `Executor_proofs` | theorems about the executor | `Executor` |
| `ScenarioConfig` | decoding, defaults, validation and the delay generators, as operators | — |
| `MetricReader` | every statistic and threshold over what a run recorded, as operators | `ScenarioConfig` |
| `Suite` | registration, `Execute` and `RunSuite` to the exit code; the executor is one step, with any outcome that `ScenarioRun` allows | `MetricReader`, `RunOutcome` |
| `MetricMap` | the abstract specification: one map from keys to totals | — |
| `MetricStore` | the copy-on-write storages, the registry and the cells | — |
| `MetricSnapshot` | histograms and rates, recorded and read at the same time | — |
| `DataSet` | loading and the four strategies of `Next` | — |
| `Watchdog` | trackers, begin and end of iterations, the checker | — |
| `ScenarioContext` | iterations and groups: contexts, children, adapters | — |
| `HookServices` | parameters, checks, `Sleep`, strict mode's record of parameters | — |
| `HTTPClient`, `SSEStream`, `KafkaClient`, `NATSClient` | the four clients | — |
| `ConversationFlow` | one iteration of the conversation example | — |
| `MetricStore_proofs` | theorems about the storage and about reading a run in progress | `MetricStore`, `MetricSnapshot` |
| `Clients_proofs` | theorems about the four clients and the conversation | `HTTPClient`, `SSEStream`, `KafkaClient`, `NATSClient`, `ConversationFlow` |
| `Library_proofs` | theorems about data sets, watchdog, contexts and the suite, and about the composition of all services | `MCLibrary`, `MetricStore_proofs`, `Clients_proofs` |
| `MC*` | instances for TLC: symmetry, stages, documents, options; `MCLibrary` puts the services into one run | |

The executor is checked and proved over the contract, and the contract is checked and
proved of each engine: together they cover the executor with each engine without the
product of their states. In the same way `Suite` takes the executor as a step whose
outcomes are those of `RunOutcome`, and `Executor` is shown to leave no other
(`ImplementsScenarioRun`), so that the chain goes from a virtual user's goroutine to the
exit code.

### State and actions against the code

* **Gate.** `readyCount` and `failedCount` are the two atomics; `readyCh` and
  `abortCh` are channels that are only ever closed, so each is a boolean. An atomic
  add is one step that also decides, from the value the add returned, where its
  caller goes; closing the channel is the caller's next step, so another vote can
  come between. `triggerAbort` is two steps (`PublishAbort` reads the ready count and
  stores the error, `CloseAbort` closes); a second caller waits in `abortOnce` until
  the first is through (`AbortAlreadyDone`).
  The ratio is a fraction, and `Required` its ceiling, clamped as in the code. The
  code's ceiling is that of a float64 product, which can be one too high where the
  product is not exact; that rounding is not modelled.
* **Virtual users.** `pc[v]` is where goroutine `v` stands, one value per place where
  another goroutine can make a difference. The deferred calls run last to first:
  `AfterTest`, then tracker and gauge (`Deregister`), then `wg.Done`. The loop head is two
  steps: the `select` with its `default` (`PollAndLeave`, `PollAndGoOn`; in `arrival_rate`
  the token taken), and the call of `RunVU` (`BeginIteration`), which looks at nothing
  again. So a stop or a cancellation may come in between, and an iteration begin after it;
  `Committed` are the virtual users there, `begunLate` counts such iterations. A hook may end at
  any time with any outcome. `recordIterationResultFast` increments its counters in one
  action: the virtual user's own next step is the only one that depends on their order,
  and every property about them is about runs that are over or about all of them.
* **Selects.** A Go `select` with several ready cases picks any: every ready case is an
  action of its own, enabled at the same time. A `default` is guarded by the negation
  of the other cases.
* **Time** is abstract: an armed timer may fire at any moment. So the models cover
  every duration in the configuration, including zero, and more than the code can do
  (a grace period that ends at once). The 50 ms ticks of a stage carry the one thing the
  code gets from time: within a stage the level only moves towards the target.
* **Contexts.** `cancelledBy` holds the first thing that cancelled the run context: the
  caller (`parent`), a failed startup, the drain's timeout, or the deferred `cancel` of
  `Run`. A deadline does not overwrite a cancellation, nor the reverse. `arrival_rate`'s
  dispatch context is derived from the *caller's* context and is done with it or with
  its clock.
* **Engines.** `ppc` is where `Run` stands. `adjustWorkers` is one action: its mutex has
  one user, and spawning or stopping several virtual users in a row cannot be told from
  doing it at once, since a spawned goroutine may start late anyway.
* **Executor.** The monitor's steps are those of `MonitorAbortThresholds`: store the
  reason, cancel, close the channel; the executor's are the blocking call of `Run`, the
  `select`, the look at the reason in its default case, `Teardown`, the deferred
  `cancel`. The caller of `Execute` passes a context that nobody else cancels, so an
  engine that blames its context was cancelled by the monitor. In terms of `ScenarioRun`
  (`phaseView`, `outcomeView`) a run is over once the deferred `cancel` has run, and a
  breach is found when the monitor stores its reason, which may be after the run has ended.
* **Configuration.** A document is the record that `mapstructure` decodes: a pointer is a
  sequence of at most one value, a duration a number of seconds, a ratio a percentage, and
  a text that does not parse is a flag. A threshold's target is the pair of what its text
  parses to as a duration and as a number, since the code tries both. `Validate` is what
  the code's checks accept, with the default of the deadline written where the code writes
  it, between the checks; which field the error names is left out.
* **Suite.** `spc` is where `RunSuite` stands. `Execute` (an action) registers the
  thresholds' metrics, then those of the scenario, and leaves any recording, and any of
  `RunOutcomes`; it aborts only when some threshold has `abort_on_fail`. Strict diagnostics, thresholds, reports and
  `HandleSummary` follow, each an action, each with its early return.
* **Metric storage.** A cell is a number, its words a pair; `readMap` is the published map
  of each kind. `Look` is the lookup without the lock, `LookAgain` the second one under the
  mutex, `RegisterLocked` and `Create` the two publications, `AddFirst` and
  `AddDenominator` the two adds of one observation. `MetricMap` knows only totals.
* **Reading a run in progress.** `MetricSnapshot` has the shards of the histograms and their
  mutexes, and one reader that stands for the abort monitor and the watchdog. An HDR
  histogram is a count per value; what an unlocked merge takes from a shard that is written
  meanwhile is any part of it, since the code leaves it undefined. `snap` holds the reader's
  locals.
* **Data sets.** A call of `Next` is one step: its only shared access is one atomic add.
* **Watchdog.** Each load, store and swap of a tracker's words is a step, of the worker
  (`BeginStart`, `BeginStalled`, `BeginActive`, `End`) or of the checker (`LoadActive`,
  `LoadStart`, `SwapStalled`), so that the checker can mix words of two iterations.
* **Contexts.** `at` says where each adapter points; a group entered moves the adapter's
  child to the child context of its path. A hook that panics leaves its adapter where it
  is, as the code does, and never gives it back to the pool.
* **HTTP.** A request is recorded by several adds, each a step. A metric is a sum per
  collector; its tags are left out. `execution` counts the executions of the process,
  because the cache of default clients outlives them.
* **SSE.** A response is a sequence of lines, of which only what `Next` tells apart is kept.
  The virtual user, the monitor and the pump are three actors; `Close` is two steps.
* **Kafka, NATS.** The broker is external: a poll hands records out in order, a message is
  delivered or lost, any call may fail, one that asks for no acknowledgement too. Everything the client does with what it gets is
  as in the code, and so are the builds without the libraries.
* **Conversation.** The flow and the reader are two actors with two channels between them;
  the server sends any event at any time, or nothing. The context may end between the
  response to a message and the look at `ctx.Err()`, so an error may be reported or not.

## 3. Runs

| cfg | Instance | Shows |
|---|---|---|
| `MCConstantVUs_gate` | 3 virtual users, ratio 3/5 (quorum 2, one failure absorbed), 1 retry, 1 iteration, symmetry | the gate: one decision unless the grace timer interferes; no iteration before it, none after a dropout; the dropout error reports a real shortfall and the telemetry backs it. `IInv`, the invariant of the proofs |
| `MCConstantVUs` | 2 virtual users, staggered, deadlines, 2 iterations, fairness | `Run` returns, only after every `AfterTest` and with the counters in balance; nobody is left at the gate; of each virtual user at most one iteration begins after the stop or the cancellation; refinement of `PacingEngine` |
| `MCArrivalRate` | pool of 2 behind the gate, buffer of 1, 2 tokens, ramp-up | no token is lost; a graceful end serves the queue; termination; refinement |
| `MCRampingVUs` | stages 1, 2, 1 behind the gate, 3 vuids | the load follows the stages, and telemetry shows who is missing; the drain stops everyone; refinement |
| `MCRampingVUs_ungated` | stages 2, 0, 1 without a gate, 3 vuids, fairness | the list of workers and the stopped ones partition the spawned: no stop channel is closed twice or forgotten; termination through any ticks and a stage of nobody |
| `MCExecutor` | any engine with 2 virtual users, a monitor | refinement of `ScenarioRun`: an outcome fits what the monitor did; teardown once, and alone; an abort decided before the `select` is reported; the monitor ends |
| `MCLibrary` | the services, one per behaviour: the suite over 238 documents, seven command lines, programs and recordings; two virtual users for each of the others | what validation accepts can be run; the verdicts agree; records, calls, groups and streams are where they belong; the storage refines `MetricMap`; a reader of a run in progress sees what was observed; a hung iteration is flagged |
| `MCConstantVUs_grace` | violation | see 3.1 |
| `MCExecutor_abort` | violation | see 3.1 |
| `MCArrivalRate_drops` | violation | see 3.1 |
| `MCHookServices` | violation | see 3.1 |
| `MCSuite_nodata` | violation | see 3.1 |

**One run for the services.** They share no state: a goroutine that publishes to NATS
cannot tell whether a watchdog runs. `MCLibrary` has a variable `part` that says which of
them a behaviour is about; the others are at rest, in a state from which nothing happens.
So the states add up, about 315 000 of them, where a product would multiply them. What the
services say in common is one property: every client counts a call once and as its caller
saw it end (`CallsAreCountedOnce`), and every stream is released (`StreamsAreReleased`).

**Why the bounds are enough.** Two virtual users are the least with which one can vote
ready while another fails; three, with a quorum of two, add the vote that is neither
decisive nor superfluous, and two that fail together. One iteration shows whether any
runs; two in a run let one be counted while another is in flight, and let a virtual
user poll after its own. One token in the buffer and two granted reach a full buffer,
a drop, a close with a token queued and a worker that takes one while another is
dropped. Stages 1, 2, 1 spawn, replace and stop; three vuids are all that schedule can
hand out (the first tick starts from level 0 and may stop the gated virtual user, which
costs one more). `MaxIterations` and `MaxDispatch` are bounds of the models, in the
guards of the actions that commit a worker to an iteration or grant a token; a worker that
has no iteration left still leaves when it is told to. The proofs hold for every value of all
of these.

For the services: two recorders with two names and two kinds collide on a name, on a kind
and on nothing, and two observations each let one be under way while another is read. A
reader meets three observations, over two variants of two shards each, of a value below
and a value above the histogram's range: two of one virtual user, so that one is complete
while the other is under way.
Documents set one key, or the pairs of keys whose checks depend on each other, beside a
valid document of each scenario type; thresholds come in lists of two at most, which
is enough for two that want one metric as different types. A data set has up to three
records for two readers of two calls: fewer than, as many as and more than the records.
The watchdog's clock runs to 3 with a deadline of 2 and thresholds below and above it;
one virtual user begins twice, the other, with nothing to begin, is only registered. A
response has three lines, enough for a frame that is complete, one that is cut, and a
full event buffer of one. HTTP callers make one request each over two executions of the
process, so that the second finds the first one's default client. Groups nest to depth two,
one virtual user has two hooks and the other one, so that an adapter changes hands. A topic
of four records is polled by two virtual users, by ones and by batches of two and of the
default three. NATS and Kafka each see three calls: two that overlap and one after a
`Close`. A conversation has two turns and five server events, with a session buffer of one
that the reader can block on.

**Deadlock** is checked in every run of the engines and the executor; `Terminated` is the
stuttering of a finished run. The services have no such end: a suite is done, a topic is
exhausted, a client is closed, and the goroutines around them are not part of the model;
there `CHECK_DEADLOCK` is off, and what must not hang is stated as `StreamsAreReleased`.

**Fairness.** Every goroutine that can take a step of the framework's takes it: Go's
scheduler is preemptive and fair enough, and armed timers fire: weak fairness of the steps
of each goroutine, so of each virtual user by itself, and of its iteration's deadline. A user hook is assumed to return only
once its context is done (`ObedientHookStep`): the framework documents that hooks must
honour the context, and a hook that never returns does make `Run` wait for ever, by
design of the drain. In `RampingVUs` the stage's end is fair by itself: its deadline is
absolute, and no number of ticks postpones it. In `Executor`, `Setup` and `Teardown`
return, and the engine's part of the fairness is what each engine is shown to have:
`RunReturns`. For `ramping_vus` that is checked without the gate; behind one, its virtual
users and its await are those of `constant_vus`, for which it is checked. `Leave` is strongly fair there because a worker alternates between busy
and alive, and each engine does get it out in the end. The watchdog's clock advances, its ticker
fires and its checker takes its steps; that a hung iteration is flagged assumes nothing of
the virtual users. Of a stream, the goroutines the client itself starts are fair, and a
`Close` that was begun goes on; the virtual user need not read, nor the server send. In the
conversation, flow and reader are fair and the server is not: it may fall silent, and the
iteration's context then ends the wait. That it sends `MaxServerEvents` at most is a bound
of the model, and the one place where a liveness property leans on one: a server that never
stops talking would keep the flow until the iteration's deadline, and not beyond it.

### 3.1 Where the code and its words differ

Each of these is a run that TLC refutes, listed under `findings`:

* **A quorum error does not mean that nothing ran** (`MCConstantVUs_grace`).
  `AwaitQuorum`'s grace branch reads the ready count and then aborts; a virtual user that
  completes the quorum in between closes `readyCh`, enters and runs an iteration, in a
  run that returns `StartupQuorumError`. All other ways to fail the startup are safe:
  `DropoutRunsNothing`.
* **An abort during startup is not reported as one** (`MCExecutor_abort`). The engine
  returns the context's error and `Execute` returns it before the abort decision.
* **Drops count as saturation before anybody runs** (`MCArrivalRate_drops`). Without a
  gate the dispatcher runs while its workers are still in `PreTest`.
* **Parameters that virtual users read are reported as unused** (`MCHookServices`). The
  engines look for the record of used parameters in a context value nobody sets, so only
  what `Setup` reads is known to strict mode.
* **`on_no_data` does not decide for counters and gauges** (`MCSuite_nodata`). Every
  threshold's metric is registered before the run, so it exists, and is judged as 0.

Seen while modelling, not the subject of a run:

* *Engines.* `arrival_rate` arms the schedule's clock before the quorum is awaited, and its
  ramp-up dispatches a single token at its midpoint; `ramping_vus` interpolates the first
  stage from 0 after spawning its target for the gate, so the first tick may stop gated
  virtual users that are replaced by ungated ones; virtual users that failed `PreTest` stay
  on its list and are not replaced, so that fewer run than the stage asks for: by as many
  as telemetry shows, which is what `LoadFollowsStages` says; a quorum error of the grace period may carry a ready
  count that has meanwhile reached the quorum; `vuhive.vu.pretest_errors` counts attempts
  and not virtual users; a panic of `AfterTest` is not recovered (`constant_vus.go:139`).
* *Watchdog.* Its adaptive threshold is three times the p99 of
  `vuhive.vu.iteration_duration` (`watchdog.go:167`), which the metrics table lists and
  nothing under `src/` records; unless a hook does, the threshold is the fixed one. The
  model takes both. It reads a tracker's words one by one, so it may flag an iteration that has
  just begun for the age of the one before.
* *Contexts.* A group's child context does not get the HTTP clients (`context.go:519`), so
  `MustGet` panics in a group; an adapter whose hook panics is not returned to the pool.
* *Metrics.* With several tag variants of a duration, the reader merges live shards after
  it released their locks (`aggregator.go:88`): a data race, under which a percentile may
  come from a part of what was recorded. With one variant it holds
  the locks. A rate that is read between its two adds may exceed
  one, by an attempt per virtual user and variant at most, and can trip an abort
  threshold for a moment. Keys and sorted tags are joined by separators that names may contain; a
  gauge that holds NaN or an infinity makes the JSON report fail to encode; a threshold
  whose statistic implies another type than a built-in metric has panics the engine.
* *Configuration.* The capacity check runs before the default of `vu_timeout`; a ratio or
  target that is NaN passes; `default_scenario` is compared with keys that viper
  lower-cased.
* *Runner, reports.* The logger is closed before strict mode warns through it
  (`runner.go:56`); the summary is built without the strict diagnostics
  (`reporter.go:103`); counters and gauges at zero count as unmatched in strict mode.
* *Data sets.* `UniquePerVU` deals exactly as `Sequential` does.
* *HTTP, SSE.* The cache of default clients is keyed by scenario and outlives an execution;
  `RoundTrip` looks at `Accept` before the default headers are set, and its streams do not
  resolve the base URL; a parent cancelled during the connect is not honoured; the
  monitor leaves when its parent's deadline passes, so a later cancellation does not reach
  the stream; `Next` on a cancelled stream returns false with `Err() == nil`.
* *Kafka, NATS.* A poll that returns records and an error reports the error and drops the
  records; a NATS publish that fails counts its payload as sent; `WithTimeout(0)` with
  `Request(0)` expires at once; core `Publish` ignores its context; a JetStream handle's
  `Close` does nothing, the client's closes the shared connection.
* *Conversation.* The reader never closes the events channel, so the flow's branch for that
  is dead; `AddMessage` dereferences a nil response after a transport error, and the hook's
  panic is what ends that iteration; a customer's echo after the last reply counts as a
  mismatch.

## 4. Proofs

The theorems hold for any finite set of virtual users, any ratio, any number of retries
and iterations, with or without gate, deadline, drain and ramp-up; for any token buffer
and number of tokens; for any schedule of stages; and, in `Executor`, for any engine that
keeps the contract.

| Module | Theorem | Statement |
|---|---|---|
| `ConstantVUs_proofs` | `TypeCorrect`, `InductiveInvariant` | types, `IInv` |
| | `GateDecidesOnceHolds`, `NoIterationBeforeQuorumHolds`, `DropoutRunsNothingHolds`, `DropoutErrorShowsShortfallHolds`, `DropoutIsBackedByTelemetryHolds` | the gate's safety |
| | `ReturnsAfterEveryWorkerHolds`, `EveryIterationAccountedHolds` | the end of the run |
| | `AtMostOneIterationAfterStopHolds` | each virtual user begins at most one iteration after the stop or the cancellation |
| | `ConstantVUsRefinesPacingEngine` | `Spec => Contract!PacingSpec` |
| `ArrivalRate_proofs` | `ArrivalTypeCorrect`, `ArrivalInvariant` | types (the buffer's bound among them), `IInv` |
| | `TokensAreConservedHolds`, `GracefulDrainServesTheQueueHolds` | no token is lost; a graceful end serves the queue |
| | `ArrivalSharedSafety` | the gate's safety and the end of the run |
| | `ArrivalRateRefinesPacingEngine` | the contract |
| `RampingVUs_proofs` | `RampingTypeCorrect`, `RampingInvariant` | types, `IInv` |
| | `StopChannelsPartitionHolds`, `DrainStopsEveryoneHolds` | every stop channel is closed once, none forgotten |
| | `LoadFollowsStagesHolds` | the list is between a stage's two targets; who is missing of it is in the telemetry |
| | `RampingSharedSafety`, `RampingAtMostOneIterationAfterStop` | the gate's safety, the end of the run, at most one iteration after a stop |
| | `RampingVUsRefinesPacingEngine` | the contract |
| `Executor_proofs` | `ExecutorTypeCorrect`, `ExecutorInvariant` | types, `ExecInv` |
| | `TeardownIsAloneHolds`, `TornDownOnceHolds` | what `Execute` does to its engine |
| | `ExecutorImplementsScenarioRun` | `Spec => Promise!RunSpec`: the outcomes that `Suite` starts from |
| `MetricStore_proofs` | `StoreInvariant`, `RecordersShareTheCellHolds` | one cell per key; nobody adds to a cell that readers do not find |
| | `StorageImplementsMetricMap` | `StoreSpec => Map!MapSpec`: the storage implements one map of totals |
| | `SnapshotsShowWhatWasObservedHolds` | what a reader of a run in progress sees |
| `Clients_proofs` | `RequestsAreCountedOnceHolds`, `DefaultClientIsSharedHolds`, `StreamCountsWhatHappenedHolds`, `KafkaCallsAreCountedHolds`, `NATSCallsAreCountedHolds`, `ConversationIsCountedHolds` | every client counts a call once, and as its caller saw it end |
| | `PolledRecordsReachOneReaderHolds` | a polled record is with one virtual user, in order |
| | `ClientHasAServer`, `TopicIsConsumed`, `HTTPTypeCorrect` | what any list of options leaves of a NATS, Kafka or HTTP configuration |
| `Library_proofs` | `QueueInvariant`, `RecordsAreDealtOnceHolds` | the shared queue deals every record once, and says it is exhausted only when it is |
| | `StalledAtMostOnceHolds` | no more stalled iterations are counted than were begun |
| | `GroupsRunInTheirIterationHolds` | a group runs in its own virtual user's current iteration, and is timed once |
| | `ValidatedScenarioRunsHolds`, `VerdictsAgreeHolds` | what validation accepts can be run; one verdict everywhere |
| | `TotalsAreOfAllVariants`, `RatesAreRatios`, `PercentilesAreOrdered` | the sums over tag variants; a rate has data when something was attempted, and is between 0 and 100 percent; p50 ≤ p90 ≤ p95 ≤ p99, all of them recorded values |
| | `LibraryRunsItsParts` | a behaviour of `MCLibrary` is one of each part's specification |
| | `LibraryTypeCorrect` | types, and what the configurations of all clients keep to |
| | `CallsAreCountedOnceHolds`, `LibrarySafety` | so what is proved of the parts holds in the run that composes them |

The services hold for any number of virtual users, records, messages, calls, shards,
variants and samples, any documents, command lines and programs.

**Assumptions**: the named `ASSUME`s of the constants, nothing else. Of the documents
(`DocumentAssumption`) it says what `mapstructure` guarantees, that each field of the
structs is there with its type, and nothing about the values; of a recording
(`RecordingAssumption`) that its cells of one name are of one kind, which the registry sees to;
of the clients' options (`KafkaAssumption`, `NATSAssumption`) that they come in lists. The gate's target is
what each engine passes to `NewStartupQuorumGate`: the number of virtual users for
`constant_vus` and `arrival_rate`, the first stage's target for `ramping_vus`.

**The argument.** None of the properties is inductive. `GateDecidesOnce` needs that the
counters count votes (`readyCount` is the *cardinality* of the virtual users that voted
ready, and so for failed), that nobody votes twice, and that there are no more gated
virtual users than the target; then readiness of `Required` and failure of more than
`target - Required` together would need more voters than there are. A goroutine that
stands between its add and the close must be backed by the counters too, since the
channel is closed later than it was decided: that is `GateWorkerInv`. A virtual user past
the gate found it open, which with `GateDecidesOnce` makes `DropoutRunsNothing` hold.
`DrainInv` ties the gauge and the set of finished `AfterTest` hooks to the program
counters and says that `waitCh` is closed only when nobody is left and only in the
drain, when nobody is spawned any more. `TallyInv` counts an iteration as recorded,
discarded or in flight. `TelemetryInv` bounds the virtual users that have given up, counted
as a *set*, by the attempts that failed and were not restarted: each leaves the difference
of the two metrics by one, at the step that makes it `failed` and not at its vote, and only
a shutdown lets one give up without an error of its own. A dropout needs more failed votes than the gate
absorbs, and every voter has given up. `LateInv` carries `AtMostOneIterationAfterStop`: who
has begun a late iteration was told to stop, for good, and has not passed the loop head
since, where it is turned away; so who is about to begin has begun none late. These (in `Pacer`) are shared; each engine adds its own:

* `ConstantVUs`: `StopInv`, every way into the drain closes the stop channel.
* `ArrivalRate`: `PoolInv`, the pool is spawned once; `QueueInv`, the buffer is closed only
  in the drain, the deferred `cancel` of `Run` comes when it has returned, and once an
  iteration has begun and nothing cancelled the run, either the buffer is closed and empty
  or somebody is still there to serve it. A worker leaves only on a cancellation or on a
  buffer that is closed and empty, so the last one leaves nothing behind.
* `RampingVUs`: `RampInv`, vuids are handed out without a gap, so that a fresh one is not
  on the list; the list and the stopped ones partition the spawned; every way into the
  drain empties the list; after the startup nobody is spawned without the gate before the
  quorum. `StageInv`: a stage that ticks exists. For the load, `LevelInv` says where a stage
  starts from and where it stands between its targets, which the first stage with a gate
  does not (the gate spawned its target already); and `ShortInv` counts the virtual
  users that were not stopped and will run nothing more, as a set, against the `PreTest`
  failures without a restart. It is the engine's own part of `TelemetryInv`: there every
  voter is counted, here those on the list, and a stop takes one from both sides at most. It
  ends where the run is cancelled or aborted, since then one may leave without a failure;
  after the grace period gave a run up no stage ticks.

The refinements follow: a virtual user that passes its loop head was not stopped, and in the
drain everybody was, so nobody commits to an iteration after the close (`arrival_rate` is
allowed to, with `DrainsQueue`), though who has committed still begins; `Return` needs `waitCh`, which needs everybody gone; the context is blamed
only when the caller cancelled it (`DrainInv`). `Executor` is proved over `PacingEngine`
alone: `ExecInv` says that a result means that the engine is really over, and that the
monitor's reason is written before its channel is closed. `OutcomeInv` follows an outcome
to its cause: nobody but the monitor cancels a run before `Execute` has returned, so an engine
that blames its context, and an abort, have a reason stored before; with it every step of
`Execute` and of the monitor is one of `ScenarioRun` or a stutter.

The services have arguments of their own.

* *Storage.* A recorder that creates holds the mutex of its kind and nobody has published
  its key meanwhile (`Creators`); cells are numbered without a gap, so that a fresh one is
  nobody else's, and every published cell has one key and its name that key's kind
  (`CellsOfKeys`); hence a recorder that got a cell got the published one, and its two adds
  are the two additions of the abstract map, whose total is what a reader finds. Looking
  again under the mutex is what `Creators` rests on; without it two cells would have one key.
* *Reading a run in progress* (`SnapInv`). The sums over shards and variants are cardinalities
  of sets of units, so that one `RecordValue` changes one of them by one without an induction
  over the places. `SumInv` ties them to what was given and what is in a recorder's hand;
  `WalkInv` splits the reader's walk over the shards into the places it has passed, of which
  it has what it took, and those to come, which still hold what they held at its start; what
  merged without a lock is anything up to the present. `RateInv` says how far the numerator
  that was read may lead the denominator: by the adds under way, at each of the two reads.
* *Clients.* What a metric has, and the callers that still owe it an add, together make the
  requests whose fate is known (`HTTPCounts`). A client is shared only when `Default` took
  it from the cache, which nothing leaves (`SharedClients`). The events that a stream has
  counted, and those that the lines not yet read can still bring, are no more than the response
  carried (`StreamEvents`); an error is counted with the step that sets the stream's error,
  and nothing is read after one (`StreamErrors`). The records up to a consumer's position are held, each
  by one virtual user and in order, or came beside an error (`Dealt`). The counters of a
  conversation say where its flow stands (`Reached`), and so how it ended: a success had every
  turn, a mismatch has round trips left open, a panic lost its message and has no result.
* *Data sets.* The cursor separates the records that were dealt, once each and without a
  gap, from those that were not (`QueueInv`).
* *Watchdog.* A flag goes up only after a reset of its own, which is one per iteration begun;
  `CountOf` compares the flags counted, and the one that is raised but not yet counted
  (`Owed`), with the resets done.
* *Contexts.* `GroupsRunInTheirIteration` follows from what the code does about stale
  contexts: adapters in use are distinct and none of them is in the pool, so that no other
  virtual user can point it elsewhere; an entry of a stack points at the place the group was entered
  with, and its context is the current one (each entry refreshes the child it enters, and the hook begins
  with an empty stack); an observation is owed for each entry of the stack (`TimedInv`).
* *Suite.* The invariant follows the early returns: what has been resolved at each place
  (`ConfigurationInv`: a scenario that is there came out of `LoadConfig`), what was judged
  (`EvaluationInv`: the evaluation is that of the metrics and thresholds at hand), and what
  the four reports were given. `ValidatedScenarioRuns` is then a statement about
  `LoadConfig` alone, one lemma per validator; `VerdictsAgree` does not depend on what the
  statistics compute, for which the folds need not be unfolded. What they compute is said of any metrics:
  a total is that of all tag variants (`SumOfOneMore`), and the ranks of the percentiles are
  ordered (`RanksAreOrdered`).
* *Composition.* `LibraryNext` moves one part and leaves the variables of the others alone,
  and the parts at rest start in their own initial states, so that each part's specification
  holds of the whole (`LibraryRunsItsParts`) and its theorems carry over. The watchdog is the
  exception, its rest being a state of its own, and is proved over the composition directly.

Each `IInv`, `ExecInv` and `SnapInv` was checked by TLC on the instances of section 3 before it was
proved; the run `MCConstantVUs_gate` keeps the one that carries the gate.

`Pacer_proofs` has one lemma per part of the invariant and group of steps: those of the
workers (`GateWorker`, `DrainWorker`, `TallyWorker`), of the shared half of `Run`
(`GateRun`, ...), of spawning, and frame lemmas for the steps an engine adds of its own.
They are stated about `WorkerMove` and `RunMove`, not about an engine, so the three
engines cite the same lemmas. Induction over the number of voters is avoided: only facts
about the cardinality of a set with one element more or less, and of disjoint subsets,
are needed.

**Induction** is needed over the options of a client, over the cells of a metric and for the
first of the thresholds that want one metric. The library's induction theorems take an
operator as a parameter and cannot be cited here; what can is that an order is
well-founded, and so that a set of numbers, or of subsets of a finite set, has a least element
(`NatLessThanWellFounded`, `FS_StrictSubsetOrderingWellFounded`, `WFMin`), which is about sets.
So `SetInduction` says that a set of naturals with 0 and every successor is all of them,
`SubsetInduction` the like of subsets, and an induction is an argument about the set of those
for which the claim holds. The folds of the community modules are recursive functions, whose
existence is shown in the same way (`NATSOptionsFold`, `KafkaOptionsFold`, `SumExists`); that
a sum is the same in whatever order Go's map is walked is `SumsCommute`.

**Only model-checked**: everything about liveness (`RunReturns`, `GateReleasesEveryone`,
`DecidedAbortIsReported`, `MonitorEnds`, `HungIterationIsFlagged`, `StreamsAreReleased`),
which needs `ENABLED` and is out of the prover's reach. Of the statistics, the theorems
have the sums, the rates and the percentiles of a sorted list; that sorting the samples of
all variants gives such a list, and the mean, are the definitions of the sorting operator and of
another fold, which TLC evaluates on the recordings of `MCLibrary`.

## 5. Not modelled

* A hook's panic outside `PreTest`, `RunVU` and groups (`AfterTest`, `Setup`, `Teardown`
  are not recovered) ends the process.
* The path of `Execute` for a scenario type without an engine, which validation rules out;
  the registry of engines, a map under a mutex.
* The actual times, and so the arrival rate, the interpolation's values and the length of
  the phases; rounding of floating-point numbers; with which probability a delay is drawn.
* What an HDR histogram does inside, its precision and the percentiles' interpolation;
  histograms that a virtual user would add by hand (`AddHistogram`), which nothing calls.
* Tags of metrics, beyond one or two variants of a name; headers, bodies and the detailed
  timings of HTTP requests.
* The logger (a wrapper of an external library; `Suite` keeps whether it is open), the
  parsing of the command line, the layout of reports, `Commit` of the Kafka client (an
  effect at the broker only), the schemas, and the other examples, which are one hook each.

## 6. What could come next

Every safety invariant, action property and refinement that a passing run checks is proved. What is left:

1. The liveness properties, once a prover for `ENABLED` is at hand; until then with larger
   instances.
2. The actual times of the schedule: a clock for `arrival_rate`'s period and `ramping_vus`'
   interpolation, with the rates and levels they give.
3. The samples of a histogram, from the cells of all variants to the list that is sorted.
