------------------------------- MODULE VUWorker -------------------------------
(***************************************************************************)
(* The virtual-user goroutine, which the three pacing engines run with the *)
(* same body: supervised PreTest, the quorum gate, the iteration loop and  *)
(* the deferred AfterTest (runVUGoroutine, runRampingVUGoroutine,          *)
(* runArrivalRateWorkerPool, runSupervisedPreTest, executeIteration,       *)
(* recordIterationResultFast).                                             *)
(*                                                                         *)
(* This module is the worker's half of a pacing engine: a pacing module    *)
(* extends it, spawns the workers, owns the stop channels and the run      *)
(* context, and says how the loop obtains its next iteration.  User hooks  *)
(* end whenever they like, with any outcome; a panicking PreTest is an     *)
(* error, a panicking RunVU an outcome of its own.                         *)
(***************************************************************************)
EXTENDS StartupQuorumGate, FiniteSets

CONSTANTS
  VUs,                 \* the virtual users that may be spawned
  MaxPreTestRetries,   \* max_pretest_retries
  HasTimeout,          \* iterations have a deadline (vu_timeout or the guard)
  MaxIterations        \* bound of the model: iterations begun in a run

ASSUME WorkerAssumption ==
  /\ IsFiniteSet(VUs)
  /\ MaxPreTestRetries \in Nat
  /\ HasTimeout \in BOOLEAN
  /\ MaxIterations \in Nat

VARIABLES
  pc,             \* where each goroutine stands
  attempt,        \* PreTest retries already scheduled
  gated,          \* the virtual users that were spawned with a gate
  vote,           \* history: what each virtual user told the gate
  afterDone,      \* history: the virtual users whose AfterTest has run
  activeGauge,    \* vuhive.vu.active
  pretestErrors,  \* vuhive.vu.pretest_errors
  vuRestarts,     \* vuhive.vu.restarts_total
  stopped,        \* the virtual users whose stop channel is closed
  cancelledBy,    \* what cancelled the run context first, or "none"
  expired,        \* the virtual users whose iteration deadline has passed
  outcome,        \* what the RunVU call that just ended returned
  begun,          \* history: RunVU calls started
  begunLate,      \* history: of each virtual user, those started when its
                  \* stop channel or the run context was done already
  interrupted,    \* history: RunVU results discarded
  iterTotal, iterFailed, iterTimeout, vuPanics  \* vuhive.vu.iterations_*, panics

preTestVars == <<attempt, pretestErrors, vuRestarts>>
lifeVars    == <<gated, vote, afterDone, activeGauge>>
signalVars  == <<stopped, cancelledBy>>
tallyVars   == <<interrupted, iterTotal, iterFailed, iterTimeout, vuPanics>>
begunVars   == <<begun, begunLate>>
iterVars    == <<expired, outcome, begunVars, tallyVars>>
workerVars  == <<gateVars, pc, preTestVars, lifeVars, signalVars, iterVars>>

WorkerPC ==
  {"unborn", "born", "pretest", "backoff", "failed", "dropout", "aborting",
   "ready", "opening", "waiting", "loop", "begin", "run", "record", "after", "dereg",
   "leaving", "gone"}

InIteration == {"run", "record"}
Idle        == {"unborn", "gone"}

WorkerInit ==
  /\ GateInit
  /\ pc = [v \in VUs |-> "unborn"]
  /\ attempt = [v \in VUs |-> 0]
  /\ gated = {}
  /\ vote = [v \in VUs |-> "none"]
  /\ afterDone = {}
  /\ activeGauge = 0
  /\ pretestErrors = 0
  /\ vuRestarts = 0
  /\ stopped = {}
  /\ cancelledBy = "none"
  /\ expired = {}
  /\ outcome = [v \in VUs |-> "ok"]
  /\ begun = 0
  /\ begunLate = [v \in VUs |-> 0]
  /\ interrupted = 0
  /\ iterTotal = 0
  /\ iterFailed = 0
  /\ iterTimeout = 0
  /\ vuPanics = 0

-----------------------------------------------------------------------------
(* The run context and the stop channels, as the pacing engine uses them.  *)

ctxDone == cancelledBy # "none"

\* Cancelling a context twice is a no-op: the first cause stays.
Cancel(cause) == cancelledBy' = IF ctxDone THEN cancelledBy ELSE cause

Goto(v, from, to) ==
  /\ pc[v] = from
  /\ pc' = [pc EXCEPT ![v] = to]

-----------------------------------------------------------------------------
(* Start of the goroutine and supervised PreTest.                          *)

\* activeGauge.Add(1) and RegisterVU, then the first PreTest attempt.
Start(v) ==
  /\ Goto(v, "born", "pretest")
  /\ activeGauge' = activeGauge + 1
  /\ UNCHANGED <<gateVars, preTestVars, gated, vote, afterDone, signalVars, iterVars>>

PreTestSucceeds(v) ==
  /\ Goto(v, "pretest", IF v \in gated THEN "ready" ELSE "loop")
  /\ UNCHANGED <<gateVars, preTestVars, lifeVars, signalVars, iterVars>>

\* The virtual user leaves runSupervisedPreTest with an error.
GiveUp(v) == IF v \in gated THEN "failed" ELSE "after"

\* Mutation: the last failure is not counted.
LastFailureUncounted(v) ==
  /\ attempt[v] >= MaxPreTestRetries
  /\ Goto(v, "pretest", GiveUp(v))
  /\ UNCHANGED <<gateVars, preTestVars, lifeVars, signalVars, iterVars>>

PreTestFailsForGood(v) ==
  /\ attempt[v] >= MaxPreTestRetries
  /\ Goto(v, "pretest", GiveUp(v))
  /\ pretestErrors' = pretestErrors + 1
  /\ UNCHANGED <<gateVars, attempt, vuRestarts, lifeVars, signalVars, iterVars>>

\* Mutation: one retry too many.
OneRetryTooMany(v) ==
  /\ attempt[v] <= MaxPreTestRetries
  /\ Goto(v, "pretest", "backoff")
  /\ pretestErrors' = pretestErrors + 1
  /\ vuRestarts' = vuRestarts + 1
  /\ attempt' = [attempt EXCEPT ![v] = @ + 1]
  /\ UNCHANGED <<gateVars, lifeVars, signalVars, iterVars>>

PreTestFailsAndRetries(v) ==
  /\ attempt[v] < MaxPreTestRetries
  /\ Goto(v, "pretest", "backoff")
  /\ pretestErrors' = pretestErrors + 1
  /\ vuRestarts' = vuRestarts + 1
  /\ attempt' = [attempt EXCEPT ![v] = @ + 1]
  /\ UNCHANGED <<gateVars, lifeVars, signalVars, iterVars>>

\* The backoff select: the timer, or a shutdown, whichever is picked.
BackoffElapses(v) ==
  /\ Goto(v, "backoff", "pretest")
  /\ UNCHANGED <<gateVars, preTestVars, lifeVars, signalVars, iterVars>>

BackoffInterrupted(v) ==
  /\ ctxDone \/ v \in stopped
  /\ Goto(v, "backoff", GiveUp(v))
  /\ UNCHANGED <<gateVars, preTestVars, lifeVars, signalVars, iterVars>>

-----------------------------------------------------------------------------
(* The gate, as the worker goes through it.                                *)

\* Mutation: the comparison is >= instead of >.
AbortAtTheLastAllowedFailure(v) ==
  /\ AddFailed
  /\ Goto(v, "failed", IF failedCount' >= MaxAllowedFailures THEN "dropout" ELSE "after")
  /\ vote' = [vote EXCEPT ![v] = "failed"]
  /\ UNCHANGED <<preTestVars, gated, afterDone, activeGauge, signalVars, iterVars>>

RecordFailed(v) ==
  /\ AddFailed
  /\ Goto(v, "failed", IF failedCount' > MaxAllowedFailures THEN "dropout" ELSE "after")
  /\ vote' = [vote EXCEPT ![v] = "failed"]
  /\ UNCHANGED <<preTestVars, gated, afterDone, activeGauge, signalVars, iterVars>>

TriggerDropoutAbort(v) ==
  /\ Goto(v, "dropout", "aborting")
  /\ PublishAbort("dropout")
  /\ UNCHANGED <<preTestVars, lifeVars, signalVars, iterVars>>

DropoutAlreadyAborted(v) ==
  /\ AbortAlreadyDone
  /\ Goto(v, "dropout", "after")
  /\ UNCHANGED <<gateVars, preTestVars, lifeVars, signalVars, iterVars>>

CloseDropoutAbort(v) ==
  /\ Goto(v, "aborting", "after")
  /\ CloseAbort
  /\ UNCHANGED <<preTestVars, lifeVars, signalVars, iterVars>>

RecordReady(v) ==
  /\ AddReady
  /\ Goto(v, "ready", IF readyCount' >= Required THEN "opening" ELSE "waiting")
  /\ vote' = [vote EXCEPT ![v] = "ready"]
  /\ UNCHANGED <<preTestVars, gated, afterDone, activeGauge, signalVars, iterVars>>

ReleaseGate(v) ==
  /\ Goto(v, "opening", "waiting")
  /\ OpenGate
  /\ UNCHANGED <<preTestVars, lifeVars, signalVars, iterVars>>

\* Mutation: every case of the select returns nil.
EnterOnAnySignal(v) ==
  /\ readyCh \/ abortCh \/ ctxDone
  /\ Goto(v, "waiting", "loop")
  /\ UNCHANGED <<gateVars, preTestVars, lifeVars, signalVars, iterVars>>

\* WaitReady's select: with several cases ready, Go picks any of them.
EnterThroughGate(v) ==
  /\ readyCh
  /\ Goto(v, "waiting", "loop")
  /\ UNCHANGED <<gateVars, preTestVars, lifeVars, signalVars, iterVars>>

\* Mutation: the select has no case for the context.
TurnBackOnAbortOnly(v) ==
  /\ abortCh
  /\ Goto(v, "waiting", "after")
  /\ UNCHANGED <<gateVars, preTestVars, lifeVars, signalVars, iterVars>>

TurnBackAtGate(v) ==
  /\ abortCh \/ ctxDone
  /\ Goto(v, "waiting", "after")
  /\ UNCHANGED <<gateVars, preTestVars, lifeVars, signalVars, iterVars>>

-----------------------------------------------------------------------------
(* Iterations.                                                             *)

\* The virtual users that have passed the loop head and not yet begun.
Committed == {v \in VUs : pc[v] = "begin"}

\* The loop head lets the virtual user go on; how it does is the engine's.
PassLoopHead(v) ==
  /\ begun + Cardinality(Committed) < MaxIterations
  /\ Goto(v, "loop", "begin")
  /\ UNCHANGED <<gateVars, preTestVars, lifeVars, signalVars, iterVars>>

LeaveLoop(v) ==
  /\ Goto(v, "loop", "after")
  /\ UNCHANGED <<gateVars, preTestVars, lifeVars, signalVars, iterVars>>

\* The loop head of a persistent virtual user: a select with a default.
ShouldStop(v) == v \in stopped \/ ctxDone
PollAndLeave(v) == ShouldStop(v) /\ LeaveLoop(v)
\* Mutation: the select has no case for the context.
PollStopOnly(v) == v \notin stopped /\ PassLoopHead(v)

PollAndGoOn(v) == ~ShouldStop(v) /\ PassLoopHead(v)

\* tracker.Begin, the iteration's context and the call of RunVU: nothing is
\* looked at again, so the stop may have come since the loop head.
BeginIteration(v) ==
  /\ Goto(v, "begin", "run")
  /\ begun' = begun + 1
  /\ begunLate' = IF ShouldStop(v) THEN [begunLate EXCEPT ![v] = @ + 1] ELSE begunLate
  /\ UNCHANGED <<gateVars, preTestVars, lifeVars, signalVars, expired, outcome, tallyVars>>

\* The iteration context's deadline passes; a context that was cancelled
\* before keeps its first error.
DeadlinePasses(v) ==
  /\ HasTimeout
  /\ pc[v] \in InIteration
  /\ ~ctxDone
  /\ v \notin expired
  /\ expired' = expired \cup {v}
  /\ UNCHANGED <<gateVars, pc, preTestVars, lifeVars, signalVars, outcome, begunVars, tallyVars>>

RunVUReturns(v) ==
  /\ Goto(v, "run", "record")
  /\ \E result \in {"ok", "error", "panic"} : outcome' = [outcome EXCEPT ![v] = result]
  /\ UNCHANGED <<gateVars, preTestVars, lifeVars, signalVars, expired, begunVars, tallyVars>>

\* How the result of a RunVU call is classified: a recovered panic first,
\* then the scenario's context, then the iteration's.  The two contexts are
\* read one after the other; both only ever go from live to done, so some
\* instant between the reads explains what they return.
Classify(v) ==
  CASE outcome[v] = "panic"                      -> "panic"
    [] outcome[v] = "ok" /\ ctxDone              -> "success"
    [] outcome[v] = "error" /\ ctxDone           -> "discarded"
    [] outcome[v] # "panic" /\ ~ctxDone /\ v \in expired -> "timeout"
    [] outcome[v] = "error" /\ ~ctxDone /\ v \notin expired -> "failure"
    [] OTHER                                     -> "success"

Tick(counter, class, classes) == IF class \in classes THEN counter + 1 ELSE counter

\* Mutation: a panic is counted as a panic and a failure only.
PanicNotInTotal(v) ==
  LET class == Classify(v) IN
  /\ Goto(v, "record", "loop")
  /\ interrupted' = Tick(interrupted, class, {"discarded"})
  /\ iterTotal'   = Tick(iterTotal, class, {"success", "failure", "timeout"})
  /\ iterFailed'  = Tick(iterFailed, class, {"failure", "timeout", "panic"})
  /\ iterTimeout' = Tick(iterTimeout, class, {"timeout"})
  /\ vuPanics'    = Tick(vuPanics, class, {"panic"})
  /\ expired' = expired \ {v}
  /\ outcome' = [outcome EXCEPT ![v] = "ok"]
  /\ UNCHANGED <<gateVars, preTestVars, lifeVars, signalVars, begunVars>>

RecordIterationResult(v) ==
  LET class == Classify(v) IN
  /\ Goto(v, "record", "loop")
  /\ interrupted' = Tick(interrupted, class, {"discarded"})
  /\ iterTotal'   = Tick(iterTotal, class, {"success", "failure", "timeout", "panic"})
  /\ iterFailed'  = Tick(iterFailed, class, {"failure", "timeout", "panic"})
  /\ iterTimeout' = Tick(iterTimeout, class, {"timeout"})
  /\ vuPanics'    = Tick(vuPanics, class, {"panic"})
  /\ expired' = expired \ {v}
  /\ outcome' = [outcome EXCEPT ![v] = "ok"]
  /\ UNCHANGED <<gateVars, preTestVars, lifeVars, signalVars, begunVars>>

-----------------------------------------------------------------------------
(* The deferred calls, last to first: AfterTest, tracker and gauge, Done.  *)

AfterTest(v) ==
  /\ Goto(v, "after", "dereg")
  /\ afterDone' = afterDone \cup {v}
  /\ UNCHANGED <<gateVars, preTestVars, gated, vote, activeGauge, signalVars, iterVars>>

\* Mutation: the gauge is not decremented.
GaugeLeaks(v) ==
  /\ Goto(v, "dereg", "leaving")
  /\ UNCHANGED <<gateVars, preTestVars, lifeVars, signalVars, iterVars>>

Deregister(v) ==
  /\ Goto(v, "dereg", "leaving")
  /\ activeGauge' = activeGauge - 1
  /\ UNCHANGED <<gateVars, preTestVars, gated, vote, afterDone, signalVars, iterVars>>

Done(v) ==
  /\ Goto(v, "leaving", "gone")
  /\ UNCHANGED <<gateVars, preTestVars, lifeVars, signalVars, iterVars>>

-----------------------------------------------------------------------------
(* Steps that end only when a user hook returns, and the others.           *)

HookStep(v) ==
  \/ PreTestSucceeds(v) \/ PreTestFailsForGood(v) \/ PreTestFailsAndRetries(v)
  \/ RunVUReturns(v)
  \/ AfterTest(v)

EngineStep(v) ==
  \/ Start(v)
  \/ BackoffElapses(v) \/ BackoffInterrupted(v)
  \/ RecordFailed(v) \/ TriggerDropoutAbort(v) \/ DropoutAlreadyAborted(v)
  \/ CloseDropoutAbort(v)
  \/ RecordReady(v) \/ ReleaseGate(v) \/ EnterThroughGate(v) \/ TurnBackAtGate(v)
  \/ BeginIteration(v) \/ RecordIterationResult(v)
  \/ Deregister(v) \/ Done(v)

PollStep(v) == PollAndLeave(v) \/ PollAndGoOn(v)

\* A hook that honours its context returns once the context is done: the
\* run context, or the deadline of the iteration.
ObedientHookStep(v) == (ctxDone \/ v \in expired) /\ HookStep(v)

\* Mutation: wg.Done is deferred last, so it runs before AfterTest.
DoneBeforeAfterTest == \A v \in VUs : pc[v] \in Idle \cup {"after"}

\* wg: every goroutine that was added has called Done.
AllDone == \A v \in VUs : pc[v] \in Idle

WorkerTypeOK ==
  /\ GateTypeOK
  /\ pc \in [VUs -> WorkerPC]
  /\ attempt \in [VUs -> 0..MaxPreTestRetries]
  /\ gated \subseteq VUs
  /\ vote \in [VUs -> {"none", "ready", "failed"}]
  /\ afterDone \subseteq VUs
  /\ activeGauge \in Int
  /\ pretestErrors \in Nat
  /\ vuRestarts \in Nat
  /\ stopped \subseteq VUs
  /\ cancelledBy \in {"none", "parent", "quorum", "drain", "return"}
  /\ expired \subseteq VUs
  /\ outcome \in [VUs -> {"ok", "error", "panic"}]
  /\ begun \in Nat
  /\ begunLate \in [VUs -> Nat]
  /\ interrupted \in Nat
  /\ iterTotal \in Nat
  /\ iterFailed \in Nat
  /\ iterTimeout \in Nat
  /\ vuPanics \in Nat
=============================================================================
