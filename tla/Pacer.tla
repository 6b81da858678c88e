-------------------------------- MODULE Pacer --------------------------------
(***************************************************************************)
(* What the three pacing engines share on the side of Run: waiting for the *)
(* startup quorum (AwaitQuorum), draining the workers (drainWorkers) and   *)
(* the run context's cancellation from outside.  Time is abstracted: a     *)
(* timer that is armed may fire at any moment, before or after any other   *)
(* event.                                                                  *)
(***************************************************************************)
EXTENDS VUWorker

CONSTANTS
  UseGate,     \* the run has a startup quorum gate
  HasDrain     \* drain > 0

ASSUME PacerAssumption ==
  /\ UseGate \in BOOLEAN
  /\ HasDrain \in BOOLEAN

VARIABLES
  ppc,         \* where Run stands
  ret,         \* the error it will return: "nil", "quorum" or "context"
  waitCh,      \* closed by drainWorkers' helper when wg.Wait returns
  graceFired   \* history: the grace timer was picked with too few ready

pacerVars == <<ppc, ret, waitCh, graceFired>>

PacerInit(first) ==
  /\ ppc = first
  /\ ret = "nil"
  /\ waitCh = FALSE
  /\ graceFired = FALSE

PacerGoto(from, to) == ppc = from /\ ppc' = to

\* What Run never touches in the workers.
WorkerInternals == <<gateVars, preTestVars, vote, afterDone, activeGauge, iterVars>>

-----------------------------------------------------------------------------
(* AwaitQuorum, whose select picks any case that is ready.  "next" is      *)
(* where Run goes on once the quorum is reached.                           *)

QuorumIsReached(next) ==
  /\ readyCh
  /\ PacerGoto("await", next)
  /\ UNCHANGED <<workerVars, ret, waitCh, graceFired>>

QuorumIsAborted ==
  /\ abortCh
  /\ PacerGoto("await", "giveup")
  /\ ret' = "quorum"
  /\ UNCHANGED <<workerVars, waitCh, graceFired>>

AwaitCancelled ==
  /\ ctxDone
  /\ PacerGoto("await", "giveup")
  /\ ret' = "context"
  /\ UNCHANGED <<workerVars, waitCh, graceFired>>

\* The grace timer is picked and the ready count is loaded.
GraceExpires(next) ==
  /\ PacerGoto("await", IF QuorumReached THEN next ELSE "abort")
  /\ graceFired' = (graceFired \/ ~QuorumReached)
  /\ UNCHANGED <<workerVars, ret, waitCh>>

\* triggerAbort, called with the grace period's error.
PublishGraceAbort ==
  /\ PublishAbort("grace")
  /\ PacerGoto("abort", "closeAbort")
  /\ UNCHANGED <<pc, preTestVars, lifeVars, signalVars, iterVars, ret, waitCh, graceFired>>

CloseGraceAbort ==
  /\ CloseAbort
  /\ PacerGoto("closeAbort", "giveup")
  /\ ret' = "quorum"
  /\ UNCHANGED <<pc, preTestVars, lifeVars, signalVars, iterVars, waitCh, graceFired>>

GraceAlreadyAborted ==
  /\ AbortAlreadyDone
  /\ PacerGoto("abort", "giveup")
  /\ ret' = "quorum"
  /\ UNCHANGED <<workerVars, waitCh, graceFired>>

AwaitStep(next) ==
  \/ QuorumIsReached(next) \/ QuorumIsAborted \/ AwaitCancelled \/ GraceExpires(next)
  \/ PublishGraceAbort \/ CloseGraceAbort \/ GraceAlreadyAborted

\* The startup failed: cancel(), and the stop channels of toStop are closed;
\* a worker that sees either one leaves.
GiveUpStartup(toStop) ==
  /\ PacerGoto("giveup", "drain")
  /\ Cancel("quorum")
  /\ stopped' = stopped \cup toStop
  /\ UNCHANGED <<WorkerInternals, pc, gated, ret, waitCh, graceFired>>

-----------------------------------------------------------------------------
(* drainWorkers and the return of Run.                                     *)

\* The helper goroutine of drainWorkers: wg.Wait, then close(waitCh).
WaitGroupDrained ==
  /\ ppc \in {"drain", "drainWait"}
  /\ ~waitCh
  /\ AllDone
  /\ waitCh' = TRUE
  /\ UNCHANGED <<workerVars, ppc, ret, graceFired>>

\* Mutation: Run does not wait for its workers.
ReturnWithoutWaiting(from) ==
  /\ PacerGoto(from, "returned")
  /\ Cancel("return")
  /\ UNCHANGED <<WorkerInternals, pc, gated, stopped, ret, waitCh, graceFired>>

\* Run returns; its deferred cancel() fires.
ReturnToExecutor(from) ==
  /\ waitCh
  /\ PacerGoto(from, "returned")
  /\ Cancel("return")
  /\ UNCHANGED <<WorkerInternals, pc, gated, stopped, ret, waitCh, graceFired>>

DrainedEarly == ReturnToExecutor("drain")
DrainedLate  == ReturnToExecutor("drainWait")

\* Mutation: the timeout of the drain does not cancel the workers.
TimeoutWithoutCancel ==
  /\ HasDrain \/ ~waitCh
  /\ PacerGoto("drain", "drainWait")
  /\ UNCHANGED <<workerVars, ret, waitCh, graceFired>>

\* The drain timer or the cancelled context, or the default case of a drain
\* of zero: cancel(), and then wait.
DrainTimesOut ==
  /\ HasDrain \/ ~waitCh
  /\ PacerGoto("drain", "drainWait")
  /\ Cancel("drain")
  /\ UNCHANGED <<WorkerInternals, pc, gated, stopped, ret, waitCh, graceFired>>

DrainStep == WaitGroupDrained \/ DrainedEarly \/ DrainedLate \/ DrainTimesOut

\* The run context is cancelled from outside: the abort monitor or the caller.
ParentCancels ==
  /\ ~ctxDone
  /\ Cancel("parent")
  /\ UNCHANGED <<WorkerInternals, pc, gated, stopped, pacerVars>>

-----------------------------------------------------------------------------
(* What the executor can see of a pacing engine.                           *)

workerView  == [v \in VUs |-> IF pc[v] \in Idle THEN pc[v]
                              ELSE IF pc[v] = "begin" THEN "committed"
                              ELSE IF pc[v] \in InIteration THEN "busy" ELSE "alive"]
closingView == ppc \in {"drain", "drainWait", "returned"}
resultView  == IF ppc = "returned" THEN ret ELSE "none"
cancelledView == cancelledBy = "parent"

PacerTypeOK ==
  /\ WorkerTypeOK
  /\ ret \in {"nil", "quorum", "context"}
  /\ waitCh \in BOOLEAN
  /\ graceFired \in BOOLEAN

-----------------------------------------------------------------------------
(* Properties every pacing engine has.                                     *)

\* Two goroutines decide the quorum, the virtual user that completes it and
\* the one whose dropout makes it impossible.  As long as the grace timer
\* stays out of it, they never both succeed: WaitReady's select can find
\* readyCh or abortCh closed, not both (RecordReady, RecordFailed).
GateDecidesOnce == ~graceFired => ~(readyCh /\ abortCh)

\* No RunVU call is ever made before enough virtual users were ready.
NoIterationBeforeQuorum == UseGate /\ begun > 0 => QuorumReached

\* A startup that dropouts made impossible runs no iteration at all, however
\* the shutdown of the virtual users that were ready interleaves with it.
DropoutRunsNothing == ret = "quorum" /\ ~graceFired => begun = 0

\* A quorum error blamed on dropouts reports fewer ready virtual users than
\* required, although it reads the count while others still add to it.
DropoutErrorShowsShortfall == abortErr.cause = "dropout" => abortErr.ready < Required

\* A quorum error blamed on dropouts is backed by the telemetry: unless the
\* run was being shut down, more virtual users exhausted their PreTest
\* retries than the quorum can absorb.
DropoutIsBackedByTelemetry ==
  abortErr.cause = "dropout" =>
    ctxDone \/ stopped # {} \/ pretestErrors - vuRestarts > MaxAllowedFailures

\* When Run returns, every virtual user it spawned has run its AfterTest and
\* is gone, and the active gauge is back at zero: Teardown, which the
\* executor calls next, overlaps no hook of a virtual user.
ReturnsAfterEveryWorker ==
  ppc = "returned" =>
    /\ AllDone
    /\ afterDone = {v \in VUs : pc[v] = "gone"}
    /\ activeGauge = 0

\* When Run returns, the counters tell the whole story: every RunVU call was
\* counted once or discarded once, the failures are part of the total, and
\* timeouts and panics are disjoint parts of the failures.
EveryIterationAccounted ==
  ppc = "returned" =>
    /\ begun = iterTotal + interrupted
    /\ iterTimeout + vuPanics <= iterFailed
    /\ iterFailed <= iterTotal

\* A persistent virtual user polls its stop channel and the run context at the
\* loop head only, so that either may be done when it calls RunVU.  That
\* happens once at most: however the stop, the cancellation and the drain
\* follow each other, it begins no second iteration after the first of them.
AtMostOneIterationAfterStop == \A v \in VUs : begunLate[v] <= 1

\* Run always returns: whatever the hooks do before their context is done,
\* the timers, the drain and the cancellation end the run.
RunReturns == <>(ppc = "returned")

\* A virtual user that entered the gate is released or turned back.
GateReleasesEveryone == \A v \in VUs : pc[v] = "waiting" ~> pc[v] \in {"loop", "after"}

\* Of a quorum that failed, the test of the dropout says: "RunVU iterations
\* must not run when startup quorum fails".
QuorumFailureRunsNothing == ppc = "returned" /\ ret = "quorum" => begun = 0

-----------------------------------------------------------------------------
(* The strengthening that makes the gate's properties inductive: the       *)
(* counters count the votes, a step that is about to open or abort the     *)
(* gate is backed by the counters, and a virtual user past the gate found  *)
(* it open.                                                                *)

ReadyVotes  == {v \in VUs : vote[v] = "ready"}
FailedVotes == {v \in VUs : vote[v] = "failed"}

GateWorkerInv(v) ==
  /\ pc[v] \in {"unborn", "born", "pretest", "backoff", "failed", "ready"} => vote[v] = "none"
  /\ vote[v] # "none" => v \in gated
  /\ pc[v] \in {"failed", "ready"} => v \in gated
  /\ pc[v] \in {"dropout", "aborting"} => QuorumImpossible
  /\ pc[v] = "aborting" => abortErr.cause = "dropout"
  /\ pc[v] = "opening" => QuorumReached
  /\ UseGate /\ pc[v] # "unborn" => v \in gated \/ QuorumReached
  /\ v \in gated /\ pc[v] \in {"loop", "begin"} \cup InIteration => readyCh

GateInv ==
  /\ readyCount = Cardinality(ReadyVotes)
  /\ failedCount = Cardinality(FailedVotes)
  /\ Cardinality(gated) <= GateTarget
  /\ \A v \in VUs : GateWorkerInv(v)
  /\ readyCh => QuorumReached
  /\ abortErr.cause = "dropout" => QuorumImpossible /\ abortErr.ready < Required
  /\ abortErr.cause = "grace" => graceFired
  /\ abortCh => abortErr.cause # "none"
  /\ ppc \in {"await", "abort", "closeAbort", "giveup"} => UseGate
  /\ ppc \in {"abort", "closeAbort"} => graceFired
  /\ ppc = "closeAbort" => abortErr.cause = "grace"
  /\ UseGate /\ begun > 0 => QuorumReached
  /\ ret = "quorum" => UseGate /\ (graceFired \/ abortCh)

\* The same for the end of the run: the gauge and the AfterTest history
\* follow the program counters, nothing happens once wg has drained, and
\* until the drain only the caller can have cancelled the run.
OnGauge   == {v \in VUs : pc[v] \notin {"unborn", "born", "leaving", "gone"}}
PastAfter == {v \in VUs : pc[v] \in {"dereg", "leaving", "gone"}}

DrainInv ==
  /\ activeGauge = Cardinality(OnGauge)
  /\ afterDone = PastAfter
  /\ waitCh => AllDone /\ ppc \in {"drain", "drainWait", "returned"}
  /\ ppc = "returned" => waitCh
  /\ ppc \notin {"drain", "drainWait", "returned"} => cancelledBy \in {"none", "parent"}
  /\ ret = "context" => cancelledBy = "parent"

\* The same for the telemetry: while nothing is being shut down, a virtual user
\* that is on its way to tell the gate of its failure, or has told it, is one
\* whose last PreTest failure was counted and not retried.
GaveUp == {v \in VUs : pc[v] = "failed" \/ vote[v] = "failed"}

TelemetryInv ==
  ctxDone \/ stopped # {} \/ Cardinality(GaveUp) <= pretestErrors - vuRestarts

\* The same for the persistent virtual users' poll: who has begun an iteration
\* late was told to stop, and has not passed the loop head since.
LateInv ==
  \A v \in VUs :
    /\ begunLate[v] <= 1
    /\ begunLate[v] > 0 => ShouldStop(v) /\ pc[v] # "begin"

\* The same for the tallies: an iteration that is not counted yet is in flight.
InFlight == {v \in VUs : pc[v] \in InIteration}

TallyInv ==
  /\ begun = iterTotal + interrupted + Cardinality(InFlight)
  /\ iterTimeout + vuPanics <= iterFailed
  /\ iterFailed <= iterTotal
=============================================================================
