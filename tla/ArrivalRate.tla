----------------------------- MODULE ArrivalRate -----------------------------
(***************************************************************************)
(* The arrival_rate pacing engine (RunArrivalRate): a pool of workers is   *)
(* spawned at once, tokens are dispatched at the target rate into a        *)
(* bounded buffer and dropped when it is full, and the workers take one    *)
(* token per iteration (runArrivalRateWorkerPool).  Only the run context   *)
(* stops a worker early: no stop channel is ever closed.                   *)
(***************************************************************************)
EXTENDS Pacer

CONSTANTS
  HasRampUp,     \* ramp_up > 0
  BurstBuffer,   \* capacity of tokenCh, once defaulted
  MaxDispatch    \* bound of the model: tokens the limiter grants in a run

ASSUME ArrivalAssumption ==
  /\ HasRampUp \in BOOLEAN
  /\ BurstBuffer \in Nat \ {0}
  /\ MaxDispatch \in 0..MaxIterations
  /\ GateTarget = Cardinality(VUs)

VARIABLES
  tokens,           \* how many tokens wait in tokenCh
  tokensClosed,     \* tokenCh is closed
  iterSeq,          \* tokens dispatched so far
  dropped,          \* vuhive.pacing.dropped_iterations
  dispatchExpired   \* ramp_up + run_period + ramp_down have passed

tokenVars == <<tokens, tokensClosed, iterSeq, dropped>>
vars == <<workerVars, pacerVars, tokenVars, dispatchExpired>>

PacerPC ==
  {"spawn", "await", "giveup", "abort", "closeAbort", "rampUp", "rampTail",
   "steady", "limit", "close", "drain", "drainWait", "returned"}

AfterQuorum == IF HasRampUp THEN "rampUp" ELSE "steady"

Init ==
  /\ WorkerInit
  /\ PacerInit("spawn")
  /\ tokens = 0
  /\ tokensClosed = FALSE
  /\ iterSeq = 0
  /\ dropped = 0
  /\ dispatchExpired = FALSE

-----------------------------------------------------------------------------
(* The dispatcher.                                                         *)

\* The dispatch context is derived from the caller's and armed at the start.
DispatchDone == dispatchExpired \/ cancelledBy = "parent"

DispatchClockExpires ==
  /\ ~dispatchExpired
  /\ ppc # "returned"
  /\ dispatchExpired' = TRUE
  /\ UNCHANGED <<workerVars, pacerVars, tokenVars>>

SpawnPool ==
  /\ PacerGoto("spawn", IF UseGate THEN "await" ELSE AfterQuorum)
  /\ pc' = [v \in VUs |-> "born"]
  /\ gated' = IF UseGate THEN VUs ELSE {}
  /\ UNCHANGED <<WorkerInternals, signalVars, ret, waitCh, graceFired, tokenVars, dispatchExpired>>

\* The quorum failed: cancel(), closeTokens() and on to drainWorkers.
GiveUpDispatch ==
  /\ GiveUpStartup({})
  /\ tokensClosed' = TRUE
  /\ UNCHANGED <<tokens, iterSeq, dropped, dispatchExpired>>

\* Mutation: the buffer holds one token more than BurstBuffer.
OverfullBuffer ==
  /\ iterSeq < MaxDispatch
  /\ iterSeq' = iterSeq + 1
  /\ \/ tokens <= BurstBuffer /\ tokens' = tokens + 1 /\ UNCHANGED dropped
     \/ tokens > BurstBuffer /\ dropped' = dropped + 1 /\ UNCHANGED tokens
  /\ UNCHANGED <<workerVars, ret, waitCh, graceFired, tokensClosed, dispatchExpired>>

\* Mutation: a dropped token is not counted.
DropUncounted ==
  /\ iterSeq < MaxDispatch
  /\ iterSeq' = iterSeq + 1
  /\ tokens' = IF tokens < BurstBuffer THEN tokens + 1 ELSE tokens
  /\ UNCHANGED <<workerVars, ret, waitCh, graceFired, tokensClosed, dropped, dispatchExpired>>

\* dispatchToken: the send that never blocks.
DispatchToken ==
  /\ iterSeq < MaxDispatch
  /\ iterSeq' = iterSeq + 1
  /\ \/ tokens < BurstBuffer /\ tokens' = tokens + 1 /\ UNCHANGED dropped
     \/ tokens = BurstBuffer /\ dropped' = dropped + 1 /\ UNCHANGED tokens
  /\ UNCHANGED <<workerVars, ret, waitCh, graceFired, tokensClosed, dispatchExpired>>

\* The one token of the ramp-up, at its midpoint; then the rest of the ramp.
RampUpToken == PacerGoto("rampUp", "rampTail") /\ DispatchToken

RampUpEnds ==
  /\ PacerGoto("rampTail", "steady")
  /\ UNCHANGED <<workerVars, ret, waitCh, graceFired, tokenVars, dispatchExpired>>

\* Mutation: a ramp-up that is cut short returns without draining.
CutWithoutDrain ==
  /\ DispatchDone
  /\ ppc \in {"rampUp", "rampTail"} /\ ppc' = "returned"
  /\ UNCHANGED <<workerVars, ret, waitCh, graceFired, tokenVars, dispatchExpired>>

RampUpCut ==
  /\ DispatchDone
  /\ ppc \in {"rampUp", "rampTail"} /\ ppc' = "close"
  /\ UNCHANGED <<workerVars, ret, waitCh, graceFired, tokenVars, dispatchExpired>>

\* limiter.Wait: it fails at once if the context is done or its deadline is
\* too near; otherwise its timer and the context race.
LimiterWaits ==
  /\ ~DispatchDone
  /\ PacerGoto("steady", "limit")
  /\ UNCHANGED <<workerVars, ret, waitCh, graceFired, tokenVars, dispatchExpired>>

LimiterGrants == PacerGoto("limit", "steady") /\ DispatchToken

DispatchEnds ==
  /\ \/ PacerGoto("steady", "close")
     \/ DispatchDone /\ PacerGoto("limit", "close")
  /\ UNCHANGED <<workerVars, ret, waitCh, graceFired, tokenVars, dispatchExpired>>

CloseTokens ==
  /\ PacerGoto("close", "drain")
  /\ tokensClosed' = TRUE
  /\ UNCHANGED <<workerVars, ret, waitCh, graceFired, tokens, iterSeq, dropped, dispatchExpired>>

-----------------------------------------------------------------------------
(* The worker's loop: a select over the context and the token channel,     *)
(* which picks either when both are ready.                                 *)

TakeToken(v) ==
  /\ tokens > 0
  /\ PassLoopHead(v)
  /\ tokens' = tokens - 1
  /\ UNCHANGED <<tokensClosed, iterSeq, dropped>>

\* Mutation: a closed channel is taken for an empty one.
LeaveOnClose(v) ==
  /\ ctxDone \/ tokensClosed
  /\ LeaveLoop(v)
  /\ UNCHANGED tokenVars

LeavePool(v) ==
  /\ ctxDone \/ (tokensClosed /\ tokens = 0)
  /\ LeaveLoop(v)
  /\ UNCHANGED tokenVars

-----------------------------------------------------------------------------

DispatcherStep ==
  \/ SpawnPool \/ GiveUpDispatch
  \/ RampUpToken \/ RampUpEnds \/ RampUpCut
  \/ LimiterWaits \/ LimiterGrants \/ DispatchEnds \/ CloseTokens

PacerStep ==
  \/ DispatcherStep
  \/ (AwaitStep(AfterQuorum) \/ DrainStep) /\ UNCHANGED <<tokenVars, dispatchExpired>>

LoopStep(v) == TakeToken(v) \/ LeavePool(v)

WorkerStep(v) ==
  /\ \/ (HookStep(v) \/ EngineStep(v) \/ DeadlinePasses(v)) /\ UNCHANGED tokenVars
     \/ LoopStep(v)
  /\ UNCHANGED <<pacerVars, dispatchExpired>>

\* The goroutine of the caller goes on without the pacing engine.
Terminated == ppc = "returned" /\ AllDone /\ UNCHANGED vars

Next ==
  \/ PacerStep
  \/ DispatchClockExpires
  \/ \E v \in VUs : WorkerStep(v)
  \/ ParentCancels /\ UNCHANGED <<tokenVars, dispatchExpired>>
  \/ Terminated

Spec == Init /\ [][Next]_vars

\* As in ConstantVUs: goroutines are scheduled, timers fire, and hooks return
\* once their context is done.
Fairness ==
  /\ WF_vars(PacerStep)
  /\ WF_vars(DispatchClockExpires)
  /\ \A v \in VUs :
       /\ WF_vars(/\ \/ (EngineStep(v) \/ ObedientHookStep(v)) /\ UNCHANGED tokenVars
                     \/ LoopStep(v)
                  /\ UNCHANGED <<pacerVars, dispatchExpired>>)
       /\ WF_vars(DeadlinePasses(v) /\ UNCHANGED <<tokenVars, pacerVars, dispatchExpired>>)

FairSpec == Spec /\ Fairness

-----------------------------------------------------------------------------
(* Properties of this engine.                                              *)

\* The one type invariant.
TypeOK ==
  /\ PacerTypeOK
  /\ ppc \in PacerPC
  /\ tokens \in 0..BurstBuffer
  /\ tokensClosed \in BOOLEAN
  /\ iterSeq \in 0..MaxDispatch
  /\ dropped \in Nat
  /\ dispatchExpired \in BOOLEAN

\* No token is lost or served twice between the dispatcher, the buffer and
\* the workers: each was served, is in the hands of a worker that is about to,
\* was counted as dropped, or still waits.
TokensAreConserved == iterSeq = begun + Cardinality(Committed) + dropped + tokens

\* When the schedule ends by itself and a worker of the pool was serving
\* tokens, Run returns with the buffer empty: closing the channel lets the
\* workers finish what was queued before the drain ends.
GracefulDrainServesTheQueue ==
  ppc = "returned" /\ cancelledBy = "return" /\ begun > 0 => tokens = 0

\* Of a saturated pool, the engine's comment on the drop says: "All MaxVUs
\* workers are currently busy executing iterations".
DropsOnlyWhenAllBusy ==
  [][dropped' > dropped => \A v \in VUs : pc[v] \in InIteration \cup {"loop", "begin"}]_vars

Contract == INSTANCE PacingEngine WITH
  DrainsQueue <- TRUE, worker <- workerView, closing <- closingView,
  result <- resultView, cancelled <- cancelledView

\* The engine implements what the executor relies on: no worker is spawned
\* once the drain has begun, and Run returns only when all are gone.
ImplementsPacingEngine == Contract!PacingSpec

-----------------------------------------------------------------------------
(* The strengthening of the proofs: what this engine adds to the shared    *)
(* invariants.                                                             *)

\* Once the channel is closed nothing is sent any more, and until the run is
\* cancelled a worker that served a token is still serving, or left a closed
\* and empty channel.
QueueInv ==
  /\ tokensClosed => ppc \in {"drain", "drainWait", "returned"}
  /\ cancelledBy = "return" => ppc = "returned"
  /\ begun > 0 /\ cancelledBy \in {"none", "return"} =>
       \/ tokensClosed /\ tokens = 0
       \/ \E v \in VUs : pc[v] \in {"loop", "begin"} \cup InIteration

\* Before the pool is spawned there is nobody.
PoolInv == ppc = "spawn" => gated = {} /\ \A v \in VUs : pc[v] = "unborn"

\* The inductive invariant.
IInv == GateInv /\ TelemetryInv /\ DrainInv /\ TallyInv /\ PoolInv /\ QueueInv /\ TokensAreConserved
=============================================================================
