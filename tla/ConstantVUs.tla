----------------------------- MODULE ConstantVUs -----------------------------
(***************************************************************************)
(* The constant_vus pacing engine (RunConstantVUs) with the virtual users  *)
(* it spawns: the staggered ramp-up, the startup quorum, the active phase  *)
(* and the drain.  All its workers poll one stop channel.                  *)
(***************************************************************************)
EXTENDS Pacer

CONSTANT HasRampUp   \* ramp_up > 0: virtual users are spawned one interval apart

ASSUME ConstantAssumption ==
  /\ HasRampUp \in BOOLEAN
  /\ GateTarget = Cardinality(VUs)

vars == <<workerVars, pacerVars>>

PacerPC ==
  {"spawn", "stagger", "await", "giveup", "abort", "closeAbort", "active",
   "drain", "drainWait", "returned"}

AfterSpawning == IF UseGate THEN "await" ELSE "active"

Init == WorkerInit /\ PacerInit("spawn")

-----------------------------------------------------------------------------

SpawnVU(v) ==
  /\ pc[v] = "unborn"
  /\ pc' = [pc EXCEPT ![v] = "born"]
  /\ gated' = IF UseGate THEN gated \cup {v} ELSE gated
  /\ PacerGoto("spawn", IF \A w \in VUs \ {v} : pc[w] # "unborn" THEN AfterSpawning
                        ELSE IF HasRampUp THEN "stagger" ELSE "spawn")
  /\ UNCHANGED <<WorkerInternals, signalVars, ret, waitCh, graceFired>>

IntervalElapses ==
  /\ PacerGoto("stagger", "spawn")
  /\ UNCHANGED <<workerVars, ret, waitCh, graceFired>>

\* close(stopCh) and on to drainWorkers.
StopEveryone(from, error) ==
  /\ PacerGoto(from, "drain")
  /\ ret' = error
  /\ stopped' = VUs
  /\ UNCHANGED <<WorkerInternals, pc, gated, cancelledBy, waitCh, graceFired>>

RampUpCancelled == ctxDone /\ StopEveryone("stagger", "context")

\* The stop timer fires or the context is done: the same either way.
ActivePhaseEnds == StopEveryone("active", ret)

PacerStep ==
  \/ \E v \in VUs : SpawnVU(v)
  \/ IntervalElapses \/ RampUpCancelled
  \/ AwaitStep("active") \/ GiveUpStartup(VUs)
  \/ ActivePhaseEnds
  \/ DrainStep

WorkerStep(v) ==
  /\ HookStep(v) \/ EngineStep(v) \/ PollStep(v) \/ DeadlinePasses(v)
  /\ UNCHANGED pacerVars

\* The goroutine of the caller goes on without the pacing engine.
Terminated == ppc = "returned" /\ AllDone /\ UNCHANGED vars

Next ==
  \/ PacerStep
  \/ \E v \in VUs : WorkerStep(v)
  \/ ParentCancels
  \/ Terminated

Spec == Init /\ [][Next]_vars

\* Go schedules every runnable goroutine and fires every armed timer; user
\* hooks return once their context is done, and are not assumed to before.
Fairness ==
  /\ WF_vars(PacerStep)
  /\ \A v \in VUs :
       /\ WF_vars((EngineStep(v) \/ PollStep(v) \/ ObedientHookStep(v)) /\ UNCHANGED pacerVars)
       /\ WF_vars(DeadlinePasses(v) /\ UNCHANGED pacerVars)

FairSpec == Spec /\ Fairness

-----------------------------------------------------------------------------
(* Properties of this engine.                                              *)

\* The one type invariant.
TypeOK == PacerTypeOK /\ ppc \in PacerPC

\* The stop channel is one for all, and the drain starts with it closed.
StopInv ==
  /\ stopped \in {{}, VUs}
  /\ ppc \in {"drain", "drainWait", "returned"} => stopped = VUs

\* The inductive invariant of the proofs: the gate's counters, the flags of
\* the drain, the tallies, the late iterations and the stop channel agree with
\* where the goroutines stand.
IInv == GateInv /\ TelemetryInv /\ DrainInv /\ TallyInv /\ StopInv /\ LateInv

Contract == INSTANCE PacingEngine WITH
  DrainsQueue <- FALSE, worker <- workerView, closing <- closingView,
  result <- resultView, cancelled <- cancelledView

\* The engine implements what the executor relies on: no virtual user is
\* spawned once the drain has begun, none commits itself to an iteration then,
\* and Run returns only when all are gone.
ImplementsPacingEngine == Contract!PacingSpec
=============================================================================
