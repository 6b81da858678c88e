------------------------------ MODULE RampingVUs ------------------------------
(***************************************************************************)
(* The ramping_vus pacing engine (RunRampingVUs): each stage ramps the     *)
(* number of virtual users from the target of the stage before towards its *)
(* own, spawning new ones and stopping the newest; every virtual user has  *)
(* a stop channel of its own, which is closed at most once.                *)
(*                                                                         *)
(* The mutex around the list of workers has one user, the engine's own     *)
(* goroutine, and a virtual user that is spawned or stopped in the same    *)
(* adjustment cannot tell the order: adjustWorkers is one step.            *)
(***************************************************************************)
EXTENDS Pacer, SequencesExt

CONSTANT Stages   \* the target of each stage

ASSUME RampingAssumption ==
  /\ Stages \in Seq(Nat)
  /\ VUs = 1..Cardinality(VUs)   \* vuids are handed out in order
  /\ UseGate => Len(Stages) > 0 /\ GateTarget = Stages[1]

VARIABLES
  workers,   \* the virtual users that are not stopped, oldest first
  vuidSeq,   \* the last vuid handed out; at most Cardinality(VUs), the
             \* bound of the model
  stage,     \* the current stage
  startVU,   \* the target of the stage before
  level      \* the last level interpolated in this stage

stageVars == <<workers, vuidSeq, stage, startVU, level>>
vars == <<workerVars, pacerVars, stageVars>>

PacerPC ==
  {"startup", "await", "giveup", "abort", "closeAbort", "stages", "ticking",
   "rampDown", "drain", "drainWait", "returned"}

Init ==
  /\ WorkerInit
  /\ PacerInit("startup")
  /\ workers = <<>>
  /\ vuidSeq = 0
  /\ stage = 1
  /\ startVU = 0
  /\ level = 0

-----------------------------------------------------------------------------
(* adjustWorkers.                                                          *)

\* Spawn as many virtual users as are missing, with or without the gate.
SpawnMissing(desired, withGate) ==
  LET fresh == vuidSeq + 1 .. vuidSeq + desired - Len(workers) IN
  /\ desired > Len(workers)
  /\ fresh \subseteq VUs
  /\ vuidSeq' = vuidSeq + desired - Len(workers)
  /\ workers' = workers \o [i \in 1..desired - Len(workers) |-> vuidSeq + i]
  /\ pc' = [v \in VUs |-> IF v \in fresh THEN "born" ELSE pc[v]]
  /\ gated' = IF withGate THEN gated \cup fresh ELSE gated
  /\ UNCHANGED stopped

\* Mutation: the stopped virtual users stay on the list.
StopWithoutForgetting(desired) ==
  /\ desired < Len(workers)
  /\ stopped' = stopped \cup {workers[i] : i \in desired + 1..Len(workers)}
  /\ UNCHANGED <<pc, gated, vuidSeq, workers>>

\* Close the stop channels of the newest and forget them.
StopNewest(desired) ==
  /\ desired < Len(workers)
  /\ stopped' = stopped \cup {workers[i] : i \in desired + 1..Len(workers)}
  /\ workers' = SubSeq(workers, 1, desired)
  /\ UNCHANGED <<pc, gated, vuidSeq>>

KeepAll(desired) ==
  /\ desired = Len(workers)
  /\ UNCHANGED <<pc, gated, stopped, workers, vuidSeq>>

AdjustWorkers(desired, withGate) ==
  /\ SpawnMissing(desired, withGate) \/ StopNewest(desired) \/ KeepAll(desired)
  /\ UNCHANGED <<WorkerInternals, cancelledBy, ret, waitCh, graceFired>>

-----------------------------------------------------------------------------
(* The schedule.                                                           *)

\* With a gate, the first stage's target is spawned at once and awaited.
StartGated ==
  /\ UseGate
  /\ PacerGoto("startup", "await")
  /\ AdjustWorkers(Stages[1], TRUE)
  /\ UNCHANGED <<stage, startVU, level>>

StartUngated ==
  /\ ~UseGate
  /\ PacerGoto("startup", "stages")
  /\ UNCHANGED <<workerVars, ret, waitCh, graceFired, stageVars>>

\* Mutation: the stop channels stay open.
GiveUpWithoutStopping ==
  /\ GiveUpStartup({})
  /\ workers' = <<>>
  /\ UNCHANGED <<vuidSeq, stage, startVU, level>>

\* cancel() and every worker's stop channel.
GiveUpRamp ==
  /\ GiveUpStartup(ToSet(workers))
  /\ workers' = <<>>
  /\ UNCHANGED <<vuidSeq, stage, startVU, level>>

EnterStage ==
  /\ stage <= Len(Stages)
  /\ ~ctxDone
  /\ PacerGoto("stages", "ticking")
  /\ level' = startVU
  /\ UNCHANGED <<workerVars, ret, waitCh, graceFired, workers, vuidSeq, stage, startVU>>

StagesOver ==
  /\ stage > Len(Stages) \/ ctxDone
  /\ PacerGoto("stages", "rampDown")
  /\ UNCHANGED <<workerVars, ret, waitCh, graceFired, stageVars>>

\* What the interpolation can return next: time only moves on, so within a
\* stage the level only moves from startVU towards the target.
NextLevels ==
  LET target == Stages[stage] IN
  IF startVU <= target THEN level..target ELSE target..level

\* A tick: the level the elapsed time asks for.
Tick50ms ==
  /\ ppc = "ticking" /\ UNCHANGED ppc
  /\ \E desired \in NextLevels : level' = desired /\ AdjustWorkers(desired, FALSE)
  /\ UNCHANGED <<stage, startVU>>

\* Mutation: the stage is not advanced.
StageRepeats ==
  /\ PacerGoto("ticking", "stages")
  /\ AdjustWorkers(Stages[stage], FALSE)
  /\ startVU' = Stages[stage]
  /\ UNCHANGED <<stage, level>>

\* Mutation: the stage ends at the level of its last tick.
StageEndsWhereItStands ==
  /\ PacerGoto("ticking", "stages")
  /\ stage' = stage + 1
  /\ startVU' = Stages[stage]
  /\ UNCHANGED <<workerVars, ret, waitCh, graceFired, workers, vuidSeq, level>>

\* The stage timer, or a tick at its end: the target itself.
StageEnds ==
  /\ PacerGoto("ticking", "stages")
  /\ AdjustWorkers(Stages[stage], FALSE)
  /\ stage' = stage + 1
  /\ startVU' = Stages[stage]
  /\ UNCHANGED level

StageCancelled ==
  /\ ctxDone
  /\ PacerGoto("ticking", "stages")
  /\ stage' = stage + 1
  /\ startVU' = Stages[stage]
  /\ UNCHANGED <<workerVars, ret, waitCh, graceFired, workers, vuidSeq, level>>

\* Mutation: the rest is not told to stop.
RampDownWithoutStopping ==
  /\ PacerGoto("rampDown", "drain")
  /\ UNCHANGED <<workerVars, ret, waitCh, graceFired, stageVars>>

\* The ramp_down timer or the context, the same either way: stop the rest.
RampDownEnds ==
  /\ PacerGoto("rampDown", "drain")
  /\ stopped' = stopped \cup ToSet(workers)
  /\ workers' = <<>>
  /\ UNCHANGED <<WorkerInternals, pc, gated, cancelledBy, ret, waitCh, graceFired>>
  /\ UNCHANGED <<vuidSeq, stage, startVU, level>>

ScheduleStep ==
  \/ StartGated \/ StartUngated \/ GiveUpRamp
  \/ EnterStage \/ StagesOver \/ Tick50ms \/ StageEnds \/ StageCancelled
  \/ RampDownEnds

PacerStep ==
  \/ ScheduleStep
  \/ (AwaitStep("stages") \/ DrainStep) /\ UNCHANGED stageVars

WorkerStep(v) ==
  /\ HookStep(v) \/ EngineStep(v) \/ PollStep(v) \/ DeadlinePasses(v)
  /\ UNCHANGED <<pacerVars, stageVars>>

\* The goroutine of the caller goes on without the pacing engine.
Terminated == ppc = "returned" /\ AllDone /\ UNCHANGED vars

Next ==
  \/ PacerStep
  \/ \E v \in VUs : WorkerStep(v)
  \/ ParentCancels /\ UNCHANGED stageVars
  \/ Terminated

Spec == Init /\ [][Next]_vars

\* As in ConstantVUs; and a stage's timer ends it, however many ticks come
\* before.
Fairness ==
  /\ WF_vars(PacerStep)
  /\ WF_vars(StageEnds)
  /\ \A v \in VUs :
       /\ WF_vars((EngineStep(v) \/ PollStep(v) \/ ObedientHookStep(v)) /\ UNCHANGED <<pacerVars, stageVars>>)
       /\ WF_vars(DeadlinePasses(v) /\ UNCHANGED <<pacerVars, stageVars>>)

FairSpec == Spec /\ Fairness

-----------------------------------------------------------------------------
(* Properties of this engine.                                              *)

\* The one type invariant.
TypeOK ==
  /\ PacerTypeOK
  /\ ppc \in PacerPC
  /\ workers \in Seq(VUs)
  /\ vuidSeq \in VUs \cup {0}
  /\ stage \in 1..Len(Stages) + 1
  /\ startVU \in Nat
  /\ level \in Nat

Spawned == {v \in VUs : pc[v] # "unborn"}

\* The list of workers and the stopped ones partition the virtual users that
\* were spawned, through every ramp up and down: no stop channel is closed
\* twice, which would panic, and none is lost while its worker runs.
StopChannelsPartition ==
  /\ IsInjective(workers)
  /\ ToSet(workers) \cap stopped = {}
  /\ ToSet(workers) \cup stopped = Spawned

\* From the drain on, every virtual user was told to stop.
DrainStopsEveryone == ppc \in {"drain", "drainWait", "returned"} => stopped = Spawned

\* The virtual users that have left their loop, or failed before it, although
\* nobody told them to stop: they stay on the list and are not replaced.
Left == {"failed", "dropout", "aborting", "after", "dereg", "leaving", "gone"}
Short == {v \in VUs \ stopped : pc[v] \in Left}

Between(a, b) == IF a <= b THEN a..b ELSE b..a

\* The target of the stage before.
LastTarget == IF stage = 1 THEN 0 ELSE Stages[stage - 1]

\* The load follows the stages: while one ticks, the number of virtual users
\* on the list is between its two targets, and the stage ends at its own.
\* Those of them that run may be fewer, but only by those whose PreTest
\* failures vuhive.vu.pretest_errors counted and no restart followed.
LoadFollowsStages ==
  /\ ppc = "ticking" => Len(workers) \in Between(LastTarget, Stages[stage])
  /\ ppc = "stages" /\ stage > 1 /\ ~ctxDone => Len(workers) = LastTarget
  /\ ppc \in {"stages", "ticking"} /\ ~ctxDone =>
       Cardinality(ToSet(workers) \cap Short) <= pretestErrors - vuRestarts

\* The strengthening that makes these and the shared properties inductive:
\* vuids are handed out without a gap, the list is emptied on every way into
\* the drain, and nobody is spawned without the gate before the quorum.
RampInv ==
  /\ Spawned = 1..vuidSeq
  /\ StopChannelsPartition
  /\ ppc \in {"drain", "drainWait", "returned"} => workers = <<>>
  /\ ppc = "startup" => workers = <<>> /\ vuidSeq = 0 /\ gated = {}
  /\ UseGate /\ ppc \in {"stages", "ticking", "rampDown"} => QuorumReached

\* A stage that ticks exists.
StageInv == ppc = "ticking" => stage <= Len(Stages)

IInv == StageInv /\ GateInv /\ TelemetryInv /\ DrainInv /\ TallyInv /\ LateInv /\ RampInv

\* The same for the load: where a stage starts from and where it stands, that
\* no run goes on after the grace period gave it up, and who is missing.
LevelInv ==
  /\ ppc \in {"startup", "await"} => stage = 1
  /\ ppc \in {"startup", "await", "stages", "ticking"} => startVU = LastTarget
  /\ ppc = "await" => Len(workers) = Stages[1]
  /\ ppc = "stages" /\ ~ctxDone =>
       Len(workers) = IF stage = 1 /\ UseGate THEN Stages[1] ELSE LastTarget
  /\ ppc = "ticking" =>
       Len(workers) \in Between(startVU, Stages[stage]) /\ level \in Between(startVU, Stages[stage])
  /\ graceFired => ppc \notin {"startup", "await", "stages", "ticking", "rampDown"}

ShortInv == ctxDone \/ abortCh \/ Cardinality(Short) <= pretestErrors - vuRestarts

Contract == INSTANCE PacingEngine WITH
  DrainsQueue <- FALSE, worker <- workerView, closing <- closingView,
  result <- resultView, cancelled <- cancelledView

\* The engine implements what the executor relies on.
ImplementsPacingEngine == Contract!PacingSpec
=============================================================================
