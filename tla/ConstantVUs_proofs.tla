-------------------------- MODULE ConstantVUs_proofs --------------------------
(***************************************************************************)
(* Proofs about ConstantVUs, for any number of virtual users, any quorum   *)
(* ratio and any retry and iteration bound.  The shared steps are the      *)
(* business of Pacer_proofs; what is left are the engine's own steps and   *)
(* the stop channel.                                                       *)
(***************************************************************************)
EXTENDS ConstantVUs, Pacer_proofs

\* The number of virtual users is the gate's target.
LEMMA TargetIsCount == GateTarget = Cardinality(VUs) /\ HasRampUp \in BOOLEAN
BY ConstantAssumption DEF ConstantAssumption

\* A virtual user's step is one of the shared ones.
LEMMA WorkerStepMoves == ASSUME NEW v \in VUs, WorkerStep(v) PROVE WorkerMove(v) /\ UNCHANGED pacerVars
BY DEF WorkerStep, WorkerMove, PollStep, PollAndGoOn, PollAndLeave

\* The steps of Run are the shared ones and the engine's own.
LEMMA PacerSteps ==
  ASSUME PacerStep
  PROVE  \/ RunMove("active", VUs)
         \/ \E v \in VUs : SpawnVU(v)
         \/ IntervalElapses \/ RampUpCancelled \/ ActivePhaseEnds
BY DEF PacerStep, RunMove

\* Spawning one virtual user, in the form of the shared lemmas.
LEMMA SpawnsOne ==
  ASSUME TypeOK, NEW v \in VUs, SpawnVU(v)
  PROVE  /\ {v} \in SUBSET VUs /\ \A w \in {v} : pc[w] = "unborn"
         /\ pc' = [w \in VUs |-> IF w \in {v} THEN "born" ELSE pc[w]]
         /\ gated' \in SUBSET VUs /\ gated \subseteq gated'
         /\ \A w \in gated' : w \in gated \/ w \in {v}
         /\ UseGate => {v} \subseteq gated'
         /\ ppc = "spawn" /\ ppc' \in {"spawn", "stagger", "await", "active"}
         /\ ppc' = "await" => UseGate
BY DEF SpawnVU, PacerGoto, AfterSpawning, TypeOK, PacerTypeOK, WorkerTypeOK

-----------------------------------------------------------------------------
(* Type correctness.                                                       *)

\* The engine is type correct.
THEOREM TypeCorrect == Spec => []TypeOK
<1>1. Init => TypeOK
  BY TypeInit DEF Init, TypeOK, PacerInit, PacerPC
<1>2. TypeOK /\ [Next]_vars => TypeOK'
  <2> SUFFICES ASSUME TypeOK, [Next]_vars PROVE TypeOK'
    OBVIOUS
  <2> USE DEF TypeOK
  <2>1. CASE RunMove("active", VUs)
    <3>1. PacerTypeOK'
      BY <2>1, TypeRun
    <3>2. ppc' \in PacerPC
      BY <2>1 DEF RunMove, PacerPC, PacerGoto, pacerVars, AwaitStep, QuorumIsReached, QuorumIsAborted,
         AwaitCancelled, GraceExpires, PublishGraceAbort, CloseGraceAbort, GraceAlreadyAborted, DrainStep,
         WaitGroupDrained, DrainedEarly, DrainedLate, ReturnToExecutor, DrainTimesOut, ParentCancels, GiveUpStartup
    <3> QED BY <3>1, <3>2
  <2>2. ASSUME NEW v \in VUs, SpawnVU(v) PROVE TypeOK'
    BY <2>2 DEF SpawnVU, AfterSpawning, PacerGoto, PacerPC, PacerTypeOK, WorkerTypeOK, GateTypeOK, WorkerPC,
       WorkerInternals, gateVars, preTestVars, signalVars, iterVars, begunVars, tallyVars
  <2>3. CASE IntervalElapses
    BY <2>3 DEF IntervalElapses, PacerGoto, PacerPC, PacerTypeOK, WorkerTypeOK, GateTypeOK,
       workerVars, gateVars, preTestVars, signalVars, lifeVars, iterVars, begunVars, tallyVars
  <2>4. CASE RampUpCancelled \/ ActivePhaseEnds
    BY <2>4 DEF RampUpCancelled, ActivePhaseEnds, StopEveryone, PacerGoto, PacerPC, PacerTypeOK, WorkerTypeOK, GateTypeOK,
       WorkerInternals, gateVars, preTestVars, iterVars, begunVars, tallyVars
  <2>5. ASSUME NEW v \in VUs, WorkerStep(v) PROVE TypeOK'
    BY <2>5, WorkerStepMoves, TypeWorker DEF pacerVars
  <2>6. CASE UNCHANGED vars
    BY <2>6 DEF vars, pacerVars, workerVars, PacerPC, PacerTypeOK, WorkerTypeOK, GateTypeOK,
       gateVars, preTestVars, signalVars, lifeVars, iterVars, begunVars, tallyVars
  <2>7. PacerStep => TypeOK'
    BY <2>1, <2>2, <2>3, <2>4, PacerSteps
  <2>8. ParentCancels => TypeOK'
    BY <2>1 DEF RunMove
  <2> QED BY <2>5, <2>6, <2>7, <2>8 DEF Next, Terminated
<1> QED BY <1>1, <1>2, PTL DEF Spec

-----------------------------------------------------------------------------
(* The inductive invariant.                                                *)

\* The gate's invariant is inductive: the engine spawns no more virtual users
\* than the gate's target.
LEMMA GateInductive == ASSUME TypeOK, GateInv, [Next]_vars PROVE GateInv'
<1>0. PacerTypeOK
  BY DEF TypeOK
<1>1. CASE RunMove("active", VUs)
  BY <1>0, <1>1, GateRun
<1>2. ASSUME NEW v \in VUs, SpawnVU(v) PROVE GateInv'
  <2>1. Cardinality(gated') <= GateTarget
    <3>1. IsFiniteSet(VUs) /\ gated' \in SUBSET VUs
      BY <1>2, SpawnsOne, Assumptions DEF SharedAssumptions
    <3> QED BY <3>1, TargetIsCount, FS_Subset
  <2>2. UNCHANGED <<gateVars, vote, begun, graceFired, ret>>
    BY <1>2 DEF SpawnVU, WorkerInternals, iterVars, begunVars
  <2> QED BY <1>0, <1>2, <2>1, <2>2, SpawnsOne, GateSpawn
<1>3. CASE IntervalElapses
  BY <1>3, GateFrame DEF IntervalElapses, PacerGoto, workerVars, lifeVars, iterVars, begunVars
<1>4. CASE RampUpCancelled \/ ActivePhaseEnds
  BY <1>4, GateFrame DEF RampUpCancelled, ActivePhaseEnds, StopEveryone, PacerGoto, WorkerInternals, iterVars, begunVars
<1>5. ASSUME NEW v \in VUs, WorkerStep(v) PROVE GateInv'
  BY <1>0, <1>5, WorkerStepMoves, GateWorker
<1>6. CASE UNCHANGED vars
  BY <1>6 DEF vars, pacerVars, workerVars, gateVars, lifeVars, iterVars, begunVars, GateInv, GateWorkerInv,
     ReadyVotes, FailedVotes, QuorumReached, QuorumImpossible
<1>7. PacerStep => GateInv'
  BY <1>1, <1>2, <1>3, <1>4, PacerSteps
<1>8. ParentCancels => GateInv'
  BY <1>1 DEF RunMove
<1> QED BY <1>5, <1>6, <1>7, <1>8 DEF Next, Terminated

\* The drain's invariant is inductive: the engine spawns before the drain.
LEMMA DrainInductive == ASSUME TypeOK, DrainInv, [Next]_vars PROVE DrainInv'
<1>0. PacerTypeOK
  BY DEF TypeOK
<1>1. CASE RunMove("active", VUs)
  BY <1>1, DrainRun
<1>2. ASSUME NEW v \in VUs, SpawnVU(v) PROVE DrainInv'
  <2>1. UNCHANGED <<activeGauge, afterDone, cancelledBy, waitCh, ret>>
    BY <1>2 DEF SpawnVU, WorkerInternals, signalVars
  <2> QED BY <1>0, <1>2, <2>1, SpawnsOne, DrainSpawn
<1>3. CASE IntervalElapses
  BY <1>3, DrainFrame DEF IntervalElapses, PacerGoto, workerVars, lifeVars, signalVars
<1>4. CASE RampUpCancelled \/ ActivePhaseEnds
  BY <1>4, DrainFrame DEF RampUpCancelled, ActivePhaseEnds, StopEveryone, PacerGoto, WorkerInternals
<1>5. ASSUME NEW v \in VUs, WorkerStep(v) PROVE DrainInv'
  BY <1>0, <1>5, WorkerStepMoves, DrainWorker
<1>6. CASE UNCHANGED vars
  BY <1>6 DEF vars, pacerVars, workerVars, lifeVars, signalVars, DrainInv, OnGauge, PastAfter, AllDone
<1>7. PacerStep => DrainInv'
  BY <1>1, <1>2, <1>3, <1>4, PacerSteps
<1>8. ParentCancels => DrainInv'
  BY <1>1 DEF RunMove
<1> QED BY <1>5, <1>6, <1>7, <1>8 DEF Next, Terminated

\* The tallies' invariant is inductive: only virtual users move them.
LEMMA TallyInductive == ASSUME TypeOK, TallyInv, [Next]_vars PROVE TallyInv'
<1>0. PacerTypeOK
  BY DEF TypeOK
<1>1. CASE RunMove("active", VUs)
  BY <1>1, TallyRun
<1>2. ASSUME NEW v \in VUs, SpawnVU(v) PROVE TallyInv'
  <2>1. UNCHANGED <<InFlight, begun, tallyVars>>
    BY <1>2 DEF SpawnVU, WorkerInternals, iterVars, begunVars, InFlight, InIteration, TypeOK, PacerTypeOK, WorkerTypeOK
  <2> QED BY <2>1, TallyFrame
<1>3. CASE IntervalElapses \/ RampUpCancelled \/ ActivePhaseEnds
  <2>1. UNCHANGED <<InFlight, begun, tallyVars>>
    BY <1>3 DEF IntervalElapses, RampUpCancelled, ActivePhaseEnds, StopEveryone, WorkerInternals, workerVars,
       iterVars, begunVars, InFlight
  <2> QED BY <2>1, TallyFrame
<1>4. ASSUME NEW v \in VUs, WorkerStep(v) PROVE TallyInv'
  BY <1>0, <1>4, WorkerStepMoves, TallyWorker
<1>5. CASE UNCHANGED vars
  BY <1>5, TallyFrame DEF vars, workerVars, iterVars, begunVars, InFlight
<1>6. PacerStep => TallyInv'
  BY <1>1, <1>2, <1>3, PacerSteps
<1>7. ParentCancels => TallyInv'
  BY <1>1 DEF RunMove
<1> QED BY <1>4, <1>5, <1>6, <1>7 DEF Next, Terminated

\* Every step keeps the telemetry's invariant: the engine's own add nobody to
\* those that gave up.
LEMMA TelemetryInductive == ASSUME TypeOK, TelemetryInv, [Next]_vars PROVE TelemetryInv'
<1>0. PacerTypeOK /\ stopped \subseteq VUs
  BY DEF TypeOK, PacerTypeOK, WorkerTypeOK
<1>1. CASE RunMove("active", VUs)
  BY <1>0, <1>1, TelemetryRun
<1>2. ASSUME NEW v \in VUs, SpawnVU(v) PROVE TelemetryInv'
  <2>1. pc' = [w \in VUs |-> IF w \in {v} THEN "born" ELSE pc[w]]
    BY <1>0, <1>2 DEF SpawnVU, PacerTypeOK, WorkerTypeOK
  <2>2. UNCHANGED <<vote, preTestVars, signalVars>>
    BY <1>2 DEF SpawnVU, WorkerInternals
  <2> QED BY <1>0, <2>1, <2>2, TelemetrySpawn
<1>3. CASE IntervalElapses \/ RampUpCancelled \/ ActivePhaseEnds
  <2>1. UNCHANGED <<GaveUp, pretestErrors, vuRestarts, cancelledBy>> /\ stopped' \in {stopped, VUs}
    BY <1>3 DEF IntervalElapses, RampUpCancelled, ActivePhaseEnds, StopEveryone, WorkerInternals, workerVars,
       lifeVars, preTestVars, signalVars, GaveUp
  <2> QED BY <1>0, <2>1, TelemetryFrame DEF ctxDone
<1>4. ASSUME NEW v \in VUs, WorkerStep(v) PROVE TelemetryInv'
  BY <1>0, <1>4, WorkerStepMoves, TelemetryWorker
<1>5. CASE UNCHANGED vars
  BY <1>0, <1>5, TelemetryFrame DEF vars, workerVars, lifeVars, preTestVars, signalVars, GaveUp, ctxDone
<1>6. PacerStep => TelemetryInv'
  BY <1>1, <1>2, <1>3, PacerSteps
<1>7. ParentCancels => TelemetryInv'
  BY <1>1 DEF RunMove
<1> QED BY <1>4, <1>5, <1>6, <1>7 DEF Next, Terminated

\* The invariant of the stop channel is inductive: every way into the drain
\* closes it.
LEMMA StopInductive == ASSUME StopInv, [Next]_vars PROVE StopInv'
<1> USE DEF StopInv, PacerGoto
<1>1. CASE RunMove("active", VUs)
  BY <1>1 DEF RunMove, AwaitStep, QuorumIsReached, QuorumIsAborted, AwaitCancelled, GraceExpires,
     PublishGraceAbort, CloseGraceAbort, GraceAlreadyAborted, DrainStep, WaitGroupDrained, DrainedEarly,
     DrainedLate, ReturnToExecutor, DrainTimesOut, ParentCancels, GiveUpStartup, workerVars, signalVars, pacerVars
<1>2. CASE \E v \in VUs : SpawnVU(v)
  BY <1>2 DEF SpawnVU, AfterSpawning, signalVars
<1>3. CASE IntervalElapses \/ RampUpCancelled \/ ActivePhaseEnds
  BY <1>3 DEF IntervalElapses, RampUpCancelled, ActivePhaseEnds, StopEveryone, workerVars, signalVars
<1>4. CASE \E v \in VUs : WorkerStep(v)
  BY <1>4, WorkerStepMoves, WorkersDoNotStop DEF pacerVars, signalVars
<1>5. CASE UNCHANGED vars
  BY <1>5 DEF vars, pacerVars, workerVars, signalVars
<1>6. PacerStep => StopInv'
  BY <1>1, <1>2, <1>3, PacerSteps
<1>7. ParentCancels => StopInv'
  BY <1>1 DEF RunMove
<1> QED BY <1>4, <1>5, <1>6, <1>7 DEF Next, Terminated

\* Only a poll that finds no stop lets a virtual user go on.
LEMMA GoesOnByPollingOnly ==
  ASSUME TypeOK, NEW v \in VUs, WorkerStep(v)
  PROVE  PassLoopHead(v) => ~ShouldStop(v)
BY OnlyPassPasses DEF TypeOK, WorkerStep, PollStep, PollAndGoOn, PollAndLeave

\* The bound on late iterations is inductive: the engine's own steps start
\* nobody, and the stop channel stays closed.
LEMMA LateInductive == ASSUME TypeOK, LateInv, [Next]_vars PROVE LateInv'
<1>0. PacerTypeOK /\ stopped \subseteq VUs
  BY DEF TypeOK, PacerTypeOK, WorkerTypeOK
<1>1. CASE RunMove("active", VUs)
  BY <1>1, LateRun
<1>2. ASSUME NEW v \in VUs, SpawnVU(v) PROVE LateInv'
  <2>1. \A w \in VUs : pc'[w] = "begin" => pc[w] = "begin"
    BY <1>2, SpawnsOne
  <2>2. UNCHANGED <<begunLate, stopped, cancelledBy>>
    BY <1>2 DEF SpawnVU, WorkerInternals, iterVars, begunVars, signalVars
  <2> QED BY <2>1, <2>2, LateFrame DEF ctxDone
<1>3. CASE IntervalElapses \/ RampUpCancelled \/ ActivePhaseEnds
  <2>1. UNCHANGED <<pc, begunLate, cancelledBy>> /\ stopped' \in {stopped, VUs}
    BY <1>3 DEF IntervalElapses, RampUpCancelled, ActivePhaseEnds, StopEveryone, WorkerInternals, workerVars,
       iterVars, begunVars, signalVars
  <2> QED BY <1>0, <2>1, LateFrame DEF ctxDone
<1>4. ASSUME NEW v \in VUs, WorkerStep(v) PROVE LateInv'
  BY <1>0, <1>4, WorkerStepMoves, GoesOnByPollingOnly, LateWorker
<1>5. CASE UNCHANGED vars
  BY <1>5, LateFrame DEF vars, workerVars, iterVars, begunVars, signalVars, ctxDone
<1>6. PacerStep => LateInv'
  BY <1>1, <1>2, <1>3, PacerSteps
<1>7. ParentCancels => LateInv'
  BY <1>1 DEF RunMove
<1> QED BY <1>4, <1>5, <1>6, <1>7 DEF Next, Terminated

\* The strengthened invariant holds in every reachable state.
THEOREM InductiveInvariant == Spec => []IInv
<1>1. Init /\ TypeOK => IInv
  <2> SUFFICES ASSUME Init PROVE IInv
    OBVIOUS
  <2>1. WorkerInit /\ PacerInit("spawn")
    BY DEF Init
  <2>2. GateInv
    BY <2>1, GateInitially
  <2>3. DrainInv
    <3>1. OnGauge = {} /\ PastAfter = {}
      BY <2>1 DEF WorkerInit, OnGauge, PastAfter
    <3> QED BY <2>1, <3>1, FS_EmptySet DEF WorkerInit, PacerInit, DrainInv
  <2>4. StopInv
    BY <2>1 DEF WorkerInit, PacerInit, StopInv
  <2> QED BY <2>1, <2>2, <2>3, <2>4, TelemetryInitially, TallyInitially, LateInitially DEF IInv
<1>2. TypeOK /\ IInv /\ [Next]_vars => IInv'
  BY GateInductive, TelemetryInductive, DrainInductive, TallyInductive, StopInductive, LateInductive DEF IInv
<1> QED BY <1>1, <1>2, TypeCorrect, PTL DEF Spec

-----------------------------------------------------------------------------
(* Safety.                                                                 *)

\* What is known of a reachable state.
LEMMA Known == TypeOK /\ IInv => PacerTypeOK /\ GateInv /\ TelemetryInv /\ DrainInv /\ TallyInv /\ LateInv
BY DEF TypeOK, IInv

\* Without the grace timer, the quorum is decided at most once.
THEOREM GateDecidesOnceHolds == Spec => []GateDecidesOnce
<1>1. TypeOK /\ IInv => GateDecidesOnce
  BY Known, GateProperties
<1> QED BY <1>1, TypeCorrect, InductiveInvariant, PTL

\* No RunVU call precedes the quorum, whoever opened the gate.
THEOREM NoIterationBeforeQuorumHolds == Spec => []NoIterationBeforeQuorum
<1>1. TypeOK /\ IInv => NoIterationBeforeQuorum
  BY Known, GateProperties
<1> QED BY <1>1, TypeCorrect, InductiveInvariant, PTL

\* A startup that dropouts made impossible runs no iteration.
THEOREM DropoutRunsNothingHolds == Spec => []DropoutRunsNothing
<1>1. TypeOK /\ IInv => DropoutRunsNothing
  BY Known, GateProperties
<1> QED BY <1>1, TypeCorrect, InductiveInvariant, PTL

\* A dropout's quorum error shows fewer ready virtual users than required.
THEOREM DropoutErrorShowsShortfallHolds == Spec => []DropoutErrorShowsShortfall
<1>1. TypeOK /\ IInv => DropoutErrorShowsShortfall
  BY Known, GateProperties
<1> QED BY <1>1, TypeCorrect, InductiveInvariant, PTL

\* While nothing is being shut down, a dropout's quorum error is backed by
\* more counted PreTest failures than the quorum can absorb.
THEOREM DropoutIsBackedByTelemetryHolds == Spec => []DropoutIsBackedByTelemetry
<1>1. TypeOK /\ IInv => DropoutIsBackedByTelemetry
  BY Known, TelemetryProperties
<1> QED BY <1>1, TypeCorrect, InductiveInvariant, PTL

\* Run returns after every virtual user is gone, AfterTest included.
THEOREM ReturnsAfterEveryWorkerHolds == Spec => []ReturnsAfterEveryWorker
<1>1. TypeOK /\ IInv => ReturnsAfterEveryWorker
  BY Known, DrainProperties
<1> QED BY <1>1, TypeCorrect, InductiveInvariant, PTL

\* When Run returns, every RunVU call is counted once or discarded once.
THEOREM EveryIterationAccountedHolds == Spec => []EveryIterationAccounted
<1>1. TypeOK /\ IInv => EveryIterationAccounted
  BY Known, TallyProperties
<1> QED BY <1>1, TypeCorrect, InductiveInvariant, PTL

\* However the stop, the cancellation and the drain follow each other, a
\* virtual user calls RunVU once at most when it has been told to stop.
THEOREM AtMostOneIterationAfterStopHolds == Spec => []AtMostOneIterationAfterStop
<1>1. TypeOK /\ IInv => AtMostOneIterationAfterStop
  BY Known, LateProperties
<1> QED BY <1>1, TypeCorrect, InductiveInvariant, PTL

-----------------------------------------------------------------------------
(* The contract with the executor.                                         *)

\* The constant_vus engine implements the contract of a pacing engine.
THEOREM ConstantVUsRefinesPacingEngine == Spec => ImplementsPacingEngine
<1>1. Init => Contract!PacingInit
  BY DEF Init, WorkerInit, PacerInit, Contract!PacingInit, workerView, closingView, resultView, cancelledView, Idle
<1>2. TypeOK /\ IInv /\ [Next]_vars => [Contract!PacingNext]_Contract!pacingVars
  <2> SUFFICES ASSUME TypeOK, IInv, [Next]_vars PROVE [Contract!PacingNext]_Contract!pacingVars
    OBVIOUS
  <2>0. PacerTypeOK /\ DrainInv /\ StopInv
    BY DEF TypeOK, IInv
  <2>1. ASSUME RunMove("active", VUs) PROVE [Contract!PacingNext]_Contract!pacingVars
    BY <2>0, <2>1, RunIsSeen
    DEF Contract!PacingNext, Contract!EngineNext, Contract!Close, Contract!Return, Contract!CallerCancels,
        Contract!pacingVars, closingView, cancelledView
  <2>2. ASSUME NEW v \in VUs, SpawnVU(v) PROVE Contract!PacingNext
    <3>1. ~closingView /\ UNCHANGED <<closingView, resultView, cancelledView>>
      BY <2>2 DEF SpawnVU, PacerGoto, AfterSpawning, closingView, resultView, cancelledView, signalVars
    <3>2. Contract!Spawn({v})
      BY <2>0, <2>2, <3>1, SpawnsOne, SpawnIsSeen DEF Contract!Spawn
    <3> QED BY <3>2 DEF Contract!PacingNext, Contract!EngineNext
  <2>3. CASE IntervalElapses
    BY <2>3 DEF IntervalElapses, PacerGoto, workerVars, signalVars, Contract!pacingVars,
       workerView, closingView, resultView, cancelledView
  <2>4. CASE RampUpCancelled \/ ActivePhaseEnds
    <3>1. Contract!Close
      BY <2>4 DEF RampUpCancelled, ActivePhaseEnds, StopEveryone, PacerGoto, Contract!Close,
         workerView, closingView, resultView, cancelledView
    <3> QED BY <3>1 DEF Contract!PacingNext, Contract!EngineNext
  <2>5. ASSUME NEW v \in VUs, WorkerStep(v) PROVE [Contract!PacingNext]_Contract!pacingVars
    <3>1. UNCHANGED <<closingView, resultView, cancelledView>>
      BY <2>5, WorkerStepMoves, WorkersDoNotStop DEF closingView, resultView, cancelledView, pacerVars, signalVars
    <3>2. CASE UNCHANGED workerView
      BY <3>1, <3>2 DEF Contract!pacingVars
    <3>3. CASE PassLoopHead(v) /\ ViewMoves(v, "alive", "committed")
      <4>1. ~closingView
        <5>1. v \notin stopped
          BY <2>5, <3>3, GoesOnByPollingOnly DEF ShouldStop
        <5> QED BY <2>0, <5>1 DEF StopInv, closingView
      <4>2. Contract!Commit(v)
        BY <3>1, <3>3, <4>1 DEF ViewMoves, Contract!Commit, Contract!Move
      <4> QED BY <4>2 DEF Contract!PacingNext, Contract!EngineNext
    <3>4. CASE ViewMoves(v, "committed", "busy") \/ ViewMoves(v, "busy", "alive") \/ ViewMoves(v, "alive", "gone")
      <4>1. Contract!Begin(v) \/ Contract!End(v) \/ Contract!Leave(v)
        BY <3>1, <3>4 DEF ViewMoves, Contract!Begin, Contract!End, Contract!Leave, Contract!Move
      <4> QED BY <4>1 DEF Contract!PacingNext, Contract!EngineNext
    <3> QED BY <2>0, <2>5, <3>2, <3>3, <3>4, WorkerStepMoves, WorkerIsSeen
  <2>6. CASE UNCHANGED vars
    BY <2>6 DEF vars, pacerVars, workerVars, signalVars, Contract!pacingVars,
       workerView, closingView, resultView, cancelledView
  <2>7. PacerStep => [Contract!PacingNext]_Contract!pacingVars
    BY <2>1, <2>2, <2>3, <2>4, PacerSteps
  <2>8. ParentCancels => [Contract!PacingNext]_Contract!pacingVars
    BY <2>1 DEF RunMove
  <2> QED BY <2>5, <2>6, <2>7, <2>8 DEF Next, Terminated
<1> QED
  BY <1>1, <1>2, TypeCorrect, InductiveInvariant, PTL DEF Spec, ImplementsPacingEngine, Contract!PacingSpec
=============================================================================
