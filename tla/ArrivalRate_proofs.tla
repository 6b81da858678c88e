-------------------------- MODULE ArrivalRate_proofs --------------------------
(***************************************************************************)
(* Proofs about ArrivalRate, for any pool, buffer, quorum ratio and any    *)
(* bound on retries, iterations and tokens.  The shared steps are the      *)
(* business of Pacer_proofs; what is left are the dispatcher and the token *)
(* buffer.                                                                 *)
(***************************************************************************)
EXTENDS ArrivalRate, Pacer_proofs

\* The pool is as large as the gate's target.
LEMMA PoolIsTarget ==
  /\ GateTarget = Cardinality(VUs)
  /\ BurstBuffer \in Nat \ {0} /\ MaxDispatch \in 0..MaxIterations /\ HasRampUp \in BOOLEAN
BY ArrivalAssumption DEF ArrivalAssumption

\* After the quorum the dispatcher ramps up or dispatches.
LEMMA AfterQuorumIs == AfterQuorum \in {"rampUp", "steady"}
BY DEF AfterQuorum

\* The dispatcher's own steps leave the workers alone and stay in its phases.
DispatchMove ==
  /\ UNCHANGED <<workerVars, ret, waitCh, graceFired>>
  /\ ppc \in {"rampUp", "rampTail", "steady", "limit", "close"}
  /\ ppc' \in {"rampTail", "steady", "limit", "close", "drain"}

\* A worker's step is a shared one, or takes a token, or leaves.
LEMMA WorkerStepMoves ==
  ASSUME NEW v \in VUs, WorkerStep(v)
  PROVE  /\ WorkerMove(v) /\ UNCHANGED <<pacerVars, dispatchExpired>>
         /\ \/ (HookStep(v) \/ EngineStep(v) \/ DeadlinePasses(v)) /\ UNCHANGED tokenVars
            \/ TakeToken(v)
            \/ LeavePool(v)
BY DEF WorkerStep, LoopStep, TakeToken, LeavePool, WorkerMove

\* The steps of Run are the shared ones, the spawning of the pool, and the
\* dispatcher's.
LEMMA PacerSteps ==
  ASSUME PacerStep
  PROVE  \/ RunMove(AfterQuorum, {}) /\ UNCHANGED <<tokenVars, dispatchExpired>>
         \/ GiveUpDispatch /\ RunMove(AfterQuorum, {})
         \/ SpawnPool
         \/ /\ DispatchMove
            /\ \/ RampUpToken \/ RampUpEnds \/ RampUpCut \/ LimiterWaits
               \/ LimiterGrants \/ DispatchEnds \/ CloseTokens
BY DEF PacerStep, DispatcherStep, DispatchMove, RunMove, GiveUpDispatch, RampUpToken, RampUpEnds, RampUpCut,
   LimiterWaits, LimiterGrants, DispatchEnds, CloseTokens, DispatchToken, PacerGoto

\* Spawning the pool, in the form of the shared lemmas.
LEMMA SpawnsAll ==
  ASSUME SpawnPool
  PROVE  /\ VUs \in SUBSET VUs
         /\ pc' = [w \in VUs |-> IF w \in VUs THEN "born" ELSE pc[w]]
         /\ gated' \in SUBSET VUs
         /\ \A w \in gated' : w \in gated \/ w \in VUs
         /\ UseGate => VUs \subseteq gated'
         /\ ppc = "spawn" /\ ppc' \in {"await", "rampUp", "steady"}
         /\ ppc' = "await" => UseGate
         /\ UNCHANGED <<gateVars, vote, begun, graceFired, ret, activeGauge, afterDone, cancelledBy, waitCh>>
         /\ UNCHANGED <<tokenVars, signalVars, iterVars>>
BY DEF SpawnPool, PacerGoto, AfterQuorum, WorkerInternals, signalVars, iterVars, begunVars

-----------------------------------------------------------------------------
(* Type correctness.                                                       *)

BufferTypeOK ==
  /\ ppc \in PacerPC
  /\ tokens \in 0..BurstBuffer
  /\ tokensClosed \in BOOLEAN
  /\ iterSeq \in 0..MaxDispatch
  /\ dropped \in Nat
  /\ dispatchExpired \in BOOLEAN

\* A token that is dispatched fits in the buffer or is dropped.
LEMMA DispatchTypes ==
  ASSUME BufferTypeOK, DispatchToken
  PROVE  tokens' \in 0..BurstBuffer /\ iterSeq' \in 0..MaxDispatch /\ dropped' \in Nat
BY PoolIsTarget DEF BufferTypeOK, DispatchToken

\* The engine is type correct.
THEOREM ArrivalTypeCorrect == Spec => []TypeOK
<1> USE DEF BufferTypeOK
<1>0. TypeOK <=> PacerTypeOK /\ BufferTypeOK
  BY DEF TypeOK
<1>1. Init => TypeOK
  <2>1. Init => PacerTypeOK
    BY TypeInit DEF Init
  <2>2. Init => BufferTypeOK
    <3> SUFFICES ASSUME Init PROVE BufferTypeOK
      OBVIOUS
    <3>1. 0 \in 0..BurstBuffer /\ 0 \in 0..MaxDispatch
      BY PoolIsTarget, Assumptions DEF SharedAssumptions
    <3>2. ppc \in PacerPC
      BY DEF Init, PacerInit, PacerPC
    <3> QED BY <3>1, <3>2 DEF Init
  <2> QED BY <1>0, <2>1, <2>2
<1>2. PacerTypeOK /\ BufferTypeOK /\ [Next]_vars => PacerTypeOK'
  <2> SUFFICES ASSUME PacerTypeOK, [Next]_vars PROVE PacerTypeOK'
    OBVIOUS
  <2>1. CASE RunMove(AfterQuorum, {})
    BY <2>1, TypeRun
  <2>2. CASE SpawnPool
    BY <2>2 DEF SpawnPool, AfterQuorum, PacerGoto, PacerPC, PacerTypeOK, WorkerTypeOK, GateTypeOK, WorkerPC,
       WorkerInternals, gateVars, preTestVars, signalVars, iterVars, begunVars, tallyVars
  <2>3. CASE UNCHANGED <<workerVars, ret, waitCh, graceFired>>
    BY <2>3 DEF PacerTypeOK, WorkerTypeOK, GateTypeOK, workerVars, gateVars, preTestVars, signalVars,
       lifeVars, iterVars, begunVars, tallyVars
  <2>4. ASSUME NEW v \in VUs, WorkerStep(v) PROVE PacerTypeOK'
    BY <2>4, WorkerStepMoves, TypeWorker
  <2>5. PacerStep => PacerTypeOK'
    BY <2>1, <2>2, <2>3, PacerSteps DEF DispatchMove
  <2>6. ParentCancels => PacerTypeOK'
    BY <2>1 DEF RunMove
  <2>7. DispatchClockExpires \/ UNCHANGED vars => PacerTypeOK'
    BY <2>3 DEF DispatchClockExpires, vars, pacerVars
  <2> QED BY <2>4, <2>5, <2>6, <2>7 DEF Next, Terminated
<1>3. PacerTypeOK /\ BufferTypeOK /\ [Next]_vars => BufferTypeOK'
  <2> SUFFICES ASSUME PacerTypeOK, BufferTypeOK, [Next]_vars PROVE BufferTypeOK'
    OBVIOUS
  <2>1. ASSUME RunMove(AfterQuorum, {}), UNCHANGED <<tokenVars, dispatchExpired>> \/ GiveUpDispatch
        PROVE  BufferTypeOK'
    <3>1. ppc' \in PacerPC
      BY <2>1, AfterQuorumIs DEF RunMove, PacerPC, PacerGoto, pacerVars, AwaitStep, QuorumIsReached, QuorumIsAborted,
         AwaitCancelled, GraceExpires, PublishGraceAbort, CloseGraceAbort, GraceAlreadyAborted, DrainStep,
         WaitGroupDrained, DrainedEarly, DrainedLate, ReturnToExecutor, DrainTimesOut, ParentCancels, GiveUpStartup
    <3>2. CASE UNCHANGED <<tokenVars, dispatchExpired>>
      BY <3>1, <3>2 DEF tokenVars
    <3>3. CASE GiveUpDispatch
      BY <3>1, <3>3 DEF GiveUpDispatch
    <3> QED BY <2>1, <3>2, <3>3
  <2>2. CASE SpawnPool
    BY <2>2 DEF SpawnPool, AfterQuorum, PacerGoto, PacerPC, tokenVars
  <2>3. ASSUME DispatchMove,
               \/ RampUpToken \/ RampUpEnds \/ RampUpCut \/ LimiterWaits
               \/ LimiterGrants \/ DispatchEnds \/ CloseTokens
        PROVE  BufferTypeOK'
    <3>1. ppc' \in PacerPC
      BY <2>3 DEF DispatchMove, PacerPC
    <3>2. CASE RampUpToken \/ LimiterGrants
      BY <3>1, <3>2, DispatchTypes DEF RampUpToken, LimiterGrants, DispatchToken
    <3>3. CASE RampUpEnds \/ RampUpCut \/ LimiterWaits \/ DispatchEnds
      BY <3>1, <3>3 DEF RampUpEnds, RampUpCut, LimiterWaits, DispatchEnds, tokenVars
    <3>4. CASE CloseTokens
      BY <3>1, <3>4 DEF CloseTokens
    <3> QED BY <2>3, <3>2, <3>3, <3>4
  <2>4. ASSUME NEW v \in VUs, WorkerStep(v) PROVE BufferTypeOK'
    <3>1. UNCHANGED <<ppc, tokensClosed, iterSeq, dropped, dispatchExpired>>
      BY <2>4, WorkerStepMoves DEF pacerVars, tokenVars, TakeToken, LeavePool
    <3>2. tokens' \in 0..BurstBuffer
      BY <2>4, WorkerStepMoves, PoolIsTarget DEF tokenVars, TakeToken, LeavePool
    <3> QED BY <3>1, <3>2
  <2>5. CASE ParentCancels /\ UNCHANGED <<tokenVars, dispatchExpired>>
    BY <2>5, <2>1 DEF RunMove
  <2>6. CASE DispatchClockExpires
    BY <2>6 DEF DispatchClockExpires, tokenVars, pacerVars
  <2>7. CASE UNCHANGED vars
    BY <2>7 DEF vars, tokenVars, pacerVars
  <2>8. PacerStep => BufferTypeOK'
    BY <2>1, <2>2, <2>3, PacerSteps
  <2> QED BY <2>4, <2>5, <2>6, <2>7, <2>8 DEF Next, Terminated
<1> QED BY <1>0, <1>1, <1>2, <1>3, PTL DEF Spec

-----------------------------------------------------------------------------
(* The shared invariants.                                                  *)

\* The gate's invariant is inductive.
LEMMA GateInductive == ASSUME TypeOK, PoolInv, GateInv, [Next]_vars PROVE GateInv'
<1>0. PacerTypeOK
  BY DEF TypeOK
<1>1. CASE RunMove(AfterQuorum, {})
  BY <1>0, <1>1, GateRun, AfterQuorumIs
<1>2. CASE SpawnPool
  <2>1. Cardinality(gated') <= GateTarget
    <3>1. IsFiniteSet(VUs) /\ gated' \in SUBSET VUs
      BY <1>2, SpawnsAll, Assumptions DEF SharedAssumptions
    <3> QED BY <3>1, PoolIsTarget, FS_Subset
  <2>2. gated \subseteq gated'
    BY <1>2 DEF SpawnPool, PoolInv, PacerGoto
  <2>3. \A w \in VUs : pc[w] = "unborn"
    BY <1>2, SpawnsAll DEF PoolInv
  <2> QED BY <1>0, <1>2, <2>1, <2>2, <2>3, SpawnsAll, GateSpawn
<1>3. CASE DispatchMove
  BY <1>3, GateFrame DEF DispatchMove, workerVars, lifeVars, iterVars, begunVars
<1>4. ASSUME NEW v \in VUs, WorkerStep(v) PROVE GateInv'
  BY <1>0, <1>4, WorkerStepMoves, GateWorker
<1>5. CASE UNCHANGED <<workerVars, pacerVars>>
  BY <1>5 DEF pacerVars, workerVars, gateVars, lifeVars, iterVars, begunVars, GateInv, GateWorkerInv,
     ReadyVotes, FailedVotes, QuorumReached, QuorumImpossible
<1>6. PacerStep => GateInv'
  BY <1>1, <1>2, <1>3, PacerSteps
<1>7. ParentCancels => GateInv'
  BY <1>1 DEF RunMove
<1> QED BY <1>4, <1>5, <1>6, <1>7 DEF Next, Terminated, DispatchClockExpires, vars

\* The drain's invariant is inductive.
LEMMA DrainInductive == ASSUME TypeOK, PoolInv, DrainInv, [Next]_vars PROVE DrainInv'
<1>0. PacerTypeOK
  BY DEF TypeOK
<1>1. CASE RunMove(AfterQuorum, {})
  BY <1>1, DrainRun, AfterQuorumIs
<1>2. CASE SpawnPool
  <2>1. \A w \in VUs : pc[w] = "unborn"
    BY <1>2, SpawnsAll DEF PoolInv
  <2> QED BY <1>0, <1>2, <2>1, SpawnsAll, DrainSpawn
<1>3. CASE DispatchMove
  BY <1>3, DrainFrame DEF DispatchMove, workerVars, lifeVars, signalVars
<1>4. ASSUME NEW v \in VUs, WorkerStep(v) PROVE DrainInv'
  BY <1>0, <1>4, WorkerStepMoves, DrainWorker
<1>5. CASE UNCHANGED <<workerVars, pacerVars>>
  BY <1>5 DEF pacerVars, workerVars, lifeVars, signalVars, DrainInv, OnGauge, PastAfter, AllDone
<1>6. PacerStep => DrainInv'
  BY <1>1, <1>2, <1>3, PacerSteps
<1>7. ParentCancels => DrainInv'
  BY <1>1 DEF RunMove
<1> QED BY <1>4, <1>5, <1>6, <1>7 DEF Next, Terminated, DispatchClockExpires, vars

\* The tallies' invariant is inductive.
LEMMA TallyInductive == ASSUME TypeOK, PoolInv, TallyInv, [Next]_vars PROVE TallyInv'
<1>0. PacerTypeOK
  BY DEF TypeOK
<1>1. CASE RunMove(AfterQuorum, {})
  BY <1>1, TallyRun
<1>2. CASE SpawnPool
  <2>1. UNCHANGED <<InFlight, begun, tallyVars>>
    BY <1>2, SpawnsAll DEF PoolInv, iterVars, begunVars, InFlight, InIteration
  <2> QED BY <2>1, TallyFrame
<1>3. CASE UNCHANGED workerVars
  BY <1>3, TallyFrame DEF workerVars, iterVars, begunVars, InFlight
<1>4. ASSUME NEW v \in VUs, WorkerStep(v) PROVE TallyInv'
  BY <1>0, <1>4, WorkerStepMoves, TallyWorker
<1>6. PacerStep => TallyInv'
  BY <1>1, <1>2, <1>3, PacerSteps DEF DispatchMove
<1>7. ParentCancels => TallyInv'
  BY <1>1 DEF RunMove
<1> QED BY <1>3, <1>4, <1>6, <1>7 DEF Next, Terminated, DispatchClockExpires, vars

\* Every step keeps the telemetry's invariant: the dispatcher has no part in it.
LEMMA TelemetryInductive == ASSUME TypeOK, TelemetryInv, [Next]_vars PROVE TelemetryInv'
<1>0. PacerTypeOK
  BY DEF TypeOK
<1>1. CASE RunMove(AfterQuorum, {})
  BY <1>0, <1>1, TelemetryRun
<1>2. CASE SpawnPool
  <2>1. UNCHANGED <<vote, preTestVars, signalVars>>
    BY <1>2 DEF SpawnPool, WorkerInternals
  <2> QED BY <1>0, <1>2, <2>1, SpawnsAll, TelemetrySpawn
<1>3. CASE UNCHANGED workerVars
  BY <1>0, <1>3, TelemetryFrame DEF workerVars, lifeVars, preTestVars, signalVars, GaveUp, ctxDone
<1>4. ASSUME NEW v \in VUs, WorkerStep(v) PROVE TelemetryInv'
  BY <1>0, <1>4, WorkerStepMoves, TelemetryWorker
<1>6. PacerStep => TelemetryInv'
  BY <1>1, <1>2, <1>3, PacerSteps DEF DispatchMove
<1>7. ParentCancels => TelemetryInv'
  BY <1>1 DEF RunMove
<1> QED BY <1>3, <1>4, <1>6, <1>7 DEF Next, Terminated, DispatchClockExpires, vars

-----------------------------------------------------------------------------
(* The token buffer.                                                       *)

\* The pool is spawned once.
LEMMA PoolInductive == ASSUME PoolInv, [Next]_vars PROVE PoolInv'
<1>1. ASSUME ppc' # "spawn" PROVE PoolInv'
  BY <1>1 DEF PoolInv
<1>2. CASE RunMove(AfterQuorum, {})
  <2>1. ppc' = "spawn" => ppc = "spawn" /\ UNCHANGED <<pc, gated>>
    BY <1>2, AfterQuorumIs DEF RunMove, PacerGoto, pacerVars, AwaitStep, QuorumIsReached, QuorumIsAborted,
       AwaitCancelled, GraceExpires, PublishGraceAbort, CloseGraceAbort, GraceAlreadyAborted, DrainStep,
       WaitGroupDrained, DrainedEarly, DrainedLate, ReturnToExecutor, DrainTimesOut, ParentCancels, GiveUpStartup,
       WorkerInternals, workerVars, lifeVars
  <2> QED BY <2>1 DEF PoolInv
<1>3. PacerStep => PoolInv'
  BY <1>1, <1>2, SpawnsAll, PacerSteps DEF DispatchMove
<1>4. ASSUME NEW v \in VUs, WorkerStep(v) PROVE PoolInv'
  <2>1. pc[v] # "unborn"
    BY <1>4, WorkerStepMoves, MoverIsNotIdle DEF Idle
  <2> QED BY <1>4, <2>1, WorkerStepMoves DEF PoolInv, pacerVars
<1>5. CASE UNCHANGED <<workerVars, pacerVars>>
  BY <1>5 DEF PoolInv, workerVars, lifeVars, pacerVars
<1>6. ParentCancels => PoolInv'
  BY <1>2 DEF RunMove
<1> QED BY <1>3, <1>4, <1>5, <1>6 DEF Next, Terminated, DispatchClockExpires, vars

\* Those about to begin are finitely many.
LEMMA CommittedFinite == IsFiniteSet(Committed) /\ Cardinality(Committed) \in Nat
<1>1. Committed \in SUBSET VUs
  BY DEF Committed
<1> QED BY <1>1, Assumptions, FS_Subset, FS_CardinalityType DEF SharedAssumptions

\* No shared step of Run begins an iteration.
LEMMA RunDoesNotBegin == ASSUME NEW next, NEW S, RunMove(next, S) PROVE begun' = begun
BY DEF RunMove, AwaitStep, QuorumIsReached, QuorumIsAborted, AwaitCancelled, GraceExpires, PublishGraceAbort,
   CloseGraceAbort, GraceAlreadyAborted, DrainStep, WaitGroupDrained, DrainedEarly, DrainedLate, ReturnToExecutor,
   DrainTimesOut, ParentCancels, GiveUpStartup, WorkerInternals, workerVars, iterVars, begunVars

\* A worker that takes a token is about to begin; one that begins is so no
\* longer; nothing else that a worker does changes the count or the set.
LEMMA TokenChangesHands ==
  ASSUME TypeOK, NEW v \in VUs, WorkerStep(v)
  PROVE  \/ /\ TakeToken(v) /\ begun' = begun
            /\ Cardinality(Committed') = Cardinality(Committed) + 1
         \/ /\ BeginIteration(v) /\ begun' = begun + 1 /\ UNCHANGED tokenVars
            /\ Cardinality(Committed') = Cardinality(Committed) - 1
         \/ /\ ~TakeToken(v) /\ begun' = begun /\ UNCHANGED tokenVars
            /\ Cardinality(Committed') = Cardinality(Committed)
<1>0. PacerTypeOK /\ pc \in [VUs -> WorkerPC]
  BY DEF TypeOK, PacerTypeOK, WorkerTypeOK
<1>1. CASE TakeToken(v)
  <2>1. PassLoopHead(v) /\ begun' = begun
    BY <1>1 DEF TakeToken, PassLoopHead, iterVars, begunVars
  <2>2. v \notin Committed /\ Committed' = Committed \cup {v}
    BY <1>0, <2>1 DEF PassLoopHead, Goto, Committed
  <2> QED BY <1>1, <2>1, <2>2, CommittedFinite, FS_AddElement
<1>2. CASE ~TakeToken(v)
  <2>1. UNCHANGED tokenVars
    BY <1>2, WorkerStepMoves DEF LeavePool
  <2>2. ~PassLoopHead(v)
    BY <1>0, <1>2, WorkerStepMoves, OnlyPassPasses DEF LeavePool
  <2>3. CASE BeginIteration(v)
    <3>1. v \in Committed /\ Committed' = Committed \ {v} /\ begun' = begun + 1
      BY <1>0, <2>3 DEF BeginIteration, Goto, Committed
    <3> QED BY <2>1, <2>3, <3>1, CommittedFinite, FS_RemoveElement
  <2>4. CASE UNCHANGED begun /\ \A w \in VUs : pc'[w] = "begin" <=> pc[w] = "begin"
    BY <1>2, <2>1, <2>4 DEF Committed
  <2> QED BY <1>0, <2>2, <2>3, <2>4, WorkerStepMoves, OnlyPassingCommits
<1> QED BY <1>1, <1>2

\* A dispatched token is in the buffer or dropped; a taken one is in the hands
\* of its worker until the iteration begins.
LEMMA TokensInductive == ASSUME TypeOK, PoolInv, TokensAreConserved, [Next]_vars PROVE TokensAreConserved'
<1>0. tokens \in Nat /\ iterSeq \in Nat /\ dropped \in Nat /\ begun \in Nat /\ Cardinality(Committed) \in Nat
  BY PoolIsTarget, Assumptions, CommittedFinite DEF TypeOK, PacerTypeOK, WorkerTypeOK, SharedAssumptions
<1> USE DEF TokensAreConserved, tokenVars
<1>1. CASE UNCHANGED <<begun, tokens, iterSeq, dropped, Committed>>
  BY <1>1
<1>2. CASE RampUpToken \/ LimiterGrants
  <2>1. UNCHANGED <<Committed, begun>>
    BY <1>2 DEF RampUpToken, LimiterGrants, DispatchToken, workerVars, iterVars, begunVars, Committed
  <2> QED BY <1>0, <1>2, <2>1 DEF RampUpToken, LimiterGrants, DispatchToken
<1>3. CASE RampUpEnds \/ RampUpCut \/ LimiterWaits \/ DispatchEnds \/ CloseTokens
  BY <1>1, <1>3 DEF RampUpEnds, RampUpCut, LimiterWaits, DispatchEnds, CloseTokens, workerVars, iterVars, begunVars,
     Committed
<1>4. CASE SpawnPool
  <2>1. UNCHANGED Committed
    BY <1>4, SpawnsAll DEF Committed, PoolInv
  <2> QED BY <1>1, <1>4, <2>1, SpawnsAll DEF iterVars, begunVars
<1>5. ASSUME RunMove(AfterQuorum, {}), UNCHANGED tokenVars \/ GiveUpDispatch PROVE TokensAreConserved'
  BY <1>1, <1>5, RunKeepsPC, RunDoesNotBegin DEF GiveUpDispatch, Committed
<1>6. PacerStep => TokensAreConserved'
  BY <1>2, <1>3, <1>4, <1>5, PacerSteps
<1>7. ASSUME NEW v \in VUs, WorkerStep(v) PROVE TokensAreConserved'
  BY <1>0, <1>7, TokenChangesHands DEF TakeToken
<1>8. CASE UNCHANGED <<workerVars, tokenVars>>
  BY <1>1, <1>8 DEF workerVars, iterVars, begunVars, Committed
<1>9. ParentCancels /\ UNCHANGED <<tokenVars, dispatchExpired>> => TokensAreConserved'
  BY <1>5 DEF RunMove
<1> QED BY <1>6, <1>7, <1>8, <1>9 DEF Next, Terminated, DispatchClockExpires, vars

\* A shared step of a virtual user takes none out of its loop.
LEMMA ServingGoesOn ==
  ASSUME PacerTypeOK, NEW v \in VUs, NEW w \in VUs, HookStep(v) \/ EngineStep(v) \/ DeadlinePasses(v),
         pc[w] \in {"loop", "begin"} \cup InIteration
  PROVE  pc'[w] \in {"loop", "begin"} \cup InIteration
<1> USE DEF InIteration, Goto, PacerTypeOK, WorkerTypeOK
<1>1. CASE HookStep(v)
  BY <1>1 DEF HookStep, PreTestSucceeds, PreTestFailsForGood, PreTestFailsAndRetries, RunVUReturns, AfterTest
<1>2. CASE EngineStep(v)
  BY <1>2 DEF EngineStep, Start, BackoffElapses, BackoffInterrupted, RecordFailed, TriggerDropoutAbort,
     DropoutAlreadyAborted, CloseDropoutAbort, RecordReady, ReleaseGate, EnterThroughGate, TurnBackAtGate,
     BeginIteration, RecordIterationResult, Deregister, Done
<1>3. CASE DeadlinePasses(v)
  BY <1>3 DEF DeadlinePasses
<1> QED BY <1>1, <1>2, <1>3

\* What the shared steps of Run do to the signals the queue depends on.
LEMMA RunCancels ==
  ASSUME PacerTypeOK, RunMove(AfterQuorum, {})
  PROVE  /\ UNCHANGED <<pc, begun>>
         /\ cancelledBy' = cancelledBy \/ cancelledBy = "none"
         /\ cancelledBy' = "return" => cancelledBy = "return" \/ ppc' = "returned"
         /\ ppc \in {"drain", "drainWait", "returned"} => ppc' \in {"drain", "drainWait", "returned"}
         /\ ppc = "returned" => ppc' = "returned"
<1>1. UNCHANGED <<pc, begun>>
  BY RunKeepsPC, RunDoesNotBegin
<1>2. /\ cancelledBy' = cancelledBy \/ cancelledBy = "none"
      /\ cancelledBy' = "return" => cancelledBy = "return" \/ ppc' = "returned"
      /\ ppc \in {"drain", "drainWait", "returned"} => ppc' \in {"drain", "drainWait", "returned"}
      /\ ppc = "returned" => ppc' = "returned"
  BY AfterQuorumIs DEF RunMove, PacerGoto, pacerVars, AwaitStep, QuorumIsReached, QuorumIsAborted, AwaitCancelled,
     GraceExpires, PublishGraceAbort, CloseGraceAbort, GraceAlreadyAborted, DrainStep, WaitGroupDrained, DrainedEarly,
     DrainedLate, ReturnToExecutor, DrainTimesOut, ParentCancels, GiveUpStartup, WorkerInternals, workerVars,
     signalVars, Cancel, ctxDone
<1> QED BY <1>1, <1>2

\* What the queue's invariant says of a state in which tokens were served.
QueueServed == (tokensClosed /\ tokens = 0) \/ \E v \in VUs : pc[v] \in {"loop", "begin"} \cup InIteration

\* A worker leaves the pool only when nothing is left to serve.
LEMMA QueueInductive ==
  ASSUME TypeOK, DrainInv, PoolInv, QueueInv, [Next]_vars
  PROVE  QueueInv'
<1>0. PacerTypeOK
  BY DEF TypeOK
<1>q. QueueInv <=> /\ tokensClosed => ppc \in {"drain", "drainWait", "returned"}
                   /\ cancelledBy = "return" => ppc = "returned"
                   /\ begun > 0 /\ cancelledBy \in {"none", "return"} => QueueServed
  BY DEF QueueInv, QueueServed
<1>1. ASSUME RunMove(AfterQuorum, {}), UNCHANGED tokenVars \/ GiveUpDispatch PROVE QueueInv'
  <2>1. (tokensClosed' = tokensClosed \/ ppc' = "drain") /\ tokens' = tokens /\ (tokensClosed => tokensClosed')
    BY <1>1 DEF tokenVars, GiveUpDispatch, GiveUpStartup, PacerGoto
  <2>2. QueueServed => QueueServed'
    BY <1>0, <1>1, <2>1, RunCancels DEF QueueServed
  <2> QED BY <1>0, <1>1, <1>q, <2>1, <2>2, RunCancels DEF QueueInv, QueueServed
<1>2. CASE SpawnPool
  BY <1>2, SpawnsAll DEF PoolInv, QueueInv, InIteration, tokenVars
<1>3. ASSUME DispatchMove, tokensClosed' = tokensClosed \/ ppc' = "drain" PROVE QueueInv'
  <2>1. UNCHANGED <<pc, begun, cancelledBy>>
    BY <1>3 DEF DispatchMove, workerVars, signalVars, iterVars, begunVars
  <2>2. ~tokensClosed /\ cancelledBy # "return"
    BY <1>3 DEF DispatchMove, QueueInv
  <2> QED BY <1>3, <2>1, <2>2 DEF DispatchMove, QueueInv
<1>4. ASSUME NEW v \in VUs, WorkerStep(v) PROVE QueueInv'
  <2>1. UNCHANGED <<ppc, cancelledBy, tokensClosed>>
    BY <1>4, WorkerStepMoves, WorkersDoNotStop DEF pacerVars, signalVars, tokenVars, TakeToken, LeavePool
  <2>2. CASE TakeToken(v)
    <3>1. pc'[v] = "begin"
      BY <1>0, <2>2 DEF TakeToken, PassLoopHead, Goto, PacerTypeOK, WorkerTypeOK
    <3> QED BY <2>1, <3>1 DEF QueueInv, InIteration
  <2>3. CASE LeavePool(v)
    <3>1. begun' = begun /\ UNCHANGED tokenVars
      BY <2>3 DEF LeavePool, LeaveLoop, iterVars, begunVars
    <3>2. cancelledBy # "return"
      <4>1. ppc # "returned"
        BY <1>4, WorkerStepMoves, MoverIsNotIdle DEF DrainInv, AllDone
      <4> QED BY <4>1 DEF QueueInv
    <3>3. cancelledBy = "none" => tokensClosed /\ tokens = 0
      BY <2>3 DEF LeavePool, ctxDone
    <3> QED BY <2>1, <3>1, <3>2, <3>3 DEF QueueInv, tokenVars
  <2>4. CASE (HookStep(v) \/ EngineStep(v) \/ DeadlinePasses(v)) /\ UNCHANGED tokenVars
    <3>0. CASE BeginIteration(v)
      <4>1. pc'[v] = "run"
        BY <1>0, <3>0 DEF BeginIteration, Goto, PacerTypeOK, WorkerTypeOK
      <4> QED BY <2>1, <4>1 DEF QueueInv, InIteration
    <3>1. CASE begun' = begun
      <4>1. QueueServed => QueueServed'
        BY <1>0, <2>4, ServingGoesOn DEF QueueServed, tokenVars
      <4>2. /\ tokensClosed' => ppc' \in {"drain", "drainWait", "returned"}
            /\ cancelledBy' = "return" => ppc' = "returned"
            /\ begun' > 0 /\ cancelledBy' \in {"none", "return"} => QueueServed'
        BY <1>q, <2>1, <3>1, <4>1
      <4> QED BY <4>2 DEF QueueInv, QueueServed
    <3> QED BY <3>0, <3>1, <1>4, TokenChangesHands DEF TakeToken, PassLoopHead, iterVars, begunVars
  <2> QED BY <1>4, <2>2, <2>3, <2>4, WorkerStepMoves
<1>5. CASE UNCHANGED <<workerVars, pacerVars, tokenVars>>
  BY <1>5 DEF QueueInv, workerVars, pacerVars, tokenVars, signalVars, iterVars, begunVars
<1>6. PacerStep => QueueInv'
  <2>1. RampUpToken \/ RampUpEnds \/ RampUpCut \/ LimiterWaits \/ LimiterGrants \/ DispatchEnds \/ CloseTokens
          => tokensClosed' = tokensClosed \/ ppc' = "drain"
    BY DEF RampUpToken, RampUpEnds, RampUpCut, LimiterWaits, LimiterGrants, DispatchEnds, CloseTokens,
       DispatchToken, tokenVars, PacerGoto
  <2> QED BY <1>1, <1>2, <1>3, <2>1, PacerSteps
<1>7. ParentCancels /\ UNCHANGED <<tokenVars, dispatchExpired>> => QueueInv'
  BY <1>1 DEF RunMove
<1> QED BY <1>4, <1>5, <1>6, <1>7 DEF Next, Terminated, DispatchClockExpires, vars

\* The strengthened invariant holds in every reachable state.
THEOREM ArrivalInvariant == Spec => []IInv
<1>1. Init /\ TypeOK => IInv
  <2> SUFFICES ASSUME Init PROVE IInv
    OBVIOUS
  <2>1. WorkerInit /\ PacerInit("spawn")
    BY DEF Init
  <2>2. GateInv
    BY <2>1, GateInitially
  <2>3. DrainInv
    <3>1. OnGauge = {} /\ PastAfter = {}
      BY <2>1 DEF WorkerInit, OnGauge, PastAfter
    <3> QED BY <2>1, <3>1, FS_EmptySet DEF WorkerInit, PacerInit, DrainInv
  <2>4. Cardinality(Committed) = 0
    <3>1. Committed = {}
      BY <2>1 DEF WorkerInit, Committed
    <3> QED BY <3>1, FS_EmptySet
  <2>5. PoolInv /\ QueueInv /\ TokensAreConserved
    BY <2>4 DEF Init, WorkerInit, PoolInv, QueueInv, TokensAreConserved
  <2> QED BY <2>1, <2>2, <2>3, <2>5, TelemetryInitially, TallyInitially DEF IInv
<1>2. TypeOK /\ IInv /\ [Next]_vars => IInv'
  BY GateInductive, TelemetryInductive, DrainInductive, TallyInductive, PoolInductive, QueueInductive, TokensInductive DEF IInv
<1> QED BY <1>1, <1>2, ArrivalTypeCorrect, PTL DEF Spec

-----------------------------------------------------------------------------
(* What the engine guarantees.                                             *)

\* Every dispatched token was taken, dropped, or still waits.
THEOREM TokensAreConservedHolds == Spec => []TokensAreConserved
<1>1. IInv => TokensAreConserved
  BY DEF IInv
<1> QED BY <1>1, ArrivalInvariant, PTL

\* A run that ends by itself after serving tokens leaves none in the buffer.
THEOREM GracefulDrainServesTheQueueHolds == Spec => []GracefulDrainServesTheQueue
<1>1. TypeOK /\ IInv => GracefulDrainServesTheQueue
  BY DEF IInv, QueueInv, DrainInv, AllDone, Idle, InIteration, GracefulDrainServesTheQueue
<1> QED BY <1>1, ArrivalTypeCorrect, ArrivalInvariant, PTL

\* What every pacing engine has: one decision of the gate, nothing run
\* without the quorum, an honest dropout error that the telemetry backs, a
\* return after everybody and counters that add up.
THEOREM ArrivalSharedSafety ==
  Spec => [](/\ GateDecidesOnce /\ NoIterationBeforeQuorum /\ DropoutRunsNothing /\ DropoutErrorShowsShortfall
             /\ DropoutIsBackedByTelemetry /\ ReturnsAfterEveryWorker /\ EveryIterationAccounted)
<1>1. TypeOK /\ IInv => /\ GateDecidesOnce /\ NoIterationBeforeQuorum
                        /\ DropoutRunsNothing /\ DropoutErrorShowsShortfall
                        /\ DropoutIsBackedByTelemetry
                        /\ ReturnsAfterEveryWorker /\ EveryIterationAccounted
  <2>1. TypeOK /\ IInv => PacerTypeOK /\ GateInv /\ TelemetryInv /\ DrainInv /\ TallyInv
    BY DEF TypeOK, IInv
  <2> QED BY <2>1, GateProperties, TelemetryProperties, DrainProperties, TallyProperties
<1> QED BY <1>1, ArrivalTypeCorrect, ArrivalInvariant, PTL

\* The arrival_rate engine implements the contract of a pacing engine.
THEOREM ArrivalRateRefinesPacingEngine == Spec => ImplementsPacingEngine
<1>1. Init => Contract!PacingInit
  BY DEF Init, WorkerInit, PacerInit, Contract!PacingInit, workerView, closingView, resultView, cancelledView, Idle
<1>2. TypeOK /\ IInv /\ [Next]_vars => [Contract!PacingNext]_Contract!pacingVars
  <2> SUFFICES ASSUME TypeOK, IInv, [Next]_vars PROVE [Contract!PacingNext]_Contract!pacingVars
    OBVIOUS
  <2>0. PacerTypeOK /\ DrainInv /\ PoolInv
    BY DEF TypeOK, IInv
  <2>1. ASSUME RunMove(AfterQuorum, {}) PROVE [Contract!PacingNext]_Contract!pacingVars
    BY <2>0, <2>1, RunIsSeen, AfterQuorumIs
    DEF Contract!PacingNext, Contract!EngineNext, Contract!Close, Contract!Return, Contract!CallerCancels,
        Contract!pacingVars, closingView, cancelledView
  <2>2. ASSUME SpawnPool PROVE Contract!PacingNext
    <3>1. ~closingView /\ UNCHANGED <<closingView, resultView, cancelledView>>
      BY <2>2, SpawnsAll DEF closingView, resultView, cancelledView
    <3>2. Contract!Spawn(VUs)
      BY <2>0, <2>2, <3>1, SpawnsAll, SpawnIsSeen DEF Contract!Spawn, PoolInv
    <3> QED BY <3>2 DEF Contract!PacingNext, Contract!EngineNext
  <2>3. ASSUME DispatchMove PROVE [Contract!PacingNext]_Contract!pacingVars
    <3>1. ~closingView /\ UNCHANGED <<workerView, resultView, cancelledView>>
      BY <2>3 DEF DispatchMove, closingView, workerView, resultView, cancelledView, workerVars, signalVars
    <3>2. UNCHANGED closingView \/ closingView'
      BY <3>1 DEF closingView
    <3> QED BY <3>1, <3>2 DEF Contract!PacingNext, Contract!EngineNext, Contract!Close, Contract!pacingVars, closingView
  <2>4. ASSUME NEW v \in VUs, WorkerStep(v) PROVE [Contract!PacingNext]_Contract!pacingVars
    <3>1. UNCHANGED <<closingView, resultView, cancelledView>>
      BY <2>4, WorkerStepMoves, WorkersDoNotStop DEF closingView, resultView, cancelledView, pacerVars, signalVars
    <3>2. CASE UNCHANGED workerView
      BY <3>1, <3>2 DEF Contract!pacingVars
    <3>3. CASE \/ ViewMoves(v, "alive", "committed") \/ ViewMoves(v, "committed", "busy")
               \/ ViewMoves(v, "busy", "alive") \/ ViewMoves(v, "alive", "gone")
      <4>1. Contract!Commit(v) \/ Contract!Begin(v) \/ Contract!End(v) \/ Contract!Leave(v)
        BY <3>1, <3>3 DEF ViewMoves, Contract!Commit, Contract!Begin, Contract!End, Contract!Leave, Contract!Move
      <4> QED BY <4>1 DEF Contract!PacingNext, Contract!EngineNext
    <3> QED BY <2>0, <2>4, <3>2, <3>3, WorkerStepMoves, WorkerIsSeen
  <2>5. CASE UNCHANGED <<workerVars, pacerVars>>
    BY <2>5 DEF pacerVars, workerVars, signalVars, Contract!pacingVars,
       workerView, closingView, resultView, cancelledView
  <2>6. PacerStep => [Contract!PacingNext]_Contract!pacingVars
    BY <2>1, <2>2, <2>3, PacerSteps
  <2>7. ParentCancels => [Contract!PacingNext]_Contract!pacingVars
    BY <2>1 DEF RunMove
  <2> QED BY <2>4, <2>5, <2>6, <2>7 DEF Next, Terminated, DispatchClockExpires, vars
<1> QED
  BY <1>1, <1>2, ArrivalTypeCorrect, ArrivalInvariant, PTL DEF Spec, ImplementsPacingEngine, Contract!PacingSpec
=============================================================================
