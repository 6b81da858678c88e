----------------------------- MODULE Pacer_proofs -----------------------------
(***************************************************************************)
(* Lemmas about what the three pacing engines share: the worker's steps,   *)
(* waiting for the quorum and the drain each keep the types and the        *)
(* invariants (gate, drain, telemetry, tallies, late iterations), for any  *)
(* number of virtual users, any quorum ratio and any retry and iteration   *)
(* bound.  The proofs about an engine cite them for every step that is not *)
(* its own.                                                                *)
(***************************************************************************)
EXTENDS Pacer, FiniteSetTheorems, TLAPS

\* Everything a virtual user does, whoever hands it its next iteration.
WorkerMove(v) ==
  HookStep(v) \/ EngineStep(v) \/ DeadlinePasses(v) \/ PassLoopHead(v) \/ LeaveLoop(v)

SharedAssumptions ==
  /\ GateTarget \in Nat \ {0}
  /\ RatioNum \in Nat
  /\ RatioDen \in Nat \ {0}
  /\ IsFiniteSet(VUs)
  /\ MaxPreTestRetries \in Nat
  /\ HasTimeout \in BOOLEAN
  /\ MaxIterations \in Nat
  /\ UseGate \in BOOLEAN
  /\ HasDrain \in BOOLEAN

\* The assumptions of the modules below, in one place.
LEMMA Assumptions == SharedAssumptions
BY GateAssumption, WorkerAssumption, PacerAssumption
DEF SharedAssumptions, GateAssumption, WorkerAssumption, PacerAssumption

-----------------------------------------------------------------------------
(* Types.                                                                  *)

\* Every step of a virtual user keeps the types.
LEMMA TypeWorker ==
  ASSUME PacerTypeOK, NEW v \in VUs, WorkerMove(v), UNCHANGED pacerVars
  PROVE  PacerTypeOK'
<1> USE DEF PacerTypeOK, WorkerTypeOK, GateTypeOK, WorkerPC, Goto, pacerVars,
        gateVars, preTestVars, signalVars, lifeVars, iterVars, begunVars, tallyVars
<1>1. CASE Start(v)
  BY <1>1 DEF Start
<1>2. CASE PreTestSucceeds(v)
  BY <1>2 DEF PreTestSucceeds
<1>3. CASE PreTestFailsForGood(v)
  BY <1>3 DEF PreTestFailsForGood, GiveUp
<1>4. CASE PreTestFailsAndRetries(v)
  BY <1>4, Assumptions DEF PreTestFailsAndRetries, SharedAssumptions
<1>5. CASE BackoffElapses(v)
  BY <1>5 DEF BackoffElapses
<1>6. CASE BackoffInterrupted(v)
  BY <1>6 DEF BackoffInterrupted, GiveUp
<1>7. CASE RecordFailed(v)
  BY <1>7 DEF RecordFailed, AddFailed
<1>8. CASE TriggerDropoutAbort(v)
  BY <1>8 DEF TriggerDropoutAbort, PublishAbort
<1>9. CASE DropoutAlreadyAborted(v)
  BY <1>9 DEF DropoutAlreadyAborted
<1>10. CASE CloseDropoutAbort(v)
  BY <1>10 DEF CloseDropoutAbort, CloseAbort
<1>11. CASE RecordReady(v)
  BY <1>11 DEF RecordReady, AddReady
<1>12. CASE ReleaseGate(v)
  BY <1>12 DEF ReleaseGate, OpenGate
<1>13. CASE EnterThroughGate(v)
  BY <1>13 DEF EnterThroughGate
<1>14. CASE TurnBackAtGate(v)
  BY <1>14 DEF TurnBackAtGate
<1>15. CASE BeginIteration(v)
  BY <1>15 DEF BeginIteration
<1>16. CASE LeaveLoop(v)
  BY <1>16 DEF LeaveLoop
<1>23. CASE PassLoopHead(v)
  BY <1>23 DEF PassLoopHead
<1>17. CASE DeadlinePasses(v)
  BY <1>17 DEF DeadlinePasses
<1>18. CASE RunVUReturns(v)
  BY <1>18 DEF RunVUReturns
<1>19. CASE RecordIterationResult(v)
  <2> DEFINE class == Classify(v)
  <2>1. /\ Tick(interrupted, class, {"discarded"}) \in Nat
        /\ Tick(iterTotal, class, {"success", "failure", "timeout", "panic"}) \in Nat
        /\ Tick(iterFailed, class, {"failure", "timeout", "panic"}) \in Nat
        /\ Tick(iterTimeout, class, {"timeout"}) \in Nat
        /\ Tick(vuPanics, class, {"panic"}) \in Nat
    BY DEF Tick
  <2> QED BY <1>19, <2>1 DEF RecordIterationResult
<1>20. CASE AfterTest(v)
  BY <1>20 DEF AfterTest
<1>21. CASE Deregister(v)
  BY <1>21 DEF Deregister
<1>22. CASE Done(v)
  BY <1>22 DEF Done
<1> QED
  BY <1>1, <1>2, <1>3, <1>4, <1>5, <1>6, <1>7, <1>8, <1>9, <1>10, <1>11, <1>12, <1>13, <1>14, <1>15, <1>16, <1>17, <1>18, <1>19, <1>20, <1>21, <1>22, <1>23
     DEF WorkerMove, HookStep, EngineStep

\* Everything Run does that the engines share.
RunMove(next, S) == AwaitStep(next) \/ DrainStep \/ ParentCancels \/ GiveUpStartup(S)

\* Every shared step of Run keeps the types.
LEMMA TypeRun ==
  ASSUME PacerTypeOK, NEW next, NEW S \in SUBSET VUs, RunMove(next, S)
  PROVE  PacerTypeOK'
<1> USE DEF PacerTypeOK, WorkerTypeOK, GateTypeOK, QuorumReached, PacerGoto, WorkerInternals, Cancel, ctxDone, pacerVars, workerVars,
        gateVars, preTestVars, signalVars, lifeVars, iterVars, begunVars, tallyVars
<1>1. CASE QuorumIsReached(next)
  BY <1>1 DEF QuorumIsReached
<1>2. CASE QuorumIsAborted
  BY <1>2 DEF QuorumIsAborted
<1>3. CASE AwaitCancelled
  BY <1>3 DEF AwaitCancelled
<1>4. CASE GraceExpires(next)
  BY <1>4 DEF GraceExpires
<1>5. CASE PublishGraceAbort
  BY <1>5 DEF PublishGraceAbort, PublishAbort, NoAbort
<1>6. CASE CloseGraceAbort
  BY <1>6 DEF CloseGraceAbort, CloseAbort
<1>7. CASE GraceAlreadyAborted
  BY <1>7 DEF GraceAlreadyAborted, AbortAlreadyDone
<1>8. CASE WaitGroupDrained
  BY <1>8 DEF WaitGroupDrained
<1>9. CASE DrainedEarly
  BY <1>9 DEF DrainedEarly, ReturnToExecutor
<1>10. CASE DrainedLate
  BY <1>10 DEF DrainedLate, ReturnToExecutor
<1>11. CASE DrainTimesOut
  BY <1>11 DEF DrainTimesOut
<1>12. CASE ParentCancels
  BY <1>12 DEF ParentCancels
<1>13. CASE GiveUpStartup(S)
  BY <1>13 DEF GiveUpStartup
<1> QED
  BY <1>1, <1>2, <1>3, <1>4, <1>5, <1>6, <1>7, <1>8, <1>9, <1>10, <1>11, <1>12, <1>13 DEF RunMove, AwaitStep, DrainStep

\* In the initial state the types are right.
LEMMA TypeInit == ASSUME NEW first, WorkerInit, PacerInit(first) PROVE PacerTypeOK
<1>1. GateTypeOK
  BY DEF WorkerInit, GateInit, NoAbort, GateTypeOK
<1>2. WorkerTypeOK
  BY <1>1, Assumptions DEF SharedAssumptions, WorkerInit, WorkerTypeOK, WorkerPC
<1> QED BY <1>2 DEF PacerInit, PacerTypeOK

-----------------------------------------------------------------------------
(* The gate.                                                               *)

\* NewStartupQuorumGate clamps the quorum to 1..target, whatever the ratio.
LEMMA RequiredRange == Required \in 1..GateTarget
<1>1. Ceiling \in Int
  BY Assumptions DEF SharedAssumptions, Ceiling
<1> QED BY <1>1, Assumptions DEF SharedAssumptions, Required

\* The voters are finitely many.
LEMMA VotesFinite ==
  /\ IsFiniteSet(ReadyVotes) /\ IsFiniteSet(FailedVotes)
  /\ Cardinality(ReadyVotes) \in Nat /\ Cardinality(FailedVotes) \in Nat
<1>1. ReadyVotes \in SUBSET VUs /\ FailedVotes \in SUBSET VUs
  BY DEF ReadyVotes, FailedVotes
<1>2. IsFiniteSet(ReadyVotes) /\ IsFiniteSet(FailedVotes)
  BY <1>1, Assumptions, FS_Subset DEF SharedAssumptions
<1> QED BY <1>2, FS_CardinalityType

\* The two groups of voters are disjoint and fit in the gate's target.
LEMMA VotesFit ==
  ASSUME PacerTypeOK, GateInv
  PROVE  Cardinality(ReadyVotes) + Cardinality(FailedVotes) <= GateTarget
<1>1. IsFiniteSet(gated) /\ Cardinality(gated) \in Nat
  BY Assumptions, FS_Subset, FS_CardinalityType DEF SharedAssumptions, PacerTypeOK, WorkerTypeOK
<1>2. ReadyVotes \cup FailedVotes \in SUBSET gated
  BY DEF ReadyVotes, FailedVotes, GateInv, GateWorkerInv
<1>3. ReadyVotes \cap FailedVotes = {}
  BY DEF ReadyVotes, FailedVotes
<1>4. Cardinality(ReadyVotes \cup FailedVotes)
        = Cardinality(ReadyVotes) + Cardinality(FailedVotes) - Cardinality(ReadyVotes \cap FailedVotes)
  BY VotesFinite, FS_Union
<1>5. Cardinality(ReadyVotes \cap FailedVotes) = 0
  BY <1>3, FS_EmptySet
<1>6. Cardinality(ReadyVotes \cup FailedVotes) <= Cardinality(gated)
  BY <1>1, <1>2, FS_Subset
<1>7. Cardinality(gated) <= GateTarget
  BY DEF GateInv
<1>8. Cardinality(ReadyVotes) + Cardinality(FailedVotes) <= Cardinality(gated)
  BY <1>4, <1>5, <1>6, VotesFinite
<1>9. GateTarget \in Nat
  BY Assumptions DEF SharedAssumptions
<1> QED BY <1>1, <1>7, <1>8, <1>9, VotesFinite

\* The counters cannot both cross their bounds: the quorum is either within
\* reach or impossible.
LEMMA QuorumExclusive ==
  ASSUME PacerTypeOK, GateInv
  PROVE  ~(QuorumReached /\ QuorumImpossible)
<1>1. readyCount + failedCount <= GateTarget
  BY VotesFit DEF GateInv
<1> QED
  BY <1>1, RequiredRange, Assumptions
  DEF QuorumReached, QuorumImpossible, MaxAllowedFailures, SharedAssumptions, PacerTypeOK, WorkerTypeOK, GateTypeOK

\* One more vote moves exactly one of the two groups by one.
LEMMA CastVote ==
  ASSUME PacerTypeOK, NEW v \in VUs, vote[v] = "none", NEW b \in {"ready", "failed"},
         vote' = [vote EXCEPT ![v] = b]
  PROVE  /\ Cardinality(ReadyVotes') = Cardinality(ReadyVotes) + (IF b = "ready" THEN 1 ELSE 0)
         /\ Cardinality(FailedVotes') = Cardinality(FailedVotes) + (IF b = "failed" THEN 1 ELSE 0)
<1>0. vote \in [VUs -> {"none", "ready", "failed"}]
  BY DEF PacerTypeOK, WorkerTypeOK
<1>1. v \notin ReadyVotes /\ v \notin FailedVotes
  BY DEF ReadyVotes, FailedVotes
<1>2. CASE b = "ready"
  <2>1. ReadyVotes' = ReadyVotes \cup {v} /\ FailedVotes' = FailedVotes
    BY <1>0, <1>2 DEF ReadyVotes, FailedVotes
  <2>2. Cardinality(ReadyVotes \cup {v}) = Cardinality(ReadyVotes) + 1
    BY <1>1, VotesFinite, FS_AddElement
  <2> QED BY <1>2, <2>1, <2>2, VotesFinite
<1>3. CASE b = "failed"
  <2>1. FailedVotes' = FailedVotes \cup {v} /\ ReadyVotes' = ReadyVotes
    BY <1>0, <1>3 DEF ReadyVotes, FailedVotes
  <2>2. Cardinality(FailedVotes \cup {v}) = Cardinality(FailedVotes) + 1
    BY <1>1, VotesFinite, FS_AddElement
  <2> QED BY <1>3, <2>1, <2>2, VotesFinite
<1> QED BY <1>2, <1>3

\* Initially nobody has voted.
LEMMA GateInitially ==
  ASSUME NEW first, WorkerInit, PacerInit(first), first \notin {"await", "abort", "closeAbort", "giveup"}
  PROVE  GateInv
<1>1. ReadyVotes = {} /\ FailedVotes = {}
  BY DEF WorkerInit, ReadyVotes, FailedVotes
<1>2. Cardinality({}) = 0
  BY FS_EmptySet
<1> QED
  BY <1>1, <1>2, RequiredRange, Assumptions
  DEF SharedAssumptions, WorkerInit, GateInit, PacerInit, NoAbort, GateInv, GateWorkerInv, InIteration

\* Every step of a virtual user keeps the gate's invariant.
LEMMA GateWorker ==
  ASSUME PacerTypeOK, GateInv, NEW v \in VUs, WorkerMove(v), UNCHANGED pacerVars
  PROVE  GateInv'
<1> USE DEF GateInv, GateWorkerInv, QuorumReached, QuorumImpossible, InIteration, Goto, pacerVars,
        gateVars, preTestVars, signalVars, lifeVars, iterVars, begunVars, tallyVars
<1>0. /\ pc \in [VUs -> WorkerPC]
      /\ begun \in Nat
      /\ readyCount \in Nat /\ failedCount \in Nat
      /\ Required \in Nat /\ MaxAllowedFailures \in Nat
  BY RequiredRange, Assumptions
  DEF PacerTypeOK, WorkerTypeOK, GateTypeOK, SharedAssumptions, MaxAllowedFailures
<1>a. UNCHANGED vote => UNCHANGED <<ReadyVotes, FailedVotes>>
  BY DEF ReadyVotes, FailedVotes
<1>1. CASE Start(v)
  BY <1>0, <1>a, <1>1 DEF Start
<1>2. CASE PreTestSucceeds(v)
  BY <1>0, <1>a, <1>2 DEF PreTestSucceeds
<1>3. CASE PreTestFailsForGood(v)
  BY <1>0, <1>a, <1>3 DEF PreTestFailsForGood, GiveUp
<1>4. CASE PreTestFailsAndRetries(v)
  BY <1>0, <1>a, <1>4 DEF PreTestFailsAndRetries
<1>5. CASE BackoffElapses(v)
  BY <1>0, <1>a, <1>5 DEF BackoffElapses
<1>6. CASE BackoffInterrupted(v)
  BY <1>0, <1>a, <1>6 DEF BackoffInterrupted, GiveUp
<1>7. CASE RecordFailed(v)
  <2>1. vote[v] = "none" /\ v \in gated /\ vote' = [vote EXCEPT ![v] = "failed"]
    BY <1>7 DEF RecordFailed
  <2>2. readyCount' = Cardinality(ReadyVotes') /\ failedCount' = Cardinality(FailedVotes')
    <3>1. /\ Cardinality(ReadyVotes') = Cardinality(ReadyVotes) + (IF "failed" = "ready" THEN 1 ELSE 0)
          /\ Cardinality(FailedVotes') = Cardinality(FailedVotes) + (IF "failed" = "failed" THEN 1 ELSE 0)
      BY <2>1, CastVote
    <3> QED BY <1>0, <1>7, <3>1 DEF RecordFailed, AddFailed
  <2>3. \A w \in VUs : GateWorkerInv(w)'
    BY <1>0, <1>7, <2>1 DEF RecordFailed, AddFailed, PacerTypeOK, WorkerTypeOK
  <2> QED BY <1>0, <1>7, <2>2, <2>3 DEF RecordFailed, AddFailed
<1>8. CASE TriggerDropoutAbort(v)
  <2>1. QuorumImpossible
    BY <1>8 DEF TriggerDropoutAbort
  <2>2. readyCount < Required
    BY <2>1, <1>0, QuorumExclusive
  <2> QED BY <1>0, <1>a, <1>8, <2>1, <2>2 DEF TriggerDropoutAbort, PublishAbort, NoAbort
<1>9. CASE DropoutAlreadyAborted(v)
  BY <1>0, <1>a, <1>9 DEF DropoutAlreadyAborted
<1>10. CASE CloseDropoutAbort(v)
  BY <1>0, <1>a, <1>10 DEF CloseDropoutAbort, CloseAbort
<1>11. CASE RecordReady(v)
  <2>1. vote[v] = "none" /\ v \in gated /\ vote' = [vote EXCEPT ![v] = "ready"]
    BY <1>11 DEF RecordReady
  <2>2. readyCount' = Cardinality(ReadyVotes') /\ failedCount' = Cardinality(FailedVotes')
    <3>1. /\ Cardinality(ReadyVotes') = Cardinality(ReadyVotes) + (IF "ready" = "ready" THEN 1 ELSE 0)
          /\ Cardinality(FailedVotes') = Cardinality(FailedVotes) + (IF "ready" = "failed" THEN 1 ELSE 0)
      BY <2>1, CastVote
    <3> QED BY <1>0, <1>11, <3>1 DEF RecordReady, AddReady
  <2>3. \A w \in VUs : GateWorkerInv(w)'
    BY <1>0, <1>11, <2>1 DEF RecordReady, AddReady, PacerTypeOK, WorkerTypeOK
  <2> QED BY <1>0, <1>11, <2>2, <2>3 DEF RecordReady, AddReady
<1>12. CASE ReleaseGate(v)
  BY <1>0, <1>a, <1>12 DEF ReleaseGate, OpenGate
<1>13. CASE EnterThroughGate(v)
  BY <1>0, <1>a, <1>13 DEF EnterThroughGate
<1>14. CASE TurnBackAtGate(v)
  BY <1>0, <1>a, <1>14 DEF TurnBackAtGate
<1>15. CASE BeginIteration(v)
  BY <1>0, <1>a, <1>15 DEF BeginIteration
<1>16. CASE LeaveLoop(v)
  BY <1>0, <1>a, <1>16 DEF LeaveLoop
<1>23. CASE PassLoopHead(v)
  BY <1>0, <1>a, <1>23 DEF PassLoopHead
<1>17. CASE DeadlinePasses(v)
  BY <1>0, <1>a, <1>17 DEF DeadlinePasses
<1>18. CASE RunVUReturns(v)
  BY <1>0, <1>a, <1>18 DEF RunVUReturns
<1>19. CASE RecordIterationResult(v)
  BY <1>0, <1>a, <1>19 DEF RecordIterationResult
<1>20. CASE AfterTest(v)
  BY <1>0, <1>a, <1>20 DEF AfterTest
<1>21. CASE Deregister(v)
  BY <1>0, <1>a, <1>21 DEF Deregister
<1>22. CASE Done(v)
  BY <1>0, <1>a, <1>22 DEF Done
<1> QED
  BY <1>1, <1>2, <1>3, <1>4, <1>5, <1>6, <1>7, <1>8, <1>9, <1>10, <1>11, <1>12, <1>13, <1>14, <1>15, <1>16, <1>17, <1>18, <1>19, <1>20, <1>21, <1>22, <1>23
     DEF WorkerMove, HookStep, EngineStep

\* Every shared step of Run keeps the gate's invariant.
LEMMA GateRun ==
  ASSUME PacerTypeOK, GateInv, NEW next, next \notin {"abort", "closeAbort"},
         NEW S \in SUBSET VUs, RunMove(next, S)
  PROVE  GateInv'
<1> USE DEF GateInv, GateWorkerInv, QuorumReached, QuorumImpossible, InIteration, ReadyVotes, FailedVotes,
        PacerGoto, WorkerInternals, Cancel, ctxDone, pacerVars, workerVars,
        gateVars, preTestVars, signalVars, lifeVars, iterVars, begunVars, tallyVars
<1>1. CASE QuorumIsReached(next)
  BY <1>1 DEF QuorumIsReached
<1>2. CASE QuorumIsAborted
  BY <1>2 DEF QuorumIsAborted
<1>3. CASE AwaitCancelled
  BY <1>3 DEF AwaitCancelled
<1>4. CASE GraceExpires(next)
  BY <1>4 DEF GraceExpires
<1>5. CASE PublishGraceAbort
  BY <1>5 DEF PublishGraceAbort, PublishAbort, NoAbort
<1>6. CASE CloseGraceAbort
  BY <1>6 DEF CloseGraceAbort, CloseAbort
<1>7. CASE GraceAlreadyAborted
  BY <1>7 DEF GraceAlreadyAborted, AbortAlreadyDone
<1>8. CASE WaitGroupDrained
  BY <1>8 DEF WaitGroupDrained
<1>9. CASE DrainedEarly
  BY <1>9 DEF DrainedEarly, ReturnToExecutor
<1>10. CASE DrainedLate
  BY <1>10 DEF DrainedLate, ReturnToExecutor
<1>11. CASE DrainTimesOut
  BY <1>11 DEF DrainTimesOut
<1>12. CASE ParentCancels
  BY <1>12 DEF ParentCancels
<1>13. CASE GiveUpStartup(S)
  BY <1>13 DEF GiveUpStartup
<1> QED
  BY <1>1, <1>2, <1>3, <1>4, <1>5, <1>6, <1>7, <1>8, <1>9, <1>10, <1>11, <1>12, <1>13 DEF RunMove, AwaitStep, DrainStep

\* A step that is an engine's own leaves the gate alone, if it is not where
\* only AwaitQuorum goes.
LEMMA GateFrame ==
  ASSUME GateInv, UNCHANGED <<gateVars, pc, vote, gated, begun, graceFired>>,
         ret' \in {ret, "context"},
         ppc' \notin {"abort", "closeAbort"}, ppc' \in {"await", "giveup"} => UseGate
  PROVE  GateInv'
BY DEF GateInv, GateWorkerInv, QuorumReached, QuorumImpossible, ReadyVotes, FailedVotes, gateVars

\* So does spawning virtual users, as long as those that pass the gate fit
\* its target and the others come after the quorum.
LEMMA GateSpawn ==
  ASSUME PacerTypeOK, GateInv, NEW S \in SUBSET VUs, \A v \in S : pc[v] = "unborn",
         pc' = [v \in VUs |-> IF v \in S THEN "born" ELSE pc[v]],
         gated' \in SUBSET VUs, gated \subseteq gated', Cardinality(gated') <= GateTarget,
         \A v \in gated' : v \in gated \/ v \in S,
         UseGate => QuorumReached \/ S \subseteq gated',
         UNCHANGED <<gateVars, vote, begun, graceFired, ret>>,
         ppc' \notin {"abort", "closeAbort"}, ppc' \in {"await", "giveup"} => UseGate
  PROVE  GateInv'
<1>1. UNCHANGED <<ReadyVotes, FailedVotes>>
  BY DEF ReadyVotes, FailedVotes
<1>2. \A v \in VUs : GateWorkerInv(v)'
  BY DEF GateInv, GateWorkerInv, QuorumReached, QuorumImpossible, InIteration, gateVars
<1> QED BY <1>1, <1>2 DEF GateInv, QuorumReached, QuorumImpossible, gateVars

\* What the gate's invariant is for.
LEMMA GateProperties ==
  ASSUME PacerTypeOK, GateInv
  PROVE  /\ GateDecidesOnce
         /\ NoIterationBeforeQuorum
         /\ DropoutRunsNothing
         /\ DropoutErrorShowsShortfall
<1>1. abortCh /\ ~graceFired => QuorumImpossible
  BY DEF GateInv, PacerTypeOK, WorkerTypeOK, GateTypeOK
<1>2. begun > 0 \/ begun = 0
  BY Assumptions DEF PacerTypeOK, WorkerTypeOK, SharedAssumptions
<1>3. GateDecidesOnce
  BY <1>1, QuorumExclusive DEF GateInv, GateDecidesOnce
<1>4. NoIterationBeforeQuorum
  BY DEF GateInv, NoIterationBeforeQuorum
<1>5. DropoutRunsNothing
  BY <1>1, <1>2, QuorumExclusive DEF GateInv, DropoutRunsNothing
<1>6. DropoutErrorShowsShortfall
  BY DEF GateInv, DropoutErrorShowsShortfall
<1> QED BY <1>3, <1>4, <1>5, <1>6

-----------------------------------------------------------------------------
(* The end of the run.                                                     *)

\* Every step of a virtual user starts from a place where it runs.
LEMMA MoverIsNotIdle == ASSUME NEW v \in VUs, WorkerMove(v) PROVE pc[v] \notin Idle
<1> USE DEF Goto, Idle, InIteration
<1>1. CASE Start(v)
  BY <1>1 DEF Start
<1>2. CASE PreTestSucceeds(v)
  BY <1>2 DEF PreTestSucceeds
<1>3. CASE PreTestFailsForGood(v)
  BY <1>3 DEF PreTestFailsForGood, GiveUp
<1>4. CASE PreTestFailsAndRetries(v)
  BY <1>4 DEF PreTestFailsAndRetries
<1>5. CASE BackoffElapses(v)
  BY <1>5 DEF BackoffElapses
<1>6. CASE BackoffInterrupted(v)
  BY <1>6 DEF BackoffInterrupted, GiveUp
<1>7. CASE RecordFailed(v)
  BY <1>7 DEF RecordFailed
<1>8. CASE TriggerDropoutAbort(v)
  BY <1>8 DEF TriggerDropoutAbort
<1>9. CASE DropoutAlreadyAborted(v)
  BY <1>9 DEF DropoutAlreadyAborted
<1>10. CASE CloseDropoutAbort(v)
  BY <1>10 DEF CloseDropoutAbort
<1>11. CASE RecordReady(v)
  BY <1>11 DEF RecordReady
<1>12. CASE ReleaseGate(v)
  BY <1>12 DEF ReleaseGate
<1>13. CASE EnterThroughGate(v)
  BY <1>13 DEF EnterThroughGate
<1>14. CASE TurnBackAtGate(v)
  BY <1>14 DEF TurnBackAtGate
<1>15. CASE BeginIteration(v)
  BY <1>15 DEF BeginIteration
<1>16. CASE LeaveLoop(v)
  BY <1>16 DEF LeaveLoop
<1>23. CASE PassLoopHead(v)
  BY <1>23 DEF PassLoopHead
<1>17. CASE DeadlinePasses(v)
  BY <1>17 DEF DeadlinePasses
<1>18. CASE RunVUReturns(v)
  BY <1>18 DEF RunVUReturns
<1>19. CASE RecordIterationResult(v)
  BY <1>19 DEF RecordIterationResult
<1>20. CASE AfterTest(v)
  BY <1>20 DEF AfterTest
<1>21. CASE Deregister(v)
  BY <1>21 DEF Deregister
<1>22. CASE Done(v)
  BY <1>22 DEF Done
<1> QED
  BY <1>1, <1>2, <1>3, <1>4, <1>5, <1>6, <1>7, <1>8, <1>9, <1>10, <1>11, <1>12, <1>13, <1>14, <1>15, <1>16, <1>17, <1>18, <1>19, <1>20, <1>21, <1>22, <1>23
     DEF WorkerMove, HookStep, EngineStep

\* Every step of a virtual user keeps the invariant of the drain; once wg has
\* drained, no virtual user has a step left.
LEMMA DrainWorker ==
  ASSUME PacerTypeOK, DrainInv, NEW v \in VUs, WorkerMove(v), UNCHANGED pacerVars
  PROVE  DrainInv'
<1> USE DEF Goto, lifeVars, signalVars
<1>a. pc \in [VUs -> WorkerPC]
  BY DEF PacerTypeOK, WorkerTypeOK
<1>b. IsFiniteSet(OnGauge) /\ Cardinality(OnGauge) \in Nat
  <2>1. OnGauge \in SUBSET VUs
    BY DEF OnGauge
  <2> QED BY <2>1, Assumptions, FS_Subset, FS_CardinalityType DEF SharedAssumptions
<1>c. ~waitCh /\ ppc # "returned"
  BY MoverIsNotIdle DEF DrainInv, AllDone
<1> DEFINE Follows == activeGauge' = Cardinality(OnGauge') /\ afterDone' = PastAfter' /\ cancelledBy' = cancelledBy
<1>d. ASSUME Follows PROVE DrainInv'
  BY <1>c, <1>d DEF DrainInv, pacerVars
<1>e. ASSUME UNCHANGED <<OnGauge, PastAfter, activeGauge, afterDone, cancelledBy>> PROVE Follows
  BY <1>e DEF DrainInv
<1> USE DEF OnGauge, PastAfter, WorkerPC, InIteration
<1>1. CASE Start(v)
  <2>1. OnGauge' = OnGauge \cup {v} /\ v \notin OnGauge /\ PastAfter' = PastAfter
    BY <1>a, <1>1 DEF Start
  <2> HIDE DEF OnGauge, PastAfter
  <2>2. Cardinality(OnGauge \cup {v}) = Cardinality(OnGauge) + 1
    BY <1>b, <2>1, FS_AddElement
  <2> QED BY <1>1, <1>d, <2>1, <2>2 DEF Start, DrainInv
<1>2. CASE PreTestSucceeds(v)
  <2>1. UNCHANGED <<OnGauge, PastAfter, activeGauge, afterDone, cancelledBy>>
    BY <1>a, <1>2 DEF PreTestSucceeds
  <2> HIDE DEF OnGauge, PastAfter
  <2> QED BY <1>d, <1>e, <2>1
<1>3. CASE PreTestFailsForGood(v)
  <2>1. UNCHANGED <<OnGauge, PastAfter, activeGauge, afterDone, cancelledBy>>
    BY <1>a, <1>3 DEF PreTestFailsForGood, GiveUp
  <2> HIDE DEF OnGauge, PastAfter
  <2> QED BY <1>d, <1>e, <2>1
<1>4. CASE PreTestFailsAndRetries(v)
  <2>1. UNCHANGED <<OnGauge, PastAfter, activeGauge, afterDone, cancelledBy>>
    BY <1>a, <1>4 DEF PreTestFailsAndRetries
  <2> HIDE DEF OnGauge, PastAfter
  <2> QED BY <1>d, <1>e, <2>1
<1>5. CASE BackoffElapses(v)
  <2>1. UNCHANGED <<OnGauge, PastAfter, activeGauge, afterDone, cancelledBy>>
    BY <1>a, <1>5 DEF BackoffElapses
  <2> HIDE DEF OnGauge, PastAfter
  <2> QED BY <1>d, <1>e, <2>1
<1>6. CASE BackoffInterrupted(v)
  <2>1. UNCHANGED <<OnGauge, PastAfter, activeGauge, afterDone, cancelledBy>>
    BY <1>a, <1>6 DEF BackoffInterrupted, GiveUp
  <2> HIDE DEF OnGauge, PastAfter
  <2> QED BY <1>d, <1>e, <2>1
<1>7. CASE RecordFailed(v)
  <2>1. UNCHANGED <<OnGauge, PastAfter, activeGauge, afterDone, cancelledBy>>
    BY <1>a, <1>7 DEF RecordFailed
  <2> HIDE DEF OnGauge, PastAfter
  <2> QED BY <1>d, <1>e, <2>1
<1>8. CASE TriggerDropoutAbort(v)
  <2>1. UNCHANGED <<OnGauge, PastAfter, activeGauge, afterDone, cancelledBy>>
    BY <1>a, <1>8 DEF TriggerDropoutAbort
  <2> HIDE DEF OnGauge, PastAfter
  <2> QED BY <1>d, <1>e, <2>1
<1>9. CASE DropoutAlreadyAborted(v)
  <2>1. UNCHANGED <<OnGauge, PastAfter, activeGauge, afterDone, cancelledBy>>
    BY <1>a, <1>9 DEF DropoutAlreadyAborted
  <2> HIDE DEF OnGauge, PastAfter
  <2> QED BY <1>d, <1>e, <2>1
<1>10. CASE CloseDropoutAbort(v)
  <2>1. UNCHANGED <<OnGauge, PastAfter, activeGauge, afterDone, cancelledBy>>
    BY <1>a, <1>10 DEF CloseDropoutAbort
  <2> HIDE DEF OnGauge, PastAfter
  <2> QED BY <1>d, <1>e, <2>1
<1>11. CASE RecordReady(v)
  <2>1. UNCHANGED <<OnGauge, PastAfter, activeGauge, afterDone, cancelledBy>>
    BY <1>a, <1>11 DEF RecordReady
  <2> HIDE DEF OnGauge, PastAfter
  <2> QED BY <1>d, <1>e, <2>1
<1>12. CASE ReleaseGate(v)
  <2>1. UNCHANGED <<OnGauge, PastAfter, activeGauge, afterDone, cancelledBy>>
    BY <1>a, <1>12 DEF ReleaseGate
  <2> HIDE DEF OnGauge, PastAfter
  <2> QED BY <1>d, <1>e, <2>1
<1>13. CASE EnterThroughGate(v)
  <2>1. UNCHANGED <<OnGauge, PastAfter, activeGauge, afterDone, cancelledBy>>
    BY <1>a, <1>13 DEF EnterThroughGate
  <2> HIDE DEF OnGauge, PastAfter
  <2> QED BY <1>d, <1>e, <2>1
<1>14. CASE TurnBackAtGate(v)
  <2>1. UNCHANGED <<OnGauge, PastAfter, activeGauge, afterDone, cancelledBy>>
    BY <1>a, <1>14 DEF TurnBackAtGate
  <2> HIDE DEF OnGauge, PastAfter
  <2> QED BY <1>d, <1>e, <2>1
<1>15. CASE BeginIteration(v)
  <2>1. UNCHANGED <<OnGauge, PastAfter, activeGauge, afterDone, cancelledBy>>
    BY <1>a, <1>15 DEF BeginIteration
  <2> HIDE DEF OnGauge, PastAfter
  <2> QED BY <1>d, <1>e, <2>1
<1>16. CASE LeaveLoop(v)
  <2>1. UNCHANGED <<OnGauge, PastAfter, activeGauge, afterDone, cancelledBy>>
    BY <1>a, <1>16 DEF LeaveLoop
  <2> HIDE DEF OnGauge, PastAfter
  <2> QED BY <1>d, <1>e, <2>1
<1>23. CASE PassLoopHead(v)
  <2>1. UNCHANGED <<OnGauge, PastAfter, activeGauge, afterDone, cancelledBy>>
    BY <1>a, <1>23 DEF PassLoopHead
  <2> HIDE DEF OnGauge, PastAfter
  <2> QED BY <1>d, <1>e, <2>1
<1>17. CASE DeadlinePasses(v)
  <2>1. UNCHANGED <<OnGauge, PastAfter, activeGauge, afterDone, cancelledBy>>
    BY <1>a, <1>17 DEF DeadlinePasses
  <2> HIDE DEF OnGauge, PastAfter
  <2> QED BY <1>d, <1>e, <2>1
<1>18. CASE RunVUReturns(v)
  <2>1. UNCHANGED <<OnGauge, PastAfter, activeGauge, afterDone, cancelledBy>>
    BY <1>a, <1>18 DEF RunVUReturns
  <2> HIDE DEF OnGauge, PastAfter
  <2> QED BY <1>d, <1>e, <2>1
<1>19. CASE RecordIterationResult(v)
  <2>1. UNCHANGED <<OnGauge, PastAfter, activeGauge, afterDone, cancelledBy>>
    BY <1>a, <1>19 DEF RecordIterationResult
  <2> HIDE DEF OnGauge, PastAfter
  <2> QED BY <1>d, <1>e, <2>1
<1>20. CASE AfterTest(v)
  <2>1. OnGauge' = OnGauge /\ PastAfter' = PastAfter \cup {v}
    BY <1>a, <1>20 DEF AfterTest
  <2> HIDE DEF OnGauge, PastAfter
  <2> QED BY <1>20, <1>d, <2>1 DEF AfterTest, DrainInv
<1>21. CASE Deregister(v)
  <2>1. OnGauge' = OnGauge \ {v} /\ v \in OnGauge /\ PastAfter' = PastAfter
    BY <1>a, <1>21 DEF Deregister
  <2> HIDE DEF OnGauge, PastAfter
  <2>2. Cardinality(OnGauge \ {v}) = Cardinality(OnGauge) - 1
    BY <1>b, <2>1, FS_RemoveElement
  <2> QED BY <1>21, <1>d, <2>1, <2>2 DEF Deregister, DrainInv
<1>22. CASE Done(v)
  <2>1. UNCHANGED <<OnGauge, PastAfter, activeGauge, afterDone, cancelledBy>>
    BY <1>a, <1>22 DEF Done
  <2> HIDE DEF OnGauge, PastAfter
  <2> QED BY <1>d, <1>e, <2>1
<1> QED
  BY <1>1, <1>2, <1>3, <1>4, <1>5, <1>6, <1>7, <1>8, <1>9, <1>10, <1>11, <1>12, <1>13, <1>14, <1>15, <1>16, <1>17, <1>18, <1>19, <1>20, <1>21, <1>22, <1>23
     DEF WorkerMove, HookStep, EngineStep

\* Every shared step of Run keeps the invariant of the drain.
LEMMA DrainRun ==
  ASSUME DrainInv, NEW next, next \notin {"drain", "drainWait", "returned"},
         NEW S \in SUBSET VUs, RunMove(next, S)
  PROVE  DrainInv'
<1>0. UNCHANGED pc => UNCHANGED <<OnGauge, PastAfter>>
  BY DEF OnGauge, PastAfter
<1> USE DEF DrainInv, AllDone, Idle, PacerGoto, WorkerInternals, Cancel, ctxDone, pacerVars, workerVars,
        gateVars, preTestVars, signalVars, lifeVars, iterVars, begunVars, tallyVars
<1>1. CASE QuorumIsReached(next)
  BY <1>0, <1>1 DEF QuorumIsReached
<1>2. CASE QuorumIsAborted
  BY <1>0, <1>2 DEF QuorumIsAborted
<1>3. CASE AwaitCancelled
  BY <1>0, <1>3 DEF AwaitCancelled
<1>4. CASE GraceExpires(next)
  BY <1>0, <1>4 DEF GraceExpires
<1>5. CASE PublishGraceAbort
  BY <1>0, <1>5 DEF PublishGraceAbort, PublishAbort, NoAbort
<1>6. CASE CloseGraceAbort
  BY <1>0, <1>6 DEF CloseGraceAbort, CloseAbort
<1>7. CASE GraceAlreadyAborted
  BY <1>0, <1>7 DEF GraceAlreadyAborted, AbortAlreadyDone
<1>8. CASE WaitGroupDrained
  BY <1>0, <1>8 DEF WaitGroupDrained
<1>9. CASE DrainedEarly
  BY <1>0, <1>9 DEF DrainedEarly, ReturnToExecutor
<1>10. CASE DrainedLate
  BY <1>0, <1>10 DEF DrainedLate, ReturnToExecutor
<1>11. CASE DrainTimesOut
  BY <1>0, <1>11 DEF DrainTimesOut
<1>12. CASE ParentCancels
  BY <1>0, <1>12 DEF ParentCancels
<1>13. CASE GiveUpStartup(S)
  BY <1>0, <1>13 DEF GiveUpStartup
<1> QED
  BY <1>1, <1>2, <1>3, <1>4, <1>5, <1>6, <1>7, <1>8, <1>9, <1>10, <1>11, <1>12, <1>13 DEF RunMove, AwaitStep, DrainStep

\* A step that is an engine's own may start the drain but not end it, and may
\* blame the context only once the caller cancelled it.
LEMMA DrainFrame ==
  ASSUME DrainInv, UNCHANGED <<pc, activeGauge, afterDone, cancelledBy, waitCh>>,
         ppc \notin {"drain", "drainWait", "returned"}, ppc' # "returned",
         ret' = "context" => ret = "context" \/ ctxDone
  PROVE  DrainInv'
<1>1. UNCHANGED <<OnGauge, PastAfter>>
  BY DEF OnGauge, PastAfter
<1> QED BY <1>1 DEF DrainInv, AllDone, ctxDone

\* Spawning does not touch the gauge: the goroutine itself does that.
LEMMA DrainSpawn ==
  ASSUME PacerTypeOK, DrainInv, NEW S \in SUBSET VUs, \A v \in S : pc[v] = "unborn",
         pc' = [v \in VUs |-> IF v \in S THEN "born" ELSE pc[v]],
         UNCHANGED <<activeGauge, afterDone, cancelledBy, waitCh, ret>>,
         ppc \notin {"drain", "drainWait", "returned"}, ppc' # "returned"
  PROVE  DrainInv'
<1>1. UNCHANGED <<OnGauge, PastAfter>>
  BY DEF OnGauge, PastAfter
<1> QED BY <1>1 DEF DrainInv

\* What the drain's invariant is for.
LEMMA DrainProperties == ASSUME PacerTypeOK, DrainInv PROVE ReturnsAfterEveryWorker
<1> SUFFICES ASSUME ppc = "returned"
             PROVE  AllDone /\ afterDone = {v \in VUs : pc[v] = "gone"} /\ activeGauge = 0
  BY DEF ReturnsAfterEveryWorker
<1>1. AllDone
  BY DEF DrainInv
<1>2. OnGauge = {} /\ PastAfter = {v \in VUs : pc[v] = "gone"}
  BY <1>1 DEF AllDone, Idle, OnGauge, PastAfter
<1> QED BY <1>1, <1>2, FS_EmptySet DEF DrainInv

-----------------------------------------------------------------------------
(* The telemetry.                                                          *)

\* Those that gave up are finitely many.
LEMMA GaveUpFinite == IsFiniteSet(GaveUp) /\ Cardinality(GaveUp) \in Nat
<1>1. GaveUp \in SUBSET VUs
  BY DEF GaveUp
<1> QED BY <1>1, Assumptions, FS_Subset, FS_CardinalityType DEF SharedAssumptions

\* Initially nobody gave up.
LEMMA TelemetryInitially == ASSUME WorkerInit PROVE TelemetryInv
<1>1. GaveUp = {}
  BY DEF WorkerInit, GaveUp
<1> QED BY <1>1, FS_EmptySet DEF WorkerInit, TelemetryInv

\* A step that shuts down, or that adds nobody to those that gave up and keeps
\* the difference of the counters, keeps the invariant.
LEMMA TelemetryFrame ==
  ASSUME PacerTypeOK, TelemetryInv, GaveUp' \subseteq GaveUp,
         pretestErrors' - vuRestarts' = pretestErrors - vuRestarts,
         stopped \subseteq stopped', ctxDone => ctxDone'
  PROVE  TelemetryInv'
<1>1. Cardinality(GaveUp') <= Cardinality(GaveUp) /\ Cardinality(GaveUp') \in Nat
  BY GaveUpFinite, FS_Subset, FS_CardinalityType
<1>2. pretestErrors \in Nat /\ vuRestarts \in Nat
  BY DEF PacerTypeOK, WorkerTypeOK
<1>3. CASE ctxDone \/ stopped # {}
  BY <1>3 DEF TelemetryInv
<1>4. CASE Cardinality(GaveUp) <= pretestErrors - vuRestarts
  BY <1>1, <1>2, <1>4, GaveUpFinite DEF TelemetryInv
<1> QED BY <1>3, <1>4 DEF TelemetryInv

\* No virtual user closes a stop channel or cancels the run.
LEMMA WorkersDoNotStop == ASSUME NEW v \in VUs, WorkerMove(v) PROVE UNCHANGED signalVars
BY DEF WorkerMove, HookStep, EngineStep, Start, PreTestSucceeds, PreTestFailsForGood, PreTestFailsAndRetries,
   BackoffElapses, BackoffInterrupted, RecordFailed, TriggerDropoutAbort, DropoutAlreadyAborted,
   CloseDropoutAbort, RecordReady, ReleaseGate, EnterThroughGate, TurnBackAtGate, RunVUReturns,
   RecordIterationResult, AfterTest, Deregister, Done, DeadlinePasses, BeginIteration, PassLoopHead, LeaveLoop

\* Every step of a virtual user keeps the telemetry's invariant: it is counted
\* before it gives up, unless the shutdown interrupts its retries.
LEMMA TelemetryWorker ==
  ASSUME PacerTypeOK, TelemetryInv, NEW v \in VUs, WorkerMove(v)
  PROVE  TelemetryInv'
<1>a. /\ pc \in [VUs -> WorkerPC] /\ vote \in [VUs -> {"none", "ready", "failed"}]
      /\ pretestErrors \in Nat /\ vuRestarts \in Nat
  BY DEF PacerTypeOK, WorkerTypeOK
<1>b. UNCHANGED signalVars
  BY WorkersDoNotStop
<1>c. ASSUME GaveUp' \subseteq GaveUp, pretestErrors' - vuRestarts' = pretestErrors - vuRestarts
      PROVE  TelemetryInv'
  BY <1>b, <1>c, TelemetryFrame DEF signalVars, ctxDone
<1> USE DEF Goto, preTestVars, lifeVars, GaveUp
<1>1. CASE Start(v)
  BY <1>a, <1>c, <1>1 DEF Start
<1>2. CASE PreTestSucceeds(v)
  BY <1>a, <1>c, <1>2 DEF PreTestSucceeds
<1>3. CASE PreTestFailsForGood(v)
  <2>1. GaveUp' \subseteq GaveUp \cup {v} /\ pretestErrors' = pretestErrors + 1 /\ vuRestarts' = vuRestarts
    BY <1>a, <1>3 DEF PreTestFailsForGood, GiveUp
  <2> HIDE DEF GaveUp
  <2>2. IsFiniteSet(GaveUp \cup {v}) /\ Cardinality(GaveUp \cup {v}) <= Cardinality(GaveUp) + 1
        /\ Cardinality(GaveUp \cup {v}) \in Nat
    <3>1. CASE v \in GaveUp
      <4>1. GaveUp \cup {v} = GaveUp
        BY <3>1
      <4> QED BY <4>1, GaveUpFinite
    <3>2. CASE v \notin GaveUp
      BY <3>2, GaveUpFinite, FS_AddElement
    <3> QED BY <3>1, <3>2
  <2>3. Cardinality(GaveUp') <= Cardinality(GaveUp) + 1 /\ Cardinality(GaveUp') \in Nat
    BY <2>1, <2>2, GaveUpFinite, FS_Subset, FS_CardinalityType
  <2>4. CASE ctxDone \/ stopped # {}
    BY <1>b, <2>4 DEF TelemetryInv, ctxDone, signalVars
  <2>5. CASE Cardinality(GaveUp) <= pretestErrors - vuRestarts
    BY <1>a, <2>1, <2>3, <2>5, GaveUpFinite DEF TelemetryInv
  <2> QED BY <2>4, <2>5 DEF TelemetryInv
<1>4. CASE PreTestFailsAndRetries(v)
  BY <1>a, <1>c, <1>4 DEF PreTestFailsAndRetries
<1>5. CASE BackoffElapses(v)
  BY <1>a, <1>c, <1>5 DEF BackoffElapses
<1>6. CASE BackoffInterrupted(v)
  BY <1>b, <1>6 DEF BackoffInterrupted, TelemetryInv, ctxDone, signalVars
<1>7. CASE RecordFailed(v)
  BY <1>a, <1>c, <1>7 DEF RecordFailed
<1>8. CASE TriggerDropoutAbort(v)
  BY <1>a, <1>c, <1>8 DEF TriggerDropoutAbort
<1>9. CASE DropoutAlreadyAborted(v)
  BY <1>a, <1>c, <1>9 DEF DropoutAlreadyAborted
<1>10. CASE CloseDropoutAbort(v)
  BY <1>a, <1>c, <1>10 DEF CloseDropoutAbort
<1>11. CASE RecordReady(v)
  BY <1>a, <1>c, <1>11 DEF RecordReady
<1>12. CASE ReleaseGate(v)
  BY <1>a, <1>c, <1>12 DEF ReleaseGate
<1>13. CASE EnterThroughGate(v)
  BY <1>a, <1>c, <1>13 DEF EnterThroughGate
<1>14. CASE TurnBackAtGate(v)
  BY <1>a, <1>c, <1>14 DEF TurnBackAtGate
<1>15. CASE BeginIteration(v)
  BY <1>a, <1>c, <1>15 DEF BeginIteration
<1>16. CASE LeaveLoop(v)
  BY <1>a, <1>c, <1>16 DEF LeaveLoop
<1>23. CASE PassLoopHead(v)
  BY <1>a, <1>c, <1>23 DEF PassLoopHead
<1>17. CASE DeadlinePasses(v)
  BY <1>a, <1>c, <1>17 DEF DeadlinePasses
<1>18. CASE RunVUReturns(v)
  BY <1>a, <1>c, <1>18 DEF RunVUReturns
<1>19. CASE RecordIterationResult(v)
  BY <1>a, <1>c, <1>19 DEF RecordIterationResult
<1>20. CASE AfterTest(v)
  BY <1>a, <1>c, <1>20 DEF AfterTest
<1>21. CASE Deregister(v)
  BY <1>a, <1>c, <1>21 DEF Deregister
<1>22. CASE Done(v)
  BY <1>a, <1>c, <1>22 DEF Done
<1> QED
  BY <1>1, <1>2, <1>3, <1>4, <1>5, <1>6, <1>7, <1>8, <1>9, <1>10, <1>11, <1>12, <1>13, <1>14, <1>15, <1>16, <1>17, <1>18, <1>19, <1>20, <1>21, <1>22, <1>23
     DEF WorkerMove, HookStep, EngineStep

\* Run casts no vote and counts no PreTest; what it cancels or stops stays so.
LEMMA TelemetryRun ==
  ASSUME PacerTypeOK, TelemetryInv, NEW next, NEW S \in SUBSET VUs, RunMove(next, S)
  PROVE  TelemetryInv'
<1>1. UNCHANGED <<pc, vote, preTestVars>>
  BY DEF RunMove, AwaitStep, QuorumIsReached, QuorumIsAborted, AwaitCancelled, GraceExpires, PublishGraceAbort,
     CloseGraceAbort, GraceAlreadyAborted, DrainStep, WaitGroupDrained, DrainedEarly, DrainedLate, ReturnToExecutor,
     DrainTimesOut, ParentCancels, GiveUpStartup, WorkerInternals, workerVars, lifeVars
<1>2. stopped \subseteq stopped' /\ (ctxDone => ctxDone')
  BY DEF RunMove, AwaitStep, QuorumIsReached, QuorumIsAborted, AwaitCancelled, GraceExpires, PublishGraceAbort,
     CloseGraceAbort, GraceAlreadyAborted, DrainStep, WaitGroupDrained, DrainedEarly, DrainedLate, ReturnToExecutor,
     DrainTimesOut, ParentCancels, GiveUpStartup, WorkerInternals, workerVars, signalVars, Cancel, ctxDone
<1> QED BY <1>1, <1>2, TelemetryFrame DEF GaveUp, preTestVars

\* A virtual user that is spawned has given nothing up.
LEMMA TelemetrySpawn ==
  ASSUME PacerTypeOK, TelemetryInv, NEW S \in SUBSET VUs,
         pc' = [v \in VUs |-> IF v \in S THEN "born" ELSE pc[v]],
         UNCHANGED <<vote, preTestVars, signalVars>>
  PROVE  TelemetryInv'
<1>1. GaveUp' \subseteq GaveUp
  BY DEF GaveUp
<1> QED BY <1>1, TelemetryFrame DEF preTestVars, signalVars, ctxDone

\* What the telemetry's invariant is for: a dropout was decided by more votes
\* than the quorum can absorb, and each of them was counted.
LEMMA TelemetryProperties ==
  ASSUME PacerTypeOK, GateInv, TelemetryInv
  PROVE  DropoutIsBackedByTelemetry
<1> SUFFICES ASSUME abortErr.cause = "dropout", ~ctxDone, stopped = {}
             PROVE  pretestErrors - vuRestarts > MaxAllowedFailures
  BY DEF DropoutIsBackedByTelemetry
<1>1. FailedVotes \subseteq GaveUp
  BY DEF FailedVotes, GaveUp
<1>2. Cardinality(FailedVotes) <= Cardinality(GaveUp) /\ Cardinality(FailedVotes) \in Nat
  BY <1>1, GaveUpFinite, FS_Subset, FS_CardinalityType
<1>3. Cardinality(FailedVotes) > MaxAllowedFailures /\ MaxAllowedFailures \in Int
  BY RequiredRange, Assumptions DEF GateInv, QuorumImpossible, MaxAllowedFailures, SharedAssumptions
<1>4. Cardinality(GaveUp) <= pretestErrors - vuRestarts /\ pretestErrors \in Nat /\ vuRestarts \in Nat
  BY DEF TelemetryInv, PacerTypeOK, WorkerTypeOK
<1> QED BY <1>2, <1>3, <1>4, GaveUpFinite

-----------------------------------------------------------------------------
(* The tallies.                                                            *)

\* The iterations in flight are finitely many.
LEMMA InFlightFinite == IsFiniteSet(InFlight) /\ Cardinality(InFlight) \in Nat
<1>1. InFlight \in SUBSET VUs
  BY DEF InFlight
<1> QED BY <1>1, Assumptions, FS_Subset, FS_CardinalityType DEF SharedAssumptions

\* Initially nothing is in flight.
LEMMA TallyInitially == ASSUME WorkerInit PROVE TallyInv
<1>1. InFlight = {}
  BY DEF WorkerInit, InFlight, InIteration
<1> QED BY <1>1, FS_EmptySet DEF WorkerInit, TallyInv

\* Every step of a virtual user keeps the tallies in balance.
LEMMA TallyWorker ==
  ASSUME PacerTypeOK, TallyInv, NEW v \in VUs, WorkerMove(v)
  PROVE  TallyInv'
<1>a. /\ pc \in [VUs -> WorkerPC]
      /\ begun \in Nat /\ interrupted \in Nat
      /\ iterTotal \in Nat /\ iterFailed \in Nat /\ iterTimeout \in Nat /\ vuPanics \in Nat
  BY Assumptions DEF PacerTypeOK, WorkerTypeOK, SharedAssumptions
<1>b. ASSUME UNCHANGED <<InFlight, begun, tallyVars>> PROVE TallyInv'
  BY <1>b DEF TallyInv, tallyVars
<1> USE DEF Goto, iterVars, begunVars
<1>1. CASE Start(v)
  BY <1>a, <1>b, <1>1 DEF Start, InFlight, InIteration
<1>2. CASE PreTestSucceeds(v)
  BY <1>a, <1>b, <1>2 DEF PreTestSucceeds, InFlight, InIteration
<1>3. CASE PreTestFailsForGood(v)
  BY <1>a, <1>b, <1>3 DEF PreTestFailsForGood, GiveUp, InFlight, InIteration
<1>4. CASE PreTestFailsAndRetries(v)
  BY <1>a, <1>b, <1>4 DEF PreTestFailsAndRetries, InFlight, InIteration
<1>5. CASE BackoffElapses(v)
  BY <1>a, <1>b, <1>5 DEF BackoffElapses, InFlight, InIteration
<1>6. CASE BackoffInterrupted(v)
  BY <1>a, <1>b, <1>6 DEF BackoffInterrupted, GiveUp, InFlight, InIteration
<1>7. CASE RecordFailed(v)
  BY <1>a, <1>b, <1>7 DEF RecordFailed, InFlight, InIteration
<1>8. CASE TriggerDropoutAbort(v)
  BY <1>a, <1>b, <1>8 DEF TriggerDropoutAbort, InFlight, InIteration
<1>9. CASE DropoutAlreadyAborted(v)
  BY <1>a, <1>b, <1>9 DEF DropoutAlreadyAborted, InFlight, InIteration
<1>10. CASE CloseDropoutAbort(v)
  BY <1>a, <1>b, <1>10 DEF CloseDropoutAbort, InFlight, InIteration
<1>11. CASE RecordReady(v)
  BY <1>a, <1>b, <1>11 DEF RecordReady, InFlight, InIteration
<1>12. CASE ReleaseGate(v)
  BY <1>a, <1>b, <1>12 DEF ReleaseGate, InFlight, InIteration
<1>13. CASE EnterThroughGate(v)
  BY <1>a, <1>b, <1>13 DEF EnterThroughGate, InFlight, InIteration
<1>14. CASE TurnBackAtGate(v)
  BY <1>a, <1>b, <1>14 DEF TurnBackAtGate, InFlight, InIteration
<1>15. CASE BeginIteration(v)
  <2>1. v \notin InFlight /\ InFlight' = InFlight \cup {v}
    BY <1>a, <1>15 DEF BeginIteration, InFlight, InIteration
  <2>2. Cardinality(InFlight \cup {v}) = Cardinality(InFlight) + 1
    BY <2>1, InFlightFinite, FS_AddElement
  <2> QED BY <1>a, <1>15, <2>1, <2>2, InFlightFinite DEF BeginIteration, TallyInv, tallyVars
<1>16. CASE LeaveLoop(v)
  BY <1>a, <1>b, <1>16 DEF LeaveLoop, InFlight, InIteration
<1>23. CASE PassLoopHead(v)
  BY <1>a, <1>b, <1>23 DEF PassLoopHead, InFlight, InIteration
<1>17. CASE DeadlinePasses(v)
  BY <1>a, <1>b, <1>17 DEF DeadlinePasses, InFlight, InIteration
<1>18. CASE RunVUReturns(v)
  BY <1>a, <1>b, <1>18 DEF RunVUReturns, InFlight, InIteration
<1>19. CASE RecordIterationResult(v)
  <2> DEFINE class == Classify(v)
  <2>1. class \in {"panic", "success", "discarded", "timeout", "failure"}
    BY DEF Classify
  <2> HIDE DEF class
  <2>2. /\ interrupted' = Tick(interrupted, class, {"discarded"})
        /\ iterTotal'   = Tick(iterTotal, class, {"success", "failure", "timeout", "panic"})
        /\ iterFailed'  = Tick(iterFailed, class, {"failure", "timeout", "panic"})
        /\ iterTimeout' = Tick(iterTimeout, class, {"timeout"})
        /\ vuPanics'    = Tick(vuPanics, class, {"panic"})
        /\ begun' = begun
    BY <1>19 DEF RecordIterationResult, class
  <2>3. iterTotal' + interrupted' = iterTotal + interrupted + 1
    BY <1>a, <2>1, <2>2 DEF Tick
  <2>4. iterTimeout' + vuPanics' <= iterFailed' /\ iterFailed' <= iterTotal'
    BY <1>a, <2>1, <2>2 DEF Tick, TallyInv
  <2>5. v \in InFlight /\ InFlight' = InFlight \ {v}
    BY <1>a, <1>19 DEF RecordIterationResult, InFlight, InIteration
  <2>6. Cardinality(InFlight \ {v}) = Cardinality(InFlight) - 1
    BY <2>5, InFlightFinite, FS_RemoveElement
  <2>7. iterTotal' \in Nat /\ interrupted' \in Nat
    BY <1>a, <2>2 DEF Tick
  <2>8. begun = iterTotal + interrupted + Cardinality(InFlight)
    BY DEF TallyInv
  <2>9. begun' = iterTotal' + interrupted' + Cardinality(InFlight)'
    BY <1>a, <2>2, <2>3, <2>5, <2>6, <2>7, <2>8, InFlightFinite
  <2> QED BY <2>4, <2>9 DEF TallyInv
<1>20. CASE AfterTest(v)
  BY <1>a, <1>b, <1>20 DEF AfterTest, InFlight, InIteration
<1>21. CASE Deregister(v)
  BY <1>a, <1>b, <1>21 DEF Deregister, InFlight, InIteration
<1>22. CASE Done(v)
  BY <1>a, <1>b, <1>22 DEF Done, InFlight, InIteration
<1> QED
  BY <1>1, <1>2, <1>3, <1>4, <1>5, <1>6, <1>7, <1>8, <1>9, <1>10, <1>11, <1>12, <1>13, <1>14, <1>15, <1>16, <1>17, <1>18, <1>19, <1>20, <1>21, <1>22, <1>23
     DEF WorkerMove, HookStep, EngineStep

\* Run has no part in the tallies.
LEMMA TallyRun == ASSUME TallyInv, NEW next, NEW S, RunMove(next, S) PROVE TallyInv'
<1>1. UNCHANGED <<pc, begun, tallyVars>>
  BY DEF RunMove, AwaitStep, QuorumIsReached, QuorumIsAborted, AwaitCancelled, GraceExpires, PublishGraceAbort,
     CloseGraceAbort, GraceAlreadyAborted, DrainStep, WaitGroupDrained, DrainedEarly, DrainedLate, ReturnToExecutor,
     DrainTimesOut, ParentCancels, GiveUpStartup, WorkerInternals, workerVars, iterVars, begunVars
<1> QED BY <1>1 DEF TallyInv, InFlight, tallyVars

\* Neither has any other step that leaves the iterations alone.
LEMMA TallyFrame ==
  ASSUME TallyInv, UNCHANGED <<InFlight, begun, tallyVars>>
  PROVE  TallyInv'
BY DEF TallyInv, tallyVars

\* What the tallies' invariant is for.
LEMMA TallyProperties == ASSUME PacerTypeOK, DrainInv, TallyInv PROVE EveryIterationAccounted
<1> SUFFICES ASSUME ppc = "returned"
             PROVE  /\ begun = iterTotal + interrupted
                    /\ iterTimeout + vuPanics <= iterFailed
                    /\ iterFailed <= iterTotal
  BY DEF EveryIterationAccounted
<1>1. InFlight = {}
  BY DEF DrainInv, AllDone, Idle, InFlight, InIteration
<1> QED BY <1>1, FS_EmptySet DEF TallyInv, PacerTypeOK, WorkerTypeOK

-----------------------------------------------------------------------------
(* Late iterations.                                                        *)

\* Only passing the loop head brings a virtual user to its start, and only
\* starting counts: no other step of it changes what the bound speaks of.
LEMMA OnlyPassingCommits ==
  ASSUME PacerTypeOK, NEW v \in VUs, WorkerMove(v)
  PROVE  \/ BeginIteration(v)
         \/ PassLoopHead(v)
         \/ /\ UNCHANGED <<begun, begunLate>>
            /\ \A w \in VUs : pc'[w] = "begin" <=> pc[w] = "begin"
<1>a. pc \in [VUs -> WorkerPC]
  BY DEF PacerTypeOK, WorkerTypeOK
<1> USE DEF Goto, iterVars, begunVars
<1>1. CASE Start(v)
  BY <1>a, <1>1 DEF Start
<1>2. CASE PreTestSucceeds(v)
  BY <1>a, <1>2 DEF PreTestSucceeds
<1>3. CASE PreTestFailsForGood(v)
  BY <1>a, <1>3 DEF PreTestFailsForGood, GiveUp
<1>4. CASE PreTestFailsAndRetries(v)
  BY <1>a, <1>4 DEF PreTestFailsAndRetries
<1>5. CASE BackoffElapses(v)
  BY <1>a, <1>5 DEF BackoffElapses
<1>6. CASE BackoffInterrupted(v)
  BY <1>a, <1>6 DEF BackoffInterrupted, GiveUp
<1>7. CASE RecordFailed(v)
  BY <1>a, <1>7 DEF RecordFailed
<1>8. CASE TriggerDropoutAbort(v)
  BY <1>a, <1>8 DEF TriggerDropoutAbort
<1>9. CASE DropoutAlreadyAborted(v)
  BY <1>a, <1>9 DEF DropoutAlreadyAborted
<1>10. CASE CloseDropoutAbort(v)
  BY <1>a, <1>10 DEF CloseDropoutAbort
<1>11. CASE RecordReady(v)
  BY <1>a, <1>11 DEF RecordReady
<1>12. CASE ReleaseGate(v)
  BY <1>a, <1>12 DEF ReleaseGate
<1>13. CASE EnterThroughGate(v)
  BY <1>a, <1>13 DEF EnterThroughGate
<1>14. CASE TurnBackAtGate(v)
  BY <1>a, <1>14 DEF TurnBackAtGate
<1>15. CASE LeaveLoop(v)
  BY <1>a, <1>15 DEF LeaveLoop
<1>16. CASE DeadlinePasses(v)
  BY <1>a, <1>16 DEF DeadlinePasses
<1>17. CASE RunVUReturns(v)
  BY <1>a, <1>17 DEF RunVUReturns
<1>18. CASE RecordIterationResult(v)
  BY <1>a, <1>18 DEF RecordIterationResult
<1>19. CASE AfterTest(v)
  BY <1>a, <1>19 DEF AfterTest
<1>20. CASE Deregister(v)
  BY <1>a, <1>20 DEF Deregister
<1>21. CASE Done(v)
  BY <1>a, <1>21 DEF Done
<1> QED
  BY <1>1, <1>2, <1>3, <1>4, <1>5, <1>6, <1>7, <1>8, <1>9, <1>10, <1>11, <1>12, <1>13, <1>14, <1>15, <1>16, <1>17, <1>18, <1>19, <1>20, <1>21
     DEF WorkerMove, HookStep, EngineStep
\* Passing the loop head is none of a virtual user's other steps.
LEMMA OnlyPassPasses ==
  ASSUME PacerTypeOK, NEW v \in VUs, PassLoopHead(v)
  PROVE  ~(HookStep(v) \/ EngineStep(v) \/ DeadlinePasses(v) \/ LeaveLoop(v))
<1>1. pc[v] = "loop" /\ pc'[v] = "begin"
  BY DEF PassLoopHead, Goto, PacerTypeOK, WorkerTypeOK
<1> QED
  BY <1>1
  DEF HookStep, EngineStep, Goto, Start, PreTestSucceeds, PreTestFailsForGood, PreTestFailsAndRetries,
     BackoffElapses, BackoffInterrupted, RecordFailed, TriggerDropoutAbort, DropoutAlreadyAborted,
     CloseDropoutAbort, RecordReady, ReleaseGate, EnterThroughGate, TurnBackAtGate, RunVUReturns,
     RecordIterationResult, AfterTest, Deregister, Done, DeadlinePasses, BeginIteration, LeaveLoop, InIteration,
     PacerTypeOK, WorkerTypeOK

\* Initially nobody has begun anything.
LEMMA LateInitially == ASSUME WorkerInit PROVE LateInv
BY DEF WorkerInit, LateInv

\* A step that starts nobody, brings nobody to its start and takes no stop back
\* keeps the bound.
LEMMA LateFrame ==
  ASSUME LateInv, UNCHANGED begunLate, \A v \in VUs : pc'[v] = "begin" => pc[v] = "begin",
         stopped \subseteq stopped', ctxDone => ctxDone'
  PROVE  LateInv'
BY DEF LateInv, ShouldStop

\* A virtual user that polls at its loop head keeps the bound: one that has
\* begun late is told to stop, and does not pass again.
LEMMA LateWorker ==
  ASSUME PacerTypeOK, LateInv, NEW v \in VUs, WorkerMove(v), PassLoopHead(v) => ~ShouldStop(v)
  PROVE  LateInv'
<1>a. pc \in [VUs -> WorkerPC] /\ begunLate \in [VUs -> Nat]
  BY DEF PacerTypeOK, WorkerTypeOK
<1>b. UNCHANGED <<stopped, cancelledBy>>
  BY WorkersDoNotStop DEF signalVars
<1>1. CASE BeginIteration(v)
  <2>1. \A w \in VUs \ {v} : begunLate'[w] = begunLate[w] /\ pc'[w] = pc[w]
    BY <1>a, <1>1 DEF BeginIteration, Goto
  <2>2. begunLate[v] = 0 /\ pc'[v] = "run"
    BY <1>a, <1>1 DEF BeginIteration, Goto, LateInv
  <2>3. begunLate'[v] = IF ShouldStop(v) THEN 1 ELSE 0
    BY <1>a, <1>1, <2>2 DEF BeginIteration
  <2> QED BY <1>b, <2>1, <2>2, <2>3 DEF LateInv, ShouldStop, ctxDone
<1>2. CASE PassLoopHead(v)
  <2>1. UNCHANGED begunLate /\ \A w \in VUs \ {v} : pc'[w] = pc[w]
    BY <1>a, <1>2 DEF PassLoopHead, Goto, iterVars, begunVars
  <2>2. begunLate[v] = 0
    BY <1>a, <1>2 DEF LateInv
  <2> QED BY <1>b, <2>1, <2>2 DEF LateInv, ShouldStop, ctxDone
<1>3. CASE UNCHANGED begunLate /\ \A w \in VUs : pc'[w] = "begin" <=> pc[w] = "begin"
  BY <1>b, <1>3, LateFrame DEF ctxDone
<1> QED BY <1>1, <1>2, <1>3, OnlyPassingCommits

\* Run starts no iteration, and what it cancels or stops stays so.
LEMMA LateRun ==
  ASSUME LateInv, NEW next, NEW S \in SUBSET VUs, RunMove(next, S)
  PROVE  LateInv'
<1>1. UNCHANGED <<pc, begunLate>>
  BY DEF RunMove, AwaitStep, QuorumIsReached, QuorumIsAborted, AwaitCancelled, GraceExpires, PublishGraceAbort,
     CloseGraceAbort, GraceAlreadyAborted, DrainStep, WaitGroupDrained, DrainedEarly, DrainedLate, ReturnToExecutor,
     DrainTimesOut, ParentCancels, GiveUpStartup, WorkerInternals, workerVars, iterVars, begunVars
<1>2. stopped \subseteq stopped' /\ (ctxDone => ctxDone')
  BY DEF RunMove, AwaitStep, QuorumIsReached, QuorumIsAborted, AwaitCancelled, GraceExpires, PublishGraceAbort,
     CloseGraceAbort, GraceAlreadyAborted, DrainStep, WaitGroupDrained, DrainedEarly, DrainedLate, ReturnToExecutor,
     DrainTimesOut, ParentCancels, GiveUpStartup, WorkerInternals, workerVars, signalVars, Cancel, ctxDone
<1> QED BY <1>1, <1>2, LateFrame

\* What the bound is for.
LEMMA LateProperties == ASSUME LateInv PROVE AtMostOneIterationAfterStop
BY DEF LateInv, AtMostOneIterationAfterStop

-----------------------------------------------------------------------------
(* The contract with the executor.                                         *)

ViewMoves(v, from, to) ==
  workerView[v] = from /\ workerView' = [workerView EXCEPT ![v] = to]

\* To the executor, a virtual user's step commits it to an iteration, begins or
\* ends one, or is its end, or cannot be seen.
LEMMA WorkerIsSeen ==
  ASSUME PacerTypeOK, NEW v \in VUs, WorkerMove(v)
  PROVE  \/ UNCHANGED workerView
         \/ PassLoopHead(v) /\ ViewMoves(v, "alive", "committed")
         \/ ViewMoves(v, "committed", "busy")
         \/ ViewMoves(v, "busy", "alive")
         \/ ViewMoves(v, "alive", "gone")
<1>a. pc \in [VUs -> WorkerPC]
  BY DEF PacerTypeOK, WorkerTypeOK
<1> USE DEF Goto, workerView, ViewMoves, Idle, InIteration, WorkerPC
<1>1. CASE Start(v)
  BY <1>a, <1>1 DEF Start
<1>2. CASE PreTestSucceeds(v)
  BY <1>a, <1>2 DEF PreTestSucceeds
<1>3. CASE PreTestFailsForGood(v)
  BY <1>a, <1>3 DEF PreTestFailsForGood, GiveUp
<1>4. CASE PreTestFailsAndRetries(v)
  BY <1>a, <1>4 DEF PreTestFailsAndRetries
<1>5. CASE BackoffElapses(v)
  BY <1>a, <1>5 DEF BackoffElapses
<1>6. CASE BackoffInterrupted(v)
  BY <1>a, <1>6 DEF BackoffInterrupted, GiveUp
<1>7. CASE RecordFailed(v)
  BY <1>a, <1>7 DEF RecordFailed
<1>8. CASE TriggerDropoutAbort(v)
  BY <1>a, <1>8 DEF TriggerDropoutAbort
<1>9. CASE DropoutAlreadyAborted(v)
  BY <1>a, <1>9 DEF DropoutAlreadyAborted
<1>10. CASE CloseDropoutAbort(v)
  BY <1>a, <1>10 DEF CloseDropoutAbort
<1>11. CASE RecordReady(v)
  BY <1>a, <1>11 DEF RecordReady
<1>12. CASE ReleaseGate(v)
  BY <1>a, <1>12 DEF ReleaseGate
<1>13. CASE EnterThroughGate(v)
  BY <1>a, <1>13 DEF EnterThroughGate
<1>14. CASE TurnBackAtGate(v)
  BY <1>a, <1>14 DEF TurnBackAtGate
<1>15. CASE BeginIteration(v)
  BY <1>a, <1>15 DEF BeginIteration
<1>16. CASE LeaveLoop(v)
  BY <1>a, <1>16 DEF LeaveLoop
<1>23. CASE PassLoopHead(v)
  BY <1>a, <1>23 DEF PassLoopHead
<1>17. CASE DeadlinePasses(v)
  BY <1>a, <1>17 DEF DeadlinePasses
<1>18. CASE RunVUReturns(v)
  BY <1>a, <1>18 DEF RunVUReturns
<1>19. CASE RecordIterationResult(v)
  BY <1>a, <1>19 DEF RecordIterationResult
<1>20. CASE AfterTest(v)
  BY <1>a, <1>20 DEF AfterTest
<1>21. CASE Deregister(v)
  BY <1>a, <1>21 DEF Deregister
<1>22. CASE Done(v)
  BY <1>a, <1>22 DEF Done
<1> QED
  BY <1>1, <1>2, <1>3, <1>4, <1>5, <1>6, <1>7, <1>8, <1>9, <1>10, <1>11, <1>12, <1>13, <1>14, <1>15, <1>16, <1>17, <1>18, <1>19, <1>20, <1>21, <1>22, <1>23
     DEF WorkerMove, HookStep, EngineStep

\* Spawning turns the unborn alive.
LEMMA SpawnIsSeen ==
  ASSUME PacerTypeOK, NEW S \in SUBSET VUs, \A v \in S : pc[v] = "unborn",
         pc' = [v \in VUs |-> IF v \in S THEN "born" ELSE pc[v]]
  PROVE  /\ \A v \in S : workerView[v] = "unborn"
         /\ workerView' = [v \in VUs |-> IF v \in S THEN "alive" ELSE workerView[v]]
BY DEF workerView, Idle, InIteration, PacerTypeOK, WorkerTypeOK

\* The shared steps of Run move no virtual user.
LEMMA RunKeepsPC == ASSUME NEW next, NEW S, RunMove(next, S) PROVE UNCHANGED pc
BY DEF RunMove, AwaitStep, QuorumIsReached, QuorumIsAborted, AwaitCancelled, GraceExpires, PublishGraceAbort,
   CloseGraceAbort, GraceAlreadyAborted, DrainStep, WaitGroupDrained, DrainedEarly, DrainedLate, ReturnToExecutor,
   DrainTimesOut, ParentCancels, GiveUpStartup, workerVars

\* To the executor, a shared step of Run cannot be seen, or starts the drain,
\* or is its return, or the caller's cancellation.
LEMMA RunIsSeen ==
  ASSUME PacerTypeOK, DrainInv, NEW next, next \notin {"drain", "drainWait", "returned"},
         NEW S, RunMove(next, S)
  PROVE  /\ UNCHANGED workerView
         /\ \/ UNCHANGED <<closingView, resultView, cancelledView>>
            \/ ~closingView /\ closingView' /\ UNCHANGED <<resultView, cancelledView>>
            \/ /\ closingView /\ UNCHANGED <<closingView, cancelledView>>
               /\ resultView = "none"
               /\ resultView' \in {"nil", "quorum"} \cup IF cancelledView THEN {"context"} ELSE {}
               /\ \A v \in VUs : workerView[v] \in {"unborn", "gone"}
            \/ cancelledView' /\ UNCHANGED <<closingView, resultView>>
<1>a. UNCHANGED workerView
  BY RunKeepsPC DEF workerView
<1> USE DEF closingView, resultView, cancelledView, PacerGoto, Cancel, ctxDone, pacerVars, workerVars, signalVars
<1>1. CASE AwaitStep(next)
  <2>1. ppc \in {"await", "abort", "closeAbort"} /\ UNCHANGED cancelledBy
    BY <1>1 DEF AwaitStep, QuorumIsReached, QuorumIsAborted, AwaitCancelled, GraceExpires, PublishGraceAbort,
       CloseGraceAbort, GraceAlreadyAborted
  <2>2. ppc' \in {next, "abort", "closeAbort", "giveup"}
    BY <1>1 DEF AwaitStep, QuorumIsReached, QuorumIsAborted, AwaitCancelled, GraceExpires, PublishGraceAbort,
       CloseGraceAbort, GraceAlreadyAborted
  <2> QED BY <1>a, <2>1, <2>2
<1>2. CASE WaitGroupDrained
  BY <1>a, <1>2 DEF WaitGroupDrained
<1>3. CASE DrainedEarly \/ DrainedLate
  <2>1. /\ waitCh /\ ppc \in {"drain", "drainWait"} /\ ppc' = "returned" /\ ret' = ret
        /\ cancelledBy' = IF cancelledBy # "none" THEN cancelledBy ELSE "return"
    BY <1>3 DEF DrainedEarly, DrainedLate, ReturnToExecutor
  <2>2. \A v \in VUs : workerView[v] \in {"unborn", "gone"}
    BY <2>1 DEF DrainInv, AllDone, Idle, workerView
  <2>3. ret \in {"nil", "quorum"} \cup IF cancelledView THEN {"context"} ELSE {}
    BY DEF DrainInv, PacerTypeOK
  <2> QED BY <1>a, <2>1, <2>2, <2>3
<1>4. CASE DrainTimesOut
  BY <1>a, <1>4 DEF DrainTimesOut
<1>5. CASE ParentCancels
  BY <1>a, <1>5 DEF ParentCancels
<1>6. CASE GiveUpStartup(S)
  BY <1>a, <1>6 DEF GiveUpStartup
<1> QED
  BY <1>1, <1>2, <1>3, <1>4, <1>5, <1>6 DEF RunMove, DrainStep
=============================================================================
