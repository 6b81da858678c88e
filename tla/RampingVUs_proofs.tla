--------------------------- MODULE RampingVUs_proofs ---------------------------
(***************************************************************************)
(* Proofs about RampingVUs, for any schedule of stages, any quorum ratio   *)
(* and any bound on vuids, retries and iterations.  The shared steps are   *)
(* the business of Pacer_proofs; what is left are the schedule and the     *)
(* list of workers with their stop channels.                               *)
(***************************************************************************)
EXTENDS RampingVUs, Pacer_proofs

\* Stages and vuids.
LEMMA StagesAndVuids ==
  /\ Stages \in Seq(Nat) /\ Len(Stages) \in Nat /\ \A i \in 1..Len(Stages) : Stages[i] \in Nat
  /\ Cardinality(VUs) \in Nat /\ VUs = 1..Cardinality(VUs)
  /\ UseGate => Len(Stages) > 0 /\ GateTarget = Stages[1] /\ GateTarget \in Nat \ {0}
<1>1. Cardinality(VUs) \in Nat
  BY Assumptions, FS_CardinalityType DEF SharedAssumptions
<1> QED BY <1>1, RampingAssumption, GateAssumption DEF RampingAssumption, GateAssumption

\* What adjusting the list leaves alone.
AdjustFrame ==
  UNCHANGED <<gateVars, preTestVars, vote, afterDone, activeGauge, iterVars, cancelledBy, ret, waitCh, graceFired>>

\* The virtual users that an adjustment to "desired" spawns or stops.
Fresh(desired) == vuidSeq + 1 .. vuidSeq + desired - Len(workers)
Newest(desired) == {workers[i] : i \in desired + 1..Len(workers)}

\* A virtual user's step is one of the shared ones.
LEMMA WorkerStepMoves ==
  ASSUME NEW v \in VUs, WorkerStep(v) PROVE WorkerMove(v) /\ UNCHANGED <<pacerVars, stageVars>>
BY DEF WorkerStep, WorkerMove, PollStep, PollAndGoOn, PollAndLeave

\* The schedule's own steps: they adjust the list, or leave it alone, or
\* empty it.
Adjusts ==
  \/ /\ UseGate /\ ppc = "startup" /\ ppc' = "await"
     /\ AdjustWorkers(Stages[1], TRUE)
  \/ /\ ppc = "ticking" /\ ppc' \in {"ticking", "stages"}
     /\ \E desired \in Nat : AdjustWorkers(desired, FALSE)

KeepsList ==
  /\ UNCHANGED <<workerVars, ret, waitCh, graceFired, workers, vuidSeq>>
  /\ \/ ~UseGate /\ ppc = "startup" /\ ppc' = "stages"
     \/ ppc \in {"stages", "ticking"} /\ ppc' \in {"stages", "ticking", "rampDown"}

\* What a tick can interpolate is a number of virtual users.
LEMMA LevelsAreNat ==
  ASSUME TypeOK, StageInv, ppc = "ticking"
  PROVE  NextLevels \subseteq Nat /\ Stages[stage] \in Nat /\ stage + 1 \in 1..Len(Stages) + 1
<1>1. Stages[stage] \in Nat /\ level \in Nat /\ stage + 1 \in 1..Len(Stages) + 1
  BY StagesAndVuids DEF TypeOK, StageInv
<1> QED BY <1>1 DEF NextLevels

\* The steps of Run are the shared ones and the schedule's own.
LEMMA PacerSteps ==
  ASSUME TypeOK, StageInv, PacerStep
  PROVE  \/ RunMove("stages", {}) /\ ppc' # "drain" /\ UNCHANGED stageVars
         \/ RunMove("stages", {}) /\ ppc = "drain" /\ UNCHANGED stageVars
         \/ GiveUpRamp
         \/ Adjusts
         \/ KeepsList
         \/ RampDownEnds
<1>1. CASE (AwaitStep("stages") \/ DrainStep) /\ UNCHANGED stageVars
  <2>1. RunMove("stages", {})
    BY <1>1 DEF RunMove
  <2>2. ppc' = "drain" => ppc = "drain"
    BY <1>1 DEF AwaitStep, QuorumIsReached, QuorumIsAborted, AwaitCancelled, GraceExpires, PublishGraceAbort,
       CloseGraceAbort, GraceAlreadyAborted, DrainStep, WaitGroupDrained, DrainedEarly, DrainedLate, ReturnToExecutor,
       DrainTimesOut, PacerGoto
  <2> QED BY <1>1, <2>1, <2>2
<1>2. CASE StartGated
  BY <1>2 DEF StartGated, PacerGoto, Adjusts
<1>3. CASE StartUngated \/ EnterStage \/ StagesOver \/ StageCancelled
  BY <1>3 DEF StartUngated, EnterStage, StagesOver, StageCancelled, PacerGoto, KeepsList, stageVars
<1>4. CASE Tick50ms
  BY <1>4, LevelsAreNat DEF Tick50ms, Adjusts
<1>5. CASE StageEnds
  BY <1>5, LevelsAreNat DEF StageEnds, PacerGoto, Adjusts
<1> QED BY <1>1, <1>2, <1>3, <1>4, <1>5 DEF PacerStep, ScheduleStep

\* What an adjustment does, whichever way it goes: it spawns the fresh ones
\* or stops the newest.
LEMMA AdjustCases ==
  ASSUME TypeOK, NEW desired \in Nat, NEW withGate \in BOOLEAN, AdjustWorkers(desired, withGate)
  PROVE  /\ AdjustFrame
         /\ \/ SpawnMissing(desired, withGate)
            \/ StopNewest(desired)
            \/ UNCHANGED <<pc, gated, stopped, workers, vuidSeq>>
BY DEF AdjustWorkers, KeepAll, WorkerInternals, AdjustFrame

\* The list after a spawning.
LEMMA SpawnedList ==
  ASSUME TypeOK, NEW desired \in Nat, NEW withGate \in BOOLEAN, SpawnMissing(desired, withGate)
  PROVE  /\ workers' \in Seq(VUs) /\ vuidSeq' \in VUs /\ Len(workers') = desired
         /\ Len(workers) \in Nat /\ Len(workers) < desired
         /\ \A i \in 1..desired : workers'[i] = IF i <= Len(workers) THEN workers[i] ELSE vuidSeq + i - Len(workers)
         /\ Fresh(desired) \subseteq VUs /\ vuidSeq \in Nat /\ vuidSeq' = vuidSeq + desired - Len(workers)
<1>1. /\ Len(workers) \in Nat /\ Len(workers) < desired /\ vuidSeq \in Nat /\ Fresh(desired) \subseteq VUs
      /\ vuidSeq' = vuidSeq + desired - Len(workers)
  BY StagesAndVuids DEF TypeOK, SpawnMissing, Fresh
<1> DEFINE extra == [i \in 1..desired - Len(workers) |-> vuidSeq + i]
<1>2. extra \in Seq(VUs) /\ Len(extra) = desired - Len(workers)
  <2>1. \A i \in 1..desired - Len(workers) : vuidSeq + i \in VUs
    BY <1>1 DEF Fresh
  <2>2. desired - Len(workers) \in Nat
    BY <1>1
  <2> QED BY <2>1, <2>2
<1>3. workers' = workers \o extra
  BY DEF SpawnMissing
<1>4. workers' \in Seq(VUs) /\ Len(workers') = desired
  <2>0. workers \in Seq(VUs)
    BY DEF TypeOK
  <2> HIDE DEF extra
  <2>1. workers \o extra \in Seq(VUs)
    BY <2>0, <1>2
  <2>2. Len(workers \o extra) = Len(workers) + Len(extra)
    BY <2>0, <1>2
  <2> QED BY <1>1, <1>2, <1>3, <2>1, <2>2
<1>5. vuidSeq' \in VUs
  BY <1>1 DEF Fresh
<1>6. ASSUME NEW i \in 1..desired
      PROVE  workers'[i] = IF i <= Len(workers) THEN workers[i] ELSE vuidSeq + i - Len(workers)
  <2>1. workers'[i] = IF i <= Len(workers) THEN workers[i] ELSE extra[i - Len(workers)]
    BY <1>1, <1>2, <1>3 DEF TypeOK
  <2>2. i > Len(workers) => extra[i - Len(workers)] = vuidSeq + (i - Len(workers))
    BY <1>1
  <2> QED BY <1>1, <2>1, <2>2
<1> QED BY <1>1, <1>4, <1>5, <1>6

\* The list after a stopping.
LEMMA StoppedList ==
  ASSUME TypeOK, NEW desired \in Nat, StopNewest(desired)
  PROVE  /\ workers' \in Seq(VUs) /\ Len(workers') = desired /\ Len(workers) \in Nat /\ desired < Len(workers)
         /\ \A i \in 1..desired : workers'[i] = workers[i]
         /\ stopped' = stopped \cup Newest(desired) /\ Newest(desired) \subseteq VUs
         /\ UNCHANGED <<pc, gated, vuidSeq>>
BY DEF TypeOK, StopNewest, Newest

-----------------------------------------------------------------------------
(* Type correctness.                                                       *)

ListTypeOK ==
  /\ ppc \in PacerPC
  /\ workers \in Seq(VUs)
  /\ vuidSeq \in VUs \cup {0}
  /\ stage \in 1..Len(Stages) + 1
  /\ startVU \in Nat
  /\ level \in Nat

\* An adjustment keeps the shared types.
LEMMA AdjustTypes ==
  ASSUME TypeOK, NEW desired \in Nat, NEW withGate \in BOOLEAN, AdjustWorkers(desired, withGate)
  PROVE  PacerTypeOK' /\ workers' \in Seq(VUs) /\ vuidSeq' \in VUs \cup {0}
<1>0. PacerTypeOK
  BY DEF TypeOK
<1>1. pc' \in [VUs -> WorkerPC] /\ gated' \subseteq VUs /\ stopped' \subseteq VUs
  <2>1. CASE SpawnMissing(desired, withGate)
    BY <1>0, <2>1, SpawnedList DEF SpawnMissing, Fresh, PacerTypeOK, WorkerTypeOK, WorkerPC
  <2>2. CASE StopNewest(desired)
    BY <1>0, <2>2, StoppedList DEF PacerTypeOK, WorkerTypeOK
  <2> QED BY <1>0, <2>1, <2>2, AdjustCases DEF PacerTypeOK, WorkerTypeOK
<1>2. PacerTypeOK'
  BY <1>0, <1>1, AdjustCases DEF PacerTypeOK, WorkerTypeOK, GateTypeOK, AdjustFrame, gateVars, preTestVars, iterVars, begunVars, tallyVars
<1>3. workers' \in Seq(VUs) /\ vuidSeq' \in VUs \cup {0}
  BY SpawnedList, StoppedList, AdjustCases DEF TypeOK
<1> QED BY <1>2, <1>3

\* The engine is type correct, and a stage that ticks exists.
LEMMA TypeInductive == ASSUME TypeOK, StageInv, [Next]_vars PROVE TypeOK' /\ StageInv'
<1>0. PacerTypeOK /\ ListTypeOK
  BY DEF TypeOK, ListTypeOK
<1>q. PacerTypeOK' /\ ListTypeOK' => TypeOK'
  BY DEF TypeOK, ListTypeOK
<1> DEFINE Goal == PacerTypeOK' /\ ListTypeOK' /\ StageInv'
<1> SUFFICES Goal
  BY <1>q
<1>1. ASSUME RunMove("stages", {}), UNCHANGED stageVars PROVE Goal
  <2>1. PacerTypeOK'
    BY <1>0, <1>1, TypeRun
  <2>2. ppc' \in PacerPC /\ (ppc' = "ticking" => ppc = "ticking")
    BY <1>0, <1>1 DEF ListTypeOK, RunMove, PacerPC, PacerGoto, pacerVars, AwaitStep, QuorumIsReached, QuorumIsAborted,
       AwaitCancelled, GraceExpires, PublishGraceAbort, CloseGraceAbort, GraceAlreadyAborted, DrainStep,
       WaitGroupDrained, DrainedEarly, DrainedLate, ReturnToExecutor, DrainTimesOut, ParentCancels, GiveUpStartup
  <2> QED BY <1>0, <1>1, <2>1, <2>2 DEF ListTypeOK, StageInv, stageVars
<1>2. ASSUME GiveUpRamp PROVE Goal
  <2>1. ToSet(workers) \in SUBSET VUs
    BY <1>0 DEF ToSet, ListTypeOK
  <2>2. PacerTypeOK'
    BY <1>0, <1>2, <2>1, TypeRun DEF RunMove, GiveUpRamp
  <2> QED BY <1>0, <1>2, <2>2 DEF GiveUpRamp, GiveUpStartup, PacerGoto, ListTypeOK, PacerPC, StageInv
<1>3. ASSUME NEW desired \in Nat, NEW withGate \in BOOLEAN, AdjustWorkers(desired, withGate),
             ppc' \in PacerPC, stage' \in 1..Len(Stages) + 1, startVU' \in Nat, level' \in Nat,
             ppc' = "ticking" => stage' <= Len(Stages)
      PROVE  Goal
  BY <1>3, AdjustTypes DEF ListTypeOK, StageInv
<1>4. CASE StartGated
  <2>1. Stages[1] \in Nat
    BY <1>4, StagesAndVuids DEF StartGated
  <2> QED BY <1>0, <1>3, <1>4, <2>1 DEF StartGated, PacerGoto, PacerPC, ListTypeOK
<1>5. CASE Tick50ms
  BY <1>0, <1>3, <1>5, LevelsAreNat DEF Tick50ms, ListTypeOK, StageInv
<1>6. CASE StageEnds
  BY <1>0, <1>3, <1>6, LevelsAreNat DEF StageEnds, PacerGoto, PacerPC, ListTypeOK
<1>7. ASSUME UNCHANGED <<workerVars, ret, waitCh, graceFired>> PROVE PacerTypeOK'
  BY <1>0, <1>7 DEF PacerTypeOK, WorkerTypeOK, GateTypeOK, workerVars, gateVars, preTestVars, signalVars,
     lifeVars, iterVars, begunVars, tallyVars
<1>8. CASE StartUngated \/ EnterStage \/ StagesOver
  BY <1>0, <1>7, <1>8 DEF StartUngated, EnterStage, StagesOver, PacerGoto, PacerPC, ListTypeOK, StageInv, stageVars
<1>9. CASE StageCancelled
  <2>1. ppc = "ticking" /\ ppc' = "stages"
    BY <1>9 DEF StageCancelled, PacerGoto
  <2> QED BY <1>0, <1>7, <1>9, <2>1, LevelsAreNat DEF StageCancelled, PacerPC, ListTypeOK, StageInv
<1>10. CASE RampDownEnds
  <2>1. ToSet(workers) \subseteq VUs
    BY <1>0 DEF ToSet, ListTypeOK
  <2>2. PacerTypeOK'
    BY <1>0, <1>10, <2>1 DEF RampDownEnds, PacerTypeOK, WorkerTypeOK, GateTypeOK,
       WorkerInternals, gateVars, preTestVars, iterVars, begunVars, tallyVars
  <2> QED BY <1>0, <1>10, <2>2 DEF RampDownEnds, PacerGoto, ListTypeOK, PacerPC, StageInv
<1>11. ASSUME NEW v \in VUs, WorkerStep(v) PROVE Goal
  <2>1. PacerTypeOK'
    BY <1>0, <1>11, WorkerStepMoves, TypeWorker
  <2> QED BY <1>0, <1>11, <2>1, WorkerStepMoves DEF ListTypeOK, StageInv, pacerVars, stageVars
<1>12. CASE UNCHANGED vars
  BY <1>0, <1>7, <1>12 DEF vars, pacerVars, stageVars, ListTypeOK, StageInv
<1>13. CASE PacerStep
  BY <1>13, <1>1, <1>2, <1>4, <1>5, <1>6, <1>8, <1>9, <1>10 DEF PacerStep, ScheduleStep, RunMove
<1>14. CASE ParentCancels /\ UNCHANGED stageVars
  BY <1>14, <1>1 DEF RunMove
<1> HIDE DEF Goal
<1> QED BY <1>11, <1>12, <1>13, <1>14 DEF Next, Terminated

\* The engine is type correct.
THEOREM RampingTypeCorrect == Spec => []TypeOK
<1>1. Init => TypeOK /\ StageInv
  <2> SUFFICES ASSUME Init PROVE TypeOK /\ StageInv
    OBVIOUS
  <2>1. PacerTypeOK
    BY TypeInit DEF Init
  <2>2. 1 \in 1..Len(Stages) + 1
    BY StagesAndVuids
  <2>3. StageInv
    BY DEF Init, PacerInit, StageInv
  <2>4. ppc \in PacerPC
    BY DEF Init, PacerInit, PacerPC
  <2> QED BY <2>1, <2>2, <2>3, <2>4 DEF Init, TypeOK
<1> QED BY <1>1, TypeInductive, PTL DEF Spec

-----------------------------------------------------------------------------
(* The list of workers and their stop channels.                            *)

\* The fresh virtual users are unborn, and there are none left over.
LEMMA FreshAreUnborn ==
  ASSUME TypeOK, RampInv, NEW desired \in Nat, NEW withGate \in BOOLEAN, SpawnMissing(desired, withGate)
  PROVE  /\ \A v \in Fresh(desired) : pc[v] = "unborn"
         /\ pc' = [v \in VUs |-> IF v \in Fresh(desired) THEN "born" ELSE pc[v]]
         /\ Spawned' = Spawned \cup Fresh(desired)
         /\ Spawned' = 1..vuidSeq'
         /\ Fresh(desired) \cap Spawned = {}
<1>1. Fresh(desired) \cap Spawned = {} /\ Spawned \cup Fresh(desired) = 1..vuidSeq'
  BY SpawnedList DEF Fresh, RampInv
<1>2. pc' = [v \in VUs |-> IF v \in Fresh(desired) THEN "born" ELSE pc[v]]
  BY DEF SpawnMissing, Fresh
<1>3. Spawned' = Spawned \cup Fresh(desired)
  BY <1>2, SpawnedList DEF Spawned
<1> QED BY <1>1, <1>2, <1>3, SpawnedList DEF Spawned

\* A vuid that is handed out is larger than those that were.
LEMMA FreshIsNew ==
  ASSUME NEW last \in Nat, NEW n \in Nat, NEW i \in Nat, i > n, NEW w \in 1..last
  PROVE  w # last + i - n
OBVIOUS

\* Spawning keeps the list and the stopped ones a partition.
LEMMA PartitionSpawn ==
  ASSUME TypeOK, RampInv, NEW desired \in Nat, NEW withGate \in BOOLEAN, SpawnMissing(desired, withGate)
  PROVE  StopChannelsPartition'
<1>1. /\ \A a, b \in 1..Len(workers) : workers[a] = workers[b] => a = b
      /\ ToSet(workers) \cap stopped = {} /\ ToSet(workers) \cup stopped = Spawned
      /\ workers \in Seq(VUs)
  BY DEF TypeOK, RampInv, StopChannelsPartition, IsInjective
<1>2. \A a \in 1..Len(workers) : workers[a] \in 1..vuidSeq
  BY <1>1 DEF ToSet, RampInv
<1>3. \A a, b \in 1..desired : workers'[a] = workers'[b] => a = b
  <2> SUFFICES ASSUME NEW a \in 1..desired, NEW b \in 1..desired, workers'[a] = workers'[b] PROVE a = b
    OBVIOUS
  <2>1. CASE a <= Len(workers) /\ b <= Len(workers)
    BY <1>1, <2>1, SpawnedList
  <2>2. CASE a > Len(workers) /\ b > Len(workers)
    BY <2>2, SpawnedList
  <2>3. CASE a <= Len(workers) /\ b > Len(workers)
    <3>1. a \in 1..Len(workers) /\ workers'[a] = workers[a] /\ workers'[b] = vuidSeq + b - Len(workers)
      BY <2>3, SpawnedList
    <3>2. workers[a] \in 1..vuidSeq
      BY <1>2, <3>1
    <3>3. vuidSeq \in Nat /\ Len(workers) \in Nat /\ b \in Nat /\ b > Len(workers)
      BY <2>3, SpawnedList
    <3> QED BY <3>1, <3>2, <3>3, FreshIsNew
  <2>4. CASE b <= Len(workers) /\ a > Len(workers)
    <3>1. b \in 1..Len(workers) /\ workers'[b] = workers[b] /\ workers'[a] = vuidSeq + a - Len(workers)
      BY <2>4, SpawnedList
    <3>2. workers[b] \in 1..vuidSeq
      BY <1>2, <3>1
    <3>3. vuidSeq \in Nat /\ Len(workers) \in Nat /\ a \in Nat /\ a > Len(workers)
      BY <2>4, SpawnedList
    <3> QED BY <3>1, <3>2, <3>3, FreshIsNew
  <2> QED BY <2>1, <2>2, <2>3, <2>4, SpawnedList
<1>4. ToSet(workers') = ToSet(workers) \cup Fresh(desired)
  <2>1. ASSUME NEW x \in ToSet(workers') PROVE x \in ToSet(workers) \cup Fresh(desired)
    <3>1. PICK i \in 1..desired : x = workers'[i]
      BY SpawnedList DEF ToSet
    <3>2. CASE i <= Len(workers)
      <4>1. i \in 1..Len(workers) /\ x = workers[i]
        BY <3>1, <3>2, SpawnedList
      <4> QED BY <1>1, <4>1 DEF ToSet
    <3>3. CASE i > Len(workers)
      BY <3>1, <3>3, SpawnedList DEF Fresh
    <3> QED BY <3>2, <3>3, SpawnedList
  <2>2. ASSUME NEW i \in 1..Len(workers) PROVE workers[i] \in ToSet(workers')
    <3>1. i \in 1..desired /\ workers'[i] = workers[i]
      BY SpawnedList
    <3> QED BY <3>1, SpawnedList DEF ToSet
  <2>3. ASSUME NEW x \in Fresh(desired) PROVE x \in ToSet(workers')
    <3>1. x - vuidSeq + Len(workers) \in 1..desired /\ workers'[x - vuidSeq + Len(workers)] = x
      BY SpawnedList DEF Fresh
    <3> QED BY <3>1, SpawnedList DEF ToSet
  <2> QED BY <1>1, <2>1, <2>2, <2>3 DEF ToSet
<1>5. IsInjective(workers')
  BY <1>3, SpawnedList DEF IsInjective
<1>6. stopped' = stopped
  BY DEF SpawnMissing
<1>7. ToSet(workers') \cap stopped' = {} /\ ToSet(workers') \cup stopped' = Spawned'
  BY <1>1, <1>4, <1>6, FreshAreUnborn
<1> QED BY <1>5, <1>7 DEF StopChannelsPartition

\* So does stopping the newest.
LEMMA PartitionStop ==
  ASSUME TypeOK, RampInv, NEW desired \in Nat, StopNewest(desired)
  PROVE  StopChannelsPartition' /\ Spawned' = Spawned
<1>1. /\ \A a, b \in 1..Len(workers) : workers[a] = workers[b] => a = b
      /\ ToSet(workers) \cap stopped = {} /\ ToSet(workers) \cup stopped = Spawned
      /\ workers \in Seq(VUs)
  BY DEF TypeOK, RampInv, StopChannelsPartition, IsInjective
<1>2. IsInjective(workers')
  BY <1>1, StoppedList DEF IsInjective
<1>3. ToSet(workers') \cup Newest(desired) = ToSet(workers)
  <2>1. 1..Len(workers) = 1..desired \cup desired + 1..Len(workers)
    BY StoppedList
  <2>2. ToSet(workers') = {workers[i] : i \in 1..desired}
    BY StoppedList DEF ToSet
  <2>3. ToSet(workers) = {workers[i] : i \in 1..Len(workers)}
    BY <1>1 DEF ToSet
  <2> QED BY <2>1, <2>2, <2>3 DEF Newest
<1>4. ToSet(workers') \cap Newest(desired) = {}
  <2>1. \A i \in 1..desired, j \in desired + 1..Len(workers) : workers[i] # workers[j]
    BY <1>1, StoppedList
  <2> QED BY <2>1, StoppedList DEF ToSet, Newest
<1>5. Spawned' = Spawned
  BY StoppedList DEF Spawned
<1> QED BY <1>1, <1>2, <1>3, <1>4, <1>5, StoppedList DEF StopChannelsPartition

\* Stopping everyone, and forgetting them, too.
LEMMA PartitionStopAll ==
  ASSUME RampInv, stopped' = stopped \cup ToSet(workers), workers' = <<>>, pc' = pc
  PROVE  StopChannelsPartition' /\ Spawned' = Spawned
BY DEF RampInv, StopChannelsPartition, Spawned, ToSet, IsInjective

\* A virtual user's step neither spawns nor takes a vote back.
LEMMA WorkersStaySpawned ==
  ASSUME PacerTypeOK, NEW v \in VUs, WorkerMove(v)
  PROVE  Spawned' = Spawned /\ v \in Spawned /\ UNCHANGED stopped
<1>1. \A w \in VUs : workerView[w] = "unborn" <=> pc[w] = "unborn"
  BY DEF workerView, Idle
<1>2. \A w \in VUs : workerView'[w] = "unborn" <=> pc'[w] = "unborn"
  BY DEF workerView, Idle
<1>3. \A w \in VUs : workerView'[w] = "unborn" <=> workerView[w] = "unborn"
  BY WorkerIsSeen DEF ViewMoves, workerView
<1>4. Spawned' = Spawned
  BY <1>1, <1>2, <1>3 DEF Spawned
<1> QED BY <1>4, MoverIsNotIdle, WorkersDoNotStop DEF Spawned, signalVars, Idle

-----------------------------------------------------------------------------
(* The inductive invariant.                                                *)

\* At its first adjustment the engine spawns the gate's target and no more.
LEMMA FirstAdjustment ==
  ASSUME TypeOK, RampInv, UseGate, ppc = "startup", AdjustWorkers(Stages[1], TRUE)
  PROVE  /\ Stages[1] \in Nat /\ SpawnMissing(Stages[1], TRUE)
         /\ gated = {} /\ gated' = Fresh(Stages[1]) /\ Cardinality(gated') <= GateTarget
<1>1. Stages[1] \in Nat /\ Stages[1] > 0 /\ Stages[1] = GateTarget
  BY StagesAndVuids
<1>2. workers = <<>> /\ vuidSeq = 0 /\ gated = {} /\ Len(workers) = 0
  BY DEF RampInv
<1>3. SpawnMissing(Stages[1], TRUE)
  <2>1. ~(Stages[1] < Len(workers)) /\ Stages[1] # Len(workers)
    BY <1>1, <1>2
  <2> QED BY <2>1 DEF AdjustWorkers, StopNewest, KeepAll
<1>4. gated' = Fresh(Stages[1]) /\ Fresh(Stages[1]) = 1..GateTarget
  BY <1>1, <1>2, <1>3 DEF SpawnMissing, Fresh
<1>5. Cardinality(1..GateTarget) = GateTarget
  <2>1. GateTarget \in Nat /\ GateTarget > 0
    BY <1>1
  <2>2. Cardinality(1..GateTarget) = IF 1 > GateTarget THEN 0 ELSE GateTarget - 1 + 1
    BY <2>1, FS_Interval
  <2> QED BY <2>1, <2>2
<1>6. Cardinality(gated') <= GateTarget
  BY <1>1, <1>4, <1>5
<1> QED BY <1>1, <1>2, <1>3, <1>4, <1>6

\* What the steps of an adjustment need of the gate.
LEMMA GateAdjust == ASSUME TypeOK, RampInv, GateInv, Adjusts PROVE GateInv'
<1>0. PacerTypeOK
  BY DEF TypeOK
<1>1. CASE UseGate /\ ppc = "startup" /\ ppc' = "await" /\ AdjustWorkers(Stages[1], TRUE)
  <2>1. \A w \in gated' : w \in gated \/ w \in Fresh(Stages[1])
    BY <1>1, FirstAdjustment
  <2>2. Fresh(Stages[1]) \subseteq VUs /\ gated' \in SUBSET VUs
    BY <1>1, FirstAdjustment, SpawnedList
  <2>3. UNCHANGED <<gateVars, vote, begun, graceFired, ret>>
    BY <1>1, FirstAdjustment, AdjustCases DEF AdjustFrame, iterVars, begunVars
  <2> QED BY <1>0, <1>1, <2>1, <2>2, <2>3, FirstAdjustment, FreshAreUnborn, GateSpawn
<1>2. ASSUME ppc = "ticking", ppc' \in {"ticking", "stages"}, NEW desired \in Nat, AdjustWorkers(desired, FALSE)
      PROVE  GateInv'
  <2>1. UNCHANGED <<gateVars, vote, begun, graceFired, ret>>
    BY <1>2, AdjustCases DEF AdjustFrame, iterVars, begunVars
  <2>2. CASE SpawnMissing(desired, FALSE)
    <3>1. gated' = gated /\ gated \in SUBSET VUs /\ Cardinality(gated) <= GateTarget
      BY <1>0, <2>2 DEF SpawnMissing, GateInv, PacerTypeOK, WorkerTypeOK
    <3>2. Fresh(desired) \in SUBSET VUs
      BY <2>2, SpawnedList
    <3>3. UseGate => QuorumReached
      BY <1>2 DEF RampInv
    <3> QED BY <1>0, <1>2, <2>1, <2>2, <3>1, <3>2, <3>3, FreshAreUnborn, GateSpawn
  <2>3. CASE UNCHANGED <<pc, gated>>
    BY <1>2, <2>1, <2>3, GateFrame
  <2> QED BY <1>2, <2>2, <2>3, AdjustCases, StoppedList
<1> QED BY <1>1, <1>2 DEF Adjusts

\* The gate's invariant is inductive.
LEMMA GateInductive == ASSUME TypeOK, StageInv, RampInv, GateInv, [Next]_vars PROVE GateInv'
<1>0. PacerTypeOK /\ ToSet(workers) \in SUBSET VUs
  BY DEF TypeOK, ToSet
<1>1. CASE RunMove("stages", {})
  BY <1>0, <1>1, GateRun
<1>2. CASE GiveUpRamp
  BY <1>0, <1>2, GateRun DEF GiveUpRamp, RunMove
<1>3. CASE Adjusts
  BY <1>3, GateAdjust
<1>4. CASE KeepsList
  BY <1>4, GateFrame DEF KeepsList, workerVars, lifeVars, iterVars, begunVars
<1>5. CASE RampDownEnds
  BY <1>5, GateFrame DEF RampDownEnds, PacerGoto, WorkerInternals, iterVars, begunVars
<1>6. ASSUME NEW v \in VUs, WorkerStep(v) PROVE GateInv'
  BY <1>0, <1>6, WorkerStepMoves, GateWorker
<1>7. CASE UNCHANGED vars
  BY <1>7 DEF vars, pacerVars, workerVars, gateVars, lifeVars, iterVars, begunVars, GateInv, GateWorkerInv,
     ReadyVotes, FailedVotes, QuorumReached, QuorumImpossible
<1>8. PacerStep => GateInv'
  BY <1>1, <1>2, <1>3, <1>4, <1>5, PacerSteps
<1>9. ParentCancels => GateInv'
  BY <1>1 DEF RunMove
<1> QED BY <1>6, <1>7, <1>8, <1>9 DEF Next, Terminated

\* The drain's invariant is inductive: an adjustment precedes the drain.
LEMMA DrainInductive == ASSUME TypeOK, StageInv, RampInv, DrainInv, [Next]_vars PROVE DrainInv'
<1>0. PacerTypeOK /\ ToSet(workers) \in SUBSET VUs
  BY DEF TypeOK, ToSet
<1>1. CASE RunMove("stages", {})
  BY <1>1, DrainRun
<1>2. CASE GiveUpRamp
  <2>1. RunMove("stages", ToSet(workers))
    BY <1>2 DEF GiveUpRamp, RunMove
  <2> QED BY <1>0, <2>1, DrainRun
<1>3. ASSUME NEW desired \in Nat, NEW withGate \in BOOLEAN, AdjustWorkers(desired, withGate),
             ppc \in {"startup", "ticking"}, ppc' \in {"await", "ticking", "stages"}
      PROVE  DrainInv'
  <2>1. UNCHANGED <<activeGauge, afterDone, cancelledBy, waitCh, ret>>
    BY <1>3, AdjustCases DEF AdjustFrame
  <2>2. CASE SpawnMissing(desired, withGate)
    <3>1. Fresh(desired) \in SUBSET VUs
      BY <1>3, <2>2, SpawnedList
    <3>2. ppc \notin {"drain", "drainWait", "returned"} /\ ppc' # "returned"
      BY <1>3
    <3>3. /\ \A v \in Fresh(desired) : pc[v] = "unborn"
          /\ pc' = [v \in VUs |-> IF v \in Fresh(desired) THEN "born" ELSE pc[v]]
      BY <1>3, <2>2, FreshAreUnborn
    <3> QED BY <1>0, <2>1, <3>1, <3>2, <3>3, DrainSpawn
  <2>3. CASE UNCHANGED pc
    BY <1>3, <2>1, <2>3, DrainFrame
  <2> QED BY <1>3, <2>2, <2>3, AdjustCases, StoppedList
<1>4. CASE Adjusts
  BY <1>3, <1>4, FirstAdjustment DEF Adjusts
<1>5. CASE KeepsList
  BY <1>5, DrainFrame DEF KeepsList, workerVars, lifeVars, signalVars
<1>6. CASE RampDownEnds
  BY <1>6, DrainFrame DEF RampDownEnds, PacerGoto, WorkerInternals
<1>7. ASSUME NEW v \in VUs, WorkerStep(v) PROVE DrainInv'
  BY <1>0, <1>7, WorkerStepMoves, DrainWorker
<1>8. CASE UNCHANGED vars
  BY <1>8 DEF vars, pacerVars, workerVars, lifeVars, signalVars, DrainInv, OnGauge, PastAfter, AllDone
<1>9. PacerStep => DrainInv'
  BY <1>1, <1>2, <1>4, <1>5, <1>6, PacerSteps
<1>10. ParentCancels => DrainInv'
  BY <1>1 DEF RunMove
<1> QED BY <1>7, <1>8, <1>9, <1>10 DEF Next, Terminated

\* The tallies' invariant is inductive: only virtual users move them.
LEMMA TallyInductive == ASSUME TypeOK, StageInv, RampInv, TallyInv, [Next]_vars PROVE TallyInv'
<1>0. PacerTypeOK /\ ToSet(workers) \in SUBSET VUs
  BY DEF TypeOK, ToSet
<1>1. CASE RunMove("stages", {})
  BY <1>1, TallyRun
<1>2. CASE GiveUpRamp
  BY <1>0, <1>2, TallyRun DEF GiveUpRamp, RunMove
<1>3. ASSUME NEW desired \in Nat, NEW withGate \in BOOLEAN, AdjustWorkers(desired, withGate)
      PROVE  TallyInv'
  <2>1. UNCHANGED <<begun, tallyVars>>
    BY <1>3, AdjustCases DEF AdjustFrame, iterVars, begunVars
  <2>2. UNCHANGED InFlight
    <3>1. CASE SpawnMissing(desired, withGate)
      BY <3>1, FreshAreUnborn DEF InFlight, InIteration
    <3>2. CASE UNCHANGED pc
      BY <3>2 DEF InFlight
    <3> QED BY <1>3, <3>1, <3>2, AdjustCases, StoppedList
  <2> QED BY <2>1, <2>2, TallyFrame
<1>4. CASE Adjusts
  BY <1>3, <1>4, FirstAdjustment DEF Adjusts
<1>5. CASE KeepsList \/ UNCHANGED vars
  BY <1>5, TallyFrame DEF KeepsList, vars, workerVars, iterVars, begunVars, InFlight
<1>6. CASE RampDownEnds
  BY <1>6, TallyFrame DEF RampDownEnds, WorkerInternals, iterVars, begunVars, InFlight
<1>7. ASSUME NEW v \in VUs, WorkerStep(v) PROVE TallyInv'
  BY <1>0, <1>7, WorkerStepMoves, TallyWorker
<1>9. PacerStep => TallyInv'
  BY <1>1, <1>2, <1>4, <1>5, <1>6, PacerSteps
<1>10. ParentCancels => TallyInv'
  BY <1>1 DEF RunMove
<1> QED BY <1>5, <1>7, <1>9, <1>10 DEF Next, Terminated

\* Every step keeps the telemetry's invariant: the schedule stops and spawns
\* virtual users, and adds none to those that gave up.
LEMMA TelemetryInductive == ASSUME TypeOK, StageInv, RampInv, TelemetryInv, [Next]_vars PROVE TelemetryInv'
<1>0. PacerTypeOK /\ ToSet(workers) \in SUBSET VUs
  BY DEF TypeOK, ToSet
<1>1. ASSUME NEW S \in SUBSET VUs, RunMove("stages", S) PROVE TelemetryInv'
  BY <1>0, <1>1, TelemetryRun
<1>2. CASE GiveUpRamp
  BY <1>0, <1>1, <1>2 DEF GiveUpRamp, RunMove
<1>3. ASSUME NEW desired \in Nat, NEW withGate \in BOOLEAN, AdjustWorkers(desired, withGate)
      PROVE  TelemetryInv'
  <2>0. UNCHANGED <<vote, preTestVars, cancelledBy>>
    BY <1>3, AdjustCases DEF AdjustFrame
  <2>1. CASE SpawnMissing(desired, withGate)
    <3>1. UNCHANGED signalVars
      BY <2>0, <2>1 DEF SpawnMissing, signalVars
    <3>2. Fresh(desired) \in SUBSET VUs
      BY <2>1, SpawnedList
    <3>3. pc' = [v \in VUs |-> IF v \in Fresh(desired) THEN "born" ELSE pc[v]]
      BY <2>1, FreshAreUnborn
    <3>4. UNCHANGED <<vote, preTestVars, signalVars>>
      BY <2>0, <3>1
    <3> QED BY <1>0, <3>2, <3>3, <3>4, TelemetrySpawn
  <2>2. CASE UNCHANGED pc /\ stopped \subseteq stopped'
    <3>1. UNCHANGED GaveUp /\ UNCHANGED <<pretestErrors, vuRestarts>>
      BY <2>0, <2>2 DEF GaveUp, preTestVars
    <3> QED BY <1>0, <2>0, <2>2, <3>1, TelemetryFrame DEF ctxDone
  <2> QED BY <1>3, <2>1, <2>2, AdjustCases, StoppedList
<1>4. CASE Adjusts
  BY <1>3, <1>4, FirstAdjustment DEF Adjusts
<1>5. CASE KeepsList \/ UNCHANGED vars
  BY <1>0, <1>5, TelemetryFrame DEF KeepsList, vars, workerVars, lifeVars, preTestVars, signalVars, GaveUp, ctxDone
<1>6. CASE RampDownEnds
  BY <1>0, <1>6, TelemetryFrame DEF RampDownEnds, WorkerInternals, preTestVars, GaveUp, ctxDone
<1>7. ASSUME NEW v \in VUs, WorkerStep(v) PROVE TelemetryInv'
  BY <1>0, <1>7, WorkerStepMoves, TelemetryWorker
<1>9. PacerStep => TelemetryInv'
  BY <1>1, <1>2, <1>4, <1>5, <1>6, PacerSteps
<1>10. ParentCancels => TelemetryInv'
  BY <1>1 DEF RunMove
<1> QED BY <1>5, <1>7, <1>9, <1>10 DEF Next, Terminated

\* Only a poll that finds no stop lets a virtual user go on.
LEMMA GoesOnByPollingOnly ==
  ASSUME TypeOK, NEW v \in VUs, WorkerStep(v)
  PROVE  PassLoopHead(v) => ~ShouldStop(v)
BY OnlyPassPasses DEF TypeOK, WorkerStep, PollStep, PollAndGoOn, PollAndLeave

\* The bound on late iterations is inductive: the schedule spawns and stops
\* virtual users, starts none and lets none that it stopped go on again.
LEMMA LateInductive == ASSUME TypeOK, StageInv, RampInv, LateInv, [Next]_vars PROVE LateInv'
<1>0. PacerTypeOK /\ ToSet(workers) \in SUBSET VUs
  BY DEF TypeOK, ToSet
<1>1. ASSUME NEW S \in SUBSET VUs, RunMove("stages", S) PROVE LateInv'
  BY <1>1, LateRun
<1>2. CASE GiveUpRamp
  BY <1>0, <1>1, <1>2 DEF GiveUpRamp, RunMove
<1>3. ASSUME NEW desired \in Nat, NEW withGate \in BOOLEAN, AdjustWorkers(desired, withGate)
      PROVE  LateInv'
  <2>0. UNCHANGED <<begunLate, cancelledBy>>
    BY <1>3, AdjustCases DEF AdjustFrame, iterVars, begunVars
  <2>1. CASE SpawnMissing(desired, withGate)
    <3>1. UNCHANGED stopped
      BY <2>1 DEF SpawnMissing, signalVars
    <3>2. \A w \in VUs : pc'[w] = "begin" => pc[w] = "begin"
      BY <2>1, FreshAreUnborn
    <3> QED BY <2>0, <3>1, <3>2, LateFrame DEF ctxDone
  <2>2. CASE UNCHANGED pc /\ stopped \subseteq stopped'
    BY <2>0, <2>2, LateFrame DEF ctxDone
  <2> QED BY <1>3, <2>1, <2>2, AdjustCases, StoppedList
<1>4. CASE Adjusts
  BY <1>3, <1>4, FirstAdjustment DEF Adjusts
<1>5. CASE KeepsList \/ UNCHANGED vars
  BY <1>5, LateFrame DEF KeepsList, vars, workerVars, iterVars, begunVars, signalVars, ctxDone
<1>6. CASE RampDownEnds
  BY <1>6, LateFrame DEF RampDownEnds, WorkerInternals, iterVars, begunVars, ctxDone
<1>7. ASSUME NEW v \in VUs, WorkerStep(v) PROVE LateInv'
  BY <1>0, <1>7, WorkerStepMoves, GoesOnByPollingOnly, LateWorker
<1>9. PacerStep => LateInv'
  BY <1>1, <1>2, <1>4, <1>5, <1>6, PacerSteps
<1>10. ParentCancels => LateInv'
  BY <1>1 DEF RunMove
<1> QED BY <1>5, <1>7, <1>9, <1>10 DEF Next, Terminated

\* Once the quorum is reached it stays reached, and no virtual user's step
\* moves the list.
LEMMA WorkersKeepQuorum ==
  ASSUME PacerTypeOK, NEW v \in VUs, WorkerMove(v), QuorumReached
  PROVE  QuorumReached'
<1>1. readyCount' = readyCount \/ readyCount' = readyCount + 1
  BY DEF WorkerMove, HookStep, EngineStep, gateVars, Start, PreTestSucceeds, PreTestFailsForGood,
     PreTestFailsAndRetries, BackoffElapses, BackoffInterrupted, RecordFailed, AddFailed, TriggerDropoutAbort,
     DropoutAlreadyAborted, CloseDropoutAbort, PublishAbort, CloseAbort, RecordReady, AddReady, ReleaseGate, OpenGate,
     EnterThroughGate, TurnBackAtGate, RunVUReturns, RecordIterationResult, AfterTest, Deregister, Done,
     DeadlinePasses, BeginIteration, PassLoopHead, LeaveLoop
<1>2. readyCount \in Nat /\ Required \in Int
  BY RequiredRange, Assumptions DEF PacerTypeOK, WorkerTypeOK, GateTypeOK, SharedAssumptions
<1> QED BY <1>1, <1>2 DEF QuorumReached, Required

\* The list's invariant is inductive: every way into the drain empties it.
LEMMA RampInductive == ASSUME TypeOK, StageInv, GateInv, RampInv, [Next]_vars PROVE RampInv'
<1>0. PacerTypeOK
  BY DEF TypeOK
<1> DEFINE Closing(p) == p \in {"drain", "drainWait", "returned"}
<1>1. ASSUME RunMove("stages", {}), UNCHANGED stageVars, Closing(ppc') => Closing(ppc) PROVE RampInv'
  <2>1. UNCHANGED <<pc, stopped, workers, vuidSeq, readyCount>>
    BY <1>1 DEF RunMove, AwaitStep, QuorumIsReached, QuorumIsAborted, AwaitCancelled, GraceExpires, PublishGraceAbort,
       CloseGraceAbort, GraceAlreadyAborted, DrainStep, WaitGroupDrained, DrainedEarly, DrainedLate, ReturnToExecutor,
       DrainTimesOut, ParentCancels, GiveUpStartup, WorkerInternals, workerVars, signalVars, gateVars, PublishAbort,
       CloseAbort, stageVars
  <2>2. /\ ppc' = "startup" => ppc = "startup" /\ UNCHANGED gated
        /\ ppc' = "stages" => ppc = "stages" \/ QuorumReached
        /\ ppc' \in {"ticking", "rampDown"} => ppc' = ppc
    BY <1>1 DEF GateInv, RunMove, AwaitStep, QuorumIsReached, QuorumIsAborted, AwaitCancelled, GraceExpires,
       PublishGraceAbort, CloseGraceAbort, GraceAlreadyAborted, DrainStep, WaitGroupDrained, DrainedEarly, DrainedLate,
       ReturnToExecutor, DrainTimesOut, ParentCancels, GiveUpStartup, PacerGoto, pacerVars
  <2>3. QuorumReached' <=> QuorumReached
    BY <2>1 DEF QuorumReached, Required, Ceiling
  <2>4. StopChannelsPartition' /\ Spawned' = Spawned
    BY <2>1 DEF RampInv, StopChannelsPartition, Spawned
  <2> QED BY <1>1, <2>1, <2>2, <2>3, <2>4 DEF RampInv
<1>2. CASE GiveUpRamp \/ RampDownEnds
  <2>1. /\ stopped' = stopped \cup ToSet(workers) /\ workers' = <<>> /\ pc' = pc /\ vuidSeq' = vuidSeq
        /\ ppc' = "drain"
    BY <1>2 DEF GiveUpRamp, GiveUpStartup, RampDownEnds, PacerGoto
  <2>2. StopChannelsPartition' /\ Spawned' = Spawned
    BY <2>1, PartitionStopAll
  <2> QED BY <2>1, <2>2 DEF RampInv
<1>3. ASSUME NEW desired \in Nat, NEW withGate \in BOOLEAN, AdjustWorkers(desired, withGate),
             ppc' \in {"await", "ticking", "stages"}, UseGate /\ ppc' # "await" => QuorumReached
      PROVE  RampInv'
  <2>1. Spawned' = 1..vuidSeq' /\ StopChannelsPartition'
    <3>1. CASE SpawnMissing(desired, withGate)
      BY <3>1, FreshAreUnborn, PartitionSpawn
    <3>2. CASE StopNewest(desired)
      BY <3>2, PartitionStop, StoppedList DEF RampInv
    <3>3. CASE UNCHANGED <<pc, gated, stopped, workers, vuidSeq>>
      BY <3>3 DEF RampInv, Spawned, StopChannelsPartition
    <3> QED BY <1>3, <3>1, <3>2, <3>3, AdjustCases
  <2>2. QuorumReached' <=> QuorumReached
    BY <1>3, AdjustCases DEF AdjustFrame, gateVars, QuorumReached, Required, Ceiling
  <2> QED BY <1>3, <2>1, <2>2 DEF RampInv
<1>4. CASE Adjusts
  <2>1. CASE UseGate /\ ppc = "startup" /\ ppc' = "await" /\ AdjustWorkers(Stages[1], TRUE)
    BY <1>3, <2>1, FirstAdjustment
  <2>2. CASE /\ ppc = "ticking" /\ ppc' \in {"ticking", "stages"}
             /\ \E desired \in Nat : AdjustWorkers(desired, FALSE)
    <3>1. UseGate => QuorumReached
      BY <2>2 DEF RampInv
    <3> QED BY <1>3, <2>2, <3>1
  <2> QED BY <1>4, <2>1, <2>2 DEF Adjusts
<1>5. CASE KeepsList
  <2>1. UNCHANGED <<pc, stopped, workers, vuidSeq>>
    BY <1>5 DEF KeepsList, workerVars, signalVars
  <2>2. QuorumReached' <=> QuorumReached
    BY <1>5 DEF KeepsList, workerVars, gateVars, QuorumReached, Required, Ceiling
  <2>3. StopChannelsPartition' /\ Spawned' = Spawned
    BY <2>1 DEF RampInv, StopChannelsPartition, Spawned
  <2> QED BY <1>5, <2>1, <2>2, <2>3 DEF KeepsList, RampInv
<1>6. ASSUME NEW v \in VUs, WorkerStep(v) PROVE RampInv'
  <2>1. Spawned' = Spawned /\ v \in Spawned /\ UNCHANGED <<stopped, workers, vuidSeq, ppc>>
    BY <1>0, <1>6, WorkerStepMoves, WorkersStaySpawned DEF stageVars, pacerVars
  <2>2. ppc # "startup"
    <3>1. ppc = "startup" => Spawned = 1..0
      BY DEF RampInv
    <3> QED BY <2>1, <3>1
  <2>3. QuorumReached => QuorumReached'
    BY <1>0, <1>6, WorkerStepMoves, WorkersKeepQuorum
  <2>4. StopChannelsPartition'
    BY <2>1 DEF RampInv, StopChannelsPartition
  <2> QED BY <2>1, <2>2, <2>3, <2>4 DEF RampInv
<1>7. CASE UNCHANGED vars
  BY <1>7 DEF vars, pacerVars, stageVars, workerVars, gateVars, lifeVars, signalVars, RampInv, Spawned,
     StopChannelsPartition, QuorumReached, Required, Ceiling
<1>8. PacerStep => RampInv'
  <2>1. RunMove("stages", {}) /\ ppc' # "drain" => (Closing(ppc') => Closing(ppc))
    BY DEF RunMove, AwaitStep, QuorumIsReached, QuorumIsAborted, AwaitCancelled, GraceExpires, PublishGraceAbort,
       CloseGraceAbort, GraceAlreadyAborted, DrainStep, WaitGroupDrained, DrainedEarly, DrainedLate, ReturnToExecutor,
       DrainTimesOut, ParentCancels, GiveUpStartup, PacerGoto, pacerVars
  <2> HIDE DEF Closing
  <2>2. ppc = "drain" => Closing(ppc)
    BY DEF Closing
  <2> QED BY <1>1, <1>2, <1>4, <1>5, <2>1, <2>2, PacerSteps
<1>9. ParentCancels /\ UNCHANGED stageVars => RampInv'
  BY <1>1 DEF RunMove, ParentCancels, pacerVars
<1> QED BY <1>6, <1>7, <1>8, <1>9 DEF Next, Terminated

\* The strengthened invariant holds in every reachable state.
THEOREM RampingInvariant == Spec => []IInv
<1>1. Init /\ TypeOK => IInv
  <2> SUFFICES ASSUME Init PROVE IInv
    OBVIOUS
  <2>1. WorkerInit /\ PacerInit("startup")
    BY DEF Init
  <2>2. GateInv
    BY <2>1, GateInitially
  <2>3. DrainInv
    <3>1. OnGauge = {} /\ PastAfter = {}
      BY <2>1 DEF WorkerInit, OnGauge, PastAfter
    <3> QED BY <2>1, <3>1, FS_EmptySet DEF WorkerInit, PacerInit, DrainInv
  <2>4. RampInv
    <3>1. Spawned = {} /\ stopped = {} /\ ToSet(workers) = {} /\ IsInjective(workers)
      BY DEF Init, WorkerInit, Spawned, ToSet, IsInjective
    <3> QED BY <3>1 DEF Init, WorkerInit, PacerInit, RampInv, StopChannelsPartition
  <2>5. StageInv
    BY <2>1 DEF PacerInit, StageInv
  <2> QED BY <2>1, <2>2, <2>3, <2>4, <2>5, TelemetryInitially, TallyInitially, LateInitially DEF IInv
<1>2. TypeOK /\ IInv /\ [Next]_vars => IInv'
  BY TypeInductive, GateInductive, TelemetryInductive, DrainInductive, TallyInductive, LateInductive, RampInductive DEF IInv
<1> QED BY <1>1, <1>2, RampingTypeCorrect, PTL DEF Spec

-----------------------------------------------------------------------------
(* The load that the stages ask for, and who is missing.                   *)

\* Those that are missing are finitely many.
LEMMA ShortFinite == IsFiniteSet(Short) /\ Cardinality(Short) \in Nat
<1>1. Short \in SUBSET VUs
  BY DEF Short
<1> QED BY <1>1, Assumptions, FS_Subset, FS_CardinalityType DEF SharedAssumptions

\* A step after which nobody more is missing, and that counts nothing.
LEMMA ShortFrame ==
  ASSUME PacerTypeOK, ShortInv, Short' \subseteq Short,
         pretestErrors' - vuRestarts' = pretestErrors - vuRestarts,
         abortCh => abortCh', ctxDone => ctxDone'
  PROVE  ShortInv'
<1>1. Cardinality(Short') <= Cardinality(Short) /\ Cardinality(Short') \in Nat
  BY ShortFinite, FS_Subset, FS_CardinalityType
<1>2. pretestErrors \in Nat /\ vuRestarts \in Nat
  BY DEF PacerTypeOK, WorkerTypeOK
<1>3. CASE ctxDone \/ abortCh
  BY <1>3 DEF ShortInv
<1>4. CASE Cardinality(Short) <= pretestErrors - vuRestarts
  BY <1>1, <1>2, <1>4, ShortFinite DEF ShortInv
<1> QED BY <1>3, <1>4 DEF ShortInv

\* Nothing that a virtual user does takes the gate's abort back.
LEMMA WorkersKeepAbort == ASSUME NEW v \in VUs, WorkerMove(v) PROVE abortCh => abortCh'
BY DEF WorkerMove, HookStep, EngineStep, gateVars, Start, PreTestSucceeds, PreTestFailsForGood,
   PreTestFailsAndRetries, BackoffElapses, BackoffInterrupted, RecordFailed, AddFailed, TriggerDropoutAbort,
   DropoutAlreadyAborted, CloseDropoutAbort, PublishAbort, CloseAbort, RecordReady, AddReady, ReleaseGate, OpenGate,
   EnterThroughGate, TurnBackAtGate, RunVUReturns, RecordIterationResult, AfterTest, Deregister, Done,
   DeadlinePasses, BeginIteration, PassLoopHead, LeaveLoop

\* Nor does it change whether it has a gate.
LEMMA WorkersKeepGated == ASSUME NEW v \in VUs, WorkerMove(v) PROVE gated' = gated
BY DEF WorkerMove, HookStep, EngineStep, lifeVars, Start, PreTestSucceeds, PreTestFailsForGood,
   PreTestFailsAndRetries, BackoffElapses, BackoffInterrupted, RecordFailed, TriggerDropoutAbort,
   DropoutAlreadyAborted, CloseDropoutAbort, RecordReady, ReleaseGate, EnterThroughGate,
   TurnBackAtGate, RunVUReturns, RecordIterationResult, AfterTest, Deregister, Done,
   DeadlinePasses, BeginIteration, PassLoopHead, LeaveLoop

\* A virtual user that nobody told to stop is counted before it leaves, unless the
\* gate turned it back.
LEMMA ShortWorker ==
  ASSUME PacerTypeOK, ShortInv, NEW v \in VUs, WorkerStep(v)
  PROVE  ShortInv'
<1>a. /\ pc \in [VUs -> WorkerPC] /\ pretestErrors \in Nat /\ vuRestarts \in Nat
  BY DEF PacerTypeOK, WorkerTypeOK
<1>b. UNCHANGED signalVars /\ (abortCh => abortCh')
  BY WorkerStepMoves, WorkersDoNotStop, WorkersKeepAbort
<1>c. ASSUME Short' \subseteq Short, pretestErrors' - vuRestarts' = pretestErrors - vuRestarts
      PROVE  ShortInv'
  BY <1>b, <1>c, ShortFrame DEF signalVars, ctxDone
<1>d. CASE ctxDone \/ abortCh
  BY <1>b, <1>d DEF ShortInv, signalVars, ctxDone
<1>e. stopped' = stopped
  BY <1>b DEF signalVars
<1> USE DEF Goto, preTestVars, Short, Left
<1>1. CASE Start(v)
  BY <1>a, <1>c, <1>e, <1>1 DEF Start
<1>2. CASE PreTestSucceeds(v)
  BY <1>a, <1>c, <1>e, <1>2 DEF PreTestSucceeds
<1>3. CASE PreTestFailsForGood(v)
  <2>1. Short' \subseteq Short \cup {v} /\ pretestErrors' = pretestErrors + 1 /\ vuRestarts' = vuRestarts
    BY <1>a, <1>e, <1>3 DEF PreTestFailsForGood, GiveUp
  <2> HIDE DEF Short
  <2>2. IsFiniteSet(Short \cup {v}) /\ Cardinality(Short \cup {v}) <= Cardinality(Short) + 1
        /\ Cardinality(Short \cup {v}) \in Nat
    BY ShortFinite, FS_AddElement
  <2>3. Cardinality(Short') <= Cardinality(Short) + 1 /\ Cardinality(Short') \in Nat
    BY <2>1, <2>2, ShortFinite, FS_Subset, FS_CardinalityType
  <2>5. CASE Cardinality(Short) <= pretestErrors - vuRestarts
    BY <1>a, <2>1, <2>3, <2>5, ShortFinite DEF ShortInv
  <2> QED BY <1>d, <2>5 DEF ShortInv
<1>4. CASE PreTestFailsAndRetries(v)
  BY <1>a, <1>c, <1>e, <1>4 DEF PreTestFailsAndRetries
<1>5. CASE BackoffElapses(v)
  BY <1>a, <1>c, <1>e, <1>5 DEF BackoffElapses
<1>6. CASE BackoffInterrupted(v)
  <2>1. CASE v \in stopped
    BY <1>a, <1>c, <1>e, <1>6, <2>1 DEF BackoffInterrupted, GiveUp
  <2> QED BY <1>d, <1>6, <2>1 DEF BackoffInterrupted
<1>7. CASE RecordFailed(v)
  BY <1>a, <1>c, <1>e, <1>7 DEF RecordFailed
<1>8. CASE TriggerDropoutAbort(v)
  BY <1>a, <1>c, <1>e, <1>8 DEF TriggerDropoutAbort
<1>9. CASE DropoutAlreadyAborted(v)
  BY <1>a, <1>c, <1>e, <1>9 DEF DropoutAlreadyAborted
<1>10. CASE CloseDropoutAbort(v)
  BY <1>a, <1>c, <1>e, <1>10 DEF CloseDropoutAbort
<1>11. CASE RecordReady(v)
  BY <1>a, <1>c, <1>e, <1>11 DEF RecordReady
<1>12. CASE ReleaseGate(v)
  BY <1>a, <1>c, <1>e, <1>12 DEF ReleaseGate
<1>13. CASE EnterThroughGate(v)
  BY <1>a, <1>c, <1>e, <1>13 DEF EnterThroughGate
<1>14. CASE TurnBackAtGate(v)
  BY <1>d, <1>14 DEF TurnBackAtGate
<1>15. CASE PollStep(v)
  <2>1. CASE PollAndGoOn(v)
    BY <1>a, <1>c, <1>e, <2>1 DEF PollAndGoOn, PassLoopHead
  <2>2. CASE PollAndLeave(v) /\ v \in stopped
    BY <1>a, <1>c, <1>e, <2>2 DEF PollAndLeave, LeaveLoop
  <2>3. PollAndLeave(v) => v \in stopped \/ ctxDone
    BY DEF PollAndLeave, ShouldStop
  <2> QED BY <1>d, <1>15, <2>1, <2>2, <2>3 DEF PollStep
<1>16. CASE BeginIteration(v)
  BY <1>a, <1>c, <1>e, <1>16 DEF BeginIteration
<1>17. CASE DeadlinePasses(v)
  BY <1>a, <1>c, <1>e, <1>17 DEF DeadlinePasses
<1>18. CASE RunVUReturns(v)
  BY <1>a, <1>c, <1>e, <1>18 DEF RunVUReturns
<1>19. CASE RecordIterationResult(v)
  BY <1>a, <1>c, <1>e, <1>19 DEF RecordIterationResult
<1>20. CASE AfterTest(v)
  BY <1>a, <1>c, <1>e, <1>20 DEF AfterTest
<1>21. CASE Deregister(v)
  BY <1>a, <1>c, <1>e, <1>21 DEF Deregister
<1>22. CASE Done(v)
  BY <1>a, <1>c, <1>e, <1>22 DEF Done
<1> QED
  BY <1>1, <1>2, <1>3, <1>4, <1>5, <1>6, <1>7, <1>8, <1>9, <1>10, <1>11, <1>12, <1>13, <1>14, <1>15, <1>16, <1>17, <1>18, <1>19, <1>20, <1>21, <1>22
     DEF WorkerStep, HookStep, EngineStep

\* What Run does adds nobody to those that are missing.
LEMMA ShortInductive == ASSUME TypeOK, StageInv, RampInv, ShortInv, [Next]_vars PROVE ShortInv'
<1>0. PacerTypeOK
  BY DEF TypeOK
<1>1. ASSUME NEW S, RunMove("stages", S) PROVE ShortInv'
  <2>1. UNCHANGED <<pc, preTestVars>>
    BY <1>1 DEF RunMove, AwaitStep, QuorumIsReached, QuorumIsAborted, AwaitCancelled, GraceExpires, PublishGraceAbort,
       CloseGraceAbort, GraceAlreadyAborted, DrainStep, WaitGroupDrained, DrainedEarly, DrainedLate, ReturnToExecutor,
       DrainTimesOut, ParentCancels, GiveUpStartup, WorkerInternals, workerVars
  <2>2. stopped \subseteq stopped' /\ (ctxDone => ctxDone')
    BY <1>1 DEF RunMove, AwaitStep, QuorumIsReached, QuorumIsAborted, AwaitCancelled, GraceExpires, PublishGraceAbort,
       CloseGraceAbort, GraceAlreadyAborted, DrainStep, WaitGroupDrained, DrainedEarly, DrainedLate, ReturnToExecutor,
       DrainTimesOut, ParentCancels, GiveUpStartup, WorkerInternals, workerVars, signalVars, Cancel, ctxDone
  <2>4. abortCh => abortCh'
    <3>1. CASE CloseGraceAbort
      BY <3>1 DEF CloseGraceAbort, CloseAbort
    <3>2. CASE PublishGraceAbort
      BY <3>2 DEF PublishGraceAbort, PublishAbort
    <3>3. CASE UNCHANGED gateVars
      BY <3>3 DEF gateVars
    <3>4. CloseGraceAbort \/ PublishGraceAbort \/ UNCHANGED gateVars
      BY <1>1 DEF RunMove, AwaitStep, QuorumIsReached, QuorumIsAborted, AwaitCancelled, GraceExpires,
         GraceAlreadyAborted, DrainStep, WaitGroupDrained, DrainedEarly, DrainedLate, ReturnToExecutor,
         DrainTimesOut, ParentCancels, GiveUpStartup, WorkerInternals, workerVars
    <3> QED BY <3>1, <3>2, <3>3, <3>4
  <2>3. Short' \subseteq Short
    BY <2>1, <2>2 DEF Short
  <2> QED BY <1>0, <2>1, <2>2, <2>3, <2>4, ShortFrame DEF preTestVars
<1>2. CASE GiveUpRamp
  BY <1>1, <1>2 DEF GiveUpRamp, RunMove
<1>3. ASSUME NEW desired \in Nat, NEW withGate \in BOOLEAN, AdjustWorkers(desired, withGate)
      PROVE  ShortInv'
  <2>0. UNCHANGED <<preTestVars, cancelledBy, abortCh>>
    BY <1>3, AdjustCases DEF AdjustFrame, gateVars
  <2>1. Short' \subseteq Short
    <3>1. CASE SpawnMissing(desired, withGate)
      <4>1. pc' = [v \in VUs |-> IF v \in Fresh(desired) THEN "born" ELSE pc[v]] /\ stopped' = stopped
        BY <3>1, FreshAreUnborn DEF SpawnMissing
      <4> QED BY <4>1 DEF Short, Left
    <3>2. CASE UNCHANGED pc /\ stopped \subseteq stopped'
      BY <3>2 DEF Short
    <3> QED BY <1>3, <3>1, <3>2, AdjustCases, StoppedList
  <2> QED BY <1>0, <2>0, <2>1, ShortFrame DEF preTestVars, ctxDone
<1>4. CASE Adjusts
  BY <1>3, <1>4, FirstAdjustment DEF Adjusts
<1>5. CASE KeepsList \/ UNCHANGED vars
  BY <1>0, <1>5, ShortFrame DEF KeepsList, vars, workerVars, gateVars, preTestVars, signalVars, Short, ctxDone
<1>6. CASE RampDownEnds
  BY <1>0, <1>6, ShortFrame DEF RampDownEnds, WorkerInternals, gateVars, preTestVars, Short, ctxDone
<1>7. ASSUME NEW v \in VUs, WorkerStep(v) PROVE ShortInv'
  BY <1>0, <1>7, ShortWorker
<1>8. PacerStep => ShortInv'
  BY <1>1, <1>2, <1>4, <1>5, <1>6, PacerSteps
<1>9. ParentCancels => ShortInv'
  BY <1>1 DEF RunMove
<1> QED BY <1>5, <1>7, <1>8, <1>9 DEF Next, Terminated

\* An adjustment leaves as many virtual users on the list as it was asked for.
LEMMA AdjustReaches ==
  ASSUME TypeOK, NEW desired \in Nat, NEW withGate \in BOOLEAN, AdjustWorkers(desired, withGate)
  PROVE  Len(workers') = desired /\ UNCHANGED <<ret, graceFired, cancelledBy>>
<1>1. CASE SpawnMissing(desired, withGate) BY <1>1, SpawnedList, AdjustCases DEF AdjustFrame
<1>2. CASE StopNewest(desired) BY <1>2, StoppedList, AdjustCases DEF AdjustFrame
<1>3. CASE KeepAll(desired) BY <1>3, AdjustCases DEF AdjustFrame, KeepAll
<1> QED BY <1>1, <1>2, <1>3 DEF AdjustWorkers

\* The level stays between the targets of its stage.
LEMMA LevelsBetween ==
  ASSUME NEW a \in Nat, NEW b \in Nat, NEW l \in Between(a, b),
         NEW x \in IF a <= b THEN l..b ELSE b..l
  PROVE  x \in Between(a, b)
BY DEF Between

\* Each stage starts where the one before has ended, and moves towards its target.
LEMMA LevelInductive == ASSUME TypeOK, StageInv, GateInv, RampInv, LevelInv, [Next]_vars PROVE LevelInv'
<1>0. PacerTypeOK /\ stage \in 1..Len(Stages) + 1 /\ Len(Stages) \in Nat /\ \A i \in 1..Len(Stages) : Stages[i] \in Nat
  BY StagesAndVuids DEF TypeOK
<1>1. ASSUME RunMove("stages", {}), UNCHANGED stageVars PROVE LevelInv'
  <2>0. graceFired \in BOOLEAN
    BY <1>0 DEF PacerTypeOK
  <2>1. /\ ppc' \in {"startup", "ticking", "await"} => ppc = ppc'
        /\ ppc' = "stages" => ppc \in {"stages", "await"}
        /\ graceFired' => graceFired \/ ppc' = "abort"
        /\ graceFired' => ppc' \notin {"startup", "await", "stages", "ticking", "rampDown"}
    <3>1. CASE GraceExpires("stages")
      BY <2>0, <3>1 DEF GraceExpires, PacerGoto, LevelInv
    <3>2. CASE AwaitStep("stages") /\ ~GraceExpires("stages")
      BY <2>0, <3>2 DEF AwaitStep, QuorumIsReached, QuorumIsAborted, AwaitCancelled, PublishGraceAbort,
         CloseGraceAbort, GraceAlreadyAborted, PacerGoto, LevelInv
    <3>3. CASE DrainStep
      BY <2>0, <3>3 DEF DrainStep, WaitGroupDrained, DrainedEarly, DrainedLate, ReturnToExecutor, DrainTimesOut, PacerGoto, LevelInv
    <3>4. CASE ParentCancels \/ GiveUpStartup({})
      BY <2>0, <3>4 DEF ParentCancels, pacerVars, GiveUpStartup, PacerGoto, LevelInv
    <3> QED BY <1>1, <3>1, <3>2, <3>3, <3>4 DEF RunMove
  <2>4. ctxDone => ctxDone'
    BY <1>1 DEF RunMove, AwaitStep, QuorumIsReached, QuorumIsAborted, AwaitCancelled, GraceExpires, PublishGraceAbort,
       CloseGraceAbort, GraceAlreadyAborted, DrainStep, WaitGroupDrained, DrainedEarly, DrainedLate, ReturnToExecutor,
       DrainTimesOut, ParentCancels, GiveUpStartup, Cancel, ctxDone, workerVars, signalVars
  <2>2. ppc = "await" => UseGate
    BY DEF GateInv
  <2>3. LastTarget' = LastTarget /\ UNCHANGED <<workers, stage, startVU, level>>
    BY <1>1 DEF stageVars, LastTarget
  <2> QED BY <2>1, <2>2, <2>3, <2>4 DEF LevelInv
<1>2. CASE GiveUpRamp \/ RampDownEnds
  BY <1>2 DEF GiveUpRamp, GiveUpStartup, RampDownEnds, PacerGoto, LevelInv
<1>3. CASE StartGated
  <2>1. /\ UseGate /\ ppc = "startup" /\ ppc' = "await" /\ UNCHANGED <<stage, startVU, level>>
        /\ AdjustWorkers(Stages[1], TRUE) /\ Stages[1] \in Nat
    BY <1>3, StagesAndVuids DEF StartGated, PacerGoto
  <2>2. Len(workers') = Stages[1] /\ UNCHANGED graceFired
    BY <2>1, AdjustReaches
  <2> QED BY <2>1, <2>2 DEF LevelInv, LastTarget
<1>4. CASE StartUngated
  <2>1. /\ ~UseGate /\ ppc = "startup" /\ ppc' = "stages" /\ UNCHANGED <<workers, stage, startVU, level, graceFired>>
    BY <1>4 DEF StartUngated, PacerGoto, stageVars
  <2>2. Len(workers) = 0 /\ stage = 1 /\ LastTarget = 0
    BY <2>1 DEF RampInv, LevelInv, LastTarget
  <2> QED BY <2>1, <2>2 DEF LevelInv, LastTarget
<1>5. CASE EnterStage
  <2>1. /\ ppc = "stages" /\ ppc' = "ticking" /\ UNCHANGED <<workers, stage, startVU, graceFired>>
        /\ level' = startVU /\ ~ctxDone /\ stage <= Len(Stages)
    BY <1>5 DEF EnterStage, PacerGoto
  <2>2. LastTarget' = LastTarget /\ startVU = LastTarget
    BY <2>1 DEF LastTarget, LevelInv
  <2>3. Stages[stage] \in Nat /\ startVU \in Nat
    BY <1>0, <2>1 DEF TypeOK
  <2>4. Len(workers) = startVU \/ (stage = 1 /\ UseGate /\ startVU = 0 /\ Len(workers) = Stages[1])
    BY <2>1, <2>2 DEF LevelInv, LastTarget
  <2>5. Len(workers) \in Between(startVU, Stages[stage]) /\ startVU \in Between(startVU, Stages[stage])
    BY <2>3, <2>4 DEF Between
  <2> QED BY <2>1, <2>2, <2>5 DEF LevelInv
<1>6. CASE StagesOver
  BY <1>6 DEF StagesOver, PacerGoto, LevelInv, stageVars
<1>7. CASE Tick50ms
  <2>1. ppc = "ticking" /\ ppc' = ppc /\ UNCHANGED <<stage, startVU>>
    BY <1>7 DEF Tick50ms
  <2>2. PICK desired \in NextLevels : level' = desired /\ AdjustWorkers(desired, FALSE)
    BY <1>7 DEF Tick50ms
  <2>3. NextLevels \subseteq Nat /\ Stages[stage] \in Nat /\ startVU \in Nat
    BY <2>1, LevelsAreNat DEF TypeOK
  <2>4. Len(workers') = desired /\ UNCHANGED graceFired
    BY <2>2, <2>3, AdjustReaches
  <2>5. level \in Between(startVU, Stages[stage])
    BY <2>1 DEF LevelInv
  <2>6. desired \in IF startVU <= Stages[stage] THEN level..Stages[stage] ELSE Stages[stage]..level
    BY <2>2 DEF NextLevels
  <2>7. desired \in Between(startVU, Stages[stage])
    BY <2>3, <2>5, <2>6, LevelsBetween
  <2> QED BY <2>1, <2>2, <2>4, <2>7 DEF LevelInv, LastTarget
<1>8. ASSUME ppc = "ticking", ppc' = "stages", stage' = stage + 1, startVU' = Stages[stage], UNCHANGED graceFired
      PROVE  /\ LastTarget' = Stages[stage] /\ stage' # 1
             /\ (~ctxDone' => Len(workers') = Stages[stage]) => LevelInv'
  <2>1. stage' # 1 /\ stage' - 1 = stage
    BY <1>0, <1>8
  <2>2. LastTarget' = Stages[stage]
    BY <2>1 DEF LastTarget
  <2> QED BY <1>8, <2>1, <2>2 DEF LevelInv
<1>9. CASE StageEnds
  <2>1. /\ ppc = "ticking" /\ ppc' = "stages" /\ stage' = stage + 1 /\ startVU' = Stages[stage]
        /\ AdjustWorkers(Stages[stage], FALSE)
    BY <1>9 DEF StageEnds, PacerGoto
  <2>2. Stages[stage] \in Nat
    BY <2>1, LevelsAreNat
  <2>3. Len(workers') = Stages[stage] /\ UNCHANGED graceFired
    BY <2>1, <2>2, AdjustReaches
  <2> QED BY <1>8, <2>1, <2>3
<1>10. CASE StageCancelled
  <2>1. /\ ppc = "ticking" /\ ppc' = "stages" /\ stage' = stage + 1 /\ startVU' = Stages[stage]
        /\ UNCHANGED graceFired /\ ctxDone /\ UNCHANGED workerVars
    BY <1>10 DEF StageCancelled, PacerGoto
  <2>2. ctxDone'
    BY <2>1 DEF workerVars, signalVars, ctxDone
  <2> QED BY <1>8, <2>1, <2>2
<1>11. CASE UNCHANGED <<ppc, graceFired, stageVars>> /\ (ctxDone => ctxDone')
  BY <1>11 DEF LevelInv, LastTarget, stageVars
<1>12. ASSUME NEW v \in VUs, WorkerStep(v) PROVE LevelInv'
  BY <1>11, <1>12, WorkerStepMoves, WorkersDoNotStop DEF pacerVars, signalVars, ctxDone
<1>13. CASE UNCHANGED vars
  BY <1>11, <1>13 DEF vars, pacerVars, workerVars, signalVars, ctxDone
<1>14. CASE (AwaitStep("stages") \/ DrainStep) /\ UNCHANGED stageVars
  BY <1>1, <1>14 DEF RunMove
<1>15. PacerStep => LevelInv'
  BY <1>2, <1>3, <1>4, <1>5, <1>6, <1>7, <1>9, <1>10, <1>14 DEF PacerStep, ScheduleStep
<1>16. ParentCancels /\ UNCHANGED stageVars => LevelInv'
  BY <1>1 DEF RunMove
<1> QED BY <1>12, <1>13, <1>15, <1>16 DEF Next, Terminated


\* Without a gate no virtual user is spawned with one.
Ungated == UseGate \/ gated = {}

\* It stays so: only the first adjustment of a gated run spawns with the gate.
LEMMA UngatedInductive == ASSUME TypeOK, StageInv, Ungated, [Next]_vars PROVE Ungated'
<1>1. UseGate \in BOOLEAN
  BY PacerAssumption
<1>2. CASE UseGate
  BY <1>2 DEF Ungated
<1>3. CASE gated' = gated
  BY <1>3 DEF Ungated
<1>4. ASSUME NEW v \in VUs, WorkerStep(v) PROVE gated' = gated
  <2>1. WorkerMove(v)
    BY <1>4, WorkerStepMoves
  <2> QED BY <2>1, WorkersKeepGated
<1>5. ASSUME NEW S, RunMove("stages", S) PROVE gated' = gated
  BY <1>5 DEF RunMove, AwaitStep, QuorumIsReached, QuorumIsAborted, AwaitCancelled, GraceExpires, PublishGraceAbort,
     CloseGraceAbort, GraceAlreadyAborted, DrainStep, WaitGroupDrained, DrainedEarly, DrainedLate, ReturnToExecutor,
     DrainTimesOut, ParentCancels, GiveUpStartup, workerVars, lifeVars
<1>6. CASE GiveUpRamp
  BY <1>3, <1>5, <1>6 DEF GiveUpRamp, RunMove
<1>7. ASSUME Adjusts, ~UseGate PROVE gated' = gated
  <2>1. ASSUME NEW desired \in Nat, AdjustWorkers(desired, FALSE) PROVE gated' = gated
    BY <2>1, AdjustCases DEF SpawnMissing, StopNewest
  <2> QED BY <1>7, <2>1 DEF Adjusts
<1>8. CASE KeepsList \/ RampDownEnds \/ UNCHANGED vars
  BY <1>3, <1>8 DEF KeepsList, RampDownEnds, vars, workerVars, lifeVars
<1>9. PacerStep => Ungated'
  BY <1>1, <1>2, <1>3, <1>5, <1>6, <1>7, <1>8, PacerSteps
<1>10. ParentCancels => Ungated'
  BY <1>3, <1>5 DEF RunMove
<1> QED BY <1>3, <1>4, <1>8, <1>9, <1>10 DEF Next, Terminated

\* Once the stages are entered the gate has not been aborted.
LEMMA StagesAreNotAborted ==
  ASSUME TypeOK, GateInv, RampInv, LevelInv, Ungated, ppc \in {"stages", "ticking"}
  PROVE  ~abortCh
<1>1. PacerTypeOK /\ ~graceFired
  BY DEF TypeOK, LevelInv
<1>2. ~QuorumImpossible
  <2>1. CASE UseGate
    <3>1. QuorumReached
      BY <2>1 DEF RampInv
    <3> QED BY <1>1, <3>1, QuorumExclusive
  <2>2. CASE gated = {}
    <3>1. FailedVotes = {}
      BY <2>2 DEF GateInv, GateWorkerInv, FailedVotes
    <3>2. failedCount = 0
      BY <3>1, FS_EmptySet DEF GateInv
    <3>3. Required \in 1..GateTarget /\ GateTarget \in Nat
      BY RequiredRange, GateAssumption
    <3> QED BY <3>2, <3>3 DEF QuorumImpossible, MaxAllowedFailures
  <2> QED BY <2>1, <2>2 DEF Ungated
<1>3. abortErr.cause \in {"none", "dropout", "grace"}
  BY <1>1 DEF PacerTypeOK, WorkerTypeOK, GateTypeOK
<1> QED BY <1>1, <1>2, <1>3 DEF GateInv

\* The load follows the stages: what a ramp reaches is between the targets of
\* its stage, every stage ends at its target, and those that stay on the list
\* without running are no more than the failures that were counted.
THEOREM LoadFollowsStagesHolds == Spec => []LoadFollowsStages
<1> DEFINE Inv == LevelInv /\ ShortInv /\ Ungated
<1>1. Init => Inv
  <2> SUFFICES ASSUME Init PROVE Inv
    OBVIOUS
  <2>1. /\ ppc = "startup" /\ stage = 1 /\ startVU = 0 /\ graceFired = FALSE /\ gated = {}
        /\ pretestErrors = 0 /\ vuRestarts = 0 /\ pc = [v \in VUs |-> "unborn"]
    BY DEF Init, WorkerInit, PacerInit
  <2>2. Short = {}
    BY <2>1 DEF Short, Left
  <2>3. Cardinality(Short) = 0
    BY <2>2, FS_EmptySet
  <2> QED BY <2>1, <2>3 DEF LevelInv, ShortInv, Ungated, LastTarget
<1>2. TypeOK /\ IInv /\ Inv /\ [Next]_vars => Inv'
  BY LevelInductive, ShortInductive, UngatedInductive DEF IInv
<1>3. TypeOK /\ IInv /\ Inv => LoadFollowsStages
  <2> SUFFICES ASSUME TypeOK, IInv, Inv PROVE LoadFollowsStages
    OBVIOUS
  <2>1. ppc = "ticking" => Len(workers) \in Between(LastTarget, Stages[stage])
    BY DEF LevelInv
  <2>2. ppc = "stages" /\ stage > 1 /\ ~ctxDone => Len(workers) = LastTarget
    BY DEF LevelInv
  <2>3. ASSUME ppc \in {"stages", "ticking"}, ~ctxDone
        PROVE  Cardinality(ToSet(workers) \cap Short) <= pretestErrors - vuRestarts
    <3>1. ~abortCh
      BY <2>3, StagesAreNotAborted DEF IInv
    <3>2. Cardinality(Short) <= pretestErrors - vuRestarts
      BY <2>3, <3>1 DEF ShortInv
    <3>3. Cardinality(ToSet(workers) \cap Short) <= Cardinality(Short)
      BY ShortFinite, FS_Subset
    <3>4. Cardinality(ToSet(workers) \cap Short) \in Nat
      BY ShortFinite, FS_Subset, FS_CardinalityType
    <3>5. pretestErrors - vuRestarts \in Int
      BY DEF TypeOK, PacerTypeOK, WorkerTypeOK
    <3> QED BY <3>2, <3>3, <3>4, <3>5, ShortFinite
  <2> QED BY <2>1, <2>2, <2>3 DEF LoadFollowsStages
<1> QED BY <1>1, <1>2, <1>3, RampingTypeCorrect, RampingInvariant, PTL DEF Spec

-----------------------------------------------------------------------------
(* What the engine guarantees.                                             *)

\* No stop channel is closed twice, and none is forgotten: the list and the
\* stopped ones partition the virtual users spawned so far.
THEOREM StopChannelsPartitionHolds == Spec => []StopChannelsPartition
<1>1. IInv => StopChannelsPartition
  BY DEF IInv, RampInv
<1> QED BY <1>1, RampingInvariant, PTL

\* In the drain the list is empty, so the stopped ones are all there are.
LEMMA EmptyListInDrain == IInv => DrainStopsEveryone
<1>1. workers = <<>> => ToSet(workers) = {}
  BY DEF ToSet
<1> QED BY <1>1 DEF IInv, RampInv, StopChannelsPartition, DrainStopsEveryone

\* From the drain on, every virtual user was told to stop.
THEOREM DrainStopsEveryoneHolds == Spec => []DrainStopsEveryone
BY EmptyListInDrain, RampingInvariant, PTL

\* What every pacing engine has: one decision of the gate, nothing run
\* without the quorum, an honest dropout error that the telemetry backs, a
\* return after everybody and counters that add up.
THEOREM RampingSharedSafety ==
  Spec => [](/\ GateDecidesOnce /\ NoIterationBeforeQuorum /\ DropoutRunsNothing /\ DropoutErrorShowsShortfall
             /\ DropoutIsBackedByTelemetry /\ ReturnsAfterEveryWorker /\ EveryIterationAccounted)
<1>1. TypeOK /\ IInv => /\ GateDecidesOnce /\ NoIterationBeforeQuorum
                        /\ DropoutRunsNothing /\ DropoutErrorShowsShortfall
                        /\ DropoutIsBackedByTelemetry
                        /\ ReturnsAfterEveryWorker /\ EveryIterationAccounted
  <2>1. TypeOK /\ IInv => PacerTypeOK /\ GateInv /\ TelemetryInv /\ DrainInv /\ TallyInv
    BY DEF TypeOK, IInv
  <2> QED BY <2>1, GateProperties, TelemetryProperties, DrainProperties, TallyProperties
<1> QED BY <1>1, RampingTypeCorrect, RampingInvariant, PTL

\* A virtual user that goes on was not told to stop, so the drain has not
\* begun.
LEMMA GoesOnBeforeTheDrain ==
  ASSUME TypeOK, IInv, NEW v \in VUs, WorkerStep(v), PassLoopHead(v)
  PROVE  ~closingView
<1>1. v \notin stopped
  BY GoesOnByPollingOnly DEF ShouldStop
<1>2. v \in Spawned
  BY WorkerStepMoves, MoverIsNotIdle DEF Spawned, Idle
<1> QED BY <1>1, <1>2, EmptyListInDrain DEF DrainStopsEveryone, closingView

\* However its own stop, the cancellation and the drain follow each other, and
\* although others go on, a virtual user calls RunVU once at most when it has
\* been told to stop.
THEOREM RampingAtMostOneIterationAfterStop == Spec => []AtMostOneIterationAfterStop
<1>1. IInv => AtMostOneIterationAfterStop
  BY LateProperties DEF IInv
<1> QED BY <1>1, RampingInvariant, PTL

\* The ramping_vus engine implements the contract of a pacing engine.
THEOREM RampingVUsRefinesPacingEngine == Spec => ImplementsPacingEngine
<1>1. Init => Contract!PacingInit
  BY DEF Init, WorkerInit, PacerInit, Contract!PacingInit, workerView, closingView, resultView, cancelledView, Idle
<1>2. TypeOK /\ IInv /\ [Next]_vars => [Contract!PacingNext]_Contract!pacingVars
  <2> SUFFICES ASSUME TypeOK, IInv, [Next]_vars PROVE [Contract!PacingNext]_Contract!pacingVars
    OBVIOUS
  <2>0. PacerTypeOK /\ StageInv /\ DrainInv /\ RampInv
    BY DEF TypeOK, IInv
  <2>1. ASSUME NEW S, RunMove("stages", S) PROVE [Contract!PacingNext]_Contract!pacingVars
    BY <2>0, <2>1, RunIsSeen
    DEF Contract!PacingNext, Contract!EngineNext, Contract!Close, Contract!Return, Contract!CallerCancels,
        Contract!pacingVars, closingView, cancelledView
  <2>2. CASE GiveUpRamp
    <3>1. RunMove("stages", ToSet(workers))
      BY <2>2 DEF GiveUpRamp, RunMove
    <3> QED BY <2>1, <3>1
  <2>3. ASSUME NEW desired \in Nat, NEW withGate \in BOOLEAN, AdjustWorkers(desired, withGate),
               ppc \in {"startup", "ticking"}, ppc' \in {"await", "ticking", "stages"}
        PROVE  [Contract!PacingNext]_Contract!pacingVars
    <3>1. ~closingView /\ UNCHANGED <<closingView, resultView, cancelledView>>
      BY <2>3, AdjustCases DEF AdjustFrame, closingView, resultView, cancelledView
    <3>2. CASE SpawnMissing(desired, withGate)
      <4>1. Fresh(desired) \in SUBSET VUs
        BY <2>3, <3>2, SpawnedList
      <4>2. /\ \A v \in Fresh(desired) : pc[v] = "unborn"
            /\ pc' = [v \in VUs |-> IF v \in Fresh(desired) THEN "born" ELSE pc[v]]
        BY <2>0, <2>3, <3>2, FreshAreUnborn
      <4>3. Contract!Spawn(Fresh(desired))
        BY <2>0, <3>1, <4>1, <4>2, SpawnIsSeen DEF Contract!Spawn
      <4> QED BY <4>1, <4>3 DEF Contract!PacingNext, Contract!EngineNext
    <3>3. CASE UNCHANGED pc
      BY <3>1, <3>3 DEF Contract!pacingVars, workerView
    <3> QED BY <2>3, <3>2, <3>3, AdjustCases, StoppedList
  <2>4. CASE Adjusts
    BY <2>0, <2>3, <2>4, FirstAdjustment DEF Adjusts
  <2>5. CASE KeepsList
    BY <2>5 DEF KeepsList, workerVars, signalVars, Contract!pacingVars, workerView, closingView, resultView, cancelledView
  <2>6. CASE RampDownEnds
    <3>1. Contract!Close
      BY <2>6 DEF RampDownEnds, PacerGoto, Contract!Close, workerView, closingView, resultView, cancelledView
    <3> QED BY <3>1 DEF Contract!PacingNext, Contract!EngineNext
  <2>7. ASSUME NEW v \in VUs, WorkerStep(v) PROVE [Contract!PacingNext]_Contract!pacingVars
    <3>1. UNCHANGED <<closingView, resultView, cancelledView>>
      BY <2>7, WorkerStepMoves, WorkersDoNotStop DEF closingView, resultView, cancelledView, pacerVars, signalVars
    <3>2. CASE UNCHANGED workerView
      BY <3>1, <3>2 DEF Contract!pacingVars
    <3>3. CASE PassLoopHead(v) /\ ViewMoves(v, "alive", "committed")
      <4>1. Contract!Commit(v)
        BY <2>7, <3>1, <3>3, GoesOnBeforeTheDrain DEF ViewMoves, Contract!Commit, Contract!Move
      <4> QED BY <4>1 DEF Contract!PacingNext, Contract!EngineNext
    <3>4. CASE ViewMoves(v, "committed", "busy") \/ ViewMoves(v, "busy", "alive") \/ ViewMoves(v, "alive", "gone")
      <4>1. Contract!Begin(v) \/ Contract!End(v) \/ Contract!Leave(v)
        BY <3>1, <3>4 DEF ViewMoves, Contract!Begin, Contract!End, Contract!Leave, Contract!Move
      <4> QED BY <4>1 DEF Contract!PacingNext, Contract!EngineNext
    <3> QED BY <2>0, <2>7, <3>2, <3>3, <3>4, WorkerStepMoves, WorkerIsSeen
  <2>8. CASE UNCHANGED vars
    BY <2>8 DEF vars, pacerVars, workerVars, signalVars, Contract!pacingVars,
       workerView, closingView, resultView, cancelledView
  <2>9. PacerStep => [Contract!PacingNext]_Contract!pacingVars
    BY <2>0, <2>1, <2>2, <2>4, <2>5, <2>6, PacerSteps
  <2>10. ParentCancels => [Contract!PacingNext]_Contract!pacingVars
    BY <2>1 DEF RunMove
  <2> QED BY <2>7, <2>8, <2>9, <2>10 DEF Next, Terminated
<1> QED
  BY <1>1, <1>2, RampingTypeCorrect, RampingInvariant, PTL DEF Spec, ImplementsPacingEngine, Contract!PacingSpec
=============================================================================
