---------------------------- MODULE Executor_proofs ----------------------------
(***************************************************************************)
(* Proofs about Executor: what Execute guarantees over every pacing engine *)
(* that keeps the contract of PacingEngine, for any set of virtual users,  *)
(* and that it keeps the promise of ScenarioRun to the runner.             *)
(***************************************************************************)
EXTENDS Executor, TLAPS

\* A step of the engine keeps its types.
LEMMA EngineTypes == ASSUME PacingTypeOK, EngineNext PROVE PacingTypeOK'
BY DEF PacingTypeOK, EngineNext, Spawn, Commit, Begin, End, Leave, Move, Close, Return

\* An engine that has returned takes no step; one that returns is over.
LEMMA EngineEnds ==
  ASSUME PacingTypeOK, result # "none" => EngineIsOver, EngineNext
  PROVE  result' # "none" => EngineIsOver'
<1>1. CASE result # "none"
  <2>1. EngineIsOver
    BY <1>1
  <2>2. ASSUME NEW S \in SUBSET VUs PROVE ~Spawn(S)
    BY <2>1 DEF EngineIsOver, Spawn
  <2>3. ASSUME NEW v \in VUs PROVE ~(Commit(v) \/ Begin(v) \/ End(v) \/ Leave(v))
    <3>1. worker[v] \in {"unborn", "gone"}
      BY <2>1 DEF EngineIsOver
    <3> QED BY <3>1 DEF Commit, Begin, End, Leave, Move
  <2>4. ~Close /\ ~Return
    BY <1>1, <2>1 DEF EngineIsOver, Close, Return
  <2> QED BY <2>2, <2>3, <2>4 DEF EngineNext
<1>2. CASE result = "none"
  <2>1. SUFFICES ASSUME result' # "none" PROVE EngineIsOver'
    OBVIOUS
  <2>2. Return
    BY <1>2, <2>1 DEF EngineNext, Spawn, Commit, Begin, End, Leave, Move, Close
  <2> QED BY <2>2 DEF Return, EngineIsOver
<1> QED BY <1>1, <1>2

-----------------------------------------------------------------------------
(* The invariant.                                                          *)

\* All of what is inductive; tornDown's range is a consequence of ExecInv.
FullInv == TypeOK /\ ExecInv

\* Who leaves the engine alone leaves it over.
LEMMA EngineLeftAlone ==
  ASSUME UNCHANGED <<worker, closing>>
  PROVE  /\ EngineIsOver' <=> EngineIsOver
         /\ (\A v \in VUs : worker[v] = "unborn")' <=> (\A v \in VUs : worker[v] = "unborn")
BY DEF EngineIsOver

\* The steps of Execute itself.
LEMMA ExecuteKeeps == ASSUME FullInv, ExecuteStep PROVE FullInv'
<1> DEFINE Unborn == \A v \in VUs : worker[v] = "unborn"
<1> USE DEF FullInv, ExecGoto, execVars, monitorVars, pacingVars
<1>0. (EngineIsOver' <=> EngineIsOver) /\ (Unborn' <=> Unborn)
  BY EngineLeftAlone DEF ExecuteStep, SetupFails, SetupSucceeds, RunReturned, SeesAbortedCh, SeesNoSignal,
     PeeksAtReason, Teardown, ExecuteReturns, CallerCancels
<1>d. Teardown => tornDown' = 1
  <2>1. epc = "teardown" => tornDown = 0
    BY DEF ExecInv
  <2> HIDE DEF FullInv
  <2> QED BY <2>1 DEF Teardown
<1>p. PacingTypeOK'
  BY DEF TypeOK, PacingTypeOK, ExecuteStep, SetupFails, SetupSucceeds, RunReturned, SeesAbortedCh, SeesNoSignal,
     PeeksAtReason, Teardown, ExecuteReturns, CallerCancels
<1>m. MonitorTypeOK'
  BY DEF TypeOK, MonitorTypeOK, ExecuteStep, SetupFails, SetupSucceeds, RunReturned, SeesAbortedCh, SeesNoSignal,
     PeeksAtReason, Teardown, ExecuteReturns, CallerCancels
<1>e. ASSUME TypeOK, ExecInv PROVE ExecTypeOK'
  <2> USE DEF TypeOK, PacingTypeOK, ExecTypeOK, MonitorTypeOK
  <2>1. CASE SetupFails
    BY <1>e, <2>1 DEF ExecInv, SetupFails
  <2>2. CASE SetupSucceeds
    BY <1>e, <2>2 DEF ExecInv, SetupSucceeds
  <2>3. CASE RunReturned
    BY <1>e, <2>3 DEF ExecInv, RunReturned
  <2>4. CASE SeesAbortedCh
    BY <1>e, <2>4 DEF ExecInv, SeesAbortedCh
  <2>5. CASE SeesNoSignal
    BY <1>e, <2>5 DEF ExecInv, SeesNoSignal
  <2>6. CASE PeeksAtReason
    BY <1>e, <2>6 DEF ExecInv, PeeksAtReason
  <2>7. CASE Teardown
    BY <1>d, <1>e, <2>7 DEF Teardown
  <2>8. CASE ExecuteReturns
    BY <1>e, <2>8 DEF ExecInv, ExecuteReturns
  <2> QED BY <2>1, <2>2, <2>3, <2>4, <2>5, <2>6, <2>7, <2>8 DEF ExecuteStep
<1>t. TypeOK'
  BY <1>p, <1>m, <1>e DEF TypeOK
<1> USE DEF TypeOK, PacingTypeOK, ExecTypeOK, MonitorTypeOK, ExecInv
<1>1. CASE SetupFails
  BY <1>0, <1>t, <1>1 DEF SetupFails
<1>2. CASE SetupSucceeds
  BY <1>0, <1>t, <1>2 DEF SetupSucceeds
<1>3. CASE RunReturned
  BY <1>0, <1>t, <1>3 DEF RunReturned
<1>4. CASE SeesAbortedCh
  BY <1>0, <1>t, <1>4 DEF SeesAbortedCh
<1>5. CASE SeesNoSignal
  BY <1>0, <1>t, <1>5 DEF SeesNoSignal
<1>6. CASE PeeksAtReason
  BY <1>0, <1>t, <1>6 DEF PeeksAtReason
<1>7. CASE Teardown
  <2>1. UNCHANGED <<worker, closing, result, mpc, reason, abortedCh, err, aborted, abortReason>>
    BY <1>7 DEF Teardown
  <2>2. epc = "teardown" /\ epc' = "return" /\ tornDown' = 1
    BY <1>7, <1>d DEF Teardown
  <2> HIDE DEF TypeOK
  <2> QED BY <1>0, <1>t, <2>1, <2>2
<1>8. CASE ExecuteReturns
  BY <1>0, <1>t, <1>8 DEF ExecuteReturns, CallerCancels
<1> QED BY <1>1, <1>2, <1>3, <1>4, <1>5, <1>6, <1>7, <1>8 DEF ExecuteStep

\* The steps of the monitor.
LEMMA MonitorKeeps == ASSUME FullInv, MonitorStep PROVE FullInv'
<1> DEFINE Unborn == \A v \in VUs : worker[v] = "unborn"
<1> USE DEF FullInv, execVars, monitorVars, pacingVars
<1>0. (EngineIsOver' <=> EngineIsOver) /\ (Unborn' <=> Unborn)
  BY EngineLeftAlone DEF MonitorStep, MonitorFindsBreach, MonitorCancels, MonitorSignals, MonitorStops, CallerCancels
<1>t. TypeOK'
  BY DEF TypeOK, PacingTypeOK, ExecTypeOK, MonitorTypeOK, MonitorStep, MonitorFindsBreach, MonitorCancels, MonitorSignals, MonitorStops, CallerCancels
<1> USE DEF TypeOK, PacingTypeOK, ExecTypeOK, MonitorTypeOK, ExecInv
<1>1. CASE MonitorFindsBreach
  BY <1>0, <1>t, <1>1 DEF MonitorFindsBreach
<1>2. CASE MonitorCancels
  BY <1>0, <1>t, <1>2 DEF MonitorCancels, CallerCancels
<1>3. CASE MonitorSignals
  BY <1>0, <1>t, <1>3 DEF MonitorSignals
<1>4. CASE MonitorStops
  BY <1>0, <1>t, <1>4 DEF MonitorStops
<1> QED BY <1>1, <1>2, <1>3, <1>4 DEF MonitorStep

\* The steps of the engine, while Execute waits in its Run.
LEMMA EngineKeeps == ASSUME FullInv, EngineRuns PROVE FullInv'
<1>1. PacingTypeOK'
  BY EngineTypes DEF FullInv, TypeOK, EngineRuns
<1>2. result' # "none" => EngineIsOver'
  BY EngineEnds DEF FullInv, TypeOK, ExecInv, EngineRuns
<1>3. epc = "pacing" /\ UNCHANGED <<execVars, monitorVars>>
  BY DEF EngineRuns
<1>4. TypeOK'
  BY <1>1, <1>3 DEF FullInv, TypeOK, ExecTypeOK, MonitorTypeOK, execVars, monitorVars
<1>5. ExecInv'
  BY <1>2, <1>3 DEF FullInv, ExecInv, execVars, monitorVars
<1> QED BY <1>4, <1>5 DEF FullInv

\* The invariant holds in every reachable state: whatever the engine does
\* within its contract, and whenever the monitor finds its breach.
THEOREM ExecutorInvariant == Spec => []FullInv
<1>1. Init => FullInv
  <2>1. Init => TypeOK
    BY DEF Init, PacingInit, TypeOK, PacingTypeOK, ExecTypeOK, MonitorTypeOK
  <2>2. Init => ExecInv
    BY DEF Init, PacingInit, ExecInv
  <2> QED BY <2>1, <2>2 DEF FullInv
<1>2. FullInv /\ [Next]_vars => FullInv'
  <2> SUFFICES ASSUME FullInv, [Next]_vars PROVE FullInv'
    OBVIOUS
  <2>1. CASE UNCHANGED vars
    <3>1. TypeOK'
      <4>1. PacingTypeOK' /\ MonitorTypeOK'
        BY <2>1 DEF vars, pacingVars, monitorVars, FullInv, TypeOK, PacingTypeOK, MonitorTypeOK
      <4>2. ExecTypeOK'
        BY <2>1 DEF vars, execVars, FullInv, TypeOK, ExecTypeOK
      <4> QED BY <4>1, <4>2 DEF TypeOK
    <3>2. ExecInv'
      BY <2>1, EngineLeftAlone DEF vars, pacingVars, execVars, monitorVars, FullInv, ExecInv
    <3> QED BY <3>1, <3>2 DEF FullInv
  <2> QED BY <2>1, ExecuteKeeps, MonitorKeeps, EngineKeeps DEF Next, Terminated
<1> QED BY <1>1, <1>2, PTL DEF Spec

-----------------------------------------------------------------------------
(* What the executor guarantees.                                           *)

\* Every variable keeps its type.
THEOREM ExecutorTypeCorrect == Spec => []TypeOK
<1>1. FullInv => TypeOK
  BY DEF FullInv
<1> QED BY <1>1, ExecutorInvariant, PTL

\* From Teardown on, no virtual user is alive, for every engine that keeps
\* the contract.
THEOREM TeardownIsAloneHolds == Spec => []TeardownIsAlone
<1>1. FullInv => TeardownIsAlone
  BY DEF FullInv, ExecInv, EngineIsOver, TeardownIsAlone
<1> QED BY <1>1, ExecutorInvariant, PTL

\* Teardown runs once if Setup succeeded, and not at all if it failed.
THEOREM TornDownOnceHolds == Spec => []TornDownOnce
<1>1. FullInv => TornDownOnce
  BY DEF FullInv, ExecInv, TornDownOnce
<1> QED BY <1>1, ExecutorInvariant, PTL

-----------------------------------------------------------------------------
(* The outcome of a run.                                                   *)

\* What the invariant of the outcome and its steps need of the types.
LEMMA OutcomeTypes == ASSUME TypeOK PROVE /\ reason \in {"", "breach"} /\ abortReason \in {"", "breach"}
                                          /\ aborted \in BOOLEAN /\ HasAbort \in BOOLEAN /\ cancelled \in BOOLEAN
BY ExecutorAssumption DEF TypeOK, PacingTypeOK, MonitorTypeOK, ExecTypeOK

\* An engine blames the context only after it was cancelled, and cancels nothing.
LEMMA EngineBlames ==
  ASSUME EngineNext
  PROVE  UNCHANGED cancelled /\ (result' = "context" => result = "context" \/ cancelled)
BY DEF EngineNext, Spawn, Commit, Begin, End, Leave, Move, Close, Return

\* The invariant of the outcome is inductive.
LEMMA OutcomeInductive == ASSUME FullInv, OutcomeInv, [Next]_vars PROVE OutcomeInv'
<1>0. TypeOK /\ ExecInv
  BY DEF FullInv
<1> USE <1>0, OutcomeTypes DEF OutcomeInv
<1>1. CASE EngineRuns
  <2>1. epc = "pacing" /\ UNCHANGED <<execVars, monitorVars>> /\ UNCHANGED cancelled
        /\ (result' = "context" => result = "context" \/ cancelled)
    BY <1>1, EngineBlames DEF EngineRuns
  <2> QED BY <2>1 DEF execVars, monitorVars
<1>2. CASE SetupFails
  BY <1>2 DEF SetupFails, ExecGoto, pacingVars, monitorVars
<1>13. CASE SetupSucceeds
  BY <1>13 DEF SetupSucceeds, ExecGoto, pacingVars
<1>3. CASE RunReturned
  BY <1>3 DEF RunReturned, ExecGoto, pacingVars, monitorVars, TypeOK, PacingTypeOK
<1>4. CASE SeesAbortedCh
  BY <1>4 DEF SeesAbortedCh, ExecGoto, pacingVars, monitorVars, ExecInv
<1>5. CASE SeesNoSignal
  BY <1>5 DEF SeesNoSignal, ExecGoto, pacingVars, monitorVars
<1>6. CASE PeeksAtReason
  BY <1>6 DEF PeeksAtReason, ExecGoto, pacingVars, monitorVars
<1>7. CASE Teardown
  BY <1>7 DEF Teardown, ExecGoto, pacingVars, monitorVars
<1>8. CASE ExecuteReturns
  BY <1>8 DEF ExecuteReturns, ExecGoto, CallerCancels, monitorVars
<1>9. CASE MonitorFindsBreach
  BY <1>9 DEF MonitorFindsBreach, pacingVars, execVars
<1>10. CASE MonitorCancels
  BY <1>10 DEF MonitorCancels, CallerCancels, execVars, ExecInv
<1>11. CASE MonitorSignals
  BY <1>11 DEF MonitorSignals, pacingVars, execVars
<1>14. CASE MonitorStops
  BY <1>14 DEF MonitorStops, pacingVars, execVars
<1>12. CASE UNCHANGED vars
  BY <1>12 DEF vars, pacingVars, execVars, monitorVars
<1> QED BY <1>1, <1>2, <1>3, <1>4, <1>5, <1>6, <1>7, <1>8, <1>9, <1>10, <1>11, <1>12, <1>13, <1>14
        DEF Next, ExecuteStep, MonitorStep, Terminated

\* Every step of the executor, its monitor and its engine is one of the
\* promise or leaves the view of the runner as it is.
LEMMA StepsKeepThePromise == ASSUME FullInv, OutcomeInv, [Next]_vars PROVE [Promise!RunNext]_(Promise!runVars)
<1>0. TypeOK
  BY DEF FullInv
<1>1. CASE SetupFails
  <2>2. epc = "setup" /\ epc' = "done" /\ err' = "setup" /\ UNCHANGED <<reason, aborted, abortReason>>
    BY <1>1 DEF SetupFails, ExecGoto, monitorVars
  <2>3. aborted = FALSE /\ abortReason = ""
    BY <1>0, <2>2, OutcomeTypes DEF OutcomeInv
  <2>4. phaseView = "setup" /\ phaseView' = "over"
    BY <2>2 DEF phaseView
  <2>5. outcomeView' = Promise!FailedSetup
    BY <2>2, <2>3 DEF outcomeView, Promise!FailedSetup
  <2>6. UNCHANGED (reason # "")
    BY <2>2
  <2>1. Promise!FailInSetup
    BY <2>4, <2>5, <2>6 DEF Promise!FailInSetup
  <2> QED BY <2>1 DEF Promise!RunNext
<1>2. CASE SetupSucceeds
  <2>1. Promise!StartRun
    BY <1>2 DEF SetupSucceeds, ExecGoto, Promise!StartRun, phaseView, outcomeView
  <2> QED BY <2>1 DEF Promise!RunNext
<1>3. CASE ExecuteReturns
  <2>1. epc = "return" /\ epc' = "done" /\ UNCHANGED <<reason, err, aborted, abortReason>>
    BY <1>3 DEF ExecuteReturns, ExecGoto, monitorVars
  <2>2. err \in {"nil", "quorum", "context"} /\ aborted \in BOOLEAN /\ abortReason \in {"", "breach"}
    BY <1>0, <2>1 DEF FullInv, ExecInv, TypeOK, ExecTypeOK
  <2>3. [err |-> err, aborted |-> aborted, reason |-> abortReason] \in Promise!RunOutcomes(reason # "")
    BY <2>2 DEF OutcomeInv, Promise!RunOutcomes
  <2>4. Promise!EndRun
    BY <2>1, <2>3 DEF Promise!EndRun, phaseView, outcomeView
  <2> QED BY <2>4 DEF Promise!RunNext
<1>4. CASE MonitorFindsBreach
  <2>1. mpc = "watching" /\ reason' = "breach" /\ UNCHANGED execVars
    BY <1>4 DEF MonitorFindsBreach
  <2>2. HasAbort /\ epc # "setup" /\ err # "setup"
    BY <2>1 DEF OutcomeInv
  <2>3. UNCHANGED <<phaseView, outcomeView>>
    BY <2>1 DEF execVars, phaseView, outcomeView
  <2>4. outcomeView.err # "setup" /\ phaseView # "setup"
    BY <2>2 DEF phaseView, outcomeView
  <2>5. Promise!FindBreach
    <3>1. outcomeView # Promise!FailedSetup
      <4>1. Promise!FailedSetup.err = "setup"
        BY DEF Promise!FailedSetup
      <4> QED BY <2>4, <4>1
    <3>2. (reason # "")' = TRUE
      BY <2>1
    <3> QED BY <2>2, <2>3, <2>4, <3>1, <3>2 DEF Promise!FindBreach
  <2> QED BY <2>5 DEF Promise!RunNext
<1>5. ASSUME UNCHANGED reason,
             \/ UNCHANGED execVars
             \/ epc \notin {"setup", "done"} /\ epc' \notin {"setup", "done"}
      PROVE  UNCHANGED Promise!runVars
  BY <1>5 DEF Promise!runVars, execVars, phaseView, outcomeView
<1>6. CASE EngineRuns
  BY <1>5, <1>6 DEF EngineRuns, monitorVars
<1>7. CASE RunReturned \/ SeesAbortedCh \/ SeesNoSignal \/ PeeksAtReason \/ Teardown
  BY <1>5, <1>7 DEF RunReturned, SeesAbortedCh, SeesNoSignal, PeeksAtReason, Teardown, ExecGoto, monitorVars
<1>8. CASE MonitorCancels \/ MonitorSignals \/ MonitorStops
  BY <1>5, <1>8 DEF MonitorCancels, MonitorSignals, MonitorStops
<1>9. CASE UNCHANGED vars
  BY <1>5, <1>9 DEF vars, monitorVars
<1> QED BY <1>1, <1>2, <1>3, <1>4, <1>6, <1>7, <1>8, <1>9 DEF Next, ExecuteStep, MonitorStep, Terminated

\* The executor implements what the runner relies on, over any engine that
\* keeps the contract and however the monitor interleaves with its end.
THEOREM ExecutorImplementsScenarioRun == Spec => ImplementsScenarioRun
<1>1. Init => OutcomeInv /\ Promise!RunInit
  BY DEF Init, PacingInit, OutcomeInv, Promise!RunInit, Promise!NoOutcome, phaseView, outcomeView
<1>2. FullInv /\ OutcomeInv /\ [Next]_vars => OutcomeInv'
  BY OutcomeInductive
<1>3. FullInv /\ OutcomeInv /\ [Next]_vars => [Promise!RunNext]_(Promise!runVars)
  BY StepsKeepThePromise
<1> QED BY <1>1, <1>2, <1>3, ExecutorInvariant, PTL DEF Spec, ImplementsScenarioRun, Promise!RunSpec
=============================================================================
