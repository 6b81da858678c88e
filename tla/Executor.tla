------------------------------- MODULE Executor -------------------------------
(***************************************************************************)
(* The scenario executor (Executor.Execute) with its abort monitor         *)
(* (MonitorAbortThresholds): Setup, the pacing engine, the decision        *)
(* whether the run was aborted, Teardown.                                  *)
(*                                                                         *)
(* The pacing engine is the one of PacingEngine, which every engine of the *)
(* repository implements.  The monitor is a goroutine of its own; it and   *)
(* the executor share the reason, a channel and the context of Run.        *)
(***************************************************************************)
EXTENDS PacingEngine, Naturals

CONSTANT HasAbort   \* some threshold has abort_on_fail

ASSUME ExecutorAssumption == HasAbort \in BOOLEAN

VARIABLES
  epc,           \* where Execute stands
  err,           \* the error it returns, or "nil"
  mpc,           \* where the monitor stands
  reason,        \* the monitor's reason, set on the first breach
  abortedCh,     \* closed by the monitor after it cancelled the run
  aborted,       \* Executor.Aborted
  abortReason,   \* Executor.AbortReason
  tornDown       \* history: how often Teardown has run

execVars    == <<epc, err, aborted, abortReason, tornDown>>
monitorVars == <<mpc, reason, abortedCh>>
vars == <<pacingVars, execVars, monitorVars>>

Init ==
  /\ PacingInit
  /\ epc = "setup"
  /\ err = "nil"
  /\ mpc = "off"
  /\ reason = ""
  /\ abortedCh = FALSE
  /\ aborted = FALSE
  /\ abortReason = ""
  /\ tornDown = 0

ExecGoto(from, to) == epc = from /\ epc' = to

-----------------------------------------------------------------------------
(* Execute.                                                                *)

SetupFails ==
  /\ ExecGoto("setup", "done")
  /\ err' = "setup"
  /\ UNCHANGED <<pacingVars, monitorVars, aborted, abortReason, tornDown>>

\* Setup returns, the monitor is started if there is a threshold to watch,
\* and the engine's Run is called.
SetupSucceeds ==
  /\ ExecGoto("setup", "pacing")
  /\ mpc' = IF HasAbort THEN "watching" ELSE "off"
  /\ UNCHANGED <<pacingVars, err, reason, abortedCh, aborted, abortReason, tornDown>>

EngineRuns ==
  /\ epc = "pacing"
  /\ EngineNext
  /\ UNCHANGED <<execVars, monitorVars>>

\* Mutation: the error is read before Run has returned.
ReadsErrorEarly ==
  /\ ExecGoto("pacing", IF result = "nil" THEN "select" ELSE "teardown")
  /\ err' = result
  /\ UNCHANGED <<pacingVars, monitorVars, aborted, abortReason, tornDown>>

\* Mutation: an error of the engine returns at once.
ErrorSkipsTeardown ==
  /\ result # "none"
  /\ ExecGoto("pacing", IF result = "nil" THEN "select" ELSE "return")
  /\ err' = result
  /\ UNCHANGED <<pacingVars, monitorVars, aborted, abortReason, tornDown>>

\* An error of the engine skips the decision and goes on to Teardown.
RunReturned ==
  /\ result # "none"
  /\ ExecGoto("pacing", IF result = "nil" THEN "select" ELSE "teardown")
  /\ err' = result
  /\ UNCHANGED <<pacingVars, monitorVars, aborted, abortReason, tornDown>>

\* The select on abortedCh, and its default.
SeesAbortedCh ==
  /\ abortedCh
  /\ ExecGoto("select", "teardown")
  /\ aborted' = TRUE
  /\ abortReason' = reason
  /\ UNCHANGED <<pacingVars, monitorVars, err, tornDown>>

SeesNoSignal ==
  /\ ~abortedCh
  /\ ExecGoto("select", "peek")
  /\ UNCHANGED <<pacingVars, monitorVars, err, aborted, abortReason, tornDown>>

\* Mutation: the default case does not ask for the reason.
NoSignalMeansNoAbort ==
  /\ ExecGoto("peek", "teardown")
  /\ UNCHANGED <<pacingVars, monitorVars, err, aborted, abortReason, tornDown>>

PeeksAtReason ==
  /\ ExecGoto("peek", "teardown")
  /\ aborted' = (reason # "")
  /\ abortReason' = reason
  /\ UNCHANGED <<pacingVars, monitorVars, err, tornDown>>

Teardown ==
  /\ ExecGoto("teardown", "return")
  /\ tornDown' = tornDown + 1
  /\ UNCHANGED <<pacingVars, monitorVars, err, aborted, abortReason>>

\* Mutation: no cancel() is deferred.
ReturnsUncancelled ==
  /\ ExecGoto("return", "done")
  /\ UNCHANGED <<pacingVars, monitorVars, err, aborted, abortReason, tornDown>>

\* Execute returns; its deferred cancel() fires.
ExecuteReturns ==
  /\ ExecGoto("return", "done")
  /\ CallerCancels
  /\ UNCHANGED <<monitorVars, err, aborted, abortReason, tornDown>>

-----------------------------------------------------------------------------
(* The monitor.  Its select may still pick the ticker when the context is  *)
(* done as well.                                                           *)

\* Mutation: the reason is not written before the signal.
BreachWithoutReason ==
  /\ mpc = "watching"
  /\ mpc' = "cancelling"
  /\ UNCHANGED <<pacingVars, execVars, reason, abortedCh>>

MonitorFindsBreach ==
  /\ mpc = "watching"
  /\ mpc' = "cancelling"
  /\ reason' = "breach"
  /\ UNCHANGED <<pacingVars, execVars, abortedCh>>

MonitorCancels ==
  /\ mpc = "cancelling"
  /\ mpc' = "signalling"
  /\ CallerCancels
  /\ UNCHANGED <<execVars, reason, abortedCh>>

MonitorSignals ==
  /\ mpc = "signalling"
  /\ mpc' = "ended"
  /\ abortedCh' = TRUE
  /\ UNCHANGED <<pacingVars, execVars, reason>>

MonitorStops ==
  /\ mpc = "watching"
  /\ cancelled
  /\ mpc' = "ended"
  /\ UNCHANGED <<pacingVars, execVars, reason, abortedCh>>

-----------------------------------------------------------------------------

ExecuteStep ==
  \/ SetupFails \/ SetupSucceeds
  \/ RunReturned \/ SeesAbortedCh \/ SeesNoSignal \/ PeeksAtReason
  \/ Teardown \/ ExecuteReturns

MonitorStep == MonitorFindsBreach \/ MonitorCancels \/ MonitorSignals \/ MonitorStops

Terminated == epc = "done" /\ mpc \in {"off", "ended"} /\ UNCHANGED vars

Next == ExecuteStep \/ EngineRuns \/ MonitorStep \/ Terminated

Spec == Init /\ [][Next]_vars

\* The goroutines are scheduled, the user's Setup and Teardown return, and
\* the engine ends its run, as RunReturns of each engine says.
Fairness ==
  /\ WF_vars(ExecuteStep)
  /\ WF_vars(MonitorCancels \/ MonitorSignals \/ MonitorStops)
  /\ WF_vars(EngineRuns /\ (Close \/ Return))
  /\ \A v \in VUs :
       /\ WF_vars(EngineRuns /\ (Begin(v) \/ End(v)))
       /\ SF_vars(EngineRuns /\ Leave(v))

FairSpec == Spec /\ Fairness

-----------------------------------------------------------------------------

MonitorTypeOK ==
  /\ mpc \in {"off", "watching", "cancelling", "signalling", "ended"}
  /\ reason \in {"", "breach"}
  /\ abortedCh \in BOOLEAN

ExecTypeOK ==
  /\ epc \in {"setup", "pacing", "select", "peek", "teardown", "return", "done"}
  /\ err \in {"nil", "setup", "quorum", "context"}
  /\ aborted \in BOOLEAN
  /\ abortReason \in {"", "breach"}
  /\ tornDown \in {0, 1}

\* The one type invariant.
TypeOK == PacingTypeOK /\ MonitorTypeOK /\ ExecTypeOK

\* A run as the runner sees it: where Execute stands, what the monitor has
\* found and, once Execute is done, what it leaves behind.
phaseView ==
  IF epc = "setup" THEN "setup" ELSE IF epc = "done" THEN "over" ELSE "running"
outcomeView ==
  IF epc = "done" THEN [err |-> err, aborted |-> aborted, reason |-> abortReason]
  ELSE [err |-> "none", aborted |-> FALSE, reason |-> ""]

Promise == INSTANCE ScenarioRun WITH
  Watched <- HasAbort, phase <- phaseView, breached <- reason # "", outcome <- outcomeView

\* The executor implements what the runner relies on, although the monitor
\* decides, cancels and signals while the engine ends: a run is reported as
\* aborted only after a breach, with its reason and without an error, and
\* blames its context only when the breach has cancelled it.
ImplementsScenarioRun == Promise!RunSpec

\* Teardown overlaps no hook of a virtual user, and after it none runs again:
\* the engine is really over, not only its Run.
TeardownIsAlone ==
  epc \in {"teardown", "return", "done"} => \A v \in VUs : worker[v] \in {"unborn", "gone"}

\* A run whose Setup succeeded is torn down exactly once, whatever its engine
\* returned; a run whose Setup failed is not.
TornDownOnce == epc = "done" => tornDown = IF err = "setup" THEN 0 ELSE 1

\* An abort that the monitor had decided when Run returned without an error
\* is reported, even if its channel was not closed yet when Execute looked.
DecidedAbortIsReported == (epc = "select" /\ reason # "") ~> (epc = "done" /\ aborted)

\* The monitor does not outlive the run: the deferred cancel() ends it.
MonitorEnds == mpc = "watching" ~> mpc = "ended"

\* Of an aborted run, the error taxonomy of Execute says: "Execution aborted
\* via abort_on_fail" returns "Aborted: true".  Only the monitor cancels a
\* run, so an engine that blames its context was cut short by the monitor.
AbortIsReported == epc = "done" /\ err = "context" => aborted

-----------------------------------------------------------------------------
(* The strengthening that makes the safety properties inductive: an engine *)
(* that has returned stays quiet, Execute goes past it only then, and the  *)
(* monitor signals only with a reason.                                     *)

\* Once Run has returned, no virtual user is alive, and none can be spawned.
EngineIsOver == closing /\ \A v \in VUs : worker[v] \in {"unborn", "gone"}

ExecInv ==
  /\ result # "none" => EngineIsOver
  /\ epc = "setup" => \A v \in VUs : worker[v] = "unborn"
  /\ err = "setup" => epc = "done" /\ \A v \in VUs : worker[v] = "unborn"
  /\ epc \in {"setup", "pacing", "select", "peek", "teardown"} => tornDown = 0
  /\ epc = "return" => tornDown = 1
  /\ epc = "done" => tornDown = IF err = "setup" THEN 0 ELSE 1
  /\ epc \notin {"setup", "pacing"} => err = "setup" \/ result # "none"
  /\ abortedCh \/ mpc \in {"cancelling", "signalling"} => reason # ""

\* The same for the outcome: who has what error or reason at which point, and
\* that nobody but the monitor cancels a run before Execute returns.
OutcomeInv ==
  /\ reason # "" \/ mpc # "off" => HasAbort /\ epc # "setup" /\ err # "setup"
  /\ epc # "done" /\ cancelled => reason # ""
  /\ result = "context" \/ err = "context" => reason # ""
  /\ epc \in {"setup", "pacing", "select", "peek"} => err = "nil" /\ ~aborted /\ abortReason = ""
  /\ aborted <=> abortReason # ""
  /\ aborted => err = "nil" /\ reason # ""
=============================================================================
