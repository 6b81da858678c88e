----------------------------- MODULE ScenarioRun -----------------------------
(***************************************************************************)
(* What the executor promises the runner (internal/engine/executor.go): a  *)
(* run ends once, with an outcome that fits what its thresholds did while  *)
(* it was under way.  A breach may be found at any moment, also when the   *)
(* run is over and nobody asks any more.  Executor implements it over any  *)
(* pacing engine that keeps the contract of PacingEngine.                  *)
(***************************************************************************)
EXTENDS RunOutcome

CONSTANT Watched   \* some threshold has abort_on_fail

VARIABLES
  phase,      \* "setup", "running" or "over"
  breached,   \* a threshold with abort_on_fail was found breached
  outcome     \* how the run has ended

runVars == <<phase, breached, outcome>>

NoOutcome == [err |-> "none", aborted |-> FALSE, reason |-> ""]

RunInit ==
  /\ phase = "setup"
  /\ breached = FALSE
  /\ outcome = NoOutcome

FailInSetup ==
  /\ phase = "setup" /\ phase' = "over"
  /\ outcome' = FailedSetup
  /\ UNCHANGED breached

StartRun ==
  /\ phase = "setup" /\ phase' = "running"
  /\ UNCHANGED <<breached, outcome>>

FindBreach ==
  /\ Watched
  /\ phase # "setup" /\ outcome # FailedSetup
  /\ breached' = TRUE
  /\ UNCHANGED <<phase, outcome>>

EndRun ==
  /\ phase = "running" /\ phase' = "over"
  /\ outcome' \in RunOutcomes(breached)
  /\ UNCHANGED breached

RunNext == FailInSetup \/ StartRun \/ FindBreach \/ EndRun

RunSpec == RunInit /\ [][RunNext]_runVars
=============================================================================
