------------------------------ MODULE RunOutcome ------------------------------
(***************************************************************************)
(* What Execute of the scenario executor can leave to the runner that      *)
(* called it: the error it returns, Aborted and AbortReason.  ScenarioRun  *)
(* says when each of them can happen, and the runner of Suite starts from  *)
(* any of them.                                                            *)
(***************************************************************************)

\* Setup failed: nothing else has happened.
FailedSetup == [err |-> "setup", aborted |-> FALSE, reason |-> ""]

\* Any other end of a run, in which a threshold with abort_on_fail was found
\* breached or not.  Only a breach aborts, it says so, and an error of the
\* engine is returned before anybody asks for the breach; the context is to
\* blame only when the breach has cancelled it.
RunOutcomes(breached) ==
  {o \in [err : {"nil", "quorum", "context"}, aborted : BOOLEAN, reason : {"", "breach"}] :
     /\ o.aborted <=> o.reason # ""
     /\ o.aborted => o.err = "nil" /\ breached
     /\ o.err = "context" => breached}
=============================================================================
