----------------------------- MODULE MCRampingVUs -----------------------------
(* Instances of RampingVUs for TLC: the stages of the run.  The first tick  *)
(* of the first stage can stop the virtual user that passed the gate, and a *)
(* later one replaces it: three virtual users are all these stages spawn,   *)
(* so the bound on vuids is not met.                                        *)
EXTENDS RampingVUs, TLC

UpAndDown == <<1, 2, 1>>

\* Stages that start and pass through nothing.
DownToNone == <<2, 0, 1>>
=============================================================================
