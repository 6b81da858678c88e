-------------------------- MODULE StartupQuorumGate --------------------------
(***************************************************************************)
(* The startup quorum gate shared by a pacing engine and its virtual users *)
(* (internal/engine/quorum.go): its state and the atomic steps its methods *)
(* are made of.  Who calls which method, and where the caller stands       *)
(* between two steps, is the business of the modules that extend this one. *)
(*                                                                         *)
(* Channels that are only ever closed (readyCh, abortCh) are booleans:     *)
(* TRUE means closed, and a receive on it succeeds for ever after.         *)
(***************************************************************************)
EXTENDS Integers

CONSTANTS
  GateTarget,   \* number of virtual users that pass the gate
  RatioNum,     \* min_ready_ratio, as the fraction RatioNum / RatioDen
  RatioDen

ASSUME GateAssumption ==
  /\ GateTarget \in Nat \ {0}
  /\ RatioNum \in Nat
  /\ RatioDen \in Nat \ {0}

VARIABLES
  readyCount,   \* atomic: virtual users whose PreTest succeeded
  failedCount,  \* atomic: virtual users whose PreTest failed for good
  readyCh,      \* closed once the quorum is reached
  abortCh,      \* closed once the quorum is given up
  abortErr      \* the StartupQuorumError: why, and how many were ready

gateVars == <<readyCount, failedCount, readyCh, abortCh, abortErr>>

\* ceil(target * ratio), clamped to 1..target
Ceiling == (GateTarget * RatioNum + RatioDen - 1) \div RatioDen

Required ==
  IF Ceiling <= 0 THEN 1 ELSE IF Ceiling > GateTarget THEN GateTarget ELSE Ceiling

\* Mutation: the quorum is called impossible one failure too early.
StrictMaxAllowedFailures == GateTarget - Required - 1

MaxAllowedFailures == GateTarget - Required

NoAbort == [cause |-> "none", ready |-> 0]

GateInit ==
  /\ readyCount = 0
  /\ failedCount = 0
  /\ readyCh = FALSE
  /\ abortCh = FALSE
  /\ abortErr = NoAbort

QuorumReached    == readyCount >= Required
QuorumImpossible == failedCount > MaxAllowedFailures

\* RecordReady: the atomic add; the caller opens the gate if the value the
\* add returned reaches Required.
AddReady ==
  /\ readyCount' = readyCount + 1
  /\ UNCHANGED <<failedCount, readyCh, abortCh, abortErr>>

\* RecordReady: readyOnce closes readyCh; a later caller finds it closed.
OpenGate ==
  /\ readyCh' = TRUE
  /\ UNCHANGED <<readyCount, failedCount, abortCh, abortErr>>

\* RecordFailed: the atomic add; the caller triggers the abort if the value
\* the add returned exceeds the failures the quorum can absorb.
AddFailed ==
  /\ failedCount' = failedCount + 1
  /\ UNCHANGED <<readyCount, readyCh, abortCh, abortErr>>

\* triggerAbort, inside abortOnce: read the ready count and publish the error...
PublishAbort(cause) ==
  /\ abortErr = NoAbort
  /\ abortErr' = [cause |-> cause, ready |-> readyCount]
  /\ UNCHANGED <<readyCount, failedCount, readyCh, abortCh>>

\* ... and then close the channel.
CloseAbort ==
  /\ abortCh' = TRUE
  /\ UNCHANGED <<readyCount, failedCount, readyCh, abortErr>>

\* A second caller of triggerAbort waits in abortOnce until the first is done.
AbortAlreadyDone == abortCh

GateTypeOK ==
  /\ readyCount \in Nat
  /\ failedCount \in Nat
  /\ readyCh \in BOOLEAN
  /\ abortCh \in BOOLEAN
  /\ abortErr \in [cause : {"none", "dropout", "grace"}, ready : Nat]
=============================================================================
