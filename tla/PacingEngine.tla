----------------------------- MODULE PacingEngine -----------------------------
(***************************************************************************)
(* What a pacing engine promises the executor that calls its Run method    *)
(* (internal/engine/pacer.go): it spawns virtual users, they commit        *)
(* themselves to one iteration at a time and begin it a moment later, at   *)
(* some point the engine closes the schedule, and it returns only when     *)
(* every virtual user it spawned is gone for good.                         *)
(* It blames the context only if its caller cancelled it.                  *)
(* The three pacing engines are shown to implement this specification, and *)
(* Executor builds on it.                                                  *)
(***************************************************************************)
CONSTANTS
  VUs,          \* the virtual users that may be spawned
  DrainsQueue   \* iterations queued before the close may be taken after it

ASSUME DrainsQueueAssumption == DrainsQueue \in BOOLEAN

VARIABLES
  worker,      \* the life of each virtual user
  closing,     \* no virtual user will be spawned any more
  result,      \* what Run returned, or "none" while it runs
  cancelled    \* the caller has cancelled the context of Run

pacingVars == <<worker, closing, result, cancelled>>

PacingInit ==
  /\ worker = [v \in VUs |-> "unborn"]
  /\ closing = FALSE
  /\ result = "none"
  /\ cancelled = FALSE

Move(v, from, to) ==
  /\ worker[v] = from
  /\ worker' = [worker EXCEPT ![v] = to]
  /\ UNCHANGED <<closing, result, cancelled>>

Spawn(S) ==
  /\ ~closing
  /\ \A v \in S : worker[v] = "unborn"
  /\ worker' = [v \in VUs |-> IF v \in S THEN "alive" ELSE worker[v]]
  /\ UNCHANGED <<closing, result, cancelled>>

\* Who is committed at the close begins that iteration after it, and no other.
Commit(v) == (closing => DrainsQueue) /\ Move(v, "alive", "committed")
Begin(v)  == Move(v, "committed", "busy")
End(v)    == Move(v, "busy", "alive")
Leave(v)  == Move(v, "alive", "gone")

Close ==
  /\ ~closing
  /\ closing' = TRUE
  /\ UNCHANGED <<worker, result, cancelled>>

\* Mutation: Run does not wait for its virtual users.
ReturnEarly ==
  /\ closing
  /\ result = "none"
  /\ result' \in {"nil", "quorum"}
  /\ UNCHANGED <<worker, closing, cancelled>>

Return ==
  /\ closing
  /\ result = "none"
  /\ \A v \in VUs : worker[v] \in {"unborn", "gone"}
  /\ result' \in {"nil", "quorum"} \cup IF cancelled THEN {"context"} ELSE {}
  /\ UNCHANGED <<worker, closing, cancelled>>

EngineNext ==
  \/ \E S \in SUBSET VUs : Spawn(S)
  \/ \E v \in VUs : Commit(v) \/ Begin(v) \/ End(v) \/ Leave(v)
  \/ Close
  \/ Return

CallerCancels ==
  /\ cancelled' = TRUE
  /\ UNCHANGED <<worker, closing, result>>

PacingNext == EngineNext \/ CallerCancels

PacingSpec == PacingInit /\ [][PacingNext]_pacingVars

PacingTypeOK ==
  /\ worker \in [VUs -> {"unborn", "alive", "committed", "busy", "gone"}]
  /\ closing \in BOOLEAN
  /\ result \in {"none", "nil", "quorum", "context"}
  /\ cancelled \in BOOLEAN
=============================================================================
