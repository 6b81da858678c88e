------------------------------- MODULE Watchdog -------------------------------
(***************************************************************************)
(* The execution watchdog (internal/engine/watchdog.go): every virtual     *)
(* user marks the begin and the end of its iterations in the words of a    *)
(* tracker, without a lock; one checker looks at all trackers, a word at a *)
(* time, on every tick.  A step is one access to a shared word, or what a  *)
(* goroutine does while it holds the mutex.                                *)
(***************************************************************************)
EXTENDS Integers, FiniteSets, SequencesExt

CONSTANTS
  Watched,         \* virtual users
  StallThresholds, \* values of watchdog_stall_threshold; 0: not configured
  VUTimeouts,      \* values of vu_timeout; 0: none
  GuardDeadline0,  \* config.DefaultGuardDeadline
  P99s,            \* what the iteration histogram may say; 0: nothing recorded, as
                   \* long as no hook records it, since the engines do not
  MaxNow,          \* bound: the clock
  MaxBegins        \* bound: iterations of each virtual user

ASSUME WatchdogAssumption ==
  /\ IsFiniteSet(Watched)
  /\ StallThresholds \cup VUTimeouts \cup P99s \subseteq Nat
  /\ GuardDeadline0 \in Nat \ {0} /\ MaxNow \in Nat \ {0} /\ MaxBegins \in [Watched -> Nat]

VARIABLES
  wcfg,        \* the scenario's stall threshold and timeout
  clock,
  ticked,      \* the ticker's channel holds a tick
  trackers,    \* the registered trackers, in order
  tpc,         \* where each virtual user stands
  startNano, active, stalled,   \* the words of each tracker
  hung,        \* virtual users whose iteration never returns
  wdpc,        \* where the checker stands
  threshold, checkedAt,         \* the checker's locals of a check
  scan,        \* the trackers it has still to look at
  begun,       \* history (and bound): iterations begun
  counted      \* history: increments of vuhive.vu.stalled_iterations, by user

watchVars == <<wcfg, clock, ticked, trackers, tpc, startNano, active, stalled, hung, wdpc,
               threshold, checkedAt, scan, begun, counted>>
trackerWords == <<startNano, active, stalled>>
checkerVars == <<wdpc, threshold, checkedAt, scan>>
runVars == <<wcfg, clock, ticked>>

\* NewExecutionWatchdog's fallback when no threshold is configured.
StaticThreshold ==
  IF wcfg.stall > 0 THEN wcfg.stall
  ELSE IF wcfg.timeout > 0 THEN wcfg.timeout ELSE GuardDeadline0

\* The threshold of one check: three times the 99th percentile, capped.
CheckThreshold(p99) ==
  IF wcfg.stall > 0 \/ p99 = 0 THEN StaticThreshold
  ELSE IF wcfg.timeout > 0 /\ 3 * p99 > wcfg.timeout THEN wcfg.timeout
  ELSE 3 * p99

LargestThreshold == LET all == {CheckThreshold(p) : p \in P99s \cup {0}}
                    IN  CHOOSE t \in all : \A u \in all : u <= t

WatchInit ==
  /\ wcfg \in [stall : StallThresholds, timeout : VUTimeouts]
  /\ clock = 1 /\ ticked = FALSE
  /\ trackers = <<>>
  /\ tpc = [v \in Watched |-> "new"]
  /\ startNano = [v \in Watched |-> 0]
  /\ active = [v \in Watched |-> FALSE]
  /\ stalled = [v \in Watched |-> FALSE]
  /\ hung = {}
  /\ wdpc = "select" /\ threshold = 0 /\ checkedAt = 0 /\ scan = <<>>
  /\ begun = [v \in Watched |-> 0]
  /\ counted = [v \in Watched |-> 0]

Goes(v, from, to) == tpc[v] = from /\ tpc' = [tpc EXCEPT ![v] = to]
Checker(from, to) == wdpc = from /\ wdpc' = to
Scanning == wdpc \in {"active", "start", "swap", "count"}   \* holds the read lock
Set(f, v, x) == [f EXCEPT ![v] = x]

ClockAdvances ==
  /\ clock < MaxNow /\ clock' = clock + 1
  /\ UNCHANGED <<wcfg, ticked, trackers, tpc, trackerWords, hung, checkerVars, begun, counted>>

\* The ticker drops a tick when its channel is full.
TickerFires ==
  /\ wdpc # "stopped" /\ ~ticked /\ ticked' = TRUE
  /\ UNCHANGED <<wcfg, clock, trackers, tpc, trackerWords, hung, checkerVars, begun, counted>>

-----------------------------------------------------------------------------
(* A virtual user. *)

RegisterVU(v) ==
  /\ ~Scanning
  /\ Goes(v, "new", "between")
  /\ trackers' = Append(trackers, v)
  /\ UNCHANGED <<runVars, trackerWords, hung, checkerVars, begun, counted>>

\* Begin: the iteration's number, the start, stalled, active, in this order.
BeginStart(v) ==
  /\ begun[v] < MaxBegins[v]
  /\ Goes(v, "between", "reset")
  /\ startNano' = Set(startNano, v, clock)
  /\ begun' = Set(begun, v, begun[v] + 1)
  /\ UNCHANGED <<runVars, trackers, active, stalled, hung, checkerVars, counted>>

BeginStalled(v) ==
  /\ Goes(v, "reset", "activate")
  /\ stalled' = Set(stalled, v, FALSE)
  /\ UNCHANGED <<runVars, trackers, startNano, active, hung, checkerVars, begun, counted>>

\* Whether the iteration will return is settled here.  Bound: one hangs only if
\* its whole threshold fits under the clock.
BeginActive(v) ==
  /\ Goes(v, "activate", "running")
  /\ active' = Set(active, v, TRUE)
  /\ \/ UNCHANGED hung
     \/ startNano[v] + LargestThreshold <= MaxNow /\ hung' = hung \cup {v}
  /\ UNCHANGED <<runVars, trackers, startNano, stalled, checkerVars, begun, counted>>

End(v) ==
  /\ v \notin hung
  /\ Goes(v, "running", "between")
  /\ active' = Set(active, v, FALSE)
  /\ UNCHANGED <<runVars, trackers, startNano, stalled, hung, checkerVars, begun, counted>>

UnregisterActive(v) ==
  /\ Goes(v, "between", "unregister")
  /\ active' = Set(active, v, FALSE)
  /\ UNCHANGED <<runVars, trackers, startNano, stalled, hung, checkerVars, begun, counted>>

UnregisterVU(v) ==
  /\ ~Scanning
  /\ Goes(v, "unregister", "gone")
  /\ trackers' = RemoveFirst(trackers, v)
  /\ UNCHANGED <<runVars, trackerWords, hung, checkerVars, begun, counted>>

-----------------------------------------------------------------------------
(* The checker. *)

\* A tick: the threshold is chosen.
CheckStalledIterations ==
  /\ ticked /\ ticked' = FALSE
  /\ Checker("select", "now")
  /\ \E p99 \in P99s : threshold' = CheckThreshold(p99)
  /\ UNCHANGED <<wcfg, clock, trackers, tpc, trackerWords, hung, checkedAt, scan, begun, counted>>

ReadClock ==
  /\ Checker("now", "lock")
  /\ checkedAt' = clock
  /\ UNCHANGED <<runVars, trackers, tpc, trackerWords, hung, threshold, scan, begun, counted>>

\* The read lock is taken; RUnlock follows the last tracker.
LockAndScan ==
  /\ Checker("lock", IF trackers = <<>> THEN "select" ELSE "active")
  /\ scan' = trackers
  /\ UNCHANGED <<runVars, trackers, tpc, trackerWords, hung, threshold, checkedAt, begun, counted>>

\* Mutation: the check returns where it should continue.
ReturnForContinue == scan' = <<>> /\ wdpc' = "select"

NextTracker == scan' = Tail(scan) /\ wdpc' = IF Len(scan) = 1 THEN "select" ELSE "active"

LoadActive ==
  /\ wdpc = "active"
  /\ IF active[Head(scan)] THEN wdpc' = "start" /\ UNCHANGED scan ELSE NextTracker
  /\ UNCHANGED <<runVars, trackers, tpc, trackerWords, hung, threshold, checkedAt, begun, counted>>

LoadStart ==
  LET start == startNano[Head(scan)]
  IN  /\ wdpc = "start"
      /\ IF start # 0 /\ checkedAt - start >= threshold
         THEN wdpc' = "swap" /\ UNCHANGED scan
         ELSE NextTracker
      /\ UNCHANGED <<runVars, trackers, tpc, trackerWords, hung, threshold, checkedAt, begun, counted>>

SwapStalled ==
  /\ wdpc = "swap"
  /\ IF stalled[Head(scan)] THEN NextTracker /\ UNCHANGED stalled
     ELSE stalled' = Set(stalled, Head(scan), TRUE) /\ wdpc' = "count" /\ UNCHANGED scan
  /\ UNCHANGED <<runVars, trackers, tpc, startNano, active, hung, threshold, checkedAt, begun, counted>>

CountStalled ==
  /\ wdpc = "count"
  /\ counted' = Set(counted, Head(scan), counted[Head(scan)] + 1)
  /\ NextTracker
  /\ UNCHANGED <<runVars, trackers, tpc, trackerWords, hung, threshold, checkedAt, begun>>

\* Stop cancels and waits; the checker sees it at its select.
StopWatchdog ==
  /\ Checker("select", "stopped")
  /\ UNCHANGED <<runVars, trackers, tpc, trackerWords, hung, threshold, checkedAt, scan, begun, counted>>

WatchNext ==
  \/ \E v \in Watched :
       \/ RegisterVU(v) \/ BeginStart(v) \/ BeginStalled(v) \/ BeginActive(v) \/ End(v)
       \/ UnregisterActive(v) \/ UnregisterVU(v)
  \/ ClockAdvances \/ TickerFires
  \/ CheckStalledIterations \/ ReadClock \/ LockAndScan \/ LoadActive \/ LoadStart
  \/ SwapStalled \/ CountStalled \/ StopWatchdog

\* Time passes, the ticker fires and the checker's goroutine runs; Stop and the
\* virtual users' hooks are not promised.
CheckerSteps ==
  \/ CheckStalledIterations \/ ReadClock \/ LockAndScan \/ LoadActive \/ LoadStart
  \/ SwapStalled \/ CountStalled
WatchFairness ==
  WF_watchVars(ClockAdvances) /\ WF_watchVars(TickerFires) /\ WF_watchVars(CheckerSteps)

WatchSpec == WatchInit /\ [][WatchNext]_watchVars /\ WatchFairness

-----------------------------------------------------------------------------
(* Properties. *)

WatchTypeOK ==
  /\ clock \in 1..MaxNow /\ checkedAt \in 0..clock /\ ticked \in BOOLEAN
  /\ trackers \in Seq(Watched) /\ scan \in Seq(Watched)
  /\ tpc \in [Watched -> {"new", "between", "reset", "activate", "running",
                          "unregister", "gone"}]
  /\ startNano \in [Watched -> 0..MaxNow]
  /\ active \in [Watched -> BOOLEAN] /\ stalled \in [Watched -> BOOLEAN]
  /\ hung \subseteq Watched
  /\ wdpc \in {"select", "now", "lock", "active", "start", "swap", "count", "stopped"}
  /\ Scanning => scan # <<>>
  /\ begun \in [Watched -> Nat] /\ counted \in [Watched -> Nat]

\* The checker can meet an iteration that has just begun with the age of the
\* one before; still, a stalled iteration is counted once: there are never more
\* increments than iterations.
StalledAtMostOncePerIteration ==
  \A v \in Watched : counted[v] <= begun[v]

\* An iteration that never returns is flagged by the watchdog, unless the run
\* ends first, whatever the other iterations and the percentile do meanwhile.
HungIterationIsFlagged ==
  \A v \in {w \in Watched : MaxBegins[w] > 0} :
    (tpc[v] = "running" /\ v \in hung) ~> (stalled[v] \/ wdpc = "stopped")
=============================================================================
