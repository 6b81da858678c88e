------------------------------ MODULE SSEStream ------------------------------
(***************************************************************************)
(* A server-sent event stream (pkg/vuhive/http/sse.go): the virtual user   *)
(* connects under a context detached from its iteration's deadline, reads  *)
(* events itself or from a channel a pump goroutine fills, and closes; a   *)
(* monitor goroutine carries an explicit cancellation of the parent over   *)
(* to the stream.  Of a line only what Next tells apart is kept.           *)
(***************************************************************************)
EXTENDS Integers, Sequences, FiniteSets

CONSTANTS
  MaxLines,      \* bound: lines of a response
  EventBuffer    \* the capacity of the events channel

ASSUME StreamAssumption == MaxLines \in Nat /\ EventBuffer \in Nat \ {0}

\* A data, event, id or well-formed retry line; a line that Next skips (a
\* comment, an unknown field, a retry that is no number); the empty line.
SSELines == {"field", "skipped", "blank"}
\* How a response ends: at a line's end or within its last line, by an error of
\* the connection, or not at all.
Endings == {"eof", "partial", "reset", "silent"}
Bodies == UNION {[1..n -> SSELines] : n \in 0..MaxLines}

VARIABLES
  body, ending,   \* what the server still sends
  parent,         \* effectiveCtx: live, canceled or past its deadline
  stream,         \* the virtual user's side: start, connecting, open, ...
  streamDone,     \* streamCtx is cancelled
  bodyClosed, closed,
  monitor,        \* the monitoring goroutine
  nextAt,         \* the call of Next in progress
  frame,          \* Next has seen a field of the event it reads
  streamErr,
  pump, events,   \* the pump goroutine and the number of buffered events
  sse             \* history: the metrics, and the frames the response held

sseVars == <<body, ending, parent, stream, streamDone, bodyClosed, closed, monitor, nextAt,
             frame, streamErr, pump, events, sse>>
response == <<body, ending>>
life == <<parent, stream, streamDone, bodyClosed, closed, monitor>>
reading == <<nextAt, frame, streamErr>>

\* The events a response carries, by its text alone: each run of lines up to a
\* blank line, or to the end of the response, that has a field.
Starts(b) == {i \in DOMAIN b : b[i] = "field" /\
                \A j \in 1..i-1 : b[j] = "field" => \E k \in j..i : b[k] = "blank"}

StreamInit ==
  /\ body \in Bodies /\ ending \in Endings
  /\ ending = "partial" => body # <<>> /\ body[Len(body)] # "blank"
  /\ parent = "live" /\ stream = "start" /\ streamDone = FALSE
  /\ bodyClosed = FALSE /\ closed = FALSE
  /\ monitor = "none"
  /\ nextAt = "none" /\ frame = FALSE /\ streamErr = FALSE
  /\ pump = "none" /\ events = 0
  /\ sse = [connections |-> 0, errors |-> 0, events |-> 0, durations |-> 0,
            carried |-> Starts(body), failed |-> FALSE]

Inc(fields) == sse' = [f \in DOMAIN sse |-> IF f \in fields THEN sse[f] + 1 ELSE sse[f]]
FailsWith(fields) ==
  sse' = [f \in DOMAIN sse |-> IF f = "failed" THEN TRUE
                               ELSE IF f \in fields THEN sse[f] + 1 ELSE sse[f]]

-----------------------------------------------------------------------------
(* The parent context, the monitor and the connection. *)

ParentEnds ==
  /\ parent = "live" /\ parent' \in {"canceled", "deadline"}
  /\ UNCHANGED <<response, stream, streamDone, bodyClosed, closed, monitor, reading, pump, events, sse>>

\* The pre-flight check; then the request runs under the detached context, so
\* that nothing of the parent is noticed until it is answered.
DoStream ==
  /\ stream = "start"
  /\ stream' = IF parent # "live" THEN "refused" ELSE "connecting"
  /\ UNCHANGED <<response, parent, streamDone, bodyClosed, closed, monitor, reading, pump, events, sse>>

ConnectFails ==
  /\ stream = "connecting" /\ stream' = "refused" /\ streamDone' = TRUE
  /\ FailsWith({"connections", "errors"})
  /\ UNCHANGED <<response, parent, bodyClosed, closed, monitor, reading, pump, events>>

BadStatus ==
  /\ stream = "connecting" /\ stream' = "refused" /\ streamDone' = TRUE /\ bodyClosed' = TRUE
  /\ FailsWith({"connections", "errors"})
  /\ UNCHANGED <<response, parent, closed, monitor, reading, pump, events>>

Connected ==
  /\ stream = "connecting" /\ stream' = "open" /\ monitor' = "waiting"
  /\ Inc({"connections"})
  /\ UNCHANGED <<response, parent, streamDone, bodyClosed, closed, reading, pump, events>>

\* The monitor carries a cancellation over, never a deadline, and then ends.
MonitorSeesParent ==
  /\ monitor = "waiting" /\ parent # "live" /\ monitor' = "gone"
  /\ streamDone' = (streamDone \/ parent = "canceled")
  /\ UNCHANGED <<response, parent, stream, bodyClosed, closed, reading, pump, events, sse>>

MonitorSeesStream ==
  /\ monitor = "waiting" /\ streamDone /\ monitor' = "gone"
  /\ UNCHANGED <<response, parent, stream, streamDone, bodyClosed, closed, reading, pump, events, sse>>

-----------------------------------------------------------------------------
(* Next, called by the virtual user or by the pump. *)

Returns(more) ==
  /\ nextAt' = "none" /\ frame' = FALSE
  /\ pump' = IF pump # "next" THEN pump ELSE IF more THEN "send" ELSE "gone"

CallNext ==
  /\ stream = "open" /\ nextAt = "none" /\ pump \in {"none", "next"}
  /\ IF streamErr \/ closed THEN Returns(FALSE) ELSE nextAt' = "loop" /\ UNCHANGED <<frame, pump>>
  /\ UNCHANGED <<response, life, streamErr, events, sse>>

\* The pump's Next also runs once the virtual user has left the stream.
PumpCallsNext ==
  /\ stream \in {"closing", "closed"} /\ nextAt = "none" /\ pump = "next"
  /\ Returns(FALSE)
  /\ UNCHANGED <<response, life, streamErr, events, sse>>

CheckContext ==
  /\ nextAt = "loop"
  /\ IF streamDone THEN Returns(FALSE) ELSE nextAt' = "reading" /\ UNCHANGED <<frame, pump>>
  /\ UNCHANGED <<response, life, streamErr, events, sse>>

Takes(line, atEOF) ==
  LET sees == frame \/ line = "field"
      ends == line = "blank" \/ atEOF
  IN  /\ CASE ends /\ sees -> Returns(TRUE) /\ Inc({"events"})
           [] atEOF /\ ~sees -> Returns(FALSE) /\ UNCHANGED sse
           [] OTHER -> nextAt' = "loop" /\ frame' = sees /\ UNCHANGED <<pump, sse>>
      /\ UNCHANGED streamErr

\* ReadString returns a line; with it io.EOF if the response ends within it.
\* A line that is already buffered is returned although the stream is done.
ReadLine ==
  /\ nextAt = "reading" /\ body # <<>>
  /\ Takes(Head(body), Len(body) = 1 /\ ending = "partial")
  /\ body' = Tail(body)
  /\ UNCHANGED <<ending, life, events>>

ReadEOF ==
  /\ nextAt = "reading" /\ body = <<>> /\ ending \in {"eof", "partial"}
  /\ Takes("blank", TRUE)
  /\ UNCHANGED <<response, life, events>>

\* An error is the stream's own unless its context is done.
ReadFails ==
  /\ nextAt = "reading" /\ (streamDone \/ bodyClosed \/ (body = <<>> /\ ending = "reset"))
  /\ IF streamDone THEN UNCHANGED <<streamErr, sse>>
     ELSE streamErr' = TRUE /\ (IF bodyClosed THEN Inc({"errors"}) ELSE FailsWith({"errors"}))
  /\ Returns(FALSE)
  /\ UNCHANGED <<response, life, events>>

-----------------------------------------------------------------------------
(* The events channel and Close. *)

Events ==
  /\ stream = "open" /\ pump = "none" /\ nextAt = "none" /\ pump' = "next"
  /\ UNCHANGED <<response, life, reading, events, sse>>

Send ==
  /\ pump = "send" /\ events < EventBuffer
  /\ events' = events + 1 /\ pump' = "next"
  /\ UNCHANGED <<response, life, reading, sse>>

SendGivesUp ==
  /\ pump = "send" /\ streamDone /\ pump' = "gone"
  /\ UNCHANGED <<response, life, reading, events, sse>>

Receive ==
  /\ stream = "open" /\ events > 0 /\ events' = events - 1
  /\ UNCHANGED <<response, life, reading, pump, sse>>

\* Mutation: Close does not cancel the stream's context.
CloseWithoutCancel ==
  /\ stream = "open" /\ (nextAt = "none" \/ pump # "none")
  /\ stream' = "closing" /\ closed' = TRUE
  /\ UNCHANGED <<response, parent, streamDone, bodyClosed, monitor, reading, pump, events, sse>>

\* Close marks the stream, cancels, and then closes the body; a second call
\* does nothing.  The virtual user cannot close while it is in Next itself.
CloseCancels ==
  /\ stream = "open" /\ (nextAt = "none" \/ pump # "none")
  /\ stream' = "closing" /\ closed' = TRUE /\ streamDone' = TRUE
  /\ UNCHANGED <<response, parent, bodyClosed, monitor, reading, pump, events, sse>>

CloseBody ==
  /\ stream = "closing" /\ stream' = "closed" /\ bodyClosed' = TRUE
  /\ Inc({"durations"})
  /\ UNCHANGED <<response, parent, streamDone, closed, monitor, reading, pump, events>>

StreamNext ==
  \/ ParentEnds \/ DoStream \/ ConnectFails \/ BadStatus \/ Connected
  \/ MonitorSeesParent \/ MonitorSeesStream
  \/ CallNext \/ PumpCallsNext \/ CheckContext \/ ReadLine \/ ReadEOF \/ ReadFails
  \/ Events \/ Send \/ SendGivesUp \/ Receive \/ CloseCancels \/ CloseBody

\* The stream's goroutines run; the server, the parent and the virtual user
\* promise nothing, but a Close that was begun is finished.
StreamFairness ==
  /\ WF_sseVars(MonitorSeesParent \/ MonitorSeesStream)
  /\ WF_sseVars(CheckContext \/ ReadLine \/ ReadEOF \/ ReadFails)
  /\ WF_sseVars(pump = "next" /\ (CallNext \/ PumpCallsNext))
  /\ WF_sseVars(Send \/ SendGivesUp)
  /\ WF_sseVars(CloseBody)

StreamSpec == StreamInit /\ [][StreamNext]_sseVars /\ StreamFairness

-----------------------------------------------------------------------------
(* Properties. *)

StreamTypeOK ==
  /\ body \in Bodies /\ ending \in Endings
  /\ parent \in {"live", "canceled", "deadline"}
  /\ stream \in {"start", "connecting", "open", "closing", "closed", "refused"}
  /\ {streamDone, bodyClosed, closed, frame, streamErr} \subseteq BOOLEAN
  /\ monitor \in {"none", "waiting", "gone"}
  /\ nextAt \in {"none", "loop", "reading"}
  /\ pump \in {"none", "next", "send", "gone"} /\ events \in 0..EventBuffer

\* No stream outlives its owner: once it is closed, or its parent is cancelled
\* outright, the monitor ends and the pump does not stay at a read of a silent
\* server or at a full channel.
StreamLeavesNothing ==
  (closed \/ (parent = "canceled" /\ monitor # "none"))
    ~> (monitor = "gone" /\ pump \in {"none", "gone"})

\* What a stream counts is what happened on the wire: an error only for a failed
\* connection or read, not for a stream that its owner closed or cancelled, and
\* never more events than the response carries.
StreamCountsWhatHappened ==
  /\ sse.errors = (IF sse.failed THEN 1 ELSE 0)
  /\ sse.events <= Cardinality(sse.carried)
=============================================================================
