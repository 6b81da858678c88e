--------------------------- MODULE ConversationFlow ---------------------------
(***************************************************************************)
(* One iteration of the conversation example (examples/conversation_flow): *)
(* a flow that posts customer messages and reacts to the events of a       *)
(* stream which a reader goroutine parses into a channel.  The server is   *)
(* external: it sends any events in any order, ends or resets the stream   *)
(* or falls silent, and answers a request with success, with an error      *)
(* status or not at all.                                                   *)
(***************************************************************************)
EXTENDS Integers, Sequences

CONSTANTS
  Turns,            \* customer messages per conversation
  MaxServerEvents,  \* bound: events the server sends
  SessionBuffer     \* the capacity of the session's events channel

ASSUME ConversationAssumption ==
  Turns \in Nat \ {0} /\ MaxServerEvents \in Nat /\ SessionBuffer \in Nat \ {0}

\* "other" stands for every event the flow ignores.
ServerEvents == {"created", "CUSTOMER", "BOT", "closed", "aborted", "other"}

VARIABLES
  flow,         \* where Run stands
  session,      \* the session: none, open or closed
  iterDone,     \* the iteration's context is done
  reader,       \* readLoop
  parsed,       \* the event it has parsed
  sessEvents, sessErrors,  \* the session's channels
  sentEvents,   \* bound: events the server has sent
  currentTurn, received,   \* the flow's counts; received: per role
  outcome,      \* how Run ended
  conv          \* the metrics; rates as <<successes, total>>

convVars == <<flow, session, iterDone, reader, parsed, sessEvents, sessErrors, sentEvents,
              currentTurn, received, outcome, conv>>
streamSide == <<reader, parsed, sentEvents>>
counts == <<currentTurn, received>>

ConversationInit ==
  /\ flow = "idle" /\ session = "none" /\ iterDone = FALSE
  /\ reader = "none" /\ parsed = "none" /\ sessEvents = <<>> /\ sessErrors = 0 /\ sentEvents = 0
  /\ currentTurn = 0 /\ received = [CUSTOMER |-> 0, BOT |-> 0]
  /\ outcome = "none"
  /\ conv = [requested |-> 0, successful |-> 0, failed |-> 0, closed |-> 0, dialogs |-> 0,
             dialogsClosed |-> 0, customer |-> 0, bot |-> 0, timeouts |-> 0, roundTrips |-> 0,
             messages |-> <<0, 0>>, results |-> <<0, 0>>]

Tally(rate, ok) == <<rate[1] + (IF ok THEN 1 ELSE 0), rate[2] + 1>>
Gap(m, n) == IF m > n THEN m - n ELSE n - m
FailedResult(c) == IF iterDone THEN c ELSE [c EXCEPT !.results = Tally(@, FALSE)]

\* Run returns after its event loop: the session is closed and counted so, even
\* when the hook panics; a failure counts as one only while the context lives.
Ends(how, c) ==
  /\ flow' = "done" /\ outcome' = how
  /\ session' = "closed"
  /\ conv' = LET closed == [c EXCEPT !.closed = @ + 1]
             IN  IF how = "error" THEN FailedResult(closed) ELSE closed

\* verifyAccounting and the result, once the loop has ended without an error.
Verified(c, got) ==
  LET balanced == got.CUSTOMER = currentTurn /\ got.BOT = Turns
  IN  Ends(IF balanced THEN "success" ELSE "mismatch",
           [c EXCEPT !.roundTrips = @ + Gap(got.CUSTOMER, currentTurn) + Gap(got.BOT, Turns),
                     !.results = Tally(@, balanced)])

IterationEnds ==
  /\ flow # "idle" /\ ~iterDone /\ iterDone' = TRUE
  /\ UNCHANGED <<flow, session, streamSide, sessEvents, sessErrors, counts, outcome, conv>>

-----------------------------------------------------------------------------
(* Run and OpenConversation. *)

RunConversation ==
  /\ flow = "idle" /\ flow' = "open"
  /\ conv' = [conv EXCEPT !.requested = @ + 1]
  /\ UNCHANGED <<session, iterDone, streamSide, sessEvents, sessErrors, counts, outcome>>

OpenFails ==
  /\ flow = "open" /\ flow' = "done" /\ outcome' = "error"
  /\ conv' = FailedResult([conv EXCEPT !.failed = @ + (IF iterDone THEN 0 ELSE 1)])
  /\ UNCHANGED <<session, iterDone, streamSide, sessEvents, sessErrors, counts>>

StreamOpens ==
  /\ flow = "open" /\ ~iterDone /\ flow' = "first event"
  /\ session' = "open" /\ reader' = "scan"
  /\ UNCHANGED <<iterDone, parsed, sentEvents, sessEvents, sessErrors, counts, outcome, conv>>

\* The first event has to be the dialog's creation; any other, an error, the
\* time-out or the end of the context closes the session, and the connection
\* counts as failed.
NotCreated(timeouts) ==
  /\ flow' = "done" /\ outcome' = "error" /\ session' = "closed"
  /\ conv' = FailedResult([conv EXCEPT !.timeouts = @ + timeouts,
                                       !.failed = @ + (IF iterDone THEN 0 ELSE 1)])

FirstEvent ==
  /\ flow = "first event" /\ sessEvents # <<>> /\ sessEvents' = Tail(sessEvents)
  /\ IF Head(sessEvents) = "created"
     THEN /\ flow' = "send"
          /\ conv' = [conv EXCEPT !.successful = @ + 1, !.dialogs = @ + 1]
          /\ UNCHANGED <<session, outcome>>
     ELSE NotCreated(0)
  /\ UNCHANGED <<iterDone, streamSide, sessErrors, counts>>

NoFirstEvent ==
  /\ flow = "first event"
  /\ \/ sessErrors > 0 /\ sessErrors' = sessErrors - 1 /\ NotCreated(0)
     \/ sessEvents = <<>> /\ sessErrors = 0 /\ NotCreated(1) /\ UNCHANGED sessErrors
     \/ iterDone /\ NotCreated(0) /\ UNCHANGED sessErrors
  /\ UNCHANGED <<iterDone, streamSide, sessEvents, counts>>

-----------------------------------------------------------------------------
(* The event loop. *)

SendNextMessage ==
  /\ flow = "send" /\ flow' = "posting" /\ currentTurn' = currentTurn + 1
  /\ UNCHANGED <<session, iterDone, streamSide, sessEvents, sessErrors, received, outcome, conv>>

\* AddMessage: an error status fails the flow, which then asks whether the
\* context still lives; it may have ended since the response came.  Without a
\* response the error message reads the status of one, and the hook panics.
MessageAnswered(ok) ==
  /\ flow = "posting" /\ (iterDone => ~ok)
  /\ LET c == [conv EXCEPT !.messages = Tally(@, ok)]
     IN  IF ok THEN flow' = "loop" /\ conv' = c /\ UNCHANGED <<session, outcome>> ELSE Ends("error", c)
  /\ UNCHANGED <<iterDone, streamSide, sessEvents, sessErrors, counts>>

MessageUnanswered ==
  /\ flow = "posting"
  /\ Ends("panic", [conv EXCEPT !.messages = Tally(@, FALSE)])
  /\ UNCHANGED <<iterDone, streamSide, sessEvents, sessErrors, counts>>

\* dispatch: a bot message is the end of a turn, the last one of the dialog.
TakeEvent ==
  /\ flow = "loop" /\ sessEvents # <<>> /\ sessEvents' = Tail(sessEvents)
  /\ LET e == Head(sessEvents) IN
       CASE e = "aborted" -> Ends("error", conv) /\ UNCHANGED received
         [] e = "closed" ->
              Verified([conv EXCEPT !.dialogsClosed = @ + 1], received) /\ UNCHANGED received
         [] e = "CUSTOMER" ->
              /\ received' = [received EXCEPT !.CUSTOMER = @ + 1]
              /\ conv' = [conv EXCEPT !.customer = @ + 1]
              /\ UNCHANGED <<flow, session, outcome>>
         [] e = "BOT" ->
              /\ received' = [received EXCEPT !.BOT = @ + 1]
              /\ conv' = [conv EXCEPT !.bot = @ + 1]
              /\ flow' = IF currentTurn >= Turns THEN "closing" ELSE "thinking"
              /\ UNCHANGED <<session, outcome>>
         [] OTHER -> UNCHANGED <<flow, session, outcome, received, conv>>
  /\ UNCHANGED <<iterDone, streamSide, sessErrors, currentTurn>>

\* A stream that ends is not seen: its channel is never closed, and the flow
\* waits for the time-out.
LoopFails ==
  /\ flow = "loop"
  /\ \/ sessErrors > 0 /\ sessErrors' = sessErrors - 1 /\ Ends("error", conv)
     \/ /\ sessEvents = <<>> /\ sessErrors = 0
        /\ Ends("error", [conv EXCEPT !.timeouts = @ + 1]) /\ UNCHANGED sessErrors
     \/ iterDone /\ Ends("error", conv) /\ UNCHANGED sessErrors
  /\ UNCHANGED <<iterDone, streamSide, sessEvents, counts>>

ThinkingTime ==
  /\ flow = "thinking"
  /\ \/ iterDone /\ Ends("error", conv)
     \/ ~iterDone /\ flow' = "send" /\ UNCHANGED <<session, outcome, conv>>
  /\ UNCHANGED <<iterDone, streamSide, sessEvents, sessErrors, counts>>

CloseConversation(ok) ==
  /\ flow = "closing" /\ (iterDone => ~ok)
  /\ IF ok THEN Verified([conv EXCEPT !.dialogsClosed = @ + 1], received) ELSE Ends("error", conv)
  /\ UNCHANGED <<iterDone, streamSide, sessEvents, sessErrors, counts>>

-----------------------------------------------------------------------------
(* readLoop. *)

\* A line that carries an event was scanned; the loop ends if the session is
\* closed by then.
Scan(e) ==
  /\ reader = "scan" /\ sentEvents < MaxServerEvents /\ sentEvents' = sentEvents + 1
  /\ IF session = "closed" THEN reader' = "gone" /\ UNCHANGED parsed
     ELSE reader' = "push" /\ parsed' = e
  /\ UNCHANGED <<flow, session, iterDone, sessEvents, sessErrors, counts, outcome, conv>>

Push ==
  /\ reader = "push"
  /\ \/ /\ Len(sessEvents) < SessionBuffer
        /\ sessEvents' = Append(sessEvents, parsed) /\ reader' = "scan"
     \/ session = "closed" /\ reader' = "gone" /\ UNCHANGED sessEvents
  /\ parsed' = "none"
  /\ UNCHANGED <<flow, session, iterDone, sentEvents, sessErrors, counts, outcome, conv>>

\* The stream ends: by itself, or by an error, its own, that of the iteration's
\* context or that of the closed body.
ScanEnds(failed) ==
  /\ reader = "scan" /\ reader' = IF failed THEN "report" ELSE "gone"
  /\ UNCHANGED <<flow, session, iterDone, parsed, sentEvents, sessEvents, sessErrors, counts,
                 outcome, conv>>

Report ==
  /\ reader = "report" /\ reader' = "gone"
  /\ \/ sessErrors' = sessErrors + 1
     \/ session = "closed" /\ UNCHANGED sessErrors
  /\ UNCHANGED <<flow, session, iterDone, parsed, sentEvents, sessEvents, counts, outcome, conv>>

ConversationNext ==
  \/ IterationEnds \/ RunConversation \/ OpenFails \/ StreamOpens \/ FirstEvent \/ NoFirstEvent
  \/ SendNextMessage \/ MessageUnanswered \/ TakeEvent \/ LoopFails \/ ThinkingTime
  \/ \E ok \in BOOLEAN : MessageAnswered(ok) \/ CloseConversation(ok)
  \/ \E e \in ServerEvents : Scan(e)
  \/ Push \/ Report
  \/ \E failed \in BOOLEAN : ScanEnds(failed)

\* The HTTP client and the flow's own timer end every wait; a read of a closed
\* body ends, a silent server's need not.
FlowSteps ==
  \/ OpenFails \/ StreamOpens \/ FirstEvent \/ NoFirstEvent
  \/ SendNextMessage \/ MessageUnanswered \/ TakeEvent \/ LoopFails \/ ThinkingTime
  \/ \E ok \in BOOLEAN : MessageAnswered(ok) \/ CloseConversation(ok)
ReaderSteps == Push \/ Report \/ (session = "closed" /\ ScanEnds(TRUE))
ConversationFairness == WF_convVars(FlowSteps) /\ WF_convVars(ReaderSteps)

ConversationSpec == ConversationInit /\ [][ConversationNext]_convVars /\ ConversationFairness

-----------------------------------------------------------------------------
(* Properties. *)

ConversationTypeOK ==
  /\ flow \in {"idle", "open", "first event", "send", "posting", "loop", "thinking", "closing", "done"}
  /\ session \in {"none", "open", "closed"} /\ iterDone \in BOOLEAN
  /\ reader \in {"none", "scan", "push", "report", "gone"}
  /\ parsed \in ServerEvents \cup {"none"}
  /\ Len(sessEvents) <= SessionBuffer /\ sessErrors \in 0..1
  /\ currentTurn \in 0..Turns
  /\ outcome \in {"none", "success", "mismatch", "error", "panic"}

\* A conversation counts itself as it ended, whatever the server sent and in
\* whatever order.  It asked for one stream, which failed or was closed again.
\* A success is one result and means that every turn was posted, echoed and
\* answered; a mismatch is one failed result, and the open round trips show the
\* difference; an error is one too, unless the iteration was over; a panic is
\* none, but its last message is counted as lost.
ConversationIsCounted ==
  flow = "done" =>
    /\ conv.requested = 1 /\ conv.closed = conv.successful
    /\ conv.successful + conv.failed = 1 \/ iterDone
    /\ outcome = "success" =>
         /\ conv.results = <<1, 1>> /\ conv.messages = <<Turns, Turns>> /\ conv.roundTrips = 0
         /\ received = [CUSTOMER |-> Turns, BOT |-> Turns]
    /\ outcome = "mismatch" => conv.results = <<0, 1>> /\ conv.roundTrips > 0
    /\ outcome = "error" => conv.results = <<0, 1>> \/ (conv.results = <<0, 0>> /\ iterDone)
    /\ outcome = "panic" => conv.results = <<0, 0>> /\ conv.messages[2] = conv.messages[1] + 1

\* Every conversation that was begun ends, and its reader with it, although the
\* server may end the stream unseen, reset it, flood its channel or fall silent.
\* It sends finitely many events (MaxServerEvents): a server that never stops
\* talking keeps the flow until the iteration's deadline.
ConversationEnds == flow # "idle" ~> (flow = "done" /\ reader \in {"none", "gone"})
=============================================================================
