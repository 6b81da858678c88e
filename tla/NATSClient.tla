------------------------------ MODULE NATSClient ------------------------------
(***************************************************************************)
(* The NATS client (pkg/vuhive/nats), shared by virtual users: one          *)
(* connection under a publisher, a subscriber and a JetStream handle, and   *)
(* what every call returns and counts.  The broker and nats.go are          *)
(* external: a call fails or succeeds, a message is delivered to a          *)
(* subscription or lost.                                                    *)
(***************************************************************************)
EXTENDS Integers, FiniteSets, SequencesExt

CONSTANTS
  NATSVUs,        \* virtual users that share the client
  NATSOptions,    \* lists of options a client may be made with
  MaxNATSCalls    \* bound: calls of all virtual users

ASSUME NATSAssumption ==
  /\ IsFiniteSet(NATSVUs) /\ MaxNATSCalls \in Nat
  /\ \A options \in NATSOptions : options \in Seq(Range(options))

\* defaultConfig and the options that matter to a call: an empty address or list
\* of servers is ignored, so that a client always has a server to connect to; a
\* timeout is taken as it is.
natsDefaults == [servers |-> <<"127.0.0.1:4222">>, timeout |-> 5]
ApplyNATSOption(cfg, opt) ==
  CASE opt.name = "WithURL" /\ opt.value # "" -> [cfg EXCEPT !.servers = <<opt.value>>]
    [] opt.name = "WithServers" /\ opt.value # <<>> -> [cfg EXCEPT !.servers = opt.value]
    [] opt.name = "WithTimeout" -> [cfg EXCEPT !.timeout = opt.value]
    [] OTHER -> cfg
NATSConfig(options) == FoldLeft(ApplyNATSOption, natsDefaults, options)

VARIABLES
  ncfg,        \* the client's configuration
  natsBuild,   \* built with the nats tag
  conn,        \* its connection
  sub,         \* each virtual user's subscription
  inbox,       \* messages that wait in it
  natsAnswer,  \* what the virtual user's last call returned
  natsMetrics, \* the metrics, summed over subjects
  natsCalls    \* history (and bound): calls by what their callers saw

natsVars == <<ncfg, natsBuild, conn, sub, inbox, natsAnswer, natsMetrics, natsCalls>>
natsClient == <<ncfg, natsBuild, conn>>
subscriptions == <<sub, inbox>>

NATSInit ==
  /\ \E options \in NATSOptions : ncfg = NATSConfig(options)
  /\ natsBuild \in BOOLEAN
  /\ conn = "none"
  /\ sub = [v \in NATSVUs |-> "none"] /\ inbox = [v \in NATSVUs |-> 0]
  /\ natsAnswer = [v \in NATSVUs |-> "none"]
  /\ natsMetrics = [pub_duration |-> 0, req_duration |-> 0, pub_total |-> 0, pub_failed |-> <<0, 0>>,
                    sub_received_total |-> 0, sub_failed |-> <<0, 0>>]
  /\ natsCalls = [all |-> 0, pub |-> 0, req |-> 0, pubFailed |-> 0, next |-> 0, nextFailed |-> 0]

Ready(v) == natsCalls.all < MaxNATSCalls /\ conn # "none"
CallReturns(v, answer, fields) ==
  /\ natsAnswer' = [natsAnswer EXCEPT ![v] = answer]
  /\ natsCalls' = [f \in DOMAIN natsCalls |->
                     natsCalls[f] + (IF f \in fields \cup {"all"} THEN 1 ELSE 0)]
Sample(rate, failed) == <<rate[1] + (IF failed THEN 1 ELSE 0), rate[2] + 1>>

\* recordPubMetrics and recordReqMetrics: a request counts among the published
\* messages and their failures, but has a duration of its own.
RecordPub(duration, failed) ==
  natsMetrics' = [natsMetrics EXCEPT ![duration] = @ + 1, !.pub_total = @ + 1,
                                     !.pub_failed = Sample(@, failed)]
RecordSub(failed) ==
  natsMetrics' = [natsMetrics EXCEPT !.sub_received_total = @ + (IF failed THEN 0 ELSE 1),
                                     !.sub_failed = Sample(@, failed)]

\* The error a call returns for the client's: a deadline is ErrTimeout, be it the
\* call's own or its caller's; a cancellation or a closed connection is not. Only a
\* closed connection is reported as closed, but a call on one may fail otherwise:
\* its context is looked at first.
NATSErrors == {"timeout", "deadline", "canceled", "closed", "io"}
ErrorOf(err) == IF err \in {"timeout", "deadline"} THEN "ErrTimeout" ELSE "failed"
Possible(err) == err = "closed" => conn = "closed"

\* NewClientWithCollector; a failed connection makes no client.
Connect ==
  /\ conn = "none"
  /\ IF natsBuild /\ ncfg.servers # <<>> THEN conn' \in {"open", "none"} ELSE conn' = "disabled"
  /\ UNCHANGED <<ncfg, natsBuild, subscriptions, natsAnswer, natsMetrics, natsCalls>>

\* Without the tag every operation fails and counts nothing; a missing subject or
\* message is refused before the connection is used.
NATSRefuses(v) ==
  /\ Ready(v)
  /\ CallReturns(v, IF natsBuild THEN "refused" ELSE "disabled", {})
  /\ UNCHANGED <<natsClient, subscriptions, natsMetrics>>

PublishReturns(v, failed) ==
  /\ CallReturns(v, IF failed THEN "failed" ELSE "ok",
                 IF failed THEN {"pub", "pubFailed"} ELSE {"pub"})
  /\ RecordPub("pub_duration", failed)
  /\ UNCHANGED <<natsClient, subscriptions>>

\* Publish and PublishMsg, which ignore their context ...
PublishNATS(v, failed) ==
  natsBuild /\ Ready(v) /\ (conn = "closed" => failed) /\ PublishReturns(v, failed)

\* ... and those of the JetStream handle, which wait for an acknowledgement until
\* their context ends: whatever the error, it is "failed".
PublishJetStream(v, failed) ==
  natsBuild /\ Ready(v) /\ (conn = "closed" => failed) /\ PublishReturns(v, failed)

\* Request waits for the given timeout, or for the configured one if that is not
\* positive; with none it has expired before it is sent (or was canceled before that).
EffectiveTimeout(timeout) == IF timeout <= 0 THEN ncfg.timeout ELSE timeout

RequestReplied(v, timeout) ==
  /\ natsBuild /\ Ready(v) /\ conn = "open" /\ EffectiveTimeout(timeout) > 0
  /\ CallReturns(v, "ok", {"req"})
  /\ RecordPub("req_duration", FALSE)
  /\ UNCHANGED <<natsClient, subscriptions>>

RequestFails(v, timeout, err) ==
  /\ natsBuild /\ Ready(v)
  /\ IF EffectiveTimeout(timeout) > 0 THEN Possible(err) ELSE err \in {"deadline", "canceled"}
  /\ CallReturns(v, ErrorOf(err), {"req", "pubFailed"})
  /\ RecordPub("req_duration", TRUE)
  /\ UNCHANGED <<natsClient, subscriptions>>

-----------------------------------------------------------------------------
(* Subscriptions. *)

Subscribe(v) ==
  /\ natsBuild /\ Ready(v) /\ sub[v] = "none"
  /\ \/ conn = "open" /\ sub' = [sub EXCEPT ![v] = "active"] /\ CallReturns(v, "ok", {})
     \/ UNCHANGED sub /\ CallReturns(v, "failed", {})
  /\ UNCHANGED <<natsClient, inbox, natsMetrics>>

\* The broker delivers a message; the bound is one that waits.
Deliver(v) ==
  /\ conn = "open" /\ sub[v] = "active" /\ inbox[v] = 0
  /\ inbox' = [inbox EXCEPT ![v] = 1]
  /\ UNCHANGED <<natsClient, sub, natsAnswer, natsMetrics, natsCalls>>

NextMsgReturns(v) ==
  /\ natsBuild /\ Ready(v) /\ inbox[v] > 0 /\ sub[v] = "active" /\ conn = "open"
  /\ inbox' = [inbox EXCEPT ![v] = @ - 1]
  /\ CallReturns(v, "ok", {"next"}) /\ RecordSub(FALSE)
  /\ UNCHANGED <<natsClient, sub>>

\* A wait that ends without a message counts as a failure to receive.
NextMsgFails(v, err) ==
  /\ natsBuild /\ Ready(v) /\ sub[v] # "none" /\ (sub[v] = "active" => Possible(err))
  /\ (sub[v] = "gone") => (err \in {"closed", "canceled", "deadline"})
  /\ CallReturns(v, ErrorOf(err), {"next", "nextFailed"}) /\ RecordSub(TRUE)
  /\ UNCHANGED <<natsClient, subscriptions>>

Unsubscribe(v) ==
  /\ natsBuild /\ Ready(v) /\ sub[v] = "active"
  /\ sub' = [sub EXCEPT ![v] = "gone"] /\ inbox' = [inbox EXCEPT ![v] = 0]
  /\ CallReturns(v, IF conn = "open" THEN "ok" ELSE "failed", {})
  /\ UNCHANGED <<natsClient, natsMetrics>>

\* Close of the client, its publisher or its subscriber closes the connection of
\* all; that of the JetStream handle does nothing.
CloseNATS ==
  /\ conn = "open" /\ conn' = "closed" /\ inbox' = [v \in NATSVUs |-> 0]
  /\ UNCHANGED <<ncfg, natsBuild, sub, natsAnswer, natsMetrics, natsCalls>>

NATSNext ==
  \/ Connect \/ CloseNATS
  \/ \E v \in NATSVUs :
       \/ NATSRefuses(v) \/ Subscribe(v) \/ Deliver(v) \/ NextMsgReturns(v) \/ Unsubscribe(v)
       \/ \E failed \in BOOLEAN : PublishNATS(v, failed) \/ PublishJetStream(v, failed)
       \/ \E timeout \in {0, 1} :
            RequestReplied(v, timeout) \/ \E err \in NATSErrors : RequestFails(v, timeout, err)
       \/ \E err \in NATSErrors : NextMsgFails(v, err)

NATSSpec == NATSInit /\ [][NATSNext]_natsVars

-----------------------------------------------------------------------------
(* Properties. *)

NATSTypeOK ==
  /\ ncfg.servers # <<>> /\ natsBuild \in BOOLEAN
  /\ conn \in {"none", "open", "closed", "disabled"}
  /\ \A v \in NATSVUs : sub[v] \in {"none", "active", "gone"} /\ inbox[v] \in 0..1
  /\ \A v \in NATSVUs : natsAnswer[v] \in {"none", "ok", "refused", "disabled", "failed", "ErrTimeout"}

\* Every call that reached the connection is counted once, whoever made it: a
\* message published or requested in pub_total and the samples of pub_failed, a
\* wait in the samples of sub_failed, and as failed exactly when its caller got
\* an error.
NATSCallsAreCounted ==
  LET sent == natsCalls.pub + natsCalls.req
  IN  /\ natsMetrics.pub_total = sent
      /\ natsMetrics.pub_failed = <<natsCalls.pubFailed, sent>>
      /\ natsMetrics.pub_duration = natsCalls.pub /\ natsMetrics.req_duration = natsCalls.req
      /\ natsMetrics.sub_failed = <<natsCalls.nextFailed, natsCalls.next>>
      /\ natsMetrics.sub_received_total = natsCalls.next - natsCalls.nextFailed
=============================================================================
