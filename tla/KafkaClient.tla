------------------------------ MODULE KafkaClient ------------------------------
(***************************************************************************)
(* The Kafka client (pkg/vuhive/kafka), shared by virtual users: what a    *)
(* call produces, polls, returns and counts.  The broker and franz-go's    *)
(* client are external: a poll hands each fetched record to one caller, in *)
(* order and at most as many as were asked for, perhaps together with the  *)
(* error of another partition; when its context is done, or the client is  *)
(* closed, it returns an error or nothing.                                 *)
(***************************************************************************)
EXTENDS Integers, FiniteSets, SequencesExt

CONSTANTS
  KafkaVUs,       \* virtual users that share the client
  KafkaOptions,   \* lists of options a client may be made with
  BatchSizes,     \* what ConsumeBatch may be asked for; 0: the default
  DefaultBatch,
  TopicLength,    \* bound: the records of the topic
  MaxKafkaCalls   \* bound: calls of all virtual users

ASSUME KafkaAssumption ==
  /\ IsFiniteSet(KafkaVUs) /\ BatchSizes \subseteq Nat /\ DefaultBatch \in Nat \ {0}
  /\ TopicLength \in Nat /\ MaxKafkaCalls \in Nat
  /\ \A options \in KafkaOptions :
       /\ options \in Seq(Range(options))
       /\ \A i \in DOMAIN options :
            options[i].name \in {"WithTopic", "WithTopics", "WithAcks", "WithStartOffset"}

\* defaultConfig.
kafkaDefaults == [topic |-> "", topics |-> <<>>, acks |-> -1, startOffset |-> -1]

\* Mutation: WithTopic sets the producer's topic only.
TopicOfTheProducerOnly(cfg, opt) ==
  CASE opt.name = "WithTopic" -> [cfg EXCEPT !.topic = opt.value]
    [] opt.name = "WithAcks"  -> [cfg EXCEPT !.acks = opt.value]
    [] OTHER -> cfg

\* The options that are more than an assignment: WithTopic and WithTopics each set
\* the other's field if that is empty.
ApplyOption(cfg, opt) ==
  CASE opt.name = "WithTopic" ->
         [cfg EXCEPT !.topic = opt.value,
                     !.topics = IF @ = <<>> /\ opt.value # "" THEN <<opt.value>> ELSE @]
    [] opt.name = "WithTopics" ->
         [cfg EXCEPT !.topics = opt.value,
                     !.topic = IF opt.value # <<>> /\ @ = "" THEN opt.value[1] ELSE @]
    [] opt.name = "WithAcks" -> [cfg EXCEPT !.acks = opt.value]
    [] opt.name = "WithStartOffset" -> [cfg EXCEPT !.startOffset = opt.value]
KafkaConfig(options) == FoldLeft(ApplyOption, kafkaDefaults, options)

VARIABLES
  kcfg,        \* the client's configuration
  kafkaBuild,  \* built with the kafka tag
  kclosed,     \* Close was called
  position,    \* records polled so far: the next one is position + 1
  want,        \* what each virtual user's ConsumeBatch still accepts; 0: none runs
  batch,       \* the records it has collected
  returned,    \* history: the records each virtual user was given, in order
  dropped,     \* history: records that were polled and given to nobody
  besideError, \* history: records that a poll returned together with an error
  kafkaMetrics,\* calls counted, and those counted as failed
  kafkaCalls   \* history (and bound): calls by their fate

kafkaVars == <<kcfg, kafkaBuild, kclosed, position, want, batch, returned, dropped, besideError,
               kafkaMetrics, kafkaCalls>>
kafkaClient == <<kcfg, kafkaBuild, kclosed>>
consuming == <<position, want, batch, returned, dropped, besideError>>

\* buildKgoOptions' offset reset: at the end of the topic, or at its start.
FirstPosition(cfg) == IF cfg.startOffset = -1 THEN TopicLength \div 2 ELSE 0

KafkaInit ==
  /\ \E options \in KafkaOptions : kcfg = KafkaConfig(options)
  /\ kafkaBuild \in BOOLEAN
  /\ kclosed = FALSE
  /\ position = FirstPosition(kcfg)
  /\ want = [v \in KafkaVUs |-> 0] /\ batch = [v \in KafkaVUs |-> <<>>]
  /\ returned = [v \in KafkaVUs |-> <<>>]
  /\ dropped = {} /\ besideError = {}
  /\ kafkaMetrics = [pub |-> 0, pubFailed |-> 0, sub |-> 0, subFailed |-> 0]
  /\ kafkaCalls = [all |-> 0, pub |-> 0, pubFailed |-> 0, sub |-> 0, subFailed |-> 0]

Calls0(v) == kafkaCalls.all < MaxKafkaCalls /\ want[v] = 0
\* A call that starts, one that ends counted (recordPubMetrics, recordSubMetrics),
\* and the same call as the caller sees it.
Bump(rec, fields) == [f \in DOMAIN rec |-> IF f \in fields THEN rec[f] + 1 ELSE rec[f]]
Fails(kind, failed) == {kind} \cup (IF failed THEN {kind \o "Failed"} ELSE {})
Counted(kind, failed) == kafkaMetrics' = Bump(kafkaMetrics, Fails(kind, failed))
Outcome(new, kind, failed) == kafkaCalls' = Bump(kafkaCalls, new \cup Fails(kind, failed))
JustACall == kafkaCalls' = Bump(kafkaCalls, {"all"})

\* Without the tag every operation fails and nothing is counted.
DisabledCall(v) ==
  /\ ~kafkaBuild /\ Calls0(v) /\ JustACall
  /\ UNCHANGED <<kafkaClient, consuming, kafkaMetrics>>

\* A message needs a topic, its own or the configured one; one that is nil or
\* has none fails the whole call before anything is produced.
Sendable(msgs) == \A i \in DOMAIN msgs : msgs[i] # "nil" /\ (msgs[i] = "topic" \/ kcfg.topic # "")

PublishRefused(v, msgs) ==
  /\ kafkaBuild /\ Calls0(v) /\ ~Sendable(msgs)
  /\ JustACall
  /\ UNCHANGED <<kafkaClient, consuming, kafkaMetrics>>

\* Publish and PublishBatch: all records at once, and one that the client could not
\* hand over fails the call. With any acknowledgement level, 0 included, a record
\* may fail (it is too large, its topic is unknown, its context ends).
Publish(v, failed) ==
  /\ kafkaBuild /\ Calls0(v)
  /\ kclosed => failed
  /\ Counted("pub", failed) /\ Outcome({"all"}, "pub", failed)
  /\ UNCHANGED <<kafkaClient, consuming>>

-----------------------------------------------------------------------------
(* Consuming. *)

\* The records a poll for n returns: the next ones of the subscribed topics.
Polled(n) == [i \in 1..n |-> position + i]
CanPoll(n, most) == /\ n <= most /\ position + n <= TopicLength
                    /\ n > 0 => kcfg.topics # <<>> /\ ~kclosed
Advance(n) == position' = position + n
Drops(n) == /\ dropped' = dropped \cup ToSet(Polled(n))
            /\ besideError' = besideError \cup ToSet(Polled(n))
Gives(v, records) == returned' = [returned EXCEPT ![v] = @ \o records]

\* Consume: a record; or an error, and with it whatever the poll returned.
ConsumeOne(v) ==
  /\ kafkaBuild /\ Calls0(v) /\ CanPoll(1, 1)
  /\ Advance(1) /\ Gives(v, Polled(1))
  /\ Counted("sub", FALSE) /\ Outcome({"all"}, "sub", FALSE)
  /\ UNCHANGED <<kafkaClient, want, batch, dropped, besideError>>

ConsumeFails(v, n) ==
  /\ kafkaBuild /\ Calls0(v) /\ CanPoll(n, 1)
  /\ Advance(n) /\ Drops(n)
  /\ Counted("sub", TRUE) /\ Outcome({"all"}, "sub", TRUE)
  /\ UNCHANGED <<kafkaClient, want, batch, returned>>

\* Nothing came: the context's error or no message, and nothing is counted.
ConsumeNothing(v) ==
  /\ kafkaBuild /\ Calls0(v) /\ JustACall
  /\ UNCHANGED <<kafkaClient, consuming, kafkaMetrics>>

BeginBatch(v, size) ==
  /\ kafkaBuild /\ Calls0(v) /\ JustACall
  /\ want' = [want EXCEPT ![v] = IF size <= 0 THEN DefaultBatch ELSE size]
  /\ UNCHANGED <<kafkaClient, position, batch, returned, dropped, besideError, kafkaMetrics>>

\* Mutation: every poll asks for the whole batch again.
WholeBatch(v) == want[v]

Needed(v) == want[v] - Len(batch[v])
BatchReturns(v, records, failed) ==
  /\ want' = [want EXCEPT ![v] = 0] /\ batch' = [batch EXCEPT ![v] = <<>>]
  /\ Gives(v, records)
  /\ Counted("sub", failed) /\ Outcome({}, "sub", failed)

\* A poll for what is still needed; the batch returns when it is full.
PollBatch(v, n) ==
  LET got == batch[v] \o Polled(n)
  IN  /\ want[v] > 0 /\ n > 0 /\ CanPoll(n, Needed(v))
      /\ Advance(n)
      /\ IF Len(got) >= want[v] THEN BatchReturns(v, SubSeq(got, 1, want[v]), FALSE)
         ELSE batch' = [batch EXCEPT ![v] = got] /\ UNCHANGED <<want, returned, kafkaMetrics, kafkaCalls>>
      /\ UNCHANGED <<kafkaClient, dropped, besideError>>

\* A poll with an error ends the batch: as a failure if it is empty, otherwise
\* with what it has; the records of this poll are in neither.
PollBatchFails(v, n) ==
  /\ want[v] > 0 /\ CanPoll(n, Needed(v))
  /\ Advance(n) /\ Drops(n)
  /\ BatchReturns(v, batch[v], batch[v] = <<>>)
  /\ UNCHANGED kafkaClient

\* Nothing came and the batch's context is done (otherwise it polls again).
BatchTimesOut(v) ==
  /\ want[v] > 0
  /\ BatchReturns(v, batch[v], FALSE)
  /\ UNCHANGED <<kafkaClient, position, dropped, besideError>>

CloseKafka ==
  /\ kafkaBuild /\ ~kclosed /\ kclosed' = TRUE
  /\ UNCHANGED <<kcfg, kafkaBuild, consuming, kafkaMetrics, kafkaCalls>>

KafkaNext ==
  \/ \E v \in KafkaVUs :
       \/ DisabledCall(v)
       \/ \E msgs \in {<<"nil">>, <<"topic", "nil">>, <<"no topic">>} : PublishRefused(v, msgs)
       \/ \E failed \in BOOLEAN : Publish(v, failed)
       \/ ConsumeOne(v) \/ ConsumeNothing(v) \/ BatchTimesOut(v)
       \/ \E n \in 0..1 : ConsumeFails(v, n)
       \/ \E size \in BatchSizes : BeginBatch(v, size)
       \/ \E n \in 0..TopicLength : PollBatch(v, n) \/ PollBatchFails(v, n)
  \/ CloseKafka

KafkaSpec == KafkaInit /\ [][KafkaNext]_kafkaVars

-----------------------------------------------------------------------------
(* Properties. *)

\* Unless WithTopics takes the topics away again, a client that has a topic to
\* publish to also has one to consume, in whatever order the options set them.
TakesTopicsAway(options) ==
  \E i \in DOMAIN options : options[i].name = "WithTopics" /\ options[i].value = <<>>

KafkaTypeOK ==
  /\ kafkaBuild \in BOOLEAN /\ kclosed \in BOOLEAN
  /\ \E options \in KafkaOptions :
       /\ kcfg = KafkaConfig(options)
       /\ kcfg.topic # "" => kcfg.topics # <<>> \/ TakesTopicsAway(options)
  /\ position \in 0..TopicLength
  /\ \A v \in KafkaVUs : want[v] = 0 => batch[v] = <<>>
  /\ dropped \subseteq 1..TopicLength

Holding(v) == returned[v] \o batch[v]

\* However many virtual users share the consumer, every record that was polled
\* is with exactly one of them, each gets its records in the order of the
\* topic, and a record reaches nobody only if its poll also reported an error:
\* a batch never polls more than it returns.
PolledRecordsReachOneReader ==
  /\ \A u, v \in KafkaVUs : \A i \in DOMAIN Holding(u), j \in DOMAIN Holding(v) :
       Holding(u)[i] = Holding(v)[j] => u = v /\ i = j
  /\ \A v \in KafkaVUs : \A i, j \in DOMAIN Holding(v) : i < j => Holding(v)[i] < Holding(v)[j]
  /\ \A r \in FirstPosition(kcfg)+1..position :
       (\A v \in KafkaVUs : r \notin ToSet(Holding(v))) => r \in besideError

\* Every call that got as far as the broker is counted once, and as failed
\* exactly when its caller was told so.
KafkaCallsAreCounted ==
  \A f \in DOMAIN kafkaMetrics : kafkaMetrics[f] = kafkaCalls[f]
=============================================================================
