------------------------------ MODULE MCLibrary ------------------------------
(***************************************************************************)
(* The services around the engines, for TLC.  They share no state, so that *)
(* a behaviour runs one of them, which part says, while the others stay at *)
(* rest: the run is as large as the sum of them and not as their product.  *)
(***************************************************************************)
EXTENDS MCSuite, MetricStore, MetricSnapshot, DataSet, Watchdog, SSEStream, HTTPClient,
        ScenarioContext, MCHookServices, KafkaClient, NATSClient, ConversationFlow

CONSTANTS vu1, vu2   \* virtual users

MCMaxBegins == vu1 :> 2 @@ vu2 :> 0      \* iterations, watchdog
MCAttempts  == {<<1, 1>>, <<-1, 1>>, <<1, 0>>}
MCMaxObserved == vu1 :> 2 @@ vu2 :> 1    \* observations under a reader
MCMaxHooks  == vu1 :> 2 @@ vu2 :> 1      \* hooks that open groups
MCMaxCalls  == vu1 :> 1 @@ vu2 :> 1 @@ "setup" :> 0   \* HTTP requests
MCClientOptions == {"baseURL" :> 2 @@ "timeout" :> 0}
MCDeclared  == {[baseURL |-> 2, timeout |-> 0, metricPrefix |-> 3]}
MCKafkaOptions ==
  { <<>>,
    <<[name |-> "WithTopics", value |-> <<"t">>], [name |-> "WithStartOffset", value |-> -2]>>,
    <<[name |-> "WithTopic", value |-> "t"], [name |-> "WithAcks", value |-> 0]>>,
    <<[name |-> "WithTopic", value |-> "t"], [name |-> "WithTopics", value |-> <<>>]>> }
MCNATSOptions ==
  { <<>>, <<[name |-> "WithServers", value |-> <<"a", "b">>]>>,
    <<[name |-> "WithURL", value |-> ""], [name |-> "WithTimeout", value |-> 0]>> }

VARIABLE part

libraryVars == <<part, suiteVars, storeVars, snapVars, dataVars, watchVars, sseVars, httpVars,
                 contextVars, serviceVars, kafkaVars, natsVars, convVars>>

-----------------------------------------------------------------------------
(* At rest: a state from which nothing happens by itself. *)

SuiteRests    == file = Base /\ flags = Flags0 /\ SuiteInit
StoreRests    == using = [r \in Recorders |-> [name |-> "m", kind |-> "counter"]] /\ StoreInit
SnapRests     == snapKind = "rate" /\ SnapInit
DataRests     == strategy = "Sequential" /\ size = 0 /\ DataInit
StreamRests   == body = <<>> /\ ending = "eof" /\ StreamInit
HTTPRests     == HTTPInit
ContextRests  == ContextInit
ServicesRest  == ServicesInit
KafkaRests    == kafkaBuild = FALSE /\ kcfg = kafkaDefaults /\ KafkaInit
NATSRests     == natsBuild = FALSE /\ ncfg = natsDefaults /\ NATSInit
TalkRests     == ConversationInit
\* The watchdog's clock and ticker never stop by themselves.
WatchRests ==
  /\ wcfg = [stall |-> 0, timeout |-> 0] /\ clock = MaxNow /\ ticked = FALSE
  /\ trackers = <<>> /\ tpc = [w \in Watched |-> "new"]
  /\ startNano = [w \in Watched |-> 0] /\ begun = [w \in Watched |-> 0] /\ counted = begun
  /\ active = [w \in Watched |-> FALSE] /\ stalled = active /\ hung = {}
  /\ wdpc = "stopped" /\ threshold = 0 /\ checkedAt = 0 /\ scan = <<>>

\* The documents vary under the plain command line, and the other way round.
SuiteStarts == SuiteInit /\ (flags = Flags0 \/ file \in {Base, Doc(StrictDoc)})

LibraryInit ==
  /\ part \in {"suite", "store", "snapshot", "data", "watchdog", "stream", "http", "context",
               "services", "kafka", "nats", "conversation"}
  /\ IF part = "suite"    THEN SuiteStarts  ELSE SuiteRests
  /\ IF part = "store"    THEN StoreInit    ELSE StoreRests
  /\ IF part = "snapshot" THEN SnapInit     ELSE SnapRests
  /\ IF part = "data"     THEN DataInit     ELSE DataRests
  /\ IF part = "watchdog" THEN WatchInit    ELSE WatchRests
  /\ IF part = "stream"   THEN StreamInit   ELSE StreamRests
  /\ IF part = "http"     THEN HTTPInit     ELSE HTTPRests
  /\ IF part = "context"  THEN ContextInit  ELSE ContextRests
  /\ IF part = "services" THEN ServicesInit ELSE ServicesRest
  /\ IF part = "kafka"    THEN KafkaInit    ELSE KafkaRests
  /\ IF part = "nats"     THEN NATSInit     ELSE NATSRests
  /\ IF part = "conversation" THEN ConversationInit ELSE TalkRests

-----------------------------------------------------------------------------
(* A step is one of the running part, alone; the actions are listed one by one. *)

Runs(p) == part = p

SuiteAlone ==
  UNCHANGED <<part, storeVars, snapVars, dataVars, watchVars, sseVars, httpVars,
              contextVars, serviceVars, kafkaVars, natsVars, convVars>>
StoreAlone ==
  UNCHANGED <<part, suiteVars, snapVars, dataVars, watchVars, sseVars, httpVars,
              contextVars, serviceVars, kafkaVars, natsVars, convVars>>
SnapAlone ==
  UNCHANGED <<part, suiteVars, storeVars, dataVars, watchVars, sseVars, httpVars,
              contextVars, serviceVars, kafkaVars, natsVars, convVars>>
DataAlone ==
  UNCHANGED <<part, suiteVars, storeVars, snapVars, watchVars, sseVars, httpVars,
              contextVars, serviceVars, kafkaVars, natsVars, convVars>>
WatchAlone ==
  UNCHANGED <<part, suiteVars, storeVars, snapVars, dataVars, sseVars, httpVars,
              contextVars, serviceVars, kafkaVars, natsVars, convVars>>
StreamAlone ==
  UNCHANGED <<part, suiteVars, storeVars, snapVars, dataVars, watchVars, httpVars,
              contextVars, serviceVars, kafkaVars, natsVars, convVars>>
HTTPAlone ==
  UNCHANGED <<part, suiteVars, storeVars, snapVars, dataVars, watchVars, sseVars,
              contextVars, serviceVars, kafkaVars, natsVars, convVars>>
ContextAlone ==
  UNCHANGED <<part, suiteVars, storeVars, snapVars, dataVars, watchVars, sseVars,
              httpVars, serviceVars, kafkaVars, natsVars, convVars>>
ServicesAlone ==
  UNCHANGED <<part, suiteVars, storeVars, snapVars, dataVars, watchVars, sseVars,
              httpVars, contextVars, kafkaVars, natsVars, convVars>>
KafkaAlone ==
  UNCHANGED <<part, suiteVars, storeVars, snapVars, dataVars, watchVars, sseVars,
              httpVars, contextVars, serviceVars, natsVars, convVars>>
NATSAlone ==
  UNCHANGED <<part, suiteVars, storeVars, snapVars, dataVars, watchVars, sseVars,
              httpVars, contextVars, serviceVars, kafkaVars, convVars>>
TalkAlone ==
  UNCHANGED <<part, suiteVars, storeVars, snapVars, dataVars, watchVars, sseVars,
              httpVars, contextVars, serviceVars, kafkaVars, natsVars>>

LibraryNext ==
  \/ Runs("suite") /\ RegisterScenarios /\ SuiteAlone
  \/ Runs("suite") /\ RegisterScenarioLate /\ SuiteAlone
  \/ Runs("suite") /\ ExecuteWithArgs /\ SuiteAlone
  \/ Runs("suite") /\ ShowVersion /\ SuiteAlone
  \/ Runs("suite") /\ ResolveFails /\ SuiteAlone
  \/ Runs("suite") /\ Resolve /\ SuiteAlone
  \/ Runs("suite") /\ EngineMetricCollides /\ SuiteAlone
  \/ Runs("suite") /\ Execute /\ SuiteAlone
  \/ Runs("suite") /\ EvaluateStrictDiagnostics /\ SuiteAlone
  \/ Runs("suite") /\ EvaluateSLA /\ SuiteAlone
  \/ Runs("suite") /\ ReportExecution /\ SuiteAlone
  \/ Runs("suite") /\ HandleSummary /\ SuiteAlone
  \/ Runs("suite") /\ ReturnResult /\ SuiteAlone
  \/ \E r \in Recorders :
       \/ Runs("store") /\ Look(r) /\ StoreAlone
       \/ Runs("store") /\ LookAgain(r) /\ StoreAlone
       \/ Runs("store") /\ MustRegister(r) /\ StoreAlone
       \/ Runs("store") /\ RegisterLocked(r) /\ StoreAlone
       \/ Runs("store") /\ Create(r) /\ StoreAlone
       \/ Runs("store") /\ AddFirst(r) /\ StoreAlone
       \/ Runs("store") /\ AddDenominator(r) /\ StoreAlone
  \/ \E o \in Observers :
       \/ \E h \in Variants, d \in Samples : Runs("snapshot") /\ Observe(o, h, d) /\ SnapAlone
       \/ \E h \in Variants, a \in Attempts : Runs("snapshot") /\ AddNumerator(o, h, a) /\ SnapAlone
       \/ Runs("snapshot") /\ LockShard(o) /\ SnapAlone
       \/ Runs("snapshot") /\ RecordValue(o) /\ SnapAlone
       \/ Runs("snapshot") /\ AddRateDenominator(o) /\ SnapAlone
  \/ Runs("snapshot") /\ BeginRead /\ SnapAlone
  \/ Runs("snapshot") /\ MergeLocked /\ SnapAlone
  \/ Runs("snapshot") /\ CollectShard /\ SnapAlone
  \/ Runs("snapshot") /\ MergeBegins /\ SnapAlone
  \/ Runs("snapshot") /\ MergeEnds /\ SnapAlone
  \/ Runs("snapshot") /\ MergeIsOver /\ SnapAlone
  \/ Runs("snapshot") /\ LoadNumerator /\ SnapAlone
  \/ Runs("snapshot") /\ LoadDenominator /\ SnapAlone
  \/ \E r \in Readers :
       \/ Runs("data") /\ NextOfEmpty(r) /\ DataAlone
       \/ Runs("data") /\ NextByPosition(r) /\ DataAlone
       \/ Runs("data") /\ NextAtRandom(r) /\ DataAlone
       \/ Runs("data") /\ NextFromQueue(r) /\ DataAlone
  \/ \E w \in Watched :
       \/ Runs("watchdog") /\ RegisterVU(w) /\ WatchAlone
       \/ Runs("watchdog") /\ BeginStart(w) /\ WatchAlone
       \/ Runs("watchdog") /\ BeginStalled(w) /\ WatchAlone
       \/ Runs("watchdog") /\ BeginActive(w) /\ WatchAlone
       \/ Runs("watchdog") /\ End(w) /\ WatchAlone
       \/ Runs("watchdog") /\ UnregisterActive(w) /\ WatchAlone
       \/ Runs("watchdog") /\ UnregisterVU(w) /\ WatchAlone
  \/ Runs("watchdog") /\ ClockAdvances /\ WatchAlone
  \/ Runs("watchdog") /\ TickerFires /\ WatchAlone
  \/ Runs("watchdog") /\ CheckStalledIterations /\ WatchAlone
  \/ Runs("watchdog") /\ ReadClock /\ WatchAlone
  \/ Runs("watchdog") /\ LockAndScan /\ WatchAlone
  \/ Runs("watchdog") /\ LoadActive /\ WatchAlone
  \/ Runs("watchdog") /\ LoadStart /\ WatchAlone
  \/ Runs("watchdog") /\ SwapStalled /\ WatchAlone
  \/ Runs("watchdog") /\ CountStalled /\ WatchAlone
  \/ Runs("watchdog") /\ StopWatchdog /\ WatchAlone
  \/ Runs("stream") /\ ParentEnds /\ StreamAlone
  \/ Runs("stream") /\ DoStream /\ StreamAlone
  \/ Runs("stream") /\ ConnectFails /\ StreamAlone
  \/ Runs("stream") /\ BadStatus /\ StreamAlone
  \/ Runs("stream") /\ Connected /\ StreamAlone
  \/ Runs("stream") /\ MonitorSeesParent /\ StreamAlone
  \/ Runs("stream") /\ MonitorSeesStream /\ StreamAlone
  \/ Runs("stream") /\ CallNext /\ StreamAlone
  \/ Runs("stream") /\ PumpCallsNext /\ StreamAlone
  \/ Runs("stream") /\ CheckContext /\ StreamAlone
  \/ Runs("stream") /\ ReadLine /\ StreamAlone
  \/ Runs("stream") /\ ReadEOF /\ StreamAlone
  \/ Runs("stream") /\ ReadFails /\ StreamAlone
  \/ Runs("stream") /\ Events /\ StreamAlone
  \/ Runs("stream") /\ Send /\ StreamAlone
  \/ Runs("stream") /\ SendGivesUp /\ StreamAlone
  \/ Runs("stream") /\ Receive /\ StreamAlone
  \/ Runs("stream") /\ CloseCancels /\ StreamAlone
  \/ Runs("stream") /\ CloseBody /\ StreamAlone
  \/ \E c \in HTTPCallers :
       \/ Runs("http") /\ DefaultLooks(c) /\ HTTPAlone
       \/ Runs("http") /\ DefaultCreates(c) /\ HTTPAlone
       \/ \E options \in ClientOptions : Runs("http") /\ NewClient(c, options) /\ HTTPAlone
       \/ \E name \in {"named", "missing"} : Runs("http") /\ MustGet(c, name) /\ HTTPAlone
       \/ \E url \in {"absolute", "relative"} : Runs("http") /\ Do(c, url) /\ HTTPAlone
       \/ \E url \in {"absolute", "relative"} : Runs("http") /\ RoundTrip(c, url) /\ HTTPAlone
       \/ \E url \in {"absolute", "relative"} : Runs("http") /\ InstrumentedRoundTrip(c, url) /\ HTTPAlone
       \/ Runs("http") /\ RequestIsNotCounted(c) /\ HTTPAlone
       \/ \E fate \in Fates : Runs("http") /\ Answer(c, fate) /\ HTTPAlone
       \/ Runs("http") /\ ObserveDuration(c) /\ HTTPAlone
       \/ Runs("http") /\ CountRequest(c) /\ HTTPAlone
       \/ Runs("http") /\ AddFailedRate(c) /\ HTTPAlone
       \/ Runs("http") /\ CountConnection(c) /\ HTTPAlone
  \/ Runs("http") /\ HTTPSetupReturns /\ HTTPAlone
  \/ Runs("http") /\ NextExecution /\ HTTPAlone
  \/ \E w \in ContextVUs :
       \/ \E h \in Hooks0 : Runs("context") /\ BeginHook(w, h) /\ ContextAlone
       \/ Runs("context") /\ EndHook(w) /\ ContextAlone
       \/ Runs("context") /\ HookPanics(w) /\ ContextAlone
       \/ \E name \in GroupNames : Runs("context") /\ EnterGroup(w, name) /\ ContextAlone
       \/ Runs("context") /\ LeaveGroup(w) /\ ContextAlone
  \/ Runs("services") /\ SetupReturns /\ ServicesAlone
  \/ Runs("services") /\ Finish /\ ServicesAlone
  \/ Runs("services") /\ ContextEnds /\ ServicesAlone
  \/ \E key \in Keys0 : Runs("services") /\ SetupParam(key) /\ ServicesAlone
  \/ \E key \in Keys0 \cup {"undeclared"}, as \in {"text", "int", "duration"} : Runs("services") /\ Param(key, as) /\ ServicesAlone
  \/ \E w \in ServedVUs, name \in CheckNames, passed \in BOOLEAN : Runs("services") /\ RecordCheck(w, name, passed) /\ ServicesAlone
  \/ \E positive \in BOOLEAN : Runs("services") /\ Sleep(positive) /\ ServicesAlone
  \/ \E w \in KafkaVUs :
       \/ Runs("kafka") /\ DisabledCall(w) /\ KafkaAlone
       \/ \E msgs \in {<<"nil">>, <<"topic", "nil">>, <<"no topic">>} : Runs("kafka") /\ PublishRefused(w, msgs) /\ KafkaAlone
       \/ \E failed \in BOOLEAN : Runs("kafka") /\ Publish(w, failed) /\ KafkaAlone
       \/ Runs("kafka") /\ ConsumeOne(w) /\ KafkaAlone
       \/ \E n \in 0..1 : Runs("kafka") /\ ConsumeFails(w, n) /\ KafkaAlone
       \/ Runs("kafka") /\ ConsumeNothing(w) /\ KafkaAlone
       \/ \E size0 \in BatchSizes : Runs("kafka") /\ BeginBatch(w, size0) /\ KafkaAlone
       \/ \E n \in 0..TopicLength : Runs("kafka") /\ PollBatch(w, n) /\ KafkaAlone
       \/ \E n \in 0..TopicLength : Runs("kafka") /\ PollBatchFails(w, n) /\ KafkaAlone
       \/ Runs("kafka") /\ BatchTimesOut(w) /\ KafkaAlone
  \/ Runs("kafka") /\ CloseKafka /\ KafkaAlone
  \/ \E w \in NATSVUs :
       \/ Runs("nats") /\ NATSRefuses(w) /\ NATSAlone
       \/ \E failed \in BOOLEAN : Runs("nats") /\ PublishNATS(w, failed) /\ NATSAlone
       \/ \E failed \in BOOLEAN : Runs("nats") /\ PublishJetStream(w, failed) /\ NATSAlone
       \/ \E timeout \in {0, 1} : Runs("nats") /\ RequestReplied(w, timeout) /\ NATSAlone
       \/ \E timeout \in {0, 1}, err \in NATSErrors : Runs("nats") /\ RequestFails(w, timeout, err) /\ NATSAlone
       \/ Runs("nats") /\ Subscribe(w) /\ NATSAlone
       \/ Runs("nats") /\ Deliver(w) /\ NATSAlone
       \/ Runs("nats") /\ NextMsgReturns(w) /\ NATSAlone
       \/ \E err \in NATSErrors : Runs("nats") /\ NextMsgFails(w, err) /\ NATSAlone
       \/ Runs("nats") /\ Unsubscribe(w) /\ NATSAlone
  \/ Runs("nats") /\ Connect /\ NATSAlone
  \/ Runs("nats") /\ CloseNATS /\ NATSAlone
  \/ Runs("conversation") /\ IterationEnds /\ TalkAlone
  \/ Runs("conversation") /\ RunConversation /\ TalkAlone
  \/ Runs("conversation") /\ OpenFails /\ TalkAlone
  \/ Runs("conversation") /\ StreamOpens /\ TalkAlone
  \/ Runs("conversation") /\ FirstEvent /\ TalkAlone
  \/ Runs("conversation") /\ NoFirstEvent /\ TalkAlone
  \/ Runs("conversation") /\ SendNextMessage /\ TalkAlone
  \/ \E ok \in BOOLEAN : Runs("conversation") /\ MessageAnswered(ok) /\ TalkAlone
  \/ Runs("conversation") /\ MessageUnanswered /\ TalkAlone
  \/ Runs("conversation") /\ TakeEvent /\ TalkAlone
  \/ Runs("conversation") /\ LoopFails /\ TalkAlone
  \/ Runs("conversation") /\ ThinkingTime /\ TalkAlone
  \/ \E ok \in BOOLEAN : Runs("conversation") /\ CloseConversation(ok) /\ TalkAlone
  \/ \E e \in ServerEvents : Runs("conversation") /\ Scan(e) /\ TalkAlone
  \/ Runs("conversation") /\ Push /\ TalkAlone
  \/ Runs("conversation") /\ Report /\ TalkAlone
  \/ \E failed \in BOOLEAN : Runs("conversation") /\ ScanEnds(failed) /\ TalkAlone

LibraryFairness == WatchFairness /\ StreamFairness /\ ConversationFairness

LibrarySpec == LibraryInit /\ [][LibraryNext]_libraryVars /\ LibraryFairness

-----------------------------------------------------------------------------
(* Properties of several parts. *)

\* Each part keeps its types; those at rest do not move.
LibraryTypeOK ==
  CASE part = "suite"    -> SuiteTypeOK    [] part = "store"    -> StoreTypeOK
    [] part = "snapshot" -> SnapTypeOK     [] part = "data"     -> DataTypeOK
    [] part = "watchdog" -> WatchTypeOK    [] part = "stream"   -> StreamTypeOK
    [] part = "http"     -> HTTPTypeOK     [] part = "context"  -> ContextTypeOK
    [] part = "services" -> ServicesTypeOK [] part = "kafka"    -> KafkaTypeOK
    [] part = "nats"     -> NATSTypeOK     [] part = "conversation" -> ConversationTypeOK

\* Every client counts a call once and as its caller saw it end, whoever else
\* uses the client meanwhile: HTTP requests (with one default client for all who
\* race to make it), event streams, Kafka and NATS calls, the conversations of
\* the example; and the watchdog counts a stalled iteration once.
CallsAreCountedOnce ==
  /\ RequestsAreCountedOnce /\ DefaultClientIsShared
  /\ StreamCountsWhatHappened /\ KafkaCallsAreCounted /\ NATSCallsAreCounted
  /\ ConversationIsCounted /\ StalledAtMostOncePerIteration

\* No stream outlives its owner: neither those of the HTTP client, with their
\* monitor and pump, nor those of the example, with their reader.
StreamsAreReleased == StreamLeavesNothing /\ ConversationEnds
=============================================================================
