------------------------------ MODULE HTTPClient ------------------------------
(***************************************************************************)
(* The instrumented HTTP client (pkg/vuhive/http): how a client comes from *)
(* the declarative configuration, the process-wide cache of default        *)
(* clients, and the ways a request is counted: Do, the transport handed to *)
(* third-party code, and an instrumented transport.  A request's metrics   *)
(* are recorded by several adds, and virtual users interleave with them.   *)
(***************************************************************************)
EXTENDS Integers, FiniteSets, TLC

CONSTANTS
  HTTPCallers,    \* virtual users and the Setup hook
  SetupHook,      \* the caller that is Setup
  Declared,       \* the HTTP configurations a scenario may declare
  ClientOptions,  \* the options a client of one's own is made with
  MaxCalls        \* bound: requests of each caller

ASSUME HTTPAssumption ==
  IsFiniteSet(HTTPCallers) /\ SetupHook \in HTTPCallers /\ MaxCalls \in [HTTPCallers -> Nat]

\* defaultConfig.  Names are numbers: 0 is the empty one, 1 the default prefix.
defaultConfig ==
  [baseURL |-> 0, timeout |-> 30, maxIdleConns |-> 100, maxIdleConnsPerHost |-> 100,
   idleConnTimeout |-> 90, metricPrefix |-> 1, headers |-> {}, insecure |-> FALSE,
   detailedTiming |-> FALSE, discardBody |-> FALSE]
Positive == {"baseURL", "timeout", "maxIdleConns", "maxIdleConnsPerHost", "idleConnTimeout",
             "metricPrefix"}

\* newClientFromHTTPConfig: a declared field replaces its default, unless it is
\* empty or not positive; then the options replace whatever they name.
FromHTTPConfig(http, options) ==
  [f \in DOMAIN defaultConfig |->
     IF f \in DOMAIN options THEN options[f]
     ELSE IF f \in DOMAIN http /\ (f \in Positive => http[f] > 0) THEN http[f]
     ELSE defaultConfig[f]]

\* A request needs an absolute URL, or a base URL to resolve it against.
Reachable(cfg, url) == url = "absolute" \/ cfg.baseURL # 0

VARIABLES
  execution,       \* which execution of the process this is, and its collector
  config,          \* the scenario's declared configurations, by name
  defaultClients,  \* the process's cache of clients, by key
  hpc,             \* where each caller stands
  client,          \* the client each caller has
  call,            \* the request each caller makes
  httpMetrics,     \* the sums of each collector
  finished,        \* history: the requests whose fate is known
  calls            \* bound: requests each has made

httpVars == <<execution, config, defaultClients, hpc, client, call, httpMetrics, finished, calls>>
httpProcess == <<execution, config>>

NoClient == [cfg |-> defaultConfig, metrics |-> 0, maker |-> "none", shared |-> FALSE]
NoCall == [kind |-> "none", lost |-> FALSE, failed |-> FALSE, metrics |-> 0]
NoSums == [durations |-> 0, reqs |-> 0, failed |-> 0, total |-> 0, sse |-> 0, sseErrors |-> 0]

HTTPInit ==
  /\ execution = 1
  /\ config \in [{"http", "named"} -> Declared]
  /\ defaultClients = <<>>
  /\ hpc = [c \in HTTPCallers |-> "start"]
  /\ client = [c \in HTTPCallers |-> NoClient]
  /\ call = [c \in HTTPCallers |-> NoCall]
  /\ httpMetrics = [e \in {1, 2} |-> NoSums]
  /\ finished = [all |-> 0, failed |-> 0, sse |-> 0, sseErrors |-> 0]
  /\ calls = [c \in HTTPCallers |-> 0]

HMoves(c, from, to) == hpc[c] = from /\ hpc' = [hpc EXCEPT ![c] = to]
TakesClient(c, cl) == client' = [client EXCEPT ![c] = cl]
Fresh(cfg, c, shared) == [cfg |-> cfg, metrics |-> execution, maker |-> c, shared |-> shared]

-----------------------------------------------------------------------------
(* Getting a client. *)

\* A virtual user's context knows its scenario; Setup's is known by its
\* collector.
ClientKey(c) == IF c = SetupHook THEN <<"collector", execution>> ELSE <<"scenario", 0>>

\* Virtual users are started when Setup has returned; it keeps its client if it
\* wants to, but nobody knows it.
Begins(c) == c = SetupHook \/ hpc[SetupHook] = "returned"
HTTPSetupReturns ==
  /\ hpc[SetupHook] \in {"start", "idle"}
  /\ hpc' = [hpc EXCEPT ![SetupHook] = "returned"] /\ TakesClient(SetupHook, NoClient)
  /\ UNCHANGED <<httpProcess, defaultClients, call, httpMetrics, finished, calls>>

\* Default's look under the read lock ...
DefaultLooks(c) ==
  /\ Begins(c)
  /\ IF ClientKey(c) \in DOMAIN defaultClients
     THEN HMoves(c, "start", "idle") /\ TakesClient(c, defaultClients[ClientKey(c)])
     ELSE HMoves(c, "start", "miss") /\ UNCHANGED client
  /\ UNCHANGED <<httpProcess, defaultClients, call, httpMetrics, finished, calls>>

\* ... and the second one under the write lock, before it makes the client.
DefaultCreates(c) ==
  LET key == ClientKey(c)
      new == Fresh(FromHTTPConfig(config["http"], <<>>), c, TRUE)
      known == DOMAIN defaultClients
  IN  /\ HMoves(c, "miss", "idle")
      /\ defaultClients' = [k \in known \cup {key} |-> IF k \in known THEN defaultClients[k] ELSE new]
      /\ TakesClient(c, defaultClients'[key])
      /\ UNCHANGED <<httpProcess, call, httpMetrics, finished, calls>>

\* A client of the caller's own, with its options; or MustGet of a named one, that
\* panics for a name the configuration does not have.
NewClient(c, options) ==
  /\ Begins(c) /\ HMoves(c, "start", "idle")
  /\ TakesClient(c, Fresh(FromHTTPConfig(config["http"], options), c, FALSE))
  /\ UNCHANGED <<httpProcess, defaultClients, call, httpMetrics, finished, calls>>

MustGet(c, name) ==
  /\ Begins(c)
  /\ IF name \in DOMAIN config
     THEN /\ HMoves(c, "start", "idle")
          /\ TakesClient(c, Fresh(FromHTTPConfig(config[name], <<>>), c, FALSE))
     ELSE HMoves(c, "start", "panicked") /\ UNCHANGED client
  /\ UNCHANGED <<httpProcess, defaultClients, call, httpMetrics, finished, calls>>

-----------------------------------------------------------------------------
(* Requests. *)

Sends(c, kind, lost, metrics) ==
  /\ calls[c] < MaxCalls[c] /\ calls' = [calls EXCEPT ![c] = @ + 1]
  /\ HMoves(c, "idle", "wire")
  /\ call' = [call EXCEPT ![c] =
                [kind |-> kind, lost |-> lost, failed |-> FALSE, metrics |-> metrics]]
  /\ UNCHANGED <<httpProcess, defaultClients, client, httpMetrics, finished>>

\* Do, Get, Post, ..., and the transport handed to third-party code for what is
\* not a stream.
Do(c, url) == Sends(c, "Do", ~Reachable(client[c].cfg, url), client[c].metrics)

\* A stream through that transport goes to the wire as it is, without the base
\* URL ...
RoundTrip(c, url) == Sends(c, "SSE", url = "relative", client[c].metrics)

\* ... and any request through an instrumented transport, which counts for the
\* collector of the request's context.
InstrumentedRoundTrip(c, url) == Sends(c, "instrumented", url = "relative", execution)

\* A nil request or a malformed URL is an error that is counted nowhere, and so
\* is a request of an instrumented transport without a collector.
RequestIsNotCounted(c) ==
  hpc[c] = "idle" /\ UNCHANGED httpVars

\* No answer, an answer by its status, or one whose body breaks off.  Only Do
\* looks at the body, read or drained; a broken one makes a failed request.
Fates == {"none", "2xx or 3xx", "other", "broken"}
Answer(c, fate) ==
  LET kind == call[c].kind
      lost == call[c].lost \/ fate = "none"
      failed == IF kind = "SSE" THEN lost
                ELSE lost \/ fate = "other" \/ (fate = "broken" /\ kind = "Do")
      one == IF failed THEN 1 ELSE 0
  IN  /\ HMoves(c, "wire", IF kind = "SSE" THEN "connection" ELSE "duration")
      /\ call' = [call EXCEPT ![c].lost = FALSE, ![c].failed = failed]
      /\ finished' = IF kind = "SSE"
                     THEN [finished EXCEPT !.sse = @ + 1, !.sseErrors = @ + one]
                     ELSE [finished EXCEPT !.all = @ + 1, !.failed = @ + one]
      /\ UNCHANGED <<httpProcess, defaultClients, client, httpMetrics, calls>>

Add(c, sums) ==
  /\ httpMetrics' = [httpMetrics EXCEPT ![call[c].metrics] =
                       [f \in DOMAIN @ |-> @[f] + (IF f \in sums THEN 1 ELSE 0)]]
  /\ call' = IF hpc'[c] = "idle" THEN [call EXCEPT ![c] = NoCall] ELSE call
  /\ UNCHANGED <<httpProcess, defaultClients, client, finished, calls>>
Failure(c, f) == IF call[c].failed THEN {f} ELSE {}

\* recordMetrics, recordFailedMetrics, the instrumented transport: the latency,
\* the count, the failure rate, in this order.
ObserveDuration(c) == HMoves(c, "duration", "count") /\ Add(c, {"durations"})
CountRequest(c) == HMoves(c, "count", "rate") /\ Add(c, {"reqs"})

\* Mutation: only failures enter the rate.
RateOfFailuresOnly(c) ==
  HMoves(c, "rate", "idle") /\ Add(c, Failure(c, "total") \cup Failure(c, "failed"))

AddFailedRate(c) == HMoves(c, "rate", "idle") /\ Add(c, {"total"} \cup Failure(c, "failed"))

\* recordSSEConnect and recordSSEConnectFailed.
CountConnection(c) ==
  HMoves(c, "connection", "idle") /\ Add(c, {"sse"} \cup Failure(c, "sseErrors"))

\* The suite runs again in the same process: new contexts and another collector,
\* the same cache.
NextExecution ==
  /\ execution = 1 /\ execution' = 2
  /\ \A c \in HTTPCallers : hpc[c] \in {"idle", "returned"}
  /\ hpc[SetupHook] = "returned"
  /\ hpc' = [c \in HTTPCallers |-> "start"]
  /\ client' = [c \in HTTPCallers |-> NoClient]
  /\ UNCHANGED <<config, defaultClients, call, httpMetrics, finished, calls>>

HTTPNext ==
  \/ \E c \in HTTPCallers :
       \/ DefaultLooks(c) \/ DefaultCreates(c)
       \/ \E options \in ClientOptions : NewClient(c, options)
       \/ \E name \in {"named", "missing"} : MustGet(c, name)
       \/ \E url \in {"absolute", "relative"} :
            Do(c, url) \/ RoundTrip(c, url) \/ InstrumentedRoundTrip(c, url)
       \/ RequestIsNotCounted(c)
       \/ \E fate \in Fates : Answer(c, fate)
       \/ ObserveDuration(c) \/ CountRequest(c) \/ AddFailedRate(c) \/ CountConnection(c)
  \/ HTTPSetupReturns \/ NextExecution

HTTPSpec == HTTPInit /\ [][HTTPNext]_httpVars

-----------------------------------------------------------------------------
(* Properties. *)

\* An option is taken as it is, and by a client of the caller's own only.
SetByItsCaller(cl, f) ==
  /\ ~cl.shared
  /\ \E options \in ClientOptions : f \in DOMAIN options /\ cl.cfg[f] = options[f]

HTTPTypeOK ==
  /\ execution \in {1, 2}
  /\ \A k \in DOMAIN defaultClients : defaultClients[k].shared
  /\ hpc \in [HTTPCallers -> {"start", "miss", "idle", "wire", "duration", "count", "rate",
                              "connection", "panicked", "returned"}]
  /\ \A c \in HTTPCallers :
       /\ \A f \in Positive \ {"baseURL"} : client[c].cfg[f] > 0 \/ SetByItsCaller(client[c], f)
       /\ hpc[c] \in {"idle", "wire"} => client[c].metrics \in {1, 2}
  /\ httpMetrics \in [{1, 2} -> [DOMAIN NoSums -> Nat]]

Total(f) == httpMetrics[1][f] + httpMetrics[2][f]
Recording(places) == Cardinality({c \in HTTPCallers : hpc[c] \in places})

\* Each request whose fate is known is counted exactly once in every metric by
\* the time its call returns, and as failed exactly when it failed, whatever the
\* other virtual users record meanwhile and whichever way it was sent: a body
\* that breaks off does not count twice, a transport does not count what Do has.
RequestsAreCountedOnce ==
  /\ Total("durations") + Recording({"duration"}) = finished.all
  /\ Total("reqs") + Recording({"duration", "count"}) = finished.all
  /\ Total("total") + Recording({"duration", "count", "rate"}) = finished.all
  /\ Total("failed") + Cardinality({c \in HTTPCallers : /\ hpc[c] \in {"duration", "count", "rate"}
                                                        /\ call[c].failed}) = finished.failed
  /\ Total("sse") + Recording({"connection"}) = finished.sse
  /\ Total("sseErrors") + Cardinality({c \in HTTPCallers : hpc[c] = "connection" /\ call[c].failed})
       = finished.sseErrors

\* However the virtual users race, all callers of Default that are known by one
\* key work with one client, the cached one.
DefaultClientIsShared ==
  \A c \in HTTPCallers :
    client[c].shared => client[c] = defaultClients[ClientKey(c)]
=============================================================================
