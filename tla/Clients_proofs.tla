----------------------------- MODULE Clients_proofs -----------------------------
(***************************************************************************)
(* What the clients count is what their callers saw happen: HTTP requests  *)
(* and the client that Default shares, event streams, Kafka and NATS       *)
(* calls, the conversations of the example; and a record polled from Kafka *)
(* reaches one reader.  For any number of virtual users, requests, lines,  *)
(* records and turns.                                                      *)
(***************************************************************************)
EXTENDS HTTPClient, SSEStream, KafkaClient, NATSClient, ConversationFlow,
        SequenceTheorems, FiniteSetTheorems, WellFoundedInduction, TLAPS

-----------------------------------------------------------------------------
(* HTTP requests: what was added and what is still owed make what has      *)
(* ended.                                                                  *)

\* The sums of a collector, the fates of a request, and where a caller stands
\* while it records nothing, or something.
HTTPSums == {"durations", "reqs", "failed", "total", "sse", "sseErrors"}
HTTPFates == {"all", "failed", "sse", "sseErrors"}
CallFields == {"kind", "lost", "failed", "metrics"}
Quiet == {"start", "miss", "idle", "wire", "panicked", "returned"}
OwesSums == {"duration", "count", "rate", "connection"}

\* Where the callers stand, and that each has a collector to record to.
HTTPTypes ==
  /\ execution \in {1, 2}
  /\ hpc \in [HTTPCallers -> Quiet \cup OwesSums]
  /\ DOMAIN call = HTTPCallers /\ DOMAIN client = HTTPCallers
  /\ \A c \in HTTPCallers : DOMAIN call[c] = CallFields
  /\ \A c \in HTTPCallers : hpc[c] \in OwesSums \cup {"wire"} => call[c].metrics \in {1, 2}
  /\ \A c \in HTTPCallers : hpc[c] \in OwesSums \cup {"wire", "idle"} => client[c].metrics \in {1, 2}
  /\ \A k \in DOMAIN defaultClients : defaultClients[k].metrics \in {1, 2}

\* Nobody has a client or a request at the start.
LEMMA HTTPTypesInitially == HTTPInit => HTTPTypes
BY DEF HTTPInit, HTTPTypes, Quiet, OwesSums, NoCall, CallFields

\* Steps of one caller.
LEMMA CallerMoves ==
  ASSUME HTTPTypes, NEW c \in HTTPCallers, NEW from, NEW to \in Quiet \cup OwesSums, HMoves(c, from, to),
         UNCHANGED execution,
         DOMAIN call' = HTTPCallers, DOMAIN call'[c] = CallFields,
         DOMAIN client' = HTTPCallers,
         \A d \in HTTPCallers \ {c} : call'[d] = call[d] /\ client'[d] = client[d],
         to \in OwesSums \cup {"wire"} => call'[c].metrics \in {1, 2},
         to \in OwesSums \cup {"wire", "idle"} => client'[c].metrics \in {1, 2},
         \A k \in DOMAIN defaultClients' : defaultClients'[k].metrics \in {1, 2}
  PROVE  HTTPTypes'
<1>1. /\ hpc' \in [HTTPCallers -> Quiet \cup OwesSums] /\ hpc'[c] = to
      /\ \A d \in HTTPCallers \ {c} : hpc'[d] = hpc[d]
  BY DEF HTTPTypes, HMoves
<1>2. execution' \in {1, 2} BY DEF HTTPTypes
<1>3. \A d \in HTTPCallers : DOMAIN call'[d] = CallFields BY DEF HTTPTypes
<1>4. \A d \in HTTPCallers : hpc'[d] \in OwesSums \cup {"wire"} => call'[d].metrics \in {1, 2}
  BY <1>1 DEF HTTPTypes
<1>5. \A d \in HTTPCallers : hpc'[d] \in OwesSums \cup {"wire", "idle"} => client'[d].metrics \in {1, 2}
  BY <1>1 DEF HTTPTypes
<1> QED BY <1>1, <1>2, <1>3, <1>4, <1>5 DEF HTTPTypes

\* A caller sends with a client that has a collector, and records to the
\* collector it sent with.
LEMMA HTTPTypesInductive == HTTPTypes /\ [HTTPNext]_httpVars => HTTPTypes'
<1> SUFFICES ASSUME HTTPTypes, [HTTPNext]_httpVars PROVE HTTPTypes'
  OBVIOUS
<1>0. /\ execution \in {1, 2} /\ DOMAIN call = HTTPCallers /\ DOMAIN client = HTTPCallers
      /\ \A d \in HTTPCallers : DOMAIN call[d] = CallFields
      /\ \A k \in DOMAIN defaultClients : defaultClients[k].metrics \in {1, 2}
  BY DEF HTTPTypes
<1>1. ASSUME NEW c \in HTTPCallers, NEW cl, cl.metrics \in {1, 2}, TakesClient(c, cl)
      PROVE  DOMAIN client' = HTTPCallers /\ client'[c] = cl /\ \A d \in HTTPCallers \ {c} : client'[d] = client[d]
  BY <1>0, <1>1 DEF TakesClient
<1>2. ASSUME NEW c \in HTTPCallers, DefaultLooks(c) PROVE HTTPTypes'
  <2>1. CASE HMoves(c, "start", "idle") /\ TakesClient(c, defaultClients[ClientKey(c)]) /\ ClientKey(c) \in DOMAIN defaultClients
    <3>1. defaultClients[ClientKey(c)].metrics \in {1, 2} BY <1>0, <2>1
    <3>2. UNCHANGED <<execution, call, defaultClients>> BY <1>2 DEF DefaultLooks, httpProcess
    <3> QED BY <1>0, <1>1, <2>1, <3>1, <3>2, CallerMoves DEF Quiet, OwesSums
  <2>2. CASE HMoves(c, "start", "miss") /\ UNCHANGED client
    <3>2. UNCHANGED <<execution, call, defaultClients>> BY <1>2 DEF DefaultLooks, httpProcess
    <3> QED BY <1>0, <2>2, <3>2, CallerMoves DEF Quiet, OwesSums
  <2> QED BY <1>2, <2>1, <2>2 DEF DefaultLooks
<1>3. ASSUME NEW c \in HTTPCallers, DefaultCreates(c) PROVE HTTPTypes'
  <2>1. \A cfg : Fresh(cfg, c, TRUE).metrics \in {1, 2} BY <1>0 DEF Fresh
  <2>2. \A k \in DOMAIN defaultClients' : defaultClients'[k].metrics \in {1, 2}
    BY <1>0, <1>3, <2>1 DEF DefaultCreates
  <2>3. ClientKey(c) \in DOMAIN defaultClients' BY <1>3 DEF DefaultCreates
  <2>4. /\ HMoves(c, "miss", "idle") /\ TakesClient(c, defaultClients'[ClientKey(c)]) /\ UNCHANGED <<execution, call>>
    BY <1>3 DEF DefaultCreates, httpProcess
  <2> QED BY <1>0, <1>1, <2>2, <2>3, <2>4, CallerMoves DEF Quiet, OwesSums
<1>4. ASSUME NEW c \in HTTPCallers, (\E options \in ClientOptions : NewClient(c, options)) \/ \E name \in {"named", "missing"} : MustGet(c, name)
      PROVE  HTTPTypes'
  <2>1. \A cfg : Fresh(cfg, c, FALSE).metrics \in {1, 2} BY <1>0 DEF Fresh
  <2>2. UNCHANGED <<execution, call, defaultClients>> BY <1>4 DEF NewClient, MustGet, httpProcess
  <2>3. \/ HMoves(c, "start", "idle") /\ \E cfg : TakesClient(c, Fresh(cfg, c, FALSE))
        \/ HMoves(c, "start", "panicked") /\ UNCHANGED client
    BY <1>4 DEF NewClient, MustGet
  <2>4. CASE HMoves(c, "start", "idle") /\ \E cfg : TakesClient(c, Fresh(cfg, c, FALSE))
    <3>1. PICK cfg : TakesClient(c, Fresh(cfg, c, FALSE)) BY <2>4
    <3>2. Fresh(cfg, c, FALSE).metrics \in {1, 2} BY <2>1
    <3> DEFINE cl == Fresh(cfg, c, FALSE)
    <3>3. cl.metrics \in {1, 2} /\ TakesClient(c, cl) BY <3>1, <3>2
    <3> HIDE DEF cl
    <3>4. DOMAIN client' = HTTPCallers /\ client'[c] = cl /\ \A d \in HTTPCallers \ {c} : client'[d] = client[d]
      BY <1>1, <3>3
    <3>5. HMoves(c, "start", "idle") BY <2>4
    <3>6. client'[c].metrics \in {1, 2} BY <3>3, <3>4
    <3>7. /\ DOMAIN call' = HTTPCallers /\ DOMAIN call'[c] = CallFields
          /\ \A d \in HTTPCallers \ {c} : call'[d] = call[d] /\ client'[d] = client[d]
          /\ \A k \in DOMAIN defaultClients' : defaultClients'[k].metrics \in {1, 2}
      BY <1>0, <2>2, <3>4
    <3> QED BY <2>2, <3>4, <3>5, <3>6, <3>7, CallerMoves DEF Quiet, OwesSums
  <2>5. CASE HMoves(c, "start", "panicked") /\ UNCHANGED client
    BY <1>0, <2>2, <2>5, CallerMoves DEF Quiet, OwesSums
  <2> QED BY <2>3, <2>4, <2>5
<1>5. ASSUME NEW c \in HTTPCallers, NEW kind, NEW lost, NEW metrics, hpc[c] = "idle" => metrics \in {1, 2}, Sends(c, kind, lost, metrics)
      PROVE  HTTPTypes'
  <2>1. /\ UNCHANGED <<execution, client, defaultClients>> /\ HMoves(c, "idle", "wire")
        /\ call' = [call EXCEPT ![c] = [kind |-> kind, lost |-> lost, failed |-> FALSE, metrics |-> metrics]]
    BY <1>5 DEF Sends, httpProcess
  <2>2. client[c].metrics \in {1, 2} BY <2>1 DEF HTTPTypes, HMoves
  <2>3. /\ DOMAIN call' = HTTPCallers /\ DOMAIN call'[c] = CallFields /\ call'[c].metrics = metrics
        /\ \A d \in HTTPCallers \ {c} : call'[d] = call[d]
    BY <1>0, <2>1 DEF CallFields
  <2>4. metrics \in {1, 2} BY <1>5, <2>1 DEF HMoves
  <2> QED BY <1>0, <2>1, <2>2, <2>3, <2>4, CallerMoves DEF Quiet, OwesSums
<1>6. ASSUME NEW c \in HTTPCallers, NEW url, Do(c, url) \/ RoundTrip(c, url) \/ InstrumentedRoundTrip(c, url)
      PROVE  HTTPTypes'
  <2>1. hpc[c] = "idle" => client[c].metrics \in {1, 2} BY DEF HTTPTypes
  <2> QED BY <1>0, <1>5, <1>6, <2>1 DEF Do, RoundTrip, InstrumentedRoundTrip
<1>7. ASSUME NEW c \in HTTPCallers, NEW fate, Answer(c, fate) PROVE HTTPTypes'
  <2>1. PICK to \in {"connection", "duration"} : HMoves(c, "wire", to) BY <1>7 DEF Answer
  <2>2. PICK failed : call' = [call EXCEPT ![c].lost = FALSE, ![c].failed = failed] BY <1>7 DEF Answer
  <2>3. UNCHANGED <<execution, client, defaultClients>> BY <1>7 DEF Answer, httpProcess
  <2>4. call[c].metrics \in {1, 2} /\ client[c].metrics \in {1, 2} BY <2>1 DEF HTTPTypes, HMoves
  <2>5. /\ DOMAIN call' = HTTPCallers /\ DOMAIN call'[c] = CallFields /\ call'[c].metrics = call[c].metrics
        /\ \A d \in HTTPCallers \ {c} : call'[d] = call[d]
    BY <1>0, <2>2 DEF CallFields
  <2> QED BY <1>0, <2>1, <2>3, <2>4, <2>5, CallerMoves DEF Quiet, OwesSums
<1>8. ASSUME NEW c \in HTTPCallers, NEW from \in OwesSums, NEW to \in OwesSums \cup {"idle"}, HMoves(c, from, to),
             NEW sums, Add(c, sums)
      PROVE  HTTPTypes'
  <2>1. UNCHANGED <<execution, client, defaultClients>> /\ (call' = call \/ (hpc'[c] = "idle" /\ call' = [call EXCEPT ![c] = NoCall]))
    BY <1>8 DEF Add, httpProcess
  <2>2. call[c].metrics \in {1, 2} /\ client[c].metrics \in {1, 2} BY <1>8 DEF HTTPTypes, HMoves
  <2>3. hpc'[c] = to BY <1>8 DEF HMoves, HTTPTypes
  <2>4. DOMAIN NoCall = CallFields BY DEF NoCall, CallFields
  <2>5. /\ DOMAIN call' = HTTPCallers /\ DOMAIN call'[c] = CallFields
        /\ to # "idle" => call'[c].metrics \in {1, 2}
        /\ \A d \in HTTPCallers \ {c} : call'[d] = call[d]
    BY <1>0, <2>1, <2>2, <2>3, <2>4
  <2> QED BY <1>0, <1>8, <2>1, <2>2, <2>5, CallerMoves DEF Quiet, OwesSums
<1>9. ASSUME NEW c \in HTTPCallers, ObserveDuration(c) \/ CountRequest(c) \/ AddFailedRate(c) \/ CountConnection(c)
      PROVE  HTTPTypes'
  BY <1>8, <1>9 DEF ObserveDuration, CountRequest, AddFailedRate, CountConnection, OwesSums
<1>10. CASE HTTPSetupReturns \/ NextExecution
  <2>1. CASE HTTPSetupReturns
    BY <2>1, HTTPAssumption DEF HTTPAssumption, HTTPSetupReturns, TakesClient, httpProcess, HTTPTypes, Quiet, OwesSums
  <2>2. CASE NextExecution
    BY <2>2 DEF NextExecution, HTTPTypes, Quiet, OwesSums
  <2> QED BY <1>10, <2>1, <2>2
<1>11. CASE UNCHANGED httpVars
  BY <1>11 DEF httpVars, HTTPTypes
<1> QED BY <1>2, <1>3, <1>4, <1>6, <1>7, <1>9, <1>10, <1>11 DEF HTTPNext, RequestIsNotCounted

\* Counting: what has been added and what is still owed make what has ended.

OwedPlaces ==
  [durations |-> {"duration"}, reqs |-> {"duration", "count"}, total |-> {"duration", "count", "rate"},
   failed |-> {"duration", "count", "rate"}, sse |-> {"connection"}, sseErrors |-> {"connection"}]
OfFailures == {"failed", "sseErrors"}
FateOf == [durations |-> "all", reqs |-> "all", total |-> "all",
           failed |-> "failed", sse |-> "sse", sseErrors |-> "sseErrors"]

\* The callers that still have to add to sum f.
Owing(f) == {c \in HTTPCallers : hpc[c] \in OwedPlaces[f] /\ (f \in OfFailures => call[c].failed)}

HTTPCounts ==
  /\ httpMetrics \in [{1, 2} -> [HTTPSums -> Nat]]
  /\ finished \in [HTTPFates -> Nat]
  /\ \A f \in HTTPSums : Total(f) + Cardinality(Owing(f)) = finished[FateOf[f]]

\* One element in, or out, of a finite set.
LEMMA OneInOneOut ==
  ASSUME NEW S, IsFiniteSet(S), NEW A \in SUBSET S, NEW x \in S
  PROVE  /\ Cardinality(A) \in Nat /\ Cardinality(A \cup {x}) \in Nat /\ Cardinality(A \ {x}) \in Nat
         /\ x \notin A => Cardinality(A \cup {x}) = Cardinality(A) + 1
         /\ x \notin A => A \ {x} = A
         /\ x \in A => Cardinality(A) = Cardinality(A \ {x}) + 1
         /\ x \in A => A \cup {x} = A
<1>1. IsFiniteSet(A) /\ IsFiniteSet(A \cup {x}) /\ IsFiniteSet(A \ {x})
  BY FS_Subset, FS_AddElement, FS_RemoveElement
<1>2. Cardinality(A) \in Nat /\ Cardinality(A \cup {x}) \in Nat /\ Cardinality(A \ {x}) \in Nat
  BY <1>1, FS_CardinalityType
<1>3. x \notin A => Cardinality(A \cup {x}) = Cardinality(A) + 1 BY <1>1, FS_AddElement
<1>4. x \in A => Cardinality(A \ {x}) = Cardinality(A) - 1 BY <1>1, FS_RemoveElement
<1>5. (x \notin A => A \ {x} = A) /\ (x \in A => A \cup {x} = A) OBVIOUS
<1> QED BY <1>2, <1>3, <1>4, <1>5

\* How a step of one caller changes who owes.
LEMMA OwingAfter ==
  ASSUME HTTPTypes, NEW c \in HTTPCallers, NEW f \in HTTPSums, NEW from, NEW to, HMoves(c, from, to),
         \A d \in HTTPCallers \ {c} : call'[d] = call[d]
  PROVE  /\ c \in Owing(f) <=> from \in OwedPlaces[f] /\ (f \in OfFailures => call[c].failed)
         /\ (to \in OwedPlaces[f] /\ (f \in OfFailures => call'[c].failed)) => Owing(f)' = Owing(f) \cup {c}
         /\ ~(to \in OwedPlaces[f] /\ (f \in OfFailures => call'[c].failed)) => Owing(f)' = Owing(f) \ {c}
<1>1. /\ hpc[c] = from /\ hpc'[c] = to /\ \A d \in HTTPCallers \ {c} : hpc'[d] = hpc[d]
  BY DEF HTTPTypes, HMoves
<1> QED BY <1>1 DEF Owing

\* A step that is no part of recording.
LEMMA QuietStepOwesNothing ==
  ASSUME HTTPTypes, HTTPCounts, NEW c \in HTTPCallers, NEW from \in Quiet, NEW to \in Quiet, HMoves(c, from, to),
         \A d \in HTTPCallers \ {c} : call'[d] = call[d], UNCHANGED <<httpMetrics, finished>>
  PROVE  HTTPCounts'
<1>1. ASSUME NEW f \in HTTPSums PROVE Owing(f)' = Owing(f)
  <2>1. from \notin OwedPlaces[f] /\ to \notin OwedPlaces[f] BY DEF HTTPSums, OwedPlaces, Quiet
  <2>2. c \notin Owing(f) /\ Owing(f)' = Owing(f) \ {c} BY <2>1, OwingAfter
  <2> QED BY <2>2
<1>2. \A f \in HTTPSums : Total(f)' = Total(f) BY DEF Total
<1> QED BY <1>1, <1>2 DEF HTTPCounts

\* Two fields of a function of counts move on.
LEMMA TwoCountsMoveOn ==
  ASSUME NEW r \in [HTTPFates -> Nat], NEW a \in HTTPFates, NEW b \in HTTPFates, a # b, NEW one \in {0, 1},
         NEW s, s = [r EXCEPT ![a] = @ + 1, ![b] = @ + one]
  PROVE  /\ s \in [HTTPFates -> Nat] /\ s[a] = r[a] + 1 /\ s[b] = r[b] + one
         /\ \A x \in HTTPFates \ {a, b} : s[x] = r[x]
OBVIOUS

\* A request's fate is known: it is owed to the sums of its fate from now on.
LEMMA AnswerIsOwed ==
  ASSUME HTTPTypes, HTTPCounts, NEW c \in HTTPCallers, NEW fate \in Fates, Answer(c, fate)
  PROVE  HTTPCounts'
<1> DEFINE isSSE == call[c].kind = "SSE"
<1>1. PICK failed, to : /\ HMoves(c, "wire", to) /\ to = IF isSSE THEN "connection" ELSE "duration"
                        /\ call' = [call EXCEPT ![c].lost = FALSE, ![c].failed = failed]
                        /\ finished' = IF isSSE
                             THEN [finished EXCEPT !.sse = @ + 1, !.sseErrors = @ + (IF failed THEN 1 ELSE 0)]
                             ELSE [finished EXCEPT !.all = @ + 1, !.failed = @ + (IF failed THEN 1 ELSE 0)]
                        /\ httpMetrics' = httpMetrics
  BY DEF Answer
<1>2. /\ \A d \in HTTPCallers \ {c} : call'[d] = call[d]
      /\ call'[c].failed <=> failed
  BY <1>1 DEF HTTPTypes, CallFields
<1> DEFINE Enters(f) == to \in OwedPlaces[f] /\ (f \in OfFailures => failed)
           More(f) == IF Enters(f) THEN 1 ELSE 0
<1> DEFINE one == IF failed THEN 1 ELSE 0
           a == IF isSSE THEN "sse" ELSE "all"
           b == IF isSSE THEN "sseErrors" ELSE "failed"
<1>9. finished' = [finished EXCEPT ![a] = @ + 1, ![b] = @ + one] BY <1>1
<1>10. one \in {0, 1} /\ a \in HTTPFates /\ b \in HTTPFates /\ a # b BY DEF HTTPFates
<1> HIDE DEF one, a, b
<1>3. /\ finished' \in [HTTPFates -> Nat]
      /\ finished'[a] = finished[a] + 1 /\ finished'[b] = finished[b] + one
      /\ \A x \in HTTPFates \ {a, b} : finished'[x] = finished[x] /\ finished[x] \in Nat
  <2>1. finished \in [HTTPFates -> Nat] BY DEF HTTPCounts
  <2> QED BY <1>9, <1>10, <2>1, TwoCountsMoveOn
<1>4. ASSUME NEW f \in HTTPSums PROVE finished'[FateOf[f]] = finished[FateOf[f]] + More(f)
  <2>1. FateOf[f] \in HTTPFates BY DEF HTTPSums, FateOf, HTTPFates
  <2>2. CASE FateOf[f] = a
    <3>1. f \in HTTPSums \ OfFailures /\ to \in OwedPlaces[f]
      BY <1>1, <2>2 DEF a, HTTPSums, OwedPlaces, OfFailures, FateOf
    <3>2. More(f) = 1 BY <3>1
    <3> QED BY <1>3, <2>2, <3>2
  <2>3. CASE FateOf[f] = b
    <3>1. f \in OfFailures /\ to \in OwedPlaces[f]
      BY <1>1, <2>3 DEF b, HTTPSums, OwedPlaces, OfFailures, FateOf
    <3>2. More(f) = one BY <3>1 DEF one
    <3> QED BY <1>3, <2>3, <3>2
  <2>4. CASE FateOf[f] \notin {a, b}
    <3>1. to \notin OwedPlaces[f]
      BY <1>1, <2>4 DEF a, b, HTTPSums, OwedPlaces, FateOf
    <3>2. More(f) = 0 BY <3>1
    <3> QED BY <1>3, <2>1, <2>4, <3>2
  <2> QED BY <2>2, <2>3, <2>4
<1>5. ASSUME NEW f \in HTTPSums
      PROVE  /\ Cardinality(Owing(f)) \in Nat
             /\ Cardinality(Owing(f)') = Cardinality(Owing(f)) + More(f)
  <2>1. "wire" \notin OwedPlaces[f] BY DEF HTTPSums, OwedPlaces
  <2>2. c \notin Owing(f) BY <1>1, <1>2, <2>1, OwingAfter
  <2>3. Owing(f)' = IF Enters(f) THEN Owing(f) \cup {c} ELSE Owing(f) \ {c} BY <1>1, <1>2, OwingAfter
  <2>4. Owing(f) \in SUBSET HTTPCallers /\ IsFiniteSet(HTTPCallers) BY HTTPAssumption DEF Owing, HTTPAssumption
  <2> DEFINE O == Owing(f)
  <2> HIDE DEF O, Enters
  <2>5. /\ Cardinality(O) \in Nat /\ Cardinality(O \cup {c}) = Cardinality(O) + 1 /\ O \ {c} = O
    BY <2>2, <2>4, OneInOneOut DEF O
  <2>6. Owing(f)' = IF Enters(f) THEN O \cup {c} ELSE O \ {c} BY <2>3 DEF O
  <2>7. CASE Enters(f) BY <2>5, <2>6, <2>7 DEF O
  <2>8. CASE ~Enters(f) BY <2>5, <2>6, <2>8 DEF O
  <2> QED BY <2>7, <2>8
<1>6. ASSUME NEW f \in HTTPSums PROVE Total(f)' = Total(f) /\ Total(f) \in Nat
  BY <1>1 DEF Total, HTTPCounts
<1> HIDE DEF More
<1>7. ASSUME NEW f \in HTTPSums PROVE Total(f)' + Cardinality(Owing(f)') = finished'[FateOf[f]]
  <2>1. finished[FateOf[f]] \in Nat BY DEF HTTPCounts, HTTPSums, FateOf, HTTPFates
  <2>2. Total(f) + Cardinality(Owing(f)) = finished[FateOf[f]] BY DEF HTTPCounts
  <2>3. More(f) \in Nat BY DEF More
  <2> QED BY <1>4, <1>5, <1>6, <2>1, <2>2, <2>3
<1>8. httpMetrics' \in [{1, 2} -> [HTTPSums -> Nat]] BY <1>1 DEF HTTPCounts
<1> QED BY <1>3, <1>7, <1>8 DEF HTTPCounts

\* A recording step pays exactly the sums it adds to.
LEMMA AddPays ==
  ASSUME HTTPTypes, HTTPCounts, NEW c \in HTTPCallers, NEW from \in OwesSums, NEW to, HMoves(c, from, to),
         NEW sums, Add(c, sums), to = "idle" \/ call' = call,
         \A f \in HTTPSums : f \in sums <=> /\ from \in OwedPlaces[f] /\ (f \in OfFailures => call[c].failed)
                                            /\ to \notin OwedPlaces[f],
         \A f \in HTTPSums : to \in OwedPlaces[f] => from \in OwedPlaces[f]
  PROVE  HTTPCounts'
<1> DEFINE m == call[c].metrics
           Less(f) == IF f \in sums THEN 1 ELSE 0
<1>1. m \in {1, 2} BY DEF HTTPTypes, HMoves
<1>2. /\ finished' = finished
      /\ httpMetrics' = [httpMetrics EXCEPT ![m] = [f \in DOMAIN httpMetrics[m] |-> httpMetrics[m][f] + Less(f)]]
  BY DEF Add
<1>3. \A d \in HTTPCallers \ {c} : call'[d] = call[d] BY DEF Add, HTTPTypes
<1>4. httpMetrics \in [{1, 2} -> [HTTPSums -> Nat]] BY DEF HTTPCounts
<1>5. \A f : Less(f) \in {0, 1} OBVIOUS
<1> HIDE DEF Less, m
<1>6. httpMetrics' \in [{1, 2} -> [HTTPSums -> Nat]]
  <2>1. [f \in DOMAIN httpMetrics[m] |-> httpMetrics[m][f] + Less(f)] \in [HTTPSums -> Nat] BY <1>1, <1>4, <1>5
  <2> QED BY <1>1, <1>2, <1>4, <2>1
<1>7. ASSUME NEW f \in HTTPSums PROVE Total(f)' = Total(f) + Less(f) /\ Total(f) \in Nat
  <2>1. /\ httpMetrics'[m][f] = httpMetrics[m][f] + Less(f)
        /\ \A n \in {1, 2} \ {m} : httpMetrics'[n][f] = httpMetrics[n][f]
    BY <1>1, <1>2, <1>4
  <2>2. httpMetrics[1][f] \in Nat /\ httpMetrics[2][f] \in Nat BY <1>4
  <2> QED BY <1>1, <1>5, <2>1, <2>2 DEF Total
<1>8. ASSUME NEW f \in HTTPSums
      PROVE  /\ Cardinality(Owing(f)') \in Nat
             /\ Cardinality(Owing(f)) = Cardinality(Owing(f)') + Less(f)
  <2>1. Owing(f) \in SUBSET HTTPCallers /\ IsFiniteSet(HTTPCallers) BY HTTPAssumption DEF Owing, HTTPAssumption
  <2>2. hpc[c] = from /\ hpc'[c] = to /\ \A d \in HTTPCallers \ {c} : hpc'[d] = hpc[d]
    BY DEF HTTPTypes, HMoves
  <2>3. \A d \in HTTPCallers \ {c} : d \in Owing(f)' <=> d \in Owing(f) BY <1>3, <2>2 DEF Owing
  <2>4. to \in OwedPlaces[f] => (c \in Owing(f)' <=> c \in Owing(f))
    <3> SUFFICES ASSUME to \in OwedPlaces[f] PROVE c \in Owing(f)' <=> c \in Owing(f)
      OBVIOUS
    <3>1. to # "idle" BY DEF HTTPSums, OwedPlaces
    <3>2. call' = call /\ from \in OwedPlaces[f] BY <3>1
    <3> QED BY <2>2, <3>2 DEF Owing
  <2>5. to \notin OwedPlaces[f] => c \notin Owing(f)' BY <2>2 DEF Owing
  <2>6. Owing(f)' \subseteq HTTPCallers BY DEF Owing
  <2> DEFINE O == Owing(f)
             P == Owing(f)'
  <2> HIDE DEF O, P
  <2>7. /\ Cardinality(O) \in Nat /\ Cardinality(O \ {c}) \in Nat
        /\ c \in O => Cardinality(O) = Cardinality(O \ {c}) + 1
    <3>1. O \in SUBSET HTTPCallers BY <2>1 DEF O
    <3>2. IsFiniteSet(HTTPCallers) BY <2>1
    <3> QED BY ONLY <3>1, <3>2, c \in HTTPCallers, OneInOneOut
  <2>8. O \subseteq HTTPCallers /\ P \subseteq HTTPCallers /\ \A d \in HTTPCallers \ {c} : d \in P <=> d \in O
    BY <2>1, <2>3, <2>6 DEF O, P
  <2>9. f \in sums <=> c \in O /\ to \notin OwedPlaces[f] BY <2>1, <2>2 DEF O, Owing
  <2>10. CASE f \in sums
    <3>1. c \in O /\ c \notin P BY <2>5, <2>9, <2>10 DEF P
    <3>2. P = O \ {c} BY <2>8, <3>1
    <3> QED BY <2>7, <2>10, <3>1, <3>2 DEF O, P, Less
  <2>11. CASE f \notin sums
    <3>1. c \in P <=> c \in O BY <2>4, <2>5, <2>9, <2>11 DEF O, P
    <3>2. P = O BY <2>8, <3>1
    <3> QED BY <2>7, <2>11, <3>2 DEF O, P, Less
  <2> QED BY <2>10, <2>11
<1>9. ASSUME NEW f \in HTTPSums PROVE Total(f)' + Cardinality(Owing(f)') = finished'[FateOf[f]]
  <2>1. Total(f) + Cardinality(Owing(f)) = finished[FateOf[f]] BY DEF HTTPCounts
  <2> QED BY <1>2, <1>5, <1>7, <1>8, <2>1
<1>10. finished' \in [HTTPFates -> Nat] BY <1>2 DEF HTTPCounts
<1> QED BY <1>6, <1>9, <1>10 DEF HTTPCounts

\* What every step does to the counts.
LEMMA HTTPCountsInductive == HTTPTypes /\ HTTPCounts /\ [HTTPNext]_httpVars => HTTPCounts'
<1> SUFFICES ASSUME HTTPTypes, HTTPCounts, [HTTPNext]_httpVars PROVE HTTPCounts'
  OBVIOUS
<1>0. DOMAIN call = HTTPCallers /\ DOMAIN client = HTTPCallers /\ DOMAIN hpc = HTTPCallers
  BY DEF HTTPTypes
<1>1. ASSUME NEW c \in HTTPCallers, NEW from \in Quiet, NEW to \in Quiet, HMoves(c, from, to),
             UNCHANGED <<call, httpMetrics, finished>>
      PROVE  HTTPCounts'
  BY <1>1, QuietStepOwesNothing
<1>2. ASSUME NEW c \in HTTPCallers,
             \/ DefaultLooks(c) \/ DefaultCreates(c)
             \/ \E options \in ClientOptions : NewClient(c, options)
             \/ \E name \in {"named", "missing"} : MustGet(c, name)
      PROVE  HTTPCounts'
  <2>1. UNCHANGED <<call, httpMetrics, finished>>
    BY <1>2 DEF DefaultLooks, DefaultCreates, NewClient, MustGet
  <2>2. \/ HMoves(c, "start", "idle") \/ HMoves(c, "start", "miss")
        \/ HMoves(c, "miss", "idle") \/ HMoves(c, "start", "panicked")
    BY <1>2 DEF DefaultLooks, DefaultCreates, NewClient, MustGet
  <2> QED BY <1>1, <2>1, <2>2 DEF Quiet
<1>3. ASSUME NEW c \in HTTPCallers, NEW url, Do(c, url) \/ RoundTrip(c, url) \/ InstrumentedRoundTrip(c, url)
      PROVE  HTTPCounts'
  <2>1. /\ UNCHANGED <<httpMetrics, finished>> /\ HMoves(c, "idle", "wire")
        /\ \E r : call' = [call EXCEPT ![c] = r]
    BY <1>3 DEF Do, RoundTrip, InstrumentedRoundTrip, Sends
  <2>2. \A d \in HTTPCallers \ {c} : call'[d] = call[d] BY <1>0, <2>1
  <2> QED BY <2>1, <2>2, QuietStepOwesNothing DEF Quiet
<1>4. ASSUME NEW c \in HTTPCallers, ObserveDuration(c) PROVE HTTPCounts'
  <2>1. HMoves(c, "duration", "count") /\ Add(c, {"durations"}) BY <1>4 DEF ObserveDuration
  <2>2. call' = call BY <1>0, <2>1 DEF Add, HMoves
  <2>3. \A f \in HTTPSums : f \in {"durations"} <=> /\ "duration" \in OwedPlaces[f] /\ (f \in OfFailures => call[c].failed)
                                                    /\ "count" \notin OwedPlaces[f]
    BY DEF HTTPSums, OwedPlaces, OfFailures
  <2>4. \A f \in HTTPSums : "count" \in OwedPlaces[f] => "duration" \in OwedPlaces[f]
    BY DEF HTTPSums, OwedPlaces
  <2> QED BY <2>1, <2>2, <2>3, <2>4, AddPays DEF OwesSums
<1>5. ASSUME NEW c \in HTTPCallers, CountRequest(c) PROVE HTTPCounts'
  <2>1. HMoves(c, "count", "rate") /\ Add(c, {"reqs"}) BY <1>5 DEF CountRequest
  <2>2. call' = call BY <1>0, <2>1 DEF Add, HMoves
  <2>3. \A f \in HTTPSums : f \in {"reqs"} <=> /\ "count" \in OwedPlaces[f] /\ (f \in OfFailures => call[c].failed)
                                               /\ "rate" \notin OwedPlaces[f]
    BY DEF HTTPSums, OwedPlaces, OfFailures
  <2>4. \A f \in HTTPSums : "rate" \in OwedPlaces[f] => "count" \in OwedPlaces[f]
    BY DEF HTTPSums, OwedPlaces
  <2> QED BY <2>1, <2>2, <2>3, <2>4, AddPays DEF OwesSums
<1>6. ASSUME NEW c \in HTTPCallers, AddFailedRate(c) PROVE HTTPCounts'
  <2> DEFINE sums == {"total"} \cup Failure(c, "failed")
  <2>1. HMoves(c, "rate", "idle") /\ Add(c, sums) BY <1>6 DEF AddFailedRate
  <2>3. \A f \in HTTPSums : f \in sums <=> /\ "rate" \in OwedPlaces[f] /\ (f \in OfFailures => call[c].failed)
                                           /\ "idle" \notin OwedPlaces[f]
    BY DEF HTTPSums, OwedPlaces, OfFailures, Failure
  <2>4. \A f \in HTTPSums : "idle" \in OwedPlaces[f] => "rate" \in OwedPlaces[f]
    BY DEF HTTPSums, OwedPlaces
  <2> HIDE DEF sums
  <2> QED BY <2>1, <2>3, <2>4, AddPays DEF OwesSums
<1>7. ASSUME NEW c \in HTTPCallers, CountConnection(c) PROVE HTTPCounts'
  <2> DEFINE sums == {"sse"} \cup Failure(c, "sseErrors")
  <2>1. HMoves(c, "connection", "idle") /\ Add(c, sums) BY <1>7 DEF CountConnection
  <2>3. \A f \in HTTPSums : f \in sums <=> /\ "connection" \in OwedPlaces[f] /\ (f \in OfFailures => call[c].failed)
                                           /\ "idle" \notin OwedPlaces[f]
    BY DEF HTTPSums, OwedPlaces, OfFailures, Failure
  <2>4. \A f \in HTTPSums : "idle" \in OwedPlaces[f] => "connection" \in OwedPlaces[f]
    BY DEF HTTPSums, OwedPlaces
  <2> HIDE DEF sums
  <2> QED BY <2>1, <2>3, <2>4, AddPays DEF OwesSums
<1>8. CASE HTTPSetupReturns
  <2>1. SetupHook \in HTTPCallers BY HTTPAssumption DEF HTTPAssumption
  <2>2. /\ HMoves(SetupHook, "start", "returned") \/ HMoves(SetupHook, "idle", "returned")
        /\ UNCHANGED <<call, httpMetrics, finished>>
    BY <1>8 DEF HTTPSetupReturns, HMoves
  <2> QED BY <1>1, <2>1, <2>2 DEF Quiet
<1>9. CASE NextExecution
  <2>1. /\ \A c \in HTTPCallers : hpc[c] \in Quiet /\ hpc'[c] \in Quiet
        /\ UNCHANGED <<call, httpMetrics, finished>>
    BY <1>9 DEF NextExecution, Quiet
  <2>2. ASSUME NEW f \in HTTPSums PROVE Owing(f)' = Owing(f)
    <3>1. \A p \in Quiet : p \notin OwedPlaces[f] BY DEF HTTPSums, OwedPlaces, Quiet
    <3> QED BY <2>1, <3>1 DEF Owing
  <2>3. \A f \in HTTPSums : Total(f)' = Total(f) BY <2>1 DEF Total
  <2> QED BY <2>1, <2>2, <2>3 DEF HTTPCounts
<1>10. CASE UNCHANGED httpVars \/ \E c \in HTTPCallers : RequestIsNotCounted(c)
  <2>1. UNCHANGED <<hpc, call, httpMetrics, finished>> BY <1>10 DEF httpVars, RequestIsNotCounted
  <2>2. \A f \in HTTPSums : Owing(f)' = Owing(f) /\ Total(f)' = Total(f) BY <2>1 DEF Owing, Total
  <2> QED BY <2>1, <2>2 DEF HTTPCounts
<1> QED BY <1>2, <1>3, <1>4, <1>5, <1>6, <1>7, <1>8, <1>9, <1>10, AnswerIsOwed DEF HTTPNext

\* Nothing has ended, nothing is owed.
LEMMA HTTPCountsInitially == HTTPInit => HTTPCounts
<1> SUFFICES ASSUME HTTPInit PROVE HTTPCounts
  OBVIOUS
<1>1. /\ httpMetrics \in [{1, 2} -> [HTTPSums -> Nat]]
      /\ \A e \in {1, 2} : \A f \in HTTPSums : httpMetrics[e][f] = 0
  BY DEF HTTPInit, NoSums, HTTPSums
<1>2. finished \in [HTTPFates -> Nat] /\ \A f \in HTTPFates : finished[f] = 0
  BY DEF HTTPInit, HTTPFates
<1>3. ASSUME NEW f \in HTTPSums PROVE Total(f) + Cardinality(Owing(f)) = finished[FateOf[f]]
  <2>1. "start" \notin OwedPlaces[f] /\ FateOf[f] \in HTTPFates
    BY DEF HTTPSums, OwedPlaces, FateOf, HTTPFates
  <2>2. Owing(f) = {} BY <2>1 DEF Owing, HTTPInit
  <2>3. Cardinality(Owing(f)) = 0 BY <2>2, FS_EmptySet
  <2>4. Total(f) = 0 BY <1>1 DEF Total
  <2> QED BY <1>2, <2>1, <2>3, <2>4
<1> QED BY <1>1, <1>2, <1>3 DEF HTTPCounts

\* The invariant speaks of the six sums one by one.
LEMMA CountsSaySo == HTTPCounts => RequestsAreCountedOnce
<1> SUFFICES ASSUME HTTPCounts PROVE RequestsAreCountedOnce
  OBVIOUS
<1>1. /\ Owing("durations") = {c \in HTTPCallers : hpc[c] \in {"duration"}}
      /\ Owing("reqs") = {c \in HTTPCallers : hpc[c] \in {"duration", "count"}}
      /\ Owing("total") = {c \in HTTPCallers : hpc[c] \in {"duration", "count", "rate"}}
      /\ Owing("failed") = {c \in HTTPCallers : hpc[c] \in {"duration", "count", "rate"} /\ call[c].failed}
      /\ Owing("sse") = {c \in HTTPCallers : hpc[c] \in {"connection"}}
      /\ Owing("sseErrors") = {c \in HTTPCallers : hpc[c] = "connection" /\ call[c].failed}
  BY DEF Owing, OwedPlaces, OfFailures
<1>2. \A f \in HTTPSums : Total(f) + Cardinality(Owing(f)) = finished[FateOf[f]] BY DEF HTTPCounts
<1>3. /\ Total("durations") + Cardinality(Owing("durations")) = finished.all
      /\ Total("reqs") + Cardinality(Owing("reqs")) = finished.all
      /\ Total("total") + Cardinality(Owing("total")) = finished.all
      /\ Total("failed") + Cardinality(Owing("failed")) = finished.failed
      /\ Total("sse") + Cardinality(Owing("sse")) = finished.sse
      /\ Total("sseErrors") + Cardinality(Owing("sseErrors")) = finished.sseErrors
  BY <1>2 DEF HTTPSums, FateOf
<1> QED BY <1>1, <1>3 DEF RequestsAreCountedOnce, Recording

\* Each request whose fate is known is counted exactly once in every metric, as
\* failed exactly when it failed: for any number of callers, whatever they do
\* between the adds of another one.
THEOREM RequestsAreCountedOnceHolds == HTTPSpec => []RequestsAreCountedOnce
<1>1. HTTPInit => HTTPTypes /\ HTTPCounts BY HTTPTypesInitially, HTTPCountsInitially
<1>2. (HTTPTypes /\ HTTPCounts) /\ [HTTPNext]_httpVars => (HTTPTypes /\ HTTPCounts)'
  BY HTTPTypesInductive, HTTPCountsInductive
<1>3. HTTPTypes /\ HTTPCounts => RequestsAreCountedOnce BY CountsSaySo
<1> QED BY <1>1, <1>2, <1>3, PTL DEF HTTPSpec

\* A shared client is the one cached under its caller's key.
SharedClients ==
  \A c \in HTTPCallers :
    client[c].shared => ClientKey(c) \in DOMAIN defaultClients /\ client[c] = defaultClients[ClientKey(c)]

\* A client is shared only by Default, which takes it from the cache; nothing
\* leaves the cache.
LEMMA SharedClientsInductive == HTTPTypes /\ SharedClients /\ [HTTPNext]_httpVars => SharedClients'
<1> SUFFICES ASSUME HTTPTypes, SharedClients, [HTTPNext]_httpVars PROVE SharedClients'
  OBVIOUS
<1>0. DOMAIN client = HTTPCallers BY DEF HTTPTypes
\* The cache only grows, and the step gives its caller a cached client or none that is shared.
<1>1. ASSUME NEW c \in HTTPCallers, UNCHANGED execution,
             \A k \in DOMAIN defaultClients : k \in DOMAIN defaultClients' /\ defaultClients'[k] = defaultClients[k],
             \A d \in HTTPCallers \ {c} : client'[d] = client[d],
             \/ client'[c] = client[c]
             \/ ~client'[c].shared
             \/ ClientKey(c) \in DOMAIN defaultClients' /\ client'[c] = defaultClients'[ClientKey(c)]
      PROVE  SharedClients'
  <2>1. ASSUME NEW d \in HTTPCallers, client'[d].shared
        PROVE  ClientKey(d)' \in DOMAIN defaultClients' /\ client'[d] = defaultClients'[ClientKey(d)']
    <3>1. ClientKey(d)' = ClientKey(d) BY <1>1 DEF ClientKey
    <3>2. CASE client'[d] = client[d] BY <1>1, <2>1, <3>1, <3>2 DEF SharedClients
    <3>3. CASE client'[d] # client[d]
      <4>1. d = c BY <1>1, <3>3
      <4> QED BY <1>1, <2>1, <3>1, <3>3, <4>1
    <3> QED BY <3>2, <3>3
  <2> QED BY <2>1 DEF SharedClients
<1>2. ASSUME NEW c \in HTTPCallers, NEW cl, TakesClient(c, cl)
      PROVE  client'[c] = cl /\ \A d \in HTTPCallers \ {c} : client'[d] = client[d]
  BY <1>0, <1>2 DEF TakesClient
<1>3. ASSUME NEW c \in HTTPCallers, DefaultLooks(c) PROVE SharedClients'
  <2>1. UNCHANGED <<execution, defaultClients>> BY <1>3 DEF DefaultLooks, httpProcess
  <2>2. \/ ClientKey(c) \in DOMAIN defaultClients /\ TakesClient(c, defaultClients[ClientKey(c)])
        \/ UNCHANGED client
    BY <1>3 DEF DefaultLooks
  <2> QED BY <1>1, <1>2, <2>1, <2>2
<1>4. ASSUME NEW c \in HTTPCallers, DefaultCreates(c) PROVE SharedClients'
  <2>1. /\ UNCHANGED execution /\ TakesClient(c, defaultClients'[ClientKey(c)])
        /\ ClientKey(c) \in DOMAIN defaultClients'
        /\ \A k \in DOMAIN defaultClients : k \in DOMAIN defaultClients' /\ defaultClients'[k] = defaultClients[k]
    BY <1>4 DEF DefaultCreates, httpProcess
  <2> DEFINE cl == defaultClients'[ClientKey(c)]
  <2>2. client'[c] = cl /\ \A d \in HTTPCallers \ {c} : client'[d] = client[d] BY <1>2, <2>1
  <2> QED BY <1>1, <2>1, <2>2
<1>5. ASSUME NEW c \in HTTPCallers, NEW cl, ~cl.shared, TakesClient(c, cl), UNCHANGED <<execution, defaultClients>>
      PROVE  SharedClients'
  BY <1>1, <1>2, <1>5
<1>6. ASSUME NEW c \in HTTPCallers, UNCHANGED <<execution, defaultClients, client>> PROVE SharedClients'
  BY <1>1, <1>6
<1>7. ASSUME NEW c \in HTTPCallers,
             (\E options \in ClientOptions : NewClient(c, options)) \/ (\E name \in {"named", "missing"} : MustGet(c, name))
      PROVE  SharedClients'
  <2>1. UNCHANGED <<execution, defaultClients>> BY <1>7 DEF NewClient, MustGet, httpProcess
  <2>2. (\E cfg : TakesClient(c, Fresh(cfg, c, FALSE))) \/ UNCHANGED client BY <1>7 DEF NewClient, MustGet
  <2>3. ASSUME NEW cfg, TakesClient(c, Fresh(cfg, c, FALSE)) PROVE SharedClients'
    <3> DEFINE cl == Fresh(cfg, c, FALSE)
    <3>1. ~cl.shared /\ TakesClient(c, cl) BY <2>3 DEF Fresh
    <3> HIDE DEF cl
    <3> QED BY <1>5, <2>1, <3>1
  <2> QED BY <1>6, <2>1, <2>2, <2>3
<1>8. ASSUME NEW c \in HTTPCallers,
             \/ \E url \in {"absolute", "relative"} : Do(c, url) \/ RoundTrip(c, url) \/ InstrumentedRoundTrip(c, url)
             \/ \E fate \in Fates : Answer(c, fate)
             \/ ObserveDuration(c) \/ CountRequest(c) \/ AddFailedRate(c) \/ CountConnection(c)
             \/ RequestIsNotCounted(c)
      PROVE  SharedClients'
  <2>1. UNCHANGED <<execution, defaultClients, client>>
    BY <1>8 DEF Do, RoundTrip, InstrumentedRoundTrip, Sends, Answer, ObserveDuration, CountRequest, AddFailedRate,
                CountConnection, Add, RequestIsNotCounted, httpVars, httpProcess
  <2> QED BY <1>6, <2>1
<1>9. CASE HTTPSetupReturns
  <2>1. SetupHook \in HTTPCallers BY HTTPAssumption DEF HTTPAssumption
  <2>2. TakesClient(SetupHook, NoClient) /\ UNCHANGED <<execution, defaultClients>> BY <1>9 DEF HTTPSetupReturns, httpProcess
  <2>3. ~NoClient.shared BY DEF NoClient
  <2> QED BY <1>5, <2>1, <2>2, <2>3
<1>10. CASE NextExecution
  <2>1. \A c \in HTTPCallers : client'[c] = NoClient BY <1>10 DEF NextExecution
  <2>2. ~NoClient.shared BY DEF NoClient
  <2> QED BY <2>1, <2>2 DEF SharedClients
<1>11. CASE UNCHANGED httpVars
  BY <1>11 DEF httpVars, SharedClients, ClientKey
<1> QED BY <1>3, <1>4, <1>7, <1>8, <1>9, <1>10, <1>11 DEF HTTPNext

\* However many callers race through Default, those of one key work with the
\* cached client of that key.
THEOREM DefaultClientIsSharedHolds == HTTPSpec => []DefaultClientIsShared
<1>1. HTTPInit => HTTPTypes /\ SharedClients
  <2>1. HTTPInit => SharedClients BY DEF HTTPInit, SharedClients, NoClient
  <2> QED BY <2>1, HTTPTypesInitially
<1>2. (HTTPTypes /\ SharedClients) /\ [HTTPNext]_httpVars => (HTTPTypes /\ SharedClients)'
  BY HTTPTypesInductive, SharedClientsInductive
<1>3. HTTPTypes /\ SharedClients => DefaultClientIsShared BY DEF SharedClients, DefaultClientIsShared
<1> QED BY <1>1, <1>2, <1>3, PTL DEF HTTPSpec

-----------------------------------------------------------------------------
(* Event streams: what was counted, and what the rest of the response can  *)
(* still bring, is no more than the response carried.                      *)

StreamFields == {"connections", "errors", "events", "durations", "carried", "failed"}

\* The numbers the metrics are, and where a stream's first error shows.
StreamErrors ==
  /\ DOMAIN sse = StreamFields
  /\ sse.errors = (IF sse.failed THEN 1 ELSE 0)
  /\ sse.failed => streamErr \/ stream = "refused"
  /\ nextAt # "none" => ~streamErr /\ stream \in {"open", "closing", "closed"}
  /\ stream \in {"start", "connecting", "refused"} => nextAt = "none" /\ ~streamErr
  /\ streamDone \in BOOLEAN /\ bodyClosed \in BOOLEAN /\ streamErr \in BOOLEAN
  /\ bodyClosed => streamDone
  /\ stream \in {"closing", "closed"} => streamDone
  /\ stream \in {"start", "connecting", "open", "closing", "closed", "refused"}

\* A stream that was not started has no error.
LEMMA StreamErrorsInitially == StreamInit => StreamErrors
<1>1. StreamInit => DOMAIN sse = StreamFields /\ sse.failed = FALSE
  BY DEF StreamInit, StreamFields
<1>2. StreamInit => /\ sse.errors = 0 /\ nextAt = "none" /\ stream = "start"
                    /\ streamErr = FALSE /\ bodyClosed = FALSE /\ streamDone = FALSE
  BY DEF StreamInit
<1> QED BY <1>1, <1>2 DEF StreamErrors

\* What a step adds to the metrics.
LEMMA SSEAdds ==
  ASSUME DOMAIN sse = StreamFields, NEW fields, fields \subseteq {"connections", "errors", "events", "durations"},
         NEW failing \in BOOLEAN, IF failing THEN FailsWith(fields) ELSE Inc(fields)
  PROVE  /\ DOMAIN sse' = StreamFields
         /\ sse'.errors = (IF "errors" \in fields THEN sse.errors + 1 ELSE sse.errors)
         /\ sse'.events = (IF "events" \in fields THEN sse.events + 1 ELSE sse.events)
         /\ sse'.failed = (IF failing THEN TRUE ELSE sse.failed)
         /\ sse'.carried = sse.carried
BY DEF FailsWith, Inc, StreamFields

\* A stream that has had its error does not read on.
LEMMA StreamErrorsInductive == StreamErrors /\ [StreamNext]_sseVars => StreamErrors'
<1> SUFFICES ASSUME StreamErrors, [StreamNext]_sseVars PROVE StreamErrors'
  OBVIOUS
<1>1. CASE ParentEnds \/ DoStream \/ Events \/ Send \/ SendGivesUp
             \/ Receive \/ CloseCancels \/ UNCHANGED sseVars
  <2>1. /\ UNCHANGED <<bodyClosed, nextAt, streamErr, sse>>
        /\ \/ UNCHANGED <<streamDone, stream>>
           \/ UNCHANGED streamDone /\ stream = "start" /\ stream' \in {"connecting", "refused"}
           \/ streamDone' = TRUE /\ stream = "open" /\ stream' = "closing"
    BY <1>1 DEF ParentEnds, DoStream, Events, Send, SendGivesUp, Receive,
      CloseCancels, sseVars, reading, response, life
  <2> QED BY <2>1 DEF StreamErrors
<1>2. CASE MonitorSeesParent \/ MonitorSeesStream
  <2>1. /\ (streamDone = TRUE => streamDone' = TRUE) /\ streamDone' \in BOOLEAN
        /\ UNCHANGED <<stream, bodyClosed, nextAt, streamErr, sse>>
    BY <1>2 DEF MonitorSeesParent, MonitorSeesStream, reading, StreamErrors
  <2> QED BY <2>1 DEF StreamErrors
<1>3. CASE ConnectFails \/ BadStatus
  <2>1. FailsWith({"connections", "errors"}) BY <1>3 DEF ConnectFails, BadStatus
  <2>2. DOMAIN sse' = StreamFields /\ sse'.failed = TRUE /\ sse'.errors = sse.errors + 1
    BY <2>1, SSEAdds DEF StreamErrors
  <2>3. /\ streamDone' = TRUE /\ stream' = "refused" /\ bodyClosed' \in BOOLEAN /\ UNCHANGED <<nextAt, streamErr>>
        /\ stream = "connecting"
    BY <1>3 DEF ConnectFails, BadStatus, reading, StreamErrors
  <2>4. sse.failed = FALSE /\ sse.errors = 0 BY <2>3 DEF StreamErrors
  <2>5. nextAt' = "none" /\ ~streamErr' BY <2>3 DEF StreamErrors
  <2>6. sse'.errors = (IF sse'.failed THEN 1 ELSE 0)
    BY <2>2, <2>4
  <2> QED BY <2>2, <2>3, <2>5, <2>6 DEF StreamErrors
<1>4. CASE Connected \/ CloseBody
  <2>1. DOMAIN sse' = StreamFields /\ sse'.failed = sse.failed /\ sse'.errors = sse.errors
    BY <1>4 DEF Connected, CloseBody, Inc, StreamErrors, StreamFields
  <2>2. /\ UNCHANGED <<nextAt, streamErr, streamDone>>
        /\ \/ UNCHANGED bodyClosed /\ stream = "connecting" /\ stream' = "open"
           \/ bodyClosed' = TRUE /\ stream = "closing" /\ stream' = "closed"
    BY <1>4 DEF Connected, CloseBody, reading, response
  <2>3. streamDone' \in BOOLEAN /\ bodyClosed' \in BOOLEAN /\ streamErr' \in BOOLEAN
    BY <2>2 DEF StreamErrors
  <2>4. (bodyClosed' => streamDone') /\ (stream' \in {"closing", "closed"} => streamDone')
    BY <2>2 DEF StreamErrors
  <2>5. sse'.failed => streamErr' \/ stream' = "refused"
    BY <2>1, <2>2 DEF StreamErrors
  <2>6. sse'.errors = (IF sse'.failed THEN 1 ELSE 0)
    BY <2>1, <2>2 DEF StreamErrors
  <2> QED BY <2>1, <2>2, <2>3, <2>4, <2>5, <2>6 DEF StreamErrors
<1>5. CASE CallNext \/ PumpCallsNext \/ CheckContext
  <2>1. /\ UNCHANGED <<stream, streamDone, bodyClosed, streamErr, sse>>
        /\ \/ nextAt' = "none"
           \/ nextAt' = "loop" /\ stream = "open" /\ ~streamErr
           \/ nextAt' = "reading" /\ nextAt = "loop"
    BY <1>5 DEF CallNext, PumpCallsNext, CheckContext, Returns, response, life
  <2> QED BY <2>1 DEF StreamErrors
<1>6. ASSUME nextAt = "reading", NEW line, NEW atEOF, Takes(line, atEOF), UNCHANGED life PROVE StreamErrors'
  <2>1. /\ DOMAIN sse' = StreamFields /\ sse'.failed = sse.failed /\ sse'.errors = sse.errors
        /\ nextAt' \in {"none", "loop"} /\ UNCHANGED streamErr
    BY <1>6 DEF Takes, Returns, Inc, StreamErrors, StreamFields
  <2> QED BY <1>6, <2>1 DEF life, StreamErrors
<1>7. CASE ReadLine \/ ReadEOF
  BY <1>6, <1>7 DEF ReadLine, ReadEOF, response
<1>8. CASE ReadFails
  <2>1. CASE streamDone
    BY <1>8, <2>1 DEF ReadFails, Returns, life, StreamErrors
  <2>2. CASE ~streamDone
    <3>1. FailsWith({"errors"}) /\ streamErr' = TRUE BY <1>8, <2>2 DEF ReadFails, StreamErrors
    <3>2. DOMAIN sse' = StreamFields /\ sse'.failed = TRUE /\ sse'.errors = sse.errors + 1
      BY <3>1, SSEAdds DEF StreamErrors
    <3>3. nextAt' = "none" /\ nextAt = "reading" /\ UNCHANGED <<stream, streamDone, bodyClosed>>
      BY <1>8 DEF ReadFails, Returns, life
    <3>4. sse.failed = FALSE /\ sse.errors = 0 BY <3>3 DEF StreamErrors
    <3>5. sse'.errors = (IF sse'.failed THEN 1 ELSE 0)
      BY <3>2, <3>4
    <3> QED BY <3>1, <3>2, <3>3, <3>5 DEF StreamErrors
  <2> QED BY <2>1, <2>2
<1> QED BY <1>1, <1>2, <1>3, <1>4, <1>5, <1>7, <1>8 DEF StreamNext

-----------------------------------------------------------------------------
\* The events that the rest of a response still brings to a reader that has,
\* or has not, seen a field of the event it is at.
StartsAfter(b, seen) ==
  {i \in DOMAIN b : /\ b[i] = "field"
                    /\ seen => \E k \in 1..i-1 : b[k] = "blank"
                    /\ \A j \in 1..i-1 : b[j] = "field" => \E k \in j..i : b[k] = "blank"}

\* A finite response starts finitely many events.
LEMMA StartsAfterFinite ==
  ASSUME NEW b \in Seq(SSELines), NEW seen \in BOOLEAN
  PROVE  /\ StartsAfter(b, seen) \subseteq Nat \ {0}
         /\ IsFiniteSet(StartsAfter(b, seen)) /\ Cardinality(StartsAfter(b, seen)) \in Nat
<1>1. Len(b) \in Nat /\ DOMAIN b = 1..Len(b) BY LenProperties
<1>2. IsFiniteSet(1..Len(b)) BY <1>1, FS_Interval
<1>3. StartsAfter(b, seen) \in SUBSET (1..Len(b)) BY <1>1 DEF StartsAfter
<1>4. IsFiniteSet(StartsAfter(b, seen)) BY <1>2, <1>3, FS_Subset
<1> QED BY <1>1, <1>3, <1>4, FS_CardinalityType

\* A set of positions moved on by one has as many members.
LEMMA Shifted ==
  ASSUME NEW S, NEW T, S \subseteq Nat, T \subseteq Nat \ {0}, IsFiniteSet(S),
         \A i \in Nat : i + 1 \in T <=> i \in S
  PROVE  Cardinality(T) = Cardinality(S)
<1> DEFINE f == [i \in S |-> i + 1]
<1>1. f \in Bijection(S, T)
  <2>1. f \in [S -> T] OBVIOUS
  <2>2. \A a, b \in S : f[a] = f[b] => a = b OBVIOUS
  <2>3. \A t \in T : \E s \in S : f[s] = t
    <3>1. SUFFICES ASSUME NEW t \in T PROVE \E s \in S : f[s] = t
      OBVIOUS
    <3>2. t - 1 \in Nat /\ (t - 1) + 1 = t OBVIOUS
    <3>3. t - 1 \in S /\ f[t - 1] = t BY <3>2
    <3> QED BY <3>3
  <2> QED BY <2>1, <2>2, <2>3 DEF Bijection, Injection, Surjection, IsInjective
<1> QED BY <1>1, FS_Bijection DEF ExistsBijection

\* Losing sight of the field that was seen adds one event at most.
LEMMA Forgotten ==
  ASSUME NEW b \in Seq(SSELines)
  PROVE  Cardinality(StartsAfter(b, FALSE)) <= Cardinality(StartsAfter(b, TRUE)) + 1
<1> DEFINE S == StartsAfter(b, FALSE)
           T == StartsAfter(b, TRUE)
<1>0. Len(b) \in Nat /\ DOMAIN b = 1..Len(b) BY LenProperties
<1>1. \A i, j \in S \ T : i = j
  <2>1. ASSUME NEW i \in S \ T, NEW j \in S \ T, i < j PROVE FALSE
    <3>1. /\ i \in 1..Len(b) /\ j \in 1..Len(b) /\ b[i] = "field" /\ b[j] = "field"
          /\ \A k \in 1..j-1 : b[k] # "blank"
      BY <1>0 DEF StartsAfter
    <3>2. i \in 1..j-1 BY <2>1, <3>1
    <3>3. \E k \in i..j : b[k] = "blank" BY <3>1, <3>2 DEF StartsAfter
    <3> QED BY <3>1, <3>3
  <2>2. \A i \in S : i \in Nat BY <1>0 DEF StartsAfter
  <2> HIDE DEF S, T
  <2>3. ASSUME NEW i \in S \ T, NEW j \in S \ T PROVE i = j
    <3>1. i \in Nat /\ j \in Nat BY <2>2
    <3>2. ~(i < j) BY <2>1
    <3>3. ~(j < i) BY <2>1
    <3> QED BY <3>1, <3>2, <3>3
  <2> QED BY <2>3
<1>2. IsFiniteSet(S) /\ IsFiniteSet(T) /\ Cardinality(S) \in Nat /\ Cardinality(T) \in Nat
  BY StartsAfterFinite
<1>3. T \subseteq S BY DEF StartsAfter
<1> HIDE DEF S, T
<1>4. Cardinality(S) <= Cardinality(T) + 1
  <2>1. CASE S \ T = {}
    <3>1. S = T BY <1>3, <2>1
    <3> QED BY <3>1, <1>2
  <2>2. CASE S \ T # {}
    <3>1. PICK x : x \in S \ T BY <2>2
    <3>2. S = T \cup {x} BY <1>1, <1>3, <3>1
    <3>3. Cardinality(S) = Cardinality(T) + 1 BY <3>1, <3>2, <1>2, FS_AddElement
    <3> QED BY <3>3, <1>2
  <2> QED BY <2>1, <2>2
<1> QED BY <1>4 DEF S, T

\* Reading a line takes its event, if it starts one, off what is still to come.
LEMMA LineTaken ==
  ASSUME NEW b \in Seq(SSELines), b # <<>>, NEW seen \in BOOLEAN
  PROVE  /\ Tail(b) \in Seq(SSELines)
         /\ Head(b) = "blank" => Cardinality(StartsAfter(b, seen)) = Cardinality(StartsAfter(Tail(b), FALSE))
         /\ Head(b) = "skipped" => Cardinality(StartsAfter(b, seen)) = Cardinality(StartsAfter(Tail(b), seen))
         /\ Head(b) = "field" /\ seen => Cardinality(StartsAfter(b, seen)) = Cardinality(StartsAfter(Tail(b), TRUE))
         /\ Head(b) = "field" /\ ~seen => Cardinality(StartsAfter(b, seen)) = Cardinality(StartsAfter(Tail(b), TRUE)) + 1
<1> DEFINE t == Tail(b)
<1>0. /\ Len(b) \in Nat \ {0} /\ DOMAIN b = 1..Len(b) /\ Head(b) = b[1]
      /\ t \in Seq(SSELines) /\ DOMAIN t = 1..Len(b)-1 /\ \A i \in 1..Len(b)-1 : t[i] = b[i+1]
  BY HeadTailProperties, LenProperties, EmptySeq
<1>1. ASSUME NEW i \in Nat PROVE (i \in DOMAIN t <=> i + 1 \in DOMAIN b /\ i # 0) BY <1>0
<1> HIDE DEF t
<1>2. ASSUME NEW later \in BOOLEAN, Head(b) = "field" => later,
             Head(b) = "blank" => ~later, Head(b) = "skipped" => (later = seen)
      PROVE  \A i \in Nat \ {0} : i + 1 \in StartsAfter(b, seen) <=> i \in StartsAfter(t, later)
  <2>1. SUFFICES ASSUME NEW i \in 1..Len(b)-1
                 PROVE  i + 1 \in StartsAfter(b, seen) <=> i \in StartsAfter(t, later)
    <3>1. StartsAfter(b, seen) \subseteq 1..Len(b) /\ StartsAfter(t, later) \subseteq 1..Len(b)-1
      BY <1>0 DEF StartsAfter
    <3>2. \A i \in Nat \ {0} : i \notin 1..Len(b)-1 => i + 1 \notin 1..Len(b) BY <1>0
    <3> QED BY <3>1, <3>2
  <2>2. b[i+1] = t[i] BY <1>0
  <2>3. (\E k \in 1..(i+1)-1 : b[k] = "blank") <=> (Head(b) = "blank" \/ \E k \in 1..i-1 : t[k] = "blank")
    <3>1. \A k \in 1..i-1 : t[k] = b[k+1] /\ k+1 \in 1..(i+1)-1 BY <1>0
    <3>2. \A k \in 1..(i+1)-1 : k # 1 => k-1 \in 1..i-1 /\ t[k-1] = b[k]
      BY <1>0
    <3>3. 1 \in 1..(i+1)-1 OBVIOUS
    <3> QED BY <1>0, <3>1, <3>2, <3>3
  <2> DEFINE Sep(s, j, n) == \E k \in j..n : s[k] = "blank"
  <2>4. \A j \in 1..i : Sep(b, j+1, i+1) <=> Sep(t, j, i)
    <3>1. \A j \in 1..i : \A k \in j..i : t[k] = b[k+1] /\ k+1 \in j+1..i+1 BY <1>0
    <3>2. \A j \in 1..i : \A k \in j+1..i+1 : k-1 \in j..i /\ t[k-1] = b[k] BY <1>0
    <3> QED BY <3>1, <3>2
  <2>5. Sep(b, 1, i+1) <=> (Head(b) = "blank" \/ Sep(t, 1, i))
    <3>1. \A k \in 1..i : t[k] = b[k+1] /\ k+1 \in 1..i+1 BY <1>0
    <3>2. \A k \in 1..i+1 : k # 1 => k-1 \in 1..i /\ t[k-1] = b[k] BY <1>0
    <3>3. 1 \in 1..i+1 OBVIOUS
    <3> QED BY <1>0, <3>1, <3>2, <3>3
  <2> HIDE DEF Sep
  <2>6. (\A j \in 1..(i+1)-1 : b[j] = "field" => Sep(b, j, i+1))
          <=> /\ Head(b) = "field" => Sep(b, 1, i+1)
              /\ \A j \in 1..i-1 : t[j] = "field" => Sep(t, j, i)
    <3>1. \A j \in 1..i-1 : t[j] = b[j+1] /\ j+1 \in 1..(i+1)-1 /\ (Sep(b, j+1, i+1) <=> Sep(t, j, i)) BY <1>0, <2>4
    <3>2. \A j \in 1..(i+1)-1 : j # 1 => j-1 \in 1..i-1 /\ t[j-1] = b[j] /\ (j-1)+1 = j BY <1>0
    <3>3. 1 \in 1..(i+1)-1 OBVIOUS
    <3> QED BY <1>0, <3>1, <3>2, <3>3
  <2>7. i + 1 \in StartsAfter(b, seen) <=>
          /\ t[i] = "field"
          /\ seen => (Head(b) = "blank" \/ \E k \in 1..i-1 : t[k] = "blank")
          /\ Head(b) = "field" => Sep(t, 1, i)
          /\ \A j \in 1..i-1 : t[j] = "field" => Sep(t, j, i)
    <3>1. i + 1 \in DOMAIN b BY <1>0
    <3>2. i + 1 \in StartsAfter(b, seen) <=>
            /\ b[i+1] = "field"
            /\ seen => \E k \in 1..(i+1)-1 : b[k] = "blank"
            /\ \A j \in 1..(i+1)-1 : b[j] = "field" => Sep(b, j, i+1)
      BY <3>1 DEF StartsAfter, Sep
    <3> QED BY <3>2, <2>2, <2>3, <2>5, <2>6
  <2>8. i \in StartsAfter(t, later) <=>
          /\ t[i] = "field"
          /\ later => \E k \in 1..i-1 : t[k] = "blank"
          /\ \A j \in 1..i-1 : t[j] = "field" => Sep(t, j, i)
    BY <1>0 DEF StartsAfter, Sep
  <2>9. t[i] = "field" => (Sep(t, 1, i) <=> \E k \in 1..i-1 : t[k] = "blank")
    BY DEF Sep
  <2>10. Head(b) \in {"field", "skipped", "blank"} BY <1>0 DEF SSELines
  <2> QED BY <1>2, <2>7, <2>8, <2>9, <2>10
<1>3. \A later \in BOOLEAN : /\ StartsAfter(t, later) \subseteq Nat \ {0}
                             /\ IsFiniteSet(StartsAfter(t, later)) /\ Cardinality(StartsAfter(t, later)) \in Nat
  BY <1>0, StartsAfterFinite
<1>4. StartsAfter(b, seen) \subseteq Nat \ {0} /\ IsFiniteSet(StartsAfter(b, seen))
  BY StartsAfterFinite
<1>5. 1 \in StartsAfter(b, seen) <=> Head(b) = "field" /\ ~seen
  BY <1>0 DEF StartsAfter
<1>6. ASSUME NEW later \in BOOLEAN, Head(b) = "field" => later,
             Head(b) = "blank" => ~later, Head(b) = "skipped" => (later = seen)
      PROVE  Cardinality(StartsAfter(b, seen)) =
               Cardinality(StartsAfter(t, later)) + (IF 1 \in StartsAfter(b, seen) THEN 1 ELSE 0)
  <2> DEFINE S == StartsAfter(t, later)
             U == StartsAfter(b, seen)
             T == U \ {1}
  <2>1. \A i \in Nat \ {0} : i + 1 \in U <=> i \in S BY <1>2, <1>6
  <2>2. S \subseteq Nat \ {0} /\ IsFiniteSet(S) /\ Cardinality(S) \in Nat BY <1>3
  <2>3. U \subseteq Nat \ {0} /\ IsFiniteSet(U) BY <1>4
  <2> HIDE DEF S, U
  <2>4. T \subseteq Nat \ {0} /\ S \subseteq Nat BY <2>2, <2>3
  <2>5. \A i \in Nat : i + 1 \in T <=> i \in S BY <2>1, <2>2, <2>3
  <2>6. IsFiniteSet(T) /\ Cardinality(T) = (IF 1 \in U THEN Cardinality(U) - 1 ELSE Cardinality(U))
    BY <2>3, FS_RemoveElement
  <2> HIDE DEF T
  <2>7. Cardinality(T) = Cardinality(S) BY <2>2, <2>4, <2>5, Shifted
  <2>8. Cardinality(U) \in Nat BY <2>3, FS_CardinalityType
  <2>9. Cardinality(U) = Cardinality(S) + (IF 1 \in U THEN 1 ELSE 0) BY <2>2, <2>6, <2>7, <2>8
  <2> QED BY <2>9 DEF S, U
<1>7. t \in Seq(SSELines) BY <1>0
<1>8. \A later \in BOOLEAN : Cardinality(StartsAfter(t, later)) + 0 = Cardinality(StartsAfter(t, later)) BY <1>3
<1> QED BY <1>5, <1>6, <1>7, <1>8 DEF t

\* The number of those events: with the field of one seen, its own comes too.
NewEvents(b) == Cardinality(StartsAfter(b, FALSE))
LaterEvents(b) == Cardinality(StartsAfter(b, TRUE))
Fits(counted, seen, afterIt, fresh, carried) ==
  IF seen THEN counted + (afterIt + 1) <= carried ELSE counted + fresh <= carried

\* Forgetting the event that was begun; reaching its end; the start; the bound.
LEMMA FitsForgotten ==
  ASSUME NEW e \in Nat, NEW t \in Nat, NEW f \in Nat, NEW c \in Nat, NEW seen, Fits(e, seen, t, f, c), f <= t + 1
  PROVE  Fits(e, FALSE, t, f, c)
BY DEF Fits

\* Reaching the end of an event that was begun.
LEMMA FitsEnd ==
  ASSUME NEW e \in Nat, NEW c \in Nat, NEW t \in Nat, NEW f, NEW seen, Fits(e, seen, t, f, c), seen
  PROVE  Fits(e + 1, FALSE, t, 0, c) /\ e + 1 <= c
BY DEF Fits

\* Nothing is counted yet.
LEMMA FitsStart ==
  ASSUME NEW c \in Nat, NEW t, NEW seen, ~seen PROVE Fits(0, seen, t, c, c)
BY DEF Fits

\* What was counted fits on its own.
LEMMA FitsBound ==
  ASSUME NEW e \in Nat, NEW c \in Nat, NEW t \in Nat, NEW f \in Nat, NEW seen, Fits(e, seen, t, f, c)
  PROVE  e <= c
BY DEF Fits

\* What was counted, and what the rest of the response can still bring, is no
\* more than what the response carried.
StreamEvents ==
  /\ DOMAIN sse = StreamFields
  /\ body \in Seq(SSELines)
  /\ nextAt = "none" => ~frame
  /\ sse.events \in Nat /\ Cardinality(sse.carried) \in Nat
  /\ Fits(sse.events, frame, LaterEvents(body), NewEvents(body), Cardinality(sse.carried))

\* What a response carries is what it can bring from its start.
LEMMA StreamEventsInitially == StreamInit => StreamEvents
<1> SUFFICES ASSUME StreamInit PROVE StreamEvents
  OBVIOUS
<1>1. DOMAIN sse = StreamFields /\ sse.events = 0 /\ sse.carried = Starts(body)
  BY DEF StreamInit, StreamFields
<1>2. ~frame BY DEF StreamInit
<1>3. body \in Seq(SSELines)
  <2>1. body \in UNION {[1..n -> SSELines] : n \in 0..MaxLines} BY DEF StreamInit, Bodies
  <2>2. PICK n \in 0..MaxLines : body \in [1..n -> SSELines] BY <2>1
  <2>3. n \in Nat BY StreamAssumption DEF StreamAssumption
  <2> QED BY <2>2, <2>3, SeqDef
<1>4. Starts(body) = StartsAfter(body, FALSE) BY DEF Starts, StartsAfter
<1>5. NewEvents(body) = Cardinality(sse.carried) BY <1>1, <1>4 DEF NewEvents, LaterEvents
<1>6. NewEvents(body) \in Nat BY <1>3, StartsAfterFinite DEF NewEvents, LaterEvents
<1>7. Fits(sse.events, frame, LaterEvents(body), NewEvents(body), Cardinality(sse.carried))
  BY <1>1, <1>2, <1>5, <1>6, FitsStart
<1>8. sse.events \in Nat /\ Cardinality(sse.carried) \in Nat
  BY <1>1, <1>5, <1>6
<1> QED BY <1>1, <1>2, <1>3, <1>7, <1>8 DEF StreamEvents

\* The reader gives up the event it was reading.
LEMMA GivenUp ==
  ASSUME StreamEvents, UNCHANGED body, ~frame', DOMAIN sse' = StreamFields,
         sse'.events = sse.events, sse'.carried = sse.carried
  PROVE  StreamEvents'
<1>1. /\ NewEvents(body) <= LaterEvents(body) + 1
      /\ LaterEvents(body) \in Nat /\ NewEvents(body) \in Nat
  BY Forgotten, StartsAfterFinite DEF StreamEvents, NewEvents, LaterEvents
<1>2. /\ sse.events \in Nat /\ Cardinality(sse.carried) \in Nat /\ body \in Seq(SSELines)
      /\ Fits(sse.events, frame, LaterEvents(body), NewEvents(body), Cardinality(sse.carried))
  BY DEF StreamEvents
<1>3. Fits(sse.events, FALSE, LaterEvents(body), NewEvents(body), Cardinality(sse.carried))
  BY <1>1, <1>2, FitsForgotten
<1>4. Fits(sse'.events, frame', LaterEvents(body'), NewEvents(body'), Cardinality(sse'.carried))
  BY <1>3 DEF Fits
<1> QED BY <1>2, <1>4 DEF StreamEvents

\* A line, or the end of the response, counts the event it completes.
LEMMA LineCounted ==
  ASSUME StreamEvents, body # <<>>, NEW atEOF \in BOOLEAN, body' = Tail(body), Takes(Head(body), atEOF),
         atEOF => body' = <<>>
  PROVE  StreamEvents'
<1> DEFINE line == Head(body)
<1>1. /\ body' \in Seq(SSELines) /\ line \in {"field", "skipped", "blank"}
      /\ line = "blank" => LaterEvents(body) = NewEvents(body') /\ NewEvents(body) = NewEvents(body')
      /\ line = "skipped" => LaterEvents(body) = LaterEvents(body') /\ NewEvents(body) = NewEvents(body')
      /\ line = "field" => LaterEvents(body) = LaterEvents(body') /\ NewEvents(body) = LaterEvents(body') + 1
  <2>1. body \in Seq(SSELines) BY DEF StreamEvents
  <2>2. line \in {"field", "skipped", "blank"} BY <2>1, HeadTailProperties DEF SSELines
  <2>3. /\ line = "blank" => LaterEvents(body) = NewEvents(body')
        /\ line = "skipped" => LaterEvents(body) = LaterEvents(body')
        /\ line = "field" => LaterEvents(body) = LaterEvents(body')
    BY <2>1, LineTaken DEF NewEvents, LaterEvents
  <2>4. /\ line = "blank" => NewEvents(body) = NewEvents(body')
        /\ line = "skipped" => NewEvents(body) = NewEvents(body')
        /\ line = "field" => NewEvents(body) = LaterEvents(body') + 1
    BY <2>1, LineTaken DEF NewEvents, LaterEvents
  <2> QED BY <2>1, <2>2, <2>3, <2>4, LineTaken
<1>2. /\ LaterEvents(body') \in Nat /\ NewEvents(body') \in Nat
  BY <1>1, StartsAfterFinite DEF NewEvents, LaterEvents
<1>3. atEOF => NewEvents(body') = 0
  <2>1. ASSUME atEOF PROVE StartsAfter(body', FALSE) = {}
    BY <2>1 DEF StartsAfter
  <2> QED BY <2>1, FS_EmptySet DEF NewEvents, LaterEvents
<1> HIDE DEF line
<1>4. \/ (line = "blank" \/ atEOF) /\ (frame \/ line = "field") /\ nextAt' = "none" /\ ~frame' /\ Inc({"events"})
      \/ (line = "blank" \/ atEOF) /\ ~frame /\ line # "field" /\ ~frame' /\ UNCHANGED sse
      \/ line # "blank" /\ nextAt' = "loop" /\ (frame' <=> (frame \/ line = "field")) /\ UNCHANGED sse
  BY <1>1 DEF Takes, Returns, line
<1>5. Inc({"events"}) => DOMAIN sse' = StreamFields /\ sse'.events = sse.events + 1 /\ sse'.carried = sse.carried
  BY SSEAdds DEF StreamEvents
<1>6. /\ DOMAIN sse = StreamFields /\ sse.events \in Nat /\ Cardinality(sse.carried) \in Nat
      /\ Fits(sse.events, frame, LaterEvents(body), NewEvents(body), Cardinality(sse.carried))
  BY DEF StreamEvents
<1>7. DOMAIN sse' = StreamFields /\ sse'.carried = sse.carried /\ (nextAt' = "none" => ~frame')
  BY <1>4, <1>5, <1>6
<1>8. /\ sse'.events \in Nat
      /\ Fits(sse'.events, frame', LaterEvents(body'), NewEvents(body'), Cardinality(sse.carried))
  <2>1. \/ (line = "blank" \/ atEOF) /\ (frame \/ line = "field") /\ ~frame' /\ sse'.events = sse.events + 1
        \/ (line = "blank" \/ atEOF) /\ ~frame /\ line # "field" /\ ~frame' /\ sse'.events = sse.events
        \/ line # "blank" /\ (frame' <=> (frame \/ line = "field")) /\ sse'.events = sse.events
    BY <1>4, <1>5
  <2> DEFINE e == sse.events
             counted == sse'.events
             c == Cardinality(sse.carried)
             nowT == LaterEvents(body)
             nowF == NewEvents(body)
             t == LaterEvents(body')
             f == NewEvents(body')
  <2>2. /\ line \in {"field", "skipped", "blank"} /\ e \in Nat /\ c \in Nat /\ t \in Nat /\ f \in Nat
        /\ Fits(e, frame, nowT, nowF, c) /\ (atEOF => f = 0)
        /\ line = "blank" => nowT = f /\ nowF = f
        /\ line = "skipped" => nowT = t /\ nowF = f
        /\ line = "field" => nowT = t /\ nowF = t + 1
    BY <1>1, <1>2, <1>3, <1>6
  <2>3. \/ (line = "blank" \/ atEOF) /\ (frame \/ line = "field") /\ ~frame' /\ counted = e + 1
        \/ (line = "blank" \/ atEOF) /\ ~frame /\ line # "field" /\ ~frame' /\ counted = e
        \/ line # "blank" /\ (frame' <=> (frame \/ line = "field")) /\ counted = e
    BY <2>1
  <2> HIDE DEF e, counted, c, nowT, nowF, t, f
  <2>4. counted \in Nat /\ Fits(counted, frame', t, f, c)
    <3>1. CASE line = "blank" BY <2>2, <2>3, <3>1 DEF Fits
    <3>2. CASE line = "skipped" BY <2>2, <2>3, <3>2 DEF Fits
    <3>3. CASE line = "field" BY <2>2, <2>3, <3>3 DEF Fits
    <3> QED BY <2>2, <3>1, <3>2, <3>3
  <2> QED BY <2>4 DEF counted, c, t, f
<1>9. /\ Fits(sse'.events, frame', LaterEvents(body'), NewEvents(body'), Cardinality(sse'.carried))
      /\ Cardinality(sse'.carried) \in Nat
  BY <1>6, <1>7, <1>8
<1> QED BY <1>1, <1>7, <1>8, <1>9 DEF StreamEvents

\* A step that counts no event.
LEMMA OnlyErrors ==
  ASSUME DOMAIN sse = StreamFields, NEW fields \in SUBSET {"connections", "errors", "durations"},
         FailsWith(fields) \/ Inc(fields)
  PROVE  DOMAIN sse' = StreamFields /\ sse'.events = sse.events /\ sse'.carried = sse.carried
BY DEF FailsWith, Inc, StreamFields

\* Reading a line, dispatching an event and giving up keep the balance; the
\* other steps do not touch it.
LEMMA StreamEventsInductive == StreamEvents /\ [StreamNext]_sseVars => StreamEvents'
<1> SUFFICES ASSUME StreamEvents, [StreamNext]_sseVars PROVE StreamEvents'
  OBVIOUS
<1>1. ASSUME UNCHANGED <<body, frame>>, nextAt' = nextAt \/ nextAt' \in {"loop", "reading"},
             DOMAIN sse' = StreamFields, sse'.events = sse.events, sse'.carried = sse.carried
      PROVE  StreamEvents'
  BY <1>1 DEF StreamEvents
<1>2. CASE ParentEnds \/ DoStream \/ MonitorSeesParent \/ MonitorSeesStream \/ Events \/ Send \/ SendGivesUp
             \/ Receive \/ CloseCancels \/ UNCHANGED sseVars
  <2>1. UNCHANGED <<body, frame, nextAt, sse>>
    BY <1>2 DEF ParentEnds, DoStream, Events, Send, SendGivesUp, Receive, MonitorSeesParent, MonitorSeesStream,
      CloseCancels, sseVars, reading, response, life
  <2> QED BY <1>1, <2>1 DEF StreamEvents
<1>3. CASE ConnectFails \/ BadStatus \/ Connected \/ CloseBody
  <2>1. UNCHANGED <<body, frame, nextAt>>
    BY <1>3 DEF ConnectFails, BadStatus, Connected, CloseBody, reading, response
  <2>2. FailsWith({"connections", "errors"}) \/ Inc({"connections"}) \/ Inc({"durations"})
    BY <1>3 DEF ConnectFails, BadStatus, Connected, CloseBody
  <2>3. \A fields \in SUBSET {"connections", "errors", "durations"} : FailsWith(fields) \/ Inc(fields) =>
          DOMAIN sse' = StreamFields /\ sse'.events = sse.events /\ sse'.carried = sse.carried
    BY OnlyErrors DEF StreamEvents
  <2> QED BY <1>1, <2>1, <2>2, <2>3
<1>4. CASE CallNext \/ PumpCallsNext \/ CheckContext
  <2>1. UNCHANGED <<body, sse>>
    BY <1>4 DEF CallNext, PumpCallsNext, CheckContext, response
  <2>2. ~frame' \/ (frame' = frame /\ nextAt' \in {"loop", "reading"})
    BY <1>4 DEF CallNext, PumpCallsNext, CheckContext, Returns
  <2> QED BY <1>1, <2>1, <2>2, GivenUp DEF StreamEvents
<1>5. CASE ReadLine
  <2>1. /\ body # <<>> /\ body' = Tail(body)
        /\ Takes(Head(body), Len(body) = 1 /\ ending = "partial")
    BY <1>5 DEF ReadLine
  <2>2. Len(body) = 1 => Tail(body) = <<>>
    <3>1. body \in Seq(SSELines) BY DEF StreamEvents
    <3> QED BY <2>1, <3>1
  <2> QED BY <2>1, <2>2, LineCounted
<1>6. CASE ReadEOF
  <2>1. UNCHANGED body /\ Takes("blank", TRUE) BY <1>6 DEF ReadEOF, response
  <2>2. CASE frame
    <3>1. Inc({"events"}) /\ ~frame' BY <2>1, <2>2 DEF Takes, Returns
    <3>2. DOMAIN sse' = StreamFields /\ sse'.events = sse.events + 1 /\ sse'.carried = sse.carried
      BY <3>1, SSEAdds DEF StreamEvents
    <3>3. body = <<>> BY <1>6 DEF ReadEOF
    <3>4. StartsAfter(body, FALSE) = {} BY <3>3 DEF StartsAfter
    <3>5. NewEvents(body) = 0 BY <3>4, FS_EmptySet DEF NewEvents, LaterEvents
    <3>6. LaterEvents(body) \in Nat BY StartsAfterFinite DEF StreamEvents, NewEvents, LaterEvents
    <3>7. Fits(sse.events + 1, FALSE, LaterEvents(body), 0, Cardinality(sse.carried))
      BY <2>2, <3>6, FitsEnd DEF StreamEvents
    <3>8. Fits(sse'.events, frame', LaterEvents(body'), NewEvents(body'), Cardinality(sse'.carried))
      BY <2>1, <3>1, <3>2, <3>5, <3>7 DEF Fits
    <3>9. body' \in Seq(SSELines) /\ sse'.events \in Nat /\ Cardinality(sse'.carried) \in Nat
      BY <2>1, <3>2 DEF StreamEvents
    <3> QED BY <3>1, <3>2, <3>8, <3>9 DEF StreamEvents
  <2>3. CASE ~frame
    <3>1. UNCHANGED sse /\ ~frame' BY <2>1, <2>3 DEF Takes, Returns
    <3> QED BY <2>1, <3>1, GivenUp DEF StreamEvents
  <2> QED BY <2>2, <2>3
<1>7. CASE ReadFails
  <2>1. UNCHANGED body /\ ~frame' BY <1>7 DEF ReadFails, Returns, response
  <2>2. UNCHANGED sse \/ Inc({"errors"}) \/ FailsWith({"errors"}) BY <1>7 DEF ReadFails
  <2>3. \A fields \in SUBSET {"connections", "errors", "durations"} : FailsWith(fields) \/ Inc(fields) =>
          DOMAIN sse' = StreamFields /\ sse'.events = sse.events /\ sse'.carried = sse.carried
    BY OnlyErrors DEF StreamEvents
  <2>4. DOMAIN sse' = StreamFields /\ sse'.events = sse.events /\ sse'.carried = sse.carried
    BY <2>2, <2>3 DEF StreamEvents
  <2> QED BY <2>1, <2>4, GivenUp
<1> QED BY <1>2, <1>3, <1>4, <1>5, <1>6, <1>7 DEF StreamNext

\* A stream is counted as failed once at most, and only when it was refused or
\* broke; the events counted are no more than the response carried: for every
\* response, of any length, and however the caller, the monitor and the pump
\* interleave.
THEOREM StreamCountsWhatHappenedHolds == StreamSpec => []StreamCountsWhatHappened
<1>1. StreamErrors /\ StreamEvents => StreamCountsWhatHappened
  <2> SUFFICES ASSUME StreamErrors, StreamEvents PROVE StreamCountsWhatHappened
    OBVIOUS
  <2>1. LaterEvents(body) \in Nat /\ NewEvents(body) \in Nat
    BY StartsAfterFinite DEF StreamEvents, NewEvents, LaterEvents
  <2>2. sse.events <= Cardinality(sse.carried) BY <2>1, FitsBound DEF StreamEvents
  <2> QED BY <2>2 DEF StreamErrors, StreamCountsWhatHappened
<1> QED BY <1>1, StreamErrorsInitially, StreamErrorsInductive, StreamEventsInitially, StreamEventsInductive, PTL
         DEF StreamSpec

-----------------------------------------------------------------------------
(* Kafka: each call is counted as its caller saw it.                       *)

\* The counters and their history have the same kinds of calls, and agree.
KafkaCounts ==
  /\ DOMAIN kafkaMetrics = {"pub", "pubFailed", "sub", "subFailed"}
  /\ DOMAIN kafkaCalls = {"all", "pub", "pubFailed", "sub", "subFailed"}
  /\ KafkaCallsAreCounted

\* A call that is counted is counted as its caller saw it.
LEMMA CountedAsSeen ==
  ASSUME KafkaCounts, NEW kind, NEW failed, NEW new \in SUBSET {"all"},
         Counted(kind, failed), Outcome(new, kind, failed)
  PROVE  KafkaCounts'
BY DEF KafkaCounts, KafkaCallsAreCounted, Counted, Outcome, Bump

\* One that is not counted adds to the number of calls only.
LEMMA NotCounted ==
  ASSUME KafkaCounts, UNCHANGED kafkaMetrics, JustACall \/ UNCHANGED kafkaCalls
  PROVE  KafkaCounts'
BY DEF KafkaCounts, KafkaCallsAreCounted, JustACall, Bump

\* No call, no count.
LEMMA KafkaCountsInitially == KafkaInit => KafkaCounts
BY DEF KafkaInit, KafkaCounts, KafkaCallsAreCounted

\* Every way a call may end keeps the counters in step with it.
LEMMA KafkaCountsInductive == KafkaCounts /\ [KafkaNext]_kafkaVars => KafkaCounts'
<1> SUFFICES ASSUME KafkaCounts, [KafkaNext]_kafkaVars PROVE KafkaCounts'
  OBVIOUS
<1>1. ASSUME NEW v \in KafkaVUs, NEW failed \in BOOLEAN, Publish(v, failed) PROVE KafkaCounts'
  BY <1>1, CountedAsSeen DEF Publish
<1>2. ASSUME NEW v \in KafkaVUs, ConsumeOne(v) \/ \E n \in 0..1 : ConsumeFails(v, n) PROVE KafkaCounts'
  BY <1>2, CountedAsSeen DEF ConsumeOne, ConsumeFails
<1>3. ASSUME NEW v \in KafkaVUs, NEW records, NEW failed, BatchReturns(v, records, failed) PROVE KafkaCounts'
  BY <1>3, CountedAsSeen DEF BatchReturns
<1>4. ASSUME NEW v \in KafkaVUs, NEW n \in 0..TopicLength, PollBatch(v, n) PROVE KafkaCounts'
  BY <1>3, <1>4, NotCounted DEF PollBatch
<1>5. ASSUME NEW v \in KafkaVUs, BatchTimesOut(v) \/ \E n \in 0..TopicLength : PollBatchFails(v, n)
      PROVE  KafkaCounts'
  BY <1>3, <1>5 DEF BatchTimesOut, PollBatchFails
<1>6. ASSUME NEW v \in KafkaVUs,
             \/ DisabledCall(v) \/ ConsumeNothing(v) \/ \E size \in BatchSizes : BeginBatch(v, size)
             \/ \E msgs \in {<<"nil">>, <<"topic", "nil">>, <<"no topic">>} : PublishRefused(v, msgs)
      PROVE  KafkaCounts'
  BY <1>6, NotCounted DEF DisabledCall, ConsumeNothing, BeginBatch, PublishRefused
<1>7. CASE CloseKafka \/ UNCHANGED kafkaVars
  BY <1>7, NotCounted DEF CloseKafka, kafkaVars
<1> QED BY <1>1, <1>2, <1>4, <1>5, <1>6, <1>7 DEF KafkaNext

\* Every Kafka call is counted once, in the counters its caller can tell from
\* what it returned: for any number of virtual users and any interleaving.
THEOREM KafkaCallsAreCountedHolds == KafkaSpec => []KafkaCallsAreCounted
<1>1. KafkaCounts => KafkaCallsAreCounted
  BY DEF KafkaCounts
<1> QED BY <1>1, KafkaCountsInitially, KafkaCountsInductive, PTL DEF KafkaSpec

-----------------------------------------------------------------------------
(* Kafka: the records of the one consumer are dealt out among those who    *)
(* poll.                                                                   *)

\* The records of first+1..pos are dealt out: each is held once, in order, by one
\* virtual user, unless it is one of those lost.
Held(held, first, pos) ==
  \A v \in KafkaVUs : \A i \in DOMAIN held[v] : held[v][i] \in first+1..pos
OneHolder(held) ==
  \A u, v \in KafkaVUs : \A i \in DOMAIN held[u], j \in DOMAIN held[v] : held[u][i] = held[v][j] => u = v /\ i = j
InOrder(held) == \A v \in KafkaVUs : \A i, j \in DOMAIN held[v] : i < j => held[v][i] < held[v][j]
Covered(held, first, pos, lost) ==
  \A r \in first+1..pos : (\A v \in KafkaVUs : r \notin ToSet(held[v])) => r \in lost
Dealt(held, first, pos, lost) ==
  first <= pos /\ Held(held, first, pos) /\ OneHolder(held) /\ InOrder(held) /\ Covered(held, first, pos, lost)

\* Facts about sequences of numbers, for the provers to instantiate.
LEMMA ConcatOfNumbers ==
  ASSUME NEW s \in Seq(Nat), NEW t \in Seq(Nat)
  PROVE  /\ s \o t \in Seq(Nat) /\ Len(s \o t) = Len(s) + Len(t)
         /\ \A i \in 1..Len(s) + Len(t) : (s \o t)[i] = IF i <= Len(s) THEN s[i] ELSE t[i - Len(s)]
BY ConcatProperties

\* Dealing twice is dealing once.
LEMMA ConcatOfThree ==
  ASSUME NEW s \in Seq(Nat), NEW t \in Seq(Nat), NEW u \in Seq(Nat)
  PROVE  (s \o t) \o u = s \o (t \o u)
BY ConcatAssociative

\* Giving the next n records to one virtual user.
LEMMA DealNext ==
  ASSUME NEW first \in Nat, NEW pos \in Nat, NEW n \in Nat, NEW lost,
         NEW held \in [KafkaVUs -> Seq(Nat)], NEW v \in KafkaVUs, Dealt(held, first, pos, lost),
         NEW new \in Seq(Nat), Len(new) = n, \A i \in 1..n : new[i] = pos + i
  PROVE  Dealt([held EXCEPT ![v] = @ \o new], first, pos + n, lost)
<1> DEFINE now == [held EXCEPT ![v] = @ \o new]
           len == Len(held[v])
<1>1. /\ \A u \in KafkaVUs : DOMAIN held[u] \subseteq Nat
      /\ DOMAIN held[v] = 1..len /\ len \in Nat
      /\ DOMAIN now[v] = 1..len + n
      /\ \A i \in 1..len : now[v][i] = held[v][i]
      /\ \A i \in len + 1..len + n : now[v][i] = pos + i - len
  <2>1. now[v] = held[v] \o new /\ held[v] \in Seq(Nat)
    OBVIOUS
  <2>2. \A u \in KafkaVUs : DOMAIN held[u] \subseteq Nat
    OBVIOUS
  <2> HIDE DEF now
  <2>3. /\ now[v] \in Seq(Nat) /\ Len(now[v]) = Len(held[v]) + Len(new)
        /\ \A i \in 1..Len(held[v]) + Len(new) :
             now[v][i] = IF i <= Len(held[v]) THEN held[v][i] ELSE new[i - Len(held[v])]
    <3> DEFINE joint == held[v] \o new
    <3>1. /\ joint \in Seq(Nat) /\ Len(joint) = Len(held[v]) + Len(new)
          /\ \A i \in 1..Len(held[v]) + Len(new) :
               joint[i] = IF i <= Len(held[v]) THEN held[v][i] ELSE new[i - Len(held[v])]
      BY <2>1, ConcatOfNumbers
    <3>2. now[v] = joint
      BY <2>1
    <3> HIDE DEF joint
    <3> QED BY <3>1, <3>2
  <2>4. len \in Nat /\ DOMAIN held[v] = 1..len /\ DOMAIN now[v] = 1..len + n
    BY <2>1, <2>3
  <2>5. ASSUME NEW i \in 1..len PROVE now[v][i] = held[v][i]
    <3>1. i \in 1..Len(held[v]) + Len(new) /\ i <= Len(held[v])
      BY <2>4
    <3> QED BY <2>3, <3>1
  <2>6. ASSUME NEW i \in len + 1..len + n PROVE now[v][i] = pos + i - len
    <3>1. i \in 1..len + n /\ ~(i <= len) /\ i - len \in 1..n
      BY <2>4
    <3>2. now[v][i] = new[i - len]
      BY <2>3, <3>1
    <3> QED BY <2>4, <3>1, <3>2
  <2> QED BY <2>2, <2>4, <2>5, <2>6
<1>2. \A u \in KafkaVUs \ {v} : now[u] = held[u]
  OBVIOUS
<1>3. first <= pos /\ Held(held, first, pos) /\ OneHolder(held) /\ InOrder(held) /\ Covered(held, first, pos, lost)
  BY DEF Dealt
<1> HIDE DEF now, len
<1>4. Held(now, first, pos + n)
  <2> SUFFICES ASSUME NEW u \in KafkaVUs, NEW i \in DOMAIN now[u] PROVE now[u][i] \in first+1..pos+n
    BY DEF Held
  <2>1. CASE u # v
    BY <1>2, <1>3, <2>1 DEF Held
  <2>2. CASE u = v /\ i <= len
    <3>1. i \in DOMAIN held[v] /\ now[u][i] = held[v][i]
      BY <1>1, <2>2
    <3>2. held[v][i] \in first+1..pos
      BY <1>3, <3>1 DEF Held
    <3> QED BY <3>1, <3>2
  <2>3. CASE u = v /\ i > len
    <3>1. i \in len + 1..len + n
      BY <1>1, <2>3
    <3>2. now[u][i] = pos + i - len
      BY <1>1, <2>3, <3>1
    <3> QED BY <1>1, <1>3, <3>1, <3>2
  <2> QED BY <1>1, <2>1, <2>2, <2>3
<1>5. ASSUME NEW u \in KafkaVUs, u # v, NEW i \in DOMAIN held[u], NEW j \in 1..len + n
      PROVE  held[u][i] # now[v][j]
  <2>1. CASE j <= len
    <3>1. j \in DOMAIN held[v] /\ now[v][j] = held[v][j]
      BY <1>1, <2>1
    <3> QED BY <1>3, <1>5, <3>1 DEF OneHolder
  <2>2. CASE j > len
    <3>1. now[v][j] = pos + j - len
      BY <1>1, <2>2
    <3>2. held[u][i] \in first+1..pos
      BY <1>3 DEF Held
    <3> QED BY <1>1, <2>2, <3>1, <3>2
  <2> QED BY <1>1, <2>1, <2>2
<1>6. ASSUME NEW i \in 1..len + n, NEW j \in 1..len + n, i < j
      PROVE  now[v][i] < now[v][j]
  <2>1. CASE j <= len
    <3>1. i \in DOMAIN held[v] /\ j \in DOMAIN held[v] /\ now[v][i] = held[v][i] /\ now[v][j] = held[v][j]
      BY <1>1, <1>6, <2>1
    <3> QED BY <1>3, <1>6, <3>1 DEF InOrder
  <2>2. CASE i > len
    <3>1. i \in len + 1..len + n /\ j \in len + 1..len + n
      BY <1>1, <1>6, <2>2
    <3>2. now[v][i] = pos + i - len /\ now[v][j] = pos + j - len
      BY <1>1, <3>1
    <3> QED BY <1>1, <1>6, <3>1, <3>2
  <2>3. CASE i <= len /\ j > len
    <3>1. now[v][j] = pos + j - len
      BY <1>1, <2>3
    <3>2. i \in DOMAIN held[v] /\ now[v][i] = held[v][i]
      BY <1>1, <1>6, <2>3
    <3>3. now[v][i] \in first+1..pos
      BY <1>3, <3>2 DEF Held
    <3>4. len \in Nat /\ j \in Int BY <1>1
    <3>5. pos + j - len > pos BY <2>3, <3>4
    <3>6. now[v][i] \in Int /\ now[v][i] <= pos BY <3>3
    <3> QED BY <3>1, <3>4, <3>5, <3>6
  <2> QED BY <1>1, <2>1, <2>2, <2>3
<1>7. OneHolder(now)
  <2> SUFFICES ASSUME NEW u \in KafkaVUs, NEW w \in KafkaVUs, NEW i \in DOMAIN now[u], NEW j \in DOMAIN now[w],
                      now[u][i] = now[w][j]
               PROVE  u = w /\ i = j
    BY DEF OneHolder
  <2>1. CASE u # v /\ w # v
    BY <1>2, <1>3, <2>1 DEF OneHolder
  <2>2. CASE u = v /\ w # v
    BY <1>1, <1>2, <1>5, <2>2
  <2>3. CASE u # v /\ w = v
    BY <1>1, <1>2, <1>5, <2>3
  <2>4. CASE u = v /\ w = v
    <3>1. i \in 1..len + n /\ j \in 1..len + n /\ now[v][i] = now[v][j]
      BY <1>1, <2>4
    <3>2. now[v][i] \in first+1..pos+n /\ now[v][j] \in first+1..pos+n
      BY <1>1, <1>4, <3>1 DEF Held
    <3>3. ~(i < j) /\ ~(j < i)
      BY <1>6, <3>1, <3>2
    <3> QED BY <1>1, <2>4, <3>1, <3>3
  <2> QED BY <2>1, <2>2, <2>3, <2>4
<1>8. InOrder(now)
  <2> SUFFICES ASSUME NEW u \in KafkaVUs, NEW i \in DOMAIN now[u], NEW j \in DOMAIN now[u], i < j
               PROVE  now[u][i] < now[u][j]
    BY DEF InOrder
  <2>1. CASE u # v
    BY <1>2, <1>3, <2>1 DEF InOrder
  <2>2. CASE u = v
    BY <1>1, <1>6, <2>2
  <2> QED BY <2>1, <2>2
<1>9. Covered(now, first, pos + n, lost)
  <2> SUFFICES ASSUME NEW r \in first+1..pos + n, \A u \in KafkaVUs : r \notin ToSet(now[u])
               PROVE  r \in lost
    BY DEF Covered
  <2>1. r <= pos
    <3> SUFFICES ASSUME r > pos PROVE FALSE
      OBVIOUS
    <3>1. r - pos + len \in len + 1..len + n
      BY <1>1
    <3>2. now[v][r - pos + len] = r /\ r - pos + len \in DOMAIN now[v]
      BY <1>1, <3>1
    <3> QED BY <3>2 DEF ToSet
  <2>2. ASSUME NEW u \in KafkaVUs PROVE r \notin ToSet(held[u])
    <3>1. CASE u # v
      BY <1>2, <3>1
    <3>2. CASE u = v
      <4>1. \A i \in 1..len : now[v][i] # r
        BY <1>1, <3>2 DEF ToSet
      <4> QED BY <1>1, <3>2, <4>1 DEF ToSet
    <3> QED BY <3>1, <3>2
  <2> QED BY <1>3, <2>1, <2>2 DEF Covered
<1> QED BY <1>3, <1>4, <1>7, <1>8, <1>9 DEF Dealt, now

\* Losing the next n records.
LEMMA LoseNext ==
  ASSUME NEW first \in Nat, NEW pos \in Nat, NEW n \in Nat, NEW lost, NEW held,
         Dealt(held, first, pos, lost), NEW new \in Seq(Nat), Len(new) = n, \A i \in 1..n : new[i] = pos + i
  PROVE  Dealt(held, first, pos + n, lost \cup ToSet(new))
<1>1. \A r \in pos+1..pos+n : r \in ToSet(new)
  <2> TAKE r \in pos+1..pos+n
  <2>1. r - pos \in DOMAIN new /\ new[r - pos] = r
    OBVIOUS
  <2> QED BY <2>1 DEF ToSet
<1>2. first <= pos /\ first <= pos + n
  BY DEF Dealt
<1>3. Held(held, first, pos + n)
  BY <1>2 DEF Dealt, Held
<1>4. Covered(held, first, pos + n, lost \cup ToSet(new))
  BY <1>1, <1>2 DEF Dealt, Covered
<1> QED BY <1>2, <1>3, <1>4 DEF Dealt
-----------------------------------------------------------------------------
\* What the virtual users share is typed, and a batch that runs still needs
\* records while one that does not holds none.
ConsumerTypes ==
  /\ position \in Nat
  /\ want \in [KafkaVUs -> Nat]
  /\ batch \in [KafkaVUs -> Seq(Nat)] /\ returned \in [KafkaVUs -> Seq(Nat)]
  /\ \A v \in KafkaVUs : IF want[v] = 0 THEN batch[v] = <<>> ELSE Len(batch[v]) < want[v]

Holdings == [v \in KafkaVUs |-> Holding(v)]

ReaderInv == ConsumerTypes /\ Dealt(Holdings, FirstPosition(kcfg), position, besideError)

\* The client starts at the end of the topic or at its start.
LEMMA FirstPositionIsNat == FirstPosition(kcfg) \in Nat
BY KafkaAssumption DEF FirstPosition

\* Initially nothing was polled, and nobody holds a record.
LEMMA ReaderInitially == KafkaInit => ReaderInv
<1> SUFFICES ASSUME KafkaInit PROVE ReaderInv
  OBVIOUS
<1>1. \A v \in KafkaVUs : Holdings[v] = <<>>
  BY DEF KafkaInit, Holdings, Holding
<1> QED BY <1>1, FirstPositionIsNat DEF KafkaInit, ReaderInv, ConsumerTypes, Dealt, Held, OneHolder, InOrder, Covered

\* What a virtual user holds is a sequence of numbers.
LEMMA HoldingsAreSeqs == ConsumerTypes => Holdings \in [KafkaVUs -> Seq(Nat)]
BY DEF ConsumerTypes, Holdings, Holding

\* A poll returns as many records as it says.
LEMMA PolledRecords ==
  ASSUME NEW n \in Nat, position \in Nat
  PROVE  Polled(n) \in Seq(Nat) /\ Len(Polled(n)) = n /\ \A i \in 1..n : Polled(n)[i] = position + i
BY DEF Polled

\* A step that moves no record.
LEMMA NothingMoves ==
  ASSUME ReaderInv, ConsumerTypes', UNCHANGED <<Holdings, kcfg, position, besideError>>
  PROVE  ReaderInv'
BY DEF ReaderInv, FirstPosition, Dealt, Held, OneHolder, InOrder, Covered

\* A poll that gives its records to one virtual user.
LEMMA PollDelivers ==
  ASSUME ReaderInv, ConsumerTypes', NEW v \in KafkaVUs, NEW n \in Nat, Advance(n),
         UNCHANGED <<kcfg, besideError>>, Holdings' = [Holdings EXCEPT ![v] = @ \o Polled(n)]
  PROVE  ReaderInv'
<1>1. Dealt([Holdings EXCEPT ![v] = @ \o Polled(n)], FirstPosition(kcfg), position + n, besideError)
  BY FirstPositionIsNat, HoldingsAreSeqs, PolledRecords, DealNext DEF ReaderInv, ConsumerTypes
<1>2. FirstPosition(kcfg)' = FirstPosition(kcfg)
  BY DEF FirstPosition
<1> QED BY <1>1, <1>2 DEF ReaderInv, Advance, Dealt, Held, OneHolder, InOrder, Covered

\* A poll whose records are dropped, because it reported an error too.
LEMMA PollDrops ==
  ASSUME ReaderInv, ConsumerTypes', NEW n \in Nat, Advance(n), Drops(n), UNCHANGED <<kcfg, Holdings>>
  PROVE  ReaderInv'
<1>1. Dealt(Holdings, FirstPosition(kcfg), position + n, besideError \cup ToSet(Polled(n)))
  BY FirstPositionIsNat, PolledRecords, LoseNext DEF ReaderInv, ConsumerTypes
<1>2. FirstPosition(kcfg)' = FirstPosition(kcfg)
  BY DEF FirstPosition
<1> QED BY <1>1, <1>2 DEF ReaderInv, Advance, Drops, Dealt, Held, OneHolder, InOrder, Covered

\* Every call of a virtual user, and closing the client.
LEMMA ReaderInductive == ReaderInv /\ [KafkaNext]_kafkaVars => ReaderInv'
<1> SUFFICES ASSUME ReaderInv, [KafkaNext]_kafkaVars PROVE ReaderInv'
  OBVIOUS
<1>0. ConsumerTypes
  BY DEF ReaderInv
<1>a. ASSUME UNCHANGED <<kcfg, consuming>> PROVE ReaderInv'
  BY <1>0, <1>a, NothingMoves DEF consuming, ConsumerTypes, Holdings, Holding
<1>1. ASSUME NEW v \in KafkaVUs, ConsumeOne(v) PROVE ReaderInv'
  <2>1. /\ Polled(1) \in Seq(Nat) /\ want[v] = 0 /\ batch[v] = <<>>
        /\ position' = position + 1 /\ returned' = [returned EXCEPT ![v] = @ \o Polled(1)]
        /\ UNCHANGED <<kcfg, want, batch, besideError>>
    BY <1>0, <1>1, PolledRecords DEF ConsumeOne, Calls0, Advance, Gives, kafkaClient, ConsumerTypes
  <2>2. ConsumerTypes'
    BY <1>0, <2>1 DEF ConsumerTypes
  <2>3. Holding(v)' = Holding(v) \o Polled(1)
    <3>1. returned[v] \in Seq(Nat) /\ returned'[v] = returned[v] \o Polled(1) /\ batch'[v] = <<>>
      BY <1>0, <2>1 DEF ConsumerTypes
    <3> QED BY <2>1, <3>1, ConcatEmptySeq, ConcatProperties DEF Holding
  <2>4. Holdings' = [Holdings EXCEPT ![v] = @ \o Polled(1)]
    BY <1>0, <2>1, <2>3 DEF Holdings, Holding, ConsumerTypes
  <2> QED BY <1>1, <2>1, <2>2, <2>4, PollDelivers DEF ConsumeOne
<1>2. ASSUME NEW v \in KafkaVUs, NEW n \in 0..1, ConsumeFails(v, n) PROVE ReaderInv'
  <2>1. ConsumerTypes' /\ UNCHANGED Holdings
    BY <1>0, <1>2 DEF ConsumeFails, Advance, ConsumerTypes, Holdings, Holding
  <2> QED BY <1>2, <2>1, PollDrops DEF ConsumeFails, kafkaClient
<1>3. ASSUME NEW v \in KafkaVUs, NEW size \in BatchSizes, BeginBatch(v, size) PROVE ReaderInv'
  <2>1. batch[v] = <<>> /\ want' = [want EXCEPT ![v] = IF size <= 0 THEN DefaultBatch ELSE size]
        /\ UNCHANGED <<kcfg, position, batch, returned, besideError>>
    BY <1>0, <1>3 DEF BeginBatch, Calls0, kafkaClient, ConsumerTypes
  <2>2. ConsumerTypes'
    BY <1>0, <2>1, KafkaAssumption DEF ConsumerTypes
  <2> QED BY <2>1, <2>2, NothingMoves DEF Holdings, Holding
<1>4. ASSUME NEW v \in KafkaVUs, NEW n \in 0..TopicLength, PollBatch(v, n) PROVE ReaderInv'
  <2> DEFINE got == batch[v] \o Polled(n)
  <2>0. n \in Nat /\ n <= want[v] - Len(batch[v])
    BY <1>4, KafkaAssumption DEF PollBatch, CanPoll, Needed
  <2>1. /\ Polled(n) \in Seq(Nat) /\ want[v] \in Nat /\ want[v] > 0 /\ batch[v] \in Seq(Nat) /\ Len(got) <= want[v]
        /\ position' = position + n /\ got \in Seq(Nat) /\ returned[v] \in Seq(Nat)
    BY <1>0, <1>4, <2>0, PolledRecords DEF PollBatch, Advance, ConsumerTypes
  <2>2. CASE Len(got) >= want[v]
    <3>1. SubSeq(got, 1, want[v]) = got
      <4>1. got \in Seq(Nat) /\ Len(got) = want[v]
        <5> HIDE DEF got
        <5> QED BY <2>1, <2>2
      <4> HIDE DEF got
      <4> QED BY <4>1
    <3>2. /\ want' = [want EXCEPT ![v] = 0] /\ batch' = [batch EXCEPT ![v] = <<>>]
          /\ returned' = [returned EXCEPT ![v] = @ \o got]
      BY <1>4, <2>2, <3>1 DEF PollBatch, BatchReturns, Gives
    <3> HIDE DEF got
    <3>3. ConsumerTypes'
      BY <1>0, <2>0, <2>1, <3>2 DEF ConsumerTypes
    <3>4. Holding(v)' = Holding(v) \o Polled(n)
      <4>1. returned'[v] = returned[v] \o got /\ batch'[v] = <<>>
        BY <1>0, <3>2 DEF ConsumerTypes
      <4>2. /\ Holding(v)' = (returned[v] \o got) \o <<>> /\ Holding(v) = returned[v] \o batch[v]
            /\ returned[v] \o got \in Seq(Nat)
        BY <2>1, <4>1 DEF Holding
      <4>3. Holding(v)' = returned[v] \o (batch[v] \o Polled(n))
        BY <4>2, ConcatEmptySeq DEF got
      <4>4. (returned[v] \o batch[v]) \o Polled(n) = returned[v] \o (batch[v] \o Polled(n))
        BY <2>1, ConcatOfThree
      <4> QED BY <4>2, <4>3, <4>4
    <3>5. Holdings' = [Holdings EXCEPT ![v] = @ \o Polled(n)]
      BY <1>0, <3>2, <3>4 DEF Holdings, Holding, ConsumerTypes
    <3> QED BY <1>4, <2>0, <3>3, <3>5, PollDelivers DEF PollBatch, kafkaClient
  <2>3. CASE Len(got) < want[v]
    <3>2. UNCHANGED <<want, returned>> /\ batch' = [batch EXCEPT ![v] = got]
      <4>1. ~(Len(got) >= want[v])
        BY <2>1, <2>3
      <4> QED BY <1>4, <4>1 DEF PollBatch
    <3> HIDE DEF got
    <3>3. ConsumerTypes'
      BY <1>0, <2>0, <2>1, <2>3, <3>2 DEF ConsumerTypes
    <3>4. Holding(v)' = Holding(v) \o Polled(n)
      <4>1. returned'[v] = returned[v] /\ batch'[v] = got
        BY <1>0, <3>2 DEF ConsumerTypes
      <4>2. Holding(v)' = returned[v] \o (batch[v] \o Polled(n)) /\ Holding(v) = returned[v] \o batch[v]
        BY <4>1 DEF Holding, got
      <4>4. (returned[v] \o batch[v]) \o Polled(n) = returned[v] \o (batch[v] \o Polled(n))
        BY <2>1, ConcatOfThree
      <4> QED BY <4>2, <4>4
    <3>5. Holdings' = [Holdings EXCEPT ![v] = @ \o Polled(n)]
      BY <1>0, <3>2, <3>4 DEF Holdings, Holding, ConsumerTypes
    <3> QED BY <1>4, <2>0, <3>3, <3>5, PollDelivers DEF PollBatch, kafkaClient
  <2> QED BY <2>1, <2>2, <2>3
<1>5. ASSUME NEW v \in KafkaVUs, BatchReturns(v, batch[v], batch[v] = <<>>) \/ BatchReturns(v, batch[v], FALSE)
      PROVE  Holdings' = Holdings /\ (position' \in Nat => ConsumerTypes')
  <2>1. /\ want' = [want EXCEPT ![v] = 0] /\ batch' = [batch EXCEPT ![v] = <<>>]
        /\ returned' = [returned EXCEPT ![v] = @ \o batch[v]]
    BY <1>5 DEF BatchReturns, Gives
  <2>2. Holding(v)' = Holding(v)
    <3>1. returned'[v] = returned[v] \o batch[v] /\ batch'[v] = <<>> /\ returned[v] \in Seq(Nat) /\ batch[v] \in Seq(Nat)
      BY <1>0, <2>1 DEF ConsumerTypes
    <3> QED BY <3>1, ConcatEmptySeq, ConcatProperties DEF Holding
  <2>3. ASSUME position' \in Nat PROVE ConsumerTypes'
    BY <1>0, <2>1, <2>3 DEF ConsumerTypes
  <2>4. Holdings' = Holdings
    BY <1>0, <2>1, <2>2 DEF Holdings, Holding, ConsumerTypes
  <2> QED BY <2>3, <2>4
<1>6. ASSUME NEW v \in KafkaVUs, NEW n \in 0..TopicLength, PollBatchFails(v, n) PROVE ReaderInv'
  <2>1. n \in Nat /\ Advance(n) /\ Drops(n) /\ UNCHANGED kcfg /\ BatchReturns(v, batch[v], batch[v] = <<>>)
    BY <1>6, KafkaAssumption DEF PollBatchFails, kafkaClient
  <2>2. position' \in Nat
    BY <1>0, <2>1 DEF Advance, ConsumerTypes
  <2> QED BY <1>5, <2>1, <2>2, PollDrops
<1>7. ASSUME NEW v \in KafkaVUs, BatchTimesOut(v) PROVE ReaderInv'
  <2>1. BatchReturns(v, batch[v], FALSE) /\ UNCHANGED <<kcfg, position, besideError>>
    BY <1>7 DEF BatchTimesOut, kafkaClient
  <2> QED BY <1>0, <1>5, <2>1, NothingMoves DEF ConsumerTypes
<1>8. CASE CloseKafka
  BY <1>a, <1>8 DEF CloseKafka
<1>9. ASSUME NEW v \in KafkaVUs,
             DisabledCall(v) \/ ConsumeNothing(v) \/ (\E failed \in BOOLEAN : Publish(v, failed))
             \/ \E msgs \in {<<"nil">>, <<"topic", "nil">>, <<"no topic">>} : PublishRefused(v, msgs)
      PROVE  ReaderInv'
  BY <1>a, <1>9 DEF DisabledCall, ConsumeNothing, Publish, PublishRefused, kafkaClient
<1>10. CASE UNCHANGED kafkaVars
  BY <1>a, <1>10 DEF kafkaVars, consuming
<1> QED BY <1>1, <1>2, <1>3, <1>4, <1>6, <1>7, <1>8, <1>9, <1>10 DEF KafkaNext

\* However many share the consumer, a record that was polled is with exactly one
\* of them, in order, or came beside an error.
THEOREM PolledRecordsReachOneReaderHolds == KafkaSpec => []PolledRecordsReachOneReader
<1>1. ReaderInv => PolledRecordsReachOneReader
  BY DEF ReaderInv, Dealt, OneHolder, InOrder, Covered, Holdings, PolledRecordsReachOneReader
<1> QED BY <1>1, ReaderInitially, ReaderInductive, PTL DEF KafkaSpec

-----------------------------------------------------------------------------
(* NATS: each call is counted as its caller saw it.                        *)

\* The metrics and the history are records of numbers, and agree.
NATSMetricNames ==
  {"pub_duration", "req_duration", "pub_total", "pub_failed", "sub_received_total", "sub_failed"}

NATSCounts ==
  /\ DOMAIN natsMetrics = NATSMetricNames
  /\ natsCalls \in [all : Nat, pub : Nat, req : Nat, pubFailed : Nat, next : Nat, nextFailed : Nat]
  /\ NATSCallsAreCounted

\* No call, no count.
LEMMA NATSCountsInitially == NATSInit => NATSCounts
BY DEF NATSInit, NATSCounts, NATSMetricNames, NATSCallsAreCounted

\* What a call adds to the history.
LEMMA CallAdds ==
  ASSUME NATSCounts, NEW v, NEW answer, NEW fields, CallReturns(v, answer, fields)
  PROVE  /\ natsCalls' \in [all : Nat, pub : Nat, req : Nat, pubFailed : Nat, next : Nat, nextFailed : Nat]
         /\ natsCalls'.pub = natsCalls.pub + (IF "pub" \in fields THEN 1 ELSE 0)
         /\ natsCalls'.req = natsCalls.req + (IF "req" \in fields THEN 1 ELSE 0)
         /\ natsCalls'.pubFailed = natsCalls.pubFailed + (IF "pubFailed" \in fields THEN 1 ELSE 0)
         /\ natsCalls'.next = natsCalls.next + (IF "next" \in fields THEN 1 ELSE 0)
         /\ natsCalls'.nextFailed = natsCalls.nextFailed + (IF "nextFailed" \in fields THEN 1 ELSE 0)
BY DEF NATSCounts, CallReturns

\* A call that uses nothing of the broker.
LEMMA CallUncounted ==
  ASSUME NATSCounts, UNCHANGED natsMetrics, NEW v, NEW answer,
         CallReturns(v, answer, {}) \/ UNCHANGED natsCalls
  PROVE  NATSCounts'
<1>1. CASE CallReturns(v, answer, {})
  BY <1>1, CallAdds DEF NATSCounts, NATSCallsAreCounted
<1>2. CASE UNCHANGED natsCalls
  BY <1>2 DEF NATSCounts, NATSCallsAreCounted
<1> QED BY <1>1, <1>2

\* What a publication adds to the metrics.
LEMMA PublicationAdds ==
  ASSUME NATSCounts, NEW duration \in {"pub_duration", "req_duration"}, NEW failed \in BOOLEAN,
         RecordPub(duration, failed)
  PROVE  /\ DOMAIN natsMetrics' = NATSMetricNames
         /\ natsMetrics'.pub_duration = natsMetrics.pub_duration + (IF duration = "pub_duration" THEN 1 ELSE 0)
         /\ natsMetrics'.req_duration = natsMetrics.req_duration + (IF duration = "req_duration" THEN 1 ELSE 0)
         /\ natsMetrics'.pub_total = natsMetrics.pub_total + 1
         /\ natsMetrics'.pub_failed = <<natsMetrics.pub_failed[1] + (IF failed THEN 1 ELSE 0), natsMetrics.pub_failed[2] + 1>>
         /\ natsMetrics'.sub_received_total = natsMetrics.sub_received_total
         /\ natsMetrics'.sub_failed = natsMetrics.sub_failed
<1>1. /\ DOMAIN natsMetrics = NATSMetricNames
      /\ natsMetrics' = [[[natsMetrics EXCEPT ![duration] = natsMetrics[duration] + 1]
                            EXCEPT !.pub_total = natsMetrics.pub_total + 1]
                            EXCEPT !.pub_failed = Sample(natsMetrics.pub_failed, failed)]
  BY DEF NATSCounts, NATSMetricNames, RecordPub
<1>2. \A f \in NATSMetricNames : natsMetrics'[f] =
        CASE f = "pub_failed"  -> Sample(natsMetrics.pub_failed, failed)
          [] f = "pub_total"   -> natsMetrics.pub_total + 1
          [] f = duration      -> natsMetrics[duration] + 1
          [] OTHER             -> natsMetrics[f]
  BY <1>1 DEF NATSMetricNames
<1>3. DOMAIN natsMetrics' = NATSMetricNames
  BY <1>1
<1>4. /\ natsMetrics'.pub_failed = Sample(natsMetrics.pub_failed, failed)
      /\ natsMetrics'.pub_total = natsMetrics.pub_total + 1
      /\ natsMetrics'.sub_received_total = natsMetrics.sub_received_total
      /\ natsMetrics'.sub_failed = natsMetrics.sub_failed
  BY <1>2 DEF NATSMetricNames
<1>5. CASE duration = "pub_duration"
  BY <1>2, <1>3, <1>4, <1>5 DEF NATSMetricNames, NATSCounts, NATSCallsAreCounted, Sample
<1>6. CASE duration = "req_duration"
  BY <1>2, <1>3, <1>4, <1>6 DEF NATSMetricNames, NATSCounts, NATSCallsAreCounted, Sample
<1> QED BY <1>5, <1>6

\* A message published and a request.
LEMMA PublishCounted ==
  ASSUME NATSCounts, NEW v, NEW answer, NEW failed \in BOOLEAN,
         CallReturns(v, answer, IF failed THEN {"pub", "pubFailed"} ELSE {"pub"}),
         RecordPub("pub_duration", failed)
  PROVE  NATSCounts'
BY CallAdds, PublicationAdds DEF NATSCounts, NATSCallsAreCounted

\* A request and its reply, or its failure.
LEMMA RequestCounted ==
  ASSUME NATSCounts, NEW v, NEW answer, NEW failed \in BOOLEAN,
         CallReturns(v, answer, IF failed THEN {"req", "pubFailed"} ELSE {"req"}),
         RecordPub("req_duration", failed)
  PROVE  NATSCounts'
BY CallAdds, PublicationAdds DEF NATSCounts, NATSCallsAreCounted

\* A wait for a message.
LEMMA WaitCounted ==
  ASSUME NATSCounts, NEW v, NEW answer, NEW failed \in BOOLEAN,
         CallReturns(v, answer, IF failed THEN {"next", "nextFailed"} ELSE {"next"}),
         RecordSub(failed)
  PROVE  NATSCounts'
<1>2. /\ DOMAIN natsMetrics' = NATSMetricNames
      /\ natsMetrics'.sub_received_total = natsMetrics.sub_received_total + (IF failed THEN 0 ELSE 1)
      /\ natsMetrics'.sub_failed = <<natsMetrics.sub_failed[1] + (IF failed THEN 1 ELSE 0), natsMetrics.sub_failed[2] + 1>>
      /\ natsMetrics'.pub_duration = natsMetrics.pub_duration /\ natsMetrics'.req_duration = natsMetrics.req_duration
      /\ natsMetrics'.pub_total = natsMetrics.pub_total /\ natsMetrics'.pub_failed = natsMetrics.pub_failed
  BY DEF NATSCounts, NATSMetricNames, RecordSub, Sample
<1> QED BY <1>2, CallAdds DEF NATSCounts, NATSCallsAreCounted

\* Every way a call returns, and the calls that are not counted.
LEMMA NATSCountsInductive == NATSCounts /\ [NATSNext]_natsVars => NATSCounts'
<1> SUFFICES ASSUME NATSCounts, [NATSNext]_natsVars PROVE NATSCounts'
  OBVIOUS
<1>1. ASSUME NEW v \in NATSVUs, NEW failed \in BOOLEAN, PublishReturns(v, failed) PROVE NATSCounts'
  BY <1>1, PublishCounted DEF PublishReturns
<1>2. ASSUME NEW v \in NATSVUs, NEW timeout \in {0, 1}, RequestReplied(v, timeout) PROVE NATSCounts'
  BY <1>2, RequestCounted DEF RequestReplied
<1>3. ASSUME NEW v \in NATSVUs, NEW timeout \in {0, 1}, NEW err \in NATSErrors, RequestFails(v, timeout, err)
      PROVE  NATSCounts'
  BY <1>3, RequestCounted DEF RequestFails
<1>4. ASSUME NEW v \in NATSVUs, NextMsgReturns(v) \/ \E err \in NATSErrors : NextMsgFails(v, err) PROVE NATSCounts'
  BY <1>4, WaitCounted DEF NextMsgReturns, NextMsgFails
<1>5. ASSUME NEW v \in NATSVUs, NATSRefuses(v) \/ Subscribe(v) \/ Unsubscribe(v) \/ Deliver(v) PROVE NATSCounts'
  BY <1>5, CallUncounted DEF NATSRefuses, Subscribe, Unsubscribe, Deliver
<1>6. CASE Connect \/ CloseNATS \/ UNCHANGED natsVars
  BY <1>6, CallUncounted DEF Connect, CloseNATS, natsVars
<1> QED BY <1>1, <1>2, <1>3, <1>4, <1>5, <1>6 DEF NATSNext, PublishNATS, PublishJetStream

\* Every NATS publication, request and wait is counted once, as failed exactly
\* when its caller got an error: for any number of virtual users.
THEOREM NATSCallsAreCountedHolds == NATSSpec => []NATSCallsAreCounted
<1>1. NATSCounts => NATSCallsAreCounted
  BY DEF NATSCounts
<1> QED BY <1>1, NATSCountsInitially, NATSCountsInductive, PTL DEF NATSSpec

-----------------------------------------------------------------------------
(* The conversation: its counters say where the flow stands.               *)

\* The example's metrics, and where the flow stands once it is open.
ConvMetrics == {"requested", "successful", "failed", "closed", "dialogs", "dialogsClosed", "customer", "bot",
                "timeouts", "roundTrips", "messages", "results"}
Talking == {"send", "posting", "loop", "thinking", "closing"}

\* Until the flow is done, its counters say where it stands: the turns that were
\* posted, and answered.
Reached(turn, bots, posted) ==
  /\ flow \in {"idle", "open", "first event"} => turn = 0 /\ bots = 0 /\ posted = <<0, 0>>
  /\ flow \in {"send", "thinking"} => turn < Turns /\ bots = turn /\ posted = <<turn, turn>>
  /\ flow = "posting" => turn \in 1..Turns /\ bots = turn - 1 /\ posted = <<turn - 1, turn - 1>>
  /\ flow = "loop" => turn \in 1..Turns /\ bots = turn - 1 /\ posted = <<turn, turn>>
  /\ flow = "closing" => turn = Turns /\ bots = turn /\ posted = <<turn, turn>>

\* The inductive invariant.
ConvInv ==
  /\ DOMAIN conv = ConvMetrics
  /\ flow \in {"idle", "open", "first event", "done"} \cup Talking
  /\ conv.requested = (IF flow = "idle" THEN 0 ELSE 1)
  /\ flow # "done" => /\ conv.closed = 0 /\ conv.failed = 0 /\ conv.results = <<0, 0>>
                      /\ conv.successful = (IF flow \in Talking THEN 1 ELSE 0)
                      /\ conv.roundTrips = 0
  /\ currentTurn \in Nat /\ received \in [{"CUSTOMER", "BOT"} -> Nat]
  /\ Reached(currentTurn, received["BOT"], conv.messages)
  /\ ConversationIsCounted

\* Nothing is counted before the flow starts.
LEMMA ConvInitially == ConversationInit => ConvInv
<1> SUFFICES ASSUME ConversationInit PROVE ConvInv
  OBVIOUS
<1>1. DOMAIN conv = ConvMetrics BY DEF ConversationInit, ConvMetrics
<1>2. /\ flow = "idle" /\ currentTurn = 0 /\ received["BOT"] = 0 /\ conv.messages = <<0, 0>> /\ conv.requested = 0
      /\ conv.closed = 0 /\ conv.failed = 0 /\ conv.results = <<0, 0>> /\ conv.successful = 0
      /\ conv.roundTrips = 0
  BY DEF ConversationInit
<1>3. received \in [{"CUSTOMER", "BOT"} -> Nat] BY DEF ConversationInit
<1> QED BY <1>1, <1>2, <1>3 DEF ConvInv, Reached, ConversationIsCounted, Talking

\* A metric that is not a rate, or a rate, replaced in a record of the metrics.
LEMMA Replaced ==
  ASSUME NEW c, DOMAIN c = ConvMetrics, NEW f \in ConvMetrics, NEW x
  PROVE  /\ DOMAIN [c EXCEPT ![f] = x] = ConvMetrics
         /\ [c EXCEPT ![f] = x][f] = x
         /\ \A g \in ConvMetrics \ {f} : [c EXCEPT ![f] = x][g] = c[g]
OBVIOUS

\* How Run ends.
LEMMA EndsAsItSays ==
  ASSUME NEW c, DOMAIN c = ConvMetrics, NEW how, Ends(how, c)
  PROVE  /\ DOMAIN conv' = ConvMetrics /\ flow' = "done" /\ outcome' = how /\ session' = "closed"
         /\ conv'.closed = c.closed + 1
         /\ conv'.requested = c.requested /\ conv'.successful = c.successful /\ conv'.failed = c.failed
         /\ conv'.messages = c.messages /\ conv'.roundTrips = c.roundTrips
         /\ how = "error" /\ ~iterDone => conv'.results = Tally(c.results, FALSE)
         /\ how # "error" \/ iterDone => conv'.results = c.results
<1> DEFINE ended == [c EXCEPT !.closed = c.closed + 1]
<1>1. /\ DOMAIN ended = ConvMetrics /\ ended.closed = c.closed + 1
      /\ \A g \in ConvMetrics \ {"closed"} : ended[g] = c[g]
  BY DEF ConvMetrics
<1>2. /\ flow' = "done" /\ outcome' = how /\ session' = "closed"
      /\ conv' = IF how = "error" /\ ~iterDone THEN [ended EXCEPT !.results = Tally(ended.results, FALSE)] ELSE ended
  BY DEF Ends, FailedResult
<1> HIDE DEF ended
<1>3. CASE how = "error" /\ ~iterDone
  BY <1>1, <1>2, <1>3 DEF ConvMetrics
<1>4. CASE ~(how = "error" /\ ~iterDone)
  BY <1>1, <1>2, <1>4 DEF ConvMetrics
<1> QED BY <1>3, <1>4

\* An end before the verification needs no more of the counts than that the
\* stream was asked for and opened, and that a panic lost its message.
LEMMA EndsCounted ==
  ASSUME ConvInv, NEW c, DOMAIN c = ConvMetrics, NEW how, how \in {"error", "panic"}, Ends(how, c), flow \in Talking,
         c.closed = conv.closed, c.requested = conv.requested, c.successful = conv.successful,
         c.failed = conv.failed, c.results = conv.results, currentTurn' \in Nat, UNCHANGED <<received, iterDone>>,
         how = "panic" => c.messages[2] = c.messages[1] + 1
  PROVE  ConvInv'
<1>1. /\ conv.closed = 0 /\ conv.failed = 0 /\ conv.results = <<0, 0>> /\ conv.successful = 1 /\ conv.requested = 1
  BY DEF ConvInv, Talking
<1>2. /\ DOMAIN conv' = ConvMetrics /\ flow' = "done" /\ outcome' = how
      /\ conv'.closed = conv.closed + 1 /\ conv'.requested = 1 /\ conv'.successful = 1 /\ conv'.failed = 0
      /\ how = "error" /\ ~iterDone => conv'.results = Tally(conv.results, FALSE)
      /\ how # "error" \/ iterDone => conv'.results = conv.results
      /\ conv'.messages = c.messages
  BY <1>1, EndsAsItSays
<1>3. /\ how = "error" /\ ~iterDone => conv'.results = <<0, 1>>
      /\ how # "error" \/ iterDone => conv'.results = <<0, 0>>
      /\ conv'.closed = 1
  BY <1>1, <1>2 DEF Tally
<1>4. /\ outcome' = "error" => conv'.results = <<0, 1>> \/ (conv'.results = <<0, 0>> /\ iterDone')
      /\ outcome' = "panic" => conv'.results = <<0, 0>> /\ conv'.messages[2] = conv'.messages[1] + 1
      /\ outcome' \notin {"success", "mismatch"}
  BY <1>2, <1>3
<1>5. ConversationIsCounted' BY <1>2, <1>3, <1>4 DEF ConversationIsCounted
<1>6. received' \in [{"CUSTOMER", "BOT"} -> Nat] BY DEF ConvInv
<1> QED BY <1>2, <1>5, <1>6 DEF ConvInv, Reached, Talking

\* The verification at the end of a dialog.
LEMMA VerifiedCounted ==
  ASSUME ConvInv, flow \in {"loop", "closing"}, UNCHANGED <<currentTurn, received, iterDone>>,
         Verified([conv EXCEPT !.dialogsClosed = conv.dialogsClosed + 1], received)
  PROVE  ConvInv'
<1> DEFINE balanced == received.CUSTOMER = currentTurn /\ received.BOT = Turns
           c1 == [conv EXCEPT !.dialogsClosed = conv.dialogsClosed + 1]
           n == c1.roundTrips + Gap(received.CUSTOMER, currentTurn) + Gap(received.BOT, Turns)
           c2 == [c1 EXCEPT !.roundTrips = n]
           c3 == [c2 EXCEPT !.results = Tally(c2.results, balanced)]
<1>1. Ends(IF balanced THEN "success" ELSE "mismatch", c3)
  BY DEF Verified
<1>2. DOMAIN c1 = ConvMetrics /\ \A g \in ConvMetrics \ {"dialogsClosed"} : c1[g] = conv[g]
  BY DEF ConvInv, ConvMetrics
<1>0. n = (IF balanced THEN 0 ELSE n) /\ (~balanced => n > 0)
  <2>1. /\ conv.roundTrips = 0 /\ received.CUSTOMER \in Nat /\ received.BOT \in Nat
        /\ currentTurn \in Nat /\ Turns \in Nat
    BY ConversationAssumption DEF ConvInv, ConversationAssumption
  <2>2. c1.roundTrips = 0
    BY <1>2, <2>1 DEF ConvMetrics
  <2>3. n = Gap(received.CUSTOMER, currentTurn) + Gap(received.BOT, Turns)
    BY <2>1, <2>2 DEF Gap
  <2> QED BY <2>1, <2>3 DEF Gap
<1> HIDE DEF c1, n
<1>3. /\ DOMAIN c2 = ConvMetrics /\ c2.roundTrips = n
      /\ \A g \in ConvMetrics \ {"dialogsClosed", "roundTrips"} : c2[g] = conv[g]
  BY <1>2 DEF ConvMetrics
<1> HIDE DEF c2
<1>4. /\ DOMAIN c3 = ConvMetrics /\ c3.results = Tally(conv.results, balanced) /\ c3.roundTrips = n
      /\ c3.closed = conv.closed /\ c3.requested = conv.requested /\ c3.successful = conv.successful
      /\ c3.failed = conv.failed /\ c3.messages = conv.messages
  BY <1>3 DEF ConvMetrics
<1> HIDE DEF c3
<1>5. /\ conv.closed = 0 /\ conv.failed = 0 /\ conv.results = <<0, 0>> /\ conv.successful = 1 /\ conv.requested = 1
      /\ Reached(currentTurn, received["BOT"], conv.messages) /\ received \in [{"CUSTOMER", "BOT"} -> Nat]
      /\ currentTurn \in Nat
  BY DEF ConvInv, Talking
<1>6. balanced => /\ currentTurn = Turns /\ conv.messages = <<Turns, Turns>>
                  /\ received = [CUSTOMER |-> Turns, BOT |-> Turns]
  <2>1. Turns \in Nat \ {0} BY ConversationAssumption DEF ConversationAssumption
  <2>2. balanced => received["BOT"] = Turns BY <1>5
  <2>3. ~(flow = "loop" /\ received["BOT"] = Turns)
    <3>1. flow = "loop" => currentTurn \in 1..Turns /\ received["BOT"] = currentTurn - 1 BY <1>5 DEF Reached
    <3> QED BY <2>1, <3>1
  <2>4. balanced => currentTurn = Turns /\ conv.messages = <<Turns, Turns>>
    BY <1>5, <2>2, <2>3 DEF Reached
  <2>5. balanced => received = [CUSTOMER |-> Turns, BOT |-> Turns]
    BY <1>5, <2>4
  <2> QED BY <2>4, <2>5
<1> HIDE DEF balanced
<1>7. ASSUME NEW how \in {"success", "mismatch"}, how = "success" <=> balanced, Ends(how, c3)
      PROVE  /\ DOMAIN conv' = ConvMetrics /\ flow' = "done" /\ conv'.requested = 1 /\ ConversationIsCounted'
  <2>1. /\ DOMAIN conv' = ConvMetrics /\ flow' = "done" /\ outcome' = how
        /\ conv'.closed = conv.closed + 1 /\ conv'.requested = 1 /\ conv'.successful = 1 /\ conv'.failed = 0
        /\ conv'.messages = conv.messages /\ conv'.results = Tally(conv.results, balanced)
        /\ conv'.roundTrips = n
    BY <1>4, <1>5, <1>7, EndsAsItSays
  <2>2. conv'.closed = 1 /\ conv'.results = (IF balanced THEN <<1, 1>> ELSE <<0, 1>>)
    <3>1. CASE balanced BY <1>5, <2>1, <3>1 DEF Tally
    <3>2. CASE ~balanced BY <1>5, <2>1, <3>2 DEF Tally
    <3> QED BY <3>1, <3>2
  <2>3. ConversationIsCounted'
    <3>1. CASE balanced BY <1>0, <1>6, <1>7, <2>1, <2>2, <3>1 DEF ConversationIsCounted
    <3>2. CASE ~balanced BY <1>0, <1>7, <2>1, <2>2, <3>2 DEF ConversationIsCounted
    <3> QED BY <3>1, <3>2
  <2> QED BY <2>1, <2>3
<1>8. /\ DOMAIN conv' = ConvMetrics /\ flow' = "done" /\ conv'.requested = 1 /\ ConversationIsCounted'
  <2>1. CASE balanced BY <1>1, <1>7, <2>1
  <2>2. CASE ~balanced BY <1>1, <1>7, <2>2
  <2> QED BY <2>1, <2>2
<1> QED BY <1>5, <1>8 DEF ConvInv, Reached, Talking

\* Counting a failed result.
LEMMA FailedOpening ==
  ASSUME NEW c, DOMAIN c = ConvMetrics, c.results = <<0, 0>>, NEW d,
         d = [c EXCEPT !.results = Tally(c.results, FALSE)]
  PROVE  /\ DOMAIN d = ConvMetrics /\ d.closed = c.closed /\ d.requested = c.requested
         /\ d.successful = c.successful /\ d.failed = c.failed /\ d.results = <<0, 1>>
<1>1. /\ DOMAIN d = ConvMetrics /\ d.results = Tally(c.results, FALSE)
      /\ \A g \in ConvMetrics \ {"results"} : d[g] = c[g]
  BY DEF ConvMetrics
<1>2. d.results = <<0, 1>> BY <1>1 DEF Tally
<1> QED BY <1>1, <1>2 DEF ConvMetrics

\* Counting no result.
LEMMA OverOpening == ASSUME NEW c, NEW d, d = c, NEW r, r = <<0, 0>>, c.results = r PROVE d.results = <<0, 0>>
OBVIOUS

\* Sums the provers need by name.
LEMMA ZeroAndOne == ASSUME NEW m, NEW n, m = 0, n = 1 PROVE m + n = 1
OBVIOUS

\* The same, for a counter that moves on.
LEMMA OneMore == ASSUME NEW m, NEW n, n = 0, m = n + 1 PROVE m = 1
OBVIOUS

\* The stream was not opened, or not with a dialog's creation.
LEMMA NotOpenedCounted ==
  ASSUME ConvInv, flow \in {"open", "first event"}, NEW c, DOMAIN c = ConvMetrics,
         c.closed = conv.closed, c.requested = conv.requested, c.successful = conv.successful,
         c.failed = conv.failed + (IF iterDone THEN 0 ELSE 1), c.results = conv.results,
         conv' = FailedResult(c), flow' = "done", outcome' = "error", UNCHANGED <<currentTurn, received, iterDone>>
  PROVE  ConvInv'
<1> DEFINE f == conv.failed
           r == conv.results
           d == conv'
<1>1. /\ conv.closed = 0 /\ f = 0 /\ r = <<0, 0>> /\ conv.successful = 0 /\ conv.requested = 1
      /\ currentTurn \in Nat /\ received \in [{"CUSTOMER", "BOT"} -> Nat]
  BY DEF ConvInv, Talking
<1>2. d = (IF iterDone THEN c ELSE [c EXCEPT !.results = Tally(c.results, FALSE)])
  BY DEF FailedResult
<1>3. c.failed = f + (IF iterDone THEN 0 ELSE 1) /\ c.results = r
  OBVIOUS
<1> HIDE DEF f, r, d
<1>4. /\ DOMAIN d = ConvMetrics /\ d.closed = c.closed /\ d.requested = c.requested /\ d.successful = c.successful
      /\ d.failed = 1 \/ iterDone
      /\ d.results = <<0, 1>> \/ (d.results = <<0, 0>> /\ iterDone)
  <2>1. CASE iterDone
    <3>1. d = c BY <1>2, <2>1
    <3>2. d.results = <<0, 0>> BY <1>1, <1>3, <3>1, OverOpening
    <3> QED BY <2>1, <3>1, <3>2
  <2>2. CASE ~iterDone
    <3>1. c.failed = f + 1 /\ d = [c EXCEPT !.results = Tally(c.results, FALSE)] BY <1>2, <1>3, <2>2
    <3>2. c.failed = 1 BY <1>1, <3>1, OneMore
    <3>3. c.results = <<0, 0>> BY <1>1, <1>3
    <3>4. /\ DOMAIN d = ConvMetrics /\ d.closed = c.closed /\ d.requested = c.requested
          /\ d.successful = c.successful /\ d.failed = c.failed /\ d.results = <<0, 1>>
      BY <3>1, <3>3, FailedOpening
    <3>5. d.failed = 1 BY <3>2, <3>4
    <3>6. d.results = <<0, 1>> BY <3>4
    <3> QED BY <3>4, <3>5, <3>6
  <2> QED BY <2>1, <2>2
<1>5. /\ DOMAIN conv' = ConvMetrics /\ conv'.closed = 0 /\ conv'.requested = 1 /\ conv'.successful = 0
      /\ conv'.failed = 1 \/ iterDone'
      /\ conv'.results = <<0, 1>> \/ (conv'.results = <<0, 0>> /\ iterDone')
  BY <1>1, <1>4 DEF d
<1>6. ConversationIsCounted'
  <2>1. conv'.successful + conv'.failed = 1 \/ iterDone'
    <3>1. CASE iterDone' BY <3>1
    <3>2. CASE conv'.failed = 1 BY <1>5, <3>2, ZeroAndOne
    <3> QED BY <1>5, <3>1, <3>2
  <2>2. outcome' = "error" OBVIOUS
  <2> QED BY <1>5, <2>1, <2>2 DEF ConversationIsCounted
<1> QED BY <1>1, <1>5, <1>6 DEF ConvInv, Reached, Talking

\* A step of the loop that goes on.
LEMMA GoesOn ==
  ASSUME ConvInv, flow # "done", flow' # "done", DOMAIN conv' = ConvMetrics,
         flow' \in {"idle", "open", "first event"} \cup Talking,
         conv'.closed = conv.closed, conv'.failed = conv.failed, conv'.results = conv.results,
         conv'.roundTrips = conv.roundTrips, conv'.requested = (IF flow' = "idle" THEN 0 ELSE 1),
         conv'.successful = (IF flow' \in Talking THEN 1 ELSE 0),
         currentTurn' \in Nat, received' \in [{"CUSTOMER", "BOT"} -> Nat],
         Reached(currentTurn, received["BOT"], conv.messages)'
  PROVE  ConvInv'
BY DEF ConvInv, ConversationIsCounted

\* Every step of the flow, of the reader and of the server.
LEMMA ConvInductive == ConvInv /\ [ConversationNext]_convVars => ConvInv'
<1> SUFFICES ASSUME ConvInv, [ConversationNext]_convVars PROVE ConvInv'
  OBVIOUS
<1>0. /\ DOMAIN conv = ConvMetrics /\ currentTurn \in Nat /\ received \in [{"CUSTOMER", "BOT"} -> Nat]
      /\ Reached(currentTurn, received["BOT"], conv.messages)
  BY DEF ConvInv
<1>1. CASE IterationEnds \/ Push \/ Report \/ (\E e \in ServerEvents : Scan(e)) \/ (\E failed \in BOOLEAN : ScanEnds(failed))
             \/ UNCHANGED convVars
  <2>1. UNCHANGED <<flow, currentTurn, received, outcome, conv>> /\ (iterDone => iterDone')
    BY <1>1 DEF IterationEnds, Push, Report, Scan, ScanEnds, convVars, counts, streamSide
  <2> QED BY <2>1 DEF ConvInv, ConversationIsCounted, Reached, Talking
<1>2. CASE RunConversation
  <2>1. /\ flow = "idle" /\ flow' = "open" /\ UNCHANGED <<currentTurn, received>>
        /\ conv' = [conv EXCEPT !.requested = conv.requested + 1]
    BY <1>2 DEF RunConversation, counts
  <2>2. DOMAIN conv' = ConvMetrics /\ conv'.requested = conv.requested + 1
        /\ \A g \in ConvMetrics \ {"requested"} : conv'[g] = conv[g]
    BY <1>0, <2>1 DEF ConvMetrics
  <2> QED BY <1>0, <2>1, <2>2, GoesOn DEF ConvInv, Reached, Talking, ConvMetrics
<1>3. CASE OpenFails
  <2>1. DOMAIN [conv EXCEPT !.failed = conv.failed + (IF iterDone THEN 0 ELSE 1)] = ConvMetrics
    BY <1>0
  <2> QED BY <1>0, <1>3, <2>1, NotOpenedCounted DEF OpenFails, counts, ConvMetrics
<1>4. CASE StreamOpens
  <2>1. flow = "open" /\ flow' = "first event" /\ UNCHANGED <<currentTurn, received, conv>>
    BY <1>4 DEF StreamOpens, counts
  <2> QED BY <2>1, GoesOn DEF ConvInv, Reached, Talking
<1>5. ASSUME NEW n \in {0, 1}, flow = "first event", NotCreated(n), UNCHANGED <<currentTurn, received, iterDone>>
      PROVE  ConvInv'
  <2> DEFINE c1 == [conv EXCEPT !.timeouts = conv.timeouts + n]
             c2 == [c1 EXCEPT !.failed = conv.failed + (IF iterDone THEN 0 ELSE 1)]
  <2>1. /\ DOMAIN c1 = ConvMetrics /\ c1.failed = conv.failed
        /\ \A g \in ConvMetrics \ {"timeouts"} : c1[g] = conv[g]
    BY <1>0 DEF ConvMetrics
  <2>2. conv' = FailedResult(c2) /\ flow' = "done" /\ outcome' = "error"
    BY <1>5, <2>1 DEF NotCreated
  <2> HIDE DEF c1
  <2>3. /\ DOMAIN c2 = ConvMetrics /\ c2.failed = conv.failed + (IF iterDone THEN 0 ELSE 1)
        /\ c2.closed = conv.closed /\ c2.requested = conv.requested /\ c2.successful = conv.successful
        /\ c2.results = conv.results
    BY <2>1 DEF ConvMetrics
  <2> HIDE DEF c2
  <2> QED BY <1>5, <2>2, <2>3, NotOpenedCounted
<1>6. CASE FirstEvent \/ NoFirstEvent
  <2>1. flow = "first event" /\ UNCHANGED <<currentTurn, received, iterDone>>
    BY <1>6 DEF FirstEvent, NoFirstEvent, counts
  <2>2. \/ NotCreated(0) \/ NotCreated(1)
        \/ flow' = "send" /\ conv' = [conv EXCEPT !.successful = @ + 1, !.dialogs = @ + 1]
    BY <1>6 DEF FirstEvent, NoFirstEvent
  <2>3. CASE flow' = "send" /\ conv' = [conv EXCEPT !.successful = @ + 1, !.dialogs = @ + 1]
    <3>1. /\ DOMAIN conv' = ConvMetrics /\ conv'.successful = conv.successful + 1
          /\ \A g \in ConvMetrics \ {"successful", "dialogs"} : conv'[g] = conv[g]
      BY <1>0, <2>3 DEF ConvMetrics
    <3>2. Turns > 0 BY ConversationAssumption DEF ConversationAssumption
    <3>3. Reached(currentTurn, received["BOT"], conv.messages)'
      BY <1>0, <2>1, <2>3, <3>1, <3>2 DEF Reached, ConvMetrics
    <3>4. conv.successful = 0 /\ conv.requested = 1 BY <2>1 DEF ConvInv, Talking
    <3>5. /\ conv'.successful = 1 /\ conv'.requested = 1 /\ conv'.closed = conv.closed
          /\ conv'.failed = conv.failed /\ conv'.results = conv.results
          /\ conv'.roundTrips = conv.roundTrips
      BY <3>1, <3>4 DEF ConvMetrics
    <3> QED BY <1>0, <2>1, <2>3, <3>1, <3>3, <3>5, GoesOn DEF Talking
  <2> QED BY <1>5, <2>1, <2>2, <2>3
<1>7. CASE SendNextMessage
  <2>1. flow = "send" /\ flow' = "posting" /\ currentTurn' = currentTurn + 1 /\ UNCHANGED <<received, conv>>
    BY <1>7 DEF SendNextMessage
  <2>2. Turns \in Nat BY ConversationAssumption DEF ConversationAssumption
  <2> QED BY <1>0, <2>1, <2>2, GoesOn DEF ConvInv, Reached, Talking
<1>8. ASSUME NEW ok \in BOOLEAN, flow = "posting", UNCHANGED <<currentTurn, received, iterDone>>,
             NEW c, c = [conv EXCEPT !.messages = Tally(conv.messages, ok)]
      PROVE  /\ ok /\ flow' = "loop" /\ conv' = c => ConvInv'
             /\ Ends("error", c) \/ (~ok /\ Ends("panic", c)) => ConvInv'
  <2>1. /\ DOMAIN c = ConvMetrics /\ c.messages = Tally(conv.messages, ok)
        /\ \A g \in ConvMetrics \ {"messages"} : c[g] = conv[g]
    BY <1>0, <1>8 DEF ConvMetrics
  <2>2. ASSUME Ends("error", c) \/ (~ok /\ Ends("panic", c)) PROVE ConvInv'
    <3>1. ~ok => c.messages[2] = c.messages[1] + 1
      BY <1>0, <1>8, <2>1 DEF Reached, Tally
    <3> QED BY <1>0, <1>8, <2>1, <2>2, <3>1, EndsCounted DEF ConvMetrics, Talking
  <2>3. ASSUME ok, flow' = "loop", conv' = c PROVE ConvInv'
    <3>1. currentTurn \in 1..Turns /\ conv.messages = <<currentTurn - 1, currentTurn - 1>>
      BY <1>0, <1>8 DEF Reached
    <3>2. c.messages = <<currentTurn, currentTurn>>
      BY <1>0, <2>1, <2>3, <3>1 DEF Tally
    <3> QED BY <1>0, <1>8, <2>1, <2>3, <3>2, GoesOn DEF ConvInv, Reached, Talking, ConvMetrics
  <2> QED BY <2>2, <2>3
<1>9. CASE MessageUnanswered \/ \E ok \in BOOLEAN : MessageAnswered(ok)
  BY <1>8, <1>9 DEF MessageUnanswered, MessageAnswered, counts
<1>10. CASE TakeEvent
  <2>1. flow = "loop" /\ UNCHANGED <<iterDone, currentTurn>>
    BY <1>10 DEF TakeEvent
  <2>2. \/ Ends("error", conv) /\ UNCHANGED received
        \/ Verified([conv EXCEPT !.dialogsClosed = conv.dialogsClosed + 1], received) /\ UNCHANGED received
        \/ /\ received' = [received EXCEPT !.CUSTOMER = received.CUSTOMER + 1] /\ UNCHANGED flow
           /\ conv' = [conv EXCEPT !.customer = conv.customer + 1]
        \/ /\ received' = [received EXCEPT !.BOT = received.BOT + 1]
           /\ conv' = [conv EXCEPT !.bot = conv.bot + 1]
           /\ flow' = IF currentTurn >= Turns THEN "closing" ELSE "thinking"
        \/ UNCHANGED <<flow, received, conv, outcome>>
    BY <1>10 DEF TakeEvent
  <2>3. CASE Ends("error", conv) /\ UNCHANGED received
    BY <1>0, <2>1, <2>3, EndsCounted DEF Talking
  <2>4. CASE Verified([conv EXCEPT !.dialogsClosed = conv.dialogsClosed + 1], received) /\ UNCHANGED received
    BY <2>1, <2>4, VerifiedCounted
  <2>5. CASE /\ received' = [received EXCEPT !.CUSTOMER = received.CUSTOMER + 1] /\ UNCHANGED flow
             /\ conv' = [conv EXCEPT !.customer = conv.customer + 1]
    <3>1. DOMAIN conv' = ConvMetrics /\ \A g \in ConvMetrics \ {"customer"} : conv'[g] = conv[g]
      BY <1>0, <2>5 DEF ConvMetrics
    <3>2. received' \in [{"CUSTOMER", "BOT"} -> Nat] /\ received'["BOT"] = received["BOT"]
      BY <1>0, <2>5
    <3> QED BY <1>0, <2>1, <2>5, <3>1, <3>2, GoesOn DEF ConvInv, Reached, Talking, ConvMetrics
  <2>6. CASE /\ received' = [received EXCEPT !.BOT = received.BOT + 1]
             /\ conv' = [conv EXCEPT !.bot = conv.bot + 1]
             /\ flow' = IF currentTurn >= Turns THEN "closing" ELSE "thinking"
    <3>1. DOMAIN conv' = ConvMetrics /\ \A g \in ConvMetrics \ {"bot"} : conv'[g] = conv[g]
      BY <1>0, <2>6 DEF ConvMetrics
    <3>2. received' \in [{"CUSTOMER", "BOT"} -> Nat] /\ received'["BOT"] = received["BOT"] + 1
      BY <1>0, <2>6
    <3>3. Turns \in Nat BY ConversationAssumption DEF ConversationAssumption
    <3>4. Reached(currentTurn, received["BOT"], conv.messages)'
      BY <1>0, <2>1, <2>6, <3>1, <3>2, <3>3 DEF Reached, ConvMetrics
    <3> QED BY <1>0, <2>1, <2>6, <3>1, <3>2, <3>4, GoesOn DEF ConvInv, Talking, ConvMetrics
  <2>7. CASE UNCHANGED <<flow, received, conv, outcome>>
    BY <2>1, <2>7, GoesOn DEF ConvInv, Reached, Talking
  <2> QED BY <2>2, <2>3, <2>4, <2>5, <2>6, <2>7
<1>11. CASE LoopFails
  <2>1. flow = "loop" /\ UNCHANGED <<currentTurn, received, iterDone>> BY <1>11 DEF LoopFails, counts
  <2>2. Ends("error", conv) \/ Ends("error", [conv EXCEPT !.timeouts = conv.timeouts + 1]) BY <1>11 DEF LoopFails
  <2>3. /\ DOMAIN [conv EXCEPT !.timeouts = conv.timeouts + 1] = ConvMetrics
        /\ \A g \in ConvMetrics \ {"timeouts"} : [conv EXCEPT !.timeouts = conv.timeouts + 1][g] = conv[g]
    BY <1>0 DEF ConvMetrics
  <2> QED BY <1>0, <2>1, <2>2, <2>3, EndsCounted DEF Talking, ConvMetrics
<1>12. CASE ThinkingTime
  <2>1. flow = "thinking" /\ UNCHANGED <<currentTurn, received, iterDone>>
    BY <1>12 DEF ThinkingTime, counts
  <2>2. Ends("error", conv) \/ (flow' = "send" /\ UNCHANGED conv)
    BY <1>12 DEF ThinkingTime
  <2> QED BY <1>0, <2>1, <2>2, EndsCounted, GoesOn DEF ConvInv, Reached, Talking
<1>13. CASE \E ok \in BOOLEAN : CloseConversation(ok)
  <2>1. flow = "closing" /\ UNCHANGED <<currentTurn, received, iterDone>>
        /\ \/ Ends("error", conv)
           \/ Verified([conv EXCEPT !.dialogsClosed = conv.dialogsClosed + 1], received)
    BY <1>13 DEF CloseConversation, counts
  <2> QED BY <1>0, <2>1, EndsCounted, VerifiedCounted DEF Talking
<1> QED BY <1>1, <1>2, <1>3, <1>4, <1>6, <1>7, <1>9, <1>10, <1>11, <1>12, <1>13 DEF ConversationNext

\* A conversation counts itself as it ended: one result, unless it panicked or
\* the iteration was over; open round trips exactly when the verification found
\* a difference; every turn posted, echoed and answered when it succeeded.  For
\* any number of turns and whatever the server sends.
THEOREM ConversationIsCountedHolds == ConversationSpec => []ConversationIsCounted
<1>1. ConvInv => ConversationIsCounted BY DEF ConvInv
<1> QED BY <1>1, ConvInitially, ConvInductive, PTL DEF ConversationSpec

-----------------------------------------------------------------------------
(* Types: what a client is configured with.                                *)

\* The settings a client does not work without.
NeededFields == Positive \ {"baseURL"}
Working(cfg) == \A f \in NeededFields : cfg[f] > 0

\* A shared client works; one a caller made for itself lacks what its caller took away.
HTTPConfigs ==
  /\ \A k \in DOMAIN defaultClients : defaultClients[k].shared /\ Working(defaultClients[k].cfg)
  /\ \A c \in HTTPCallers : \A f \in NeededFields : client[c].cfg[f] > 0 \/ SetByItsCaller(client[c], f)

\* The declared configuration gives a client what it needs, whatever is in it ...
LEMMA DeclaredWorks ==
  ASSUME NEW http
  PROVE  Working(FromHTTPConfig(http, <<>>)) /\ Working(defaultConfig)
<1>1. ASSUME NEW f \in NeededFields PROVE f \in DOMAIN defaultConfig /\ defaultConfig[f] > 0 /\ f \in Positive /\ f \notin DOMAIN <<>>
  BY DEF NeededFields, Positive, defaultConfig
<1>2. ASSUME NEW f \in NeededFields PROVE FromHTTPConfig(http, <<>>)[f] > 0
  BY <1>1 DEF FromHTTPConfig
<1> QED BY <1>1, <1>2 DEF Working

\* ... and what is missing after the options is an option's value.
LEMMA OptionsReplace ==
  ASSUME NEW http, NEW options, NEW f \in NeededFields
  PROVE  \/ FromHTTPConfig(http, options)[f] > 0
         \/ f \in DOMAIN options /\ FromHTTPConfig(http, options)[f] = options[f]
<1>1. f \in DOMAIN defaultConfig /\ defaultConfig[f] > 0 /\ f \in Positive
  BY DEF NeededFields, Positive, defaultConfig
<1> QED BY <1>1 DEF FromHTTPConfig

\* A caller takes its client from the cache, or makes one.
LEMMA HTTPConfigsInductive == HTTPTypes /\ HTTPConfigs /\ [HTTPNext]_httpVars => HTTPConfigs'
<1> SUFFICES ASSUME HTTPTypes, HTTPConfigs, [HTTPNext]_httpVars PROVE HTTPConfigs'
  OBVIOUS
<1> DEFINE UsableAs(cl) == \A f \in NeededFields : cl.cfg[f] > 0 \/ SetByItsCaller(cl, f)
<1>0. /\ DOMAIN client = HTTPCallers /\ \A c \in HTTPCallers : UsableAs(client[c])
      /\ \A k \in DOMAIN defaultClients : defaultClients[k].shared /\ Working(defaultClients[k].cfg)
  BY DEF HTTPTypes, HTTPConfigs
<1>1. ASSUME NEW c \in HTTPCallers, NEW cl, TakesClient(c, cl), UsableAs(cl) PROVE \A d \in HTTPCallers : UsableAs(client[d])'
  <2>1. client' = [client EXCEPT ![c] = cl] BY <1>1 DEF TakesClient
  <2>2. \A d \in HTTPCallers : client'[d] = cl \/ client'[d] = client[d] BY <1>0, <2>1
  <2>3. \A d \in HTTPCallers : UsableAs(client'[d])
     <3> HIDE DEF UsableAs
     <3> QED BY <1>0, <1>1, <2>2
  <2> QED BY <2>3 DEF SetByItsCaller
<1>2. ASSUME \A d \in HTTPCallers : UsableAs(client[d])', UNCHANGED defaultClients PROVE HTTPConfigs'
  BY <1>0, <1>2 DEF HTTPConfigs
<1>3. \A cl : Working(cl.cfg) => UsableAs(cl) BY DEF Working
<1>4. ASSUME NEW c \in HTTPCallers, DefaultLooks(c) PROVE HTTPConfigs'
  <2>1. UNCHANGED defaultClients BY <1>4 DEF DefaultLooks
  <2>2. \/ ClientKey(c) \in DOMAIN defaultClients /\ TakesClient(c, defaultClients[ClientKey(c)])
        \/ UNCHANGED client
    BY <1>4 DEF DefaultLooks
  <2>3. CASE UNCHANGED client BY <1>0, <1>2, <2>1, <2>3 DEF SetByItsCaller
  <2>4. CASE ClientKey(c) \in DOMAIN defaultClients /\ TakesClient(c, defaultClients[ClientKey(c)])
    <3>1. UsableAs(defaultClients[ClientKey(c)])
      <4> HIDE DEF UsableAs
      <4> QED BY <1>0, <1>3, <2>4
    <3> DEFINE cl == defaultClients[ClientKey(c)]
    <3>2. TakesClient(c, cl) /\ UsableAs(cl) BY <2>4, <3>1
    <3> HIDE DEF cl
    <3>3. \A d \in HTTPCallers : UsableAs(client[d])' BY <1>1, <3>2
    <3> QED BY <1>2, <2>1, <3>3
  <2> QED BY <2>2, <2>3, <2>4
<1>5. ASSUME NEW c \in HTTPCallers, DefaultCreates(c) PROVE HTTPConfigs'
  <2> DEFINE new == Fresh(FromHTTPConfig(config["http"], <<>>), c, TRUE)
             cl == defaultClients'[ClientKey(c)]
  <2>1. new.shared /\ Working(new.cfg) BY DeclaredWorks DEF Fresh
  <2>2. /\ \A k \in DOMAIN defaultClients' : (k \in DOMAIN defaultClients /\ defaultClients'[k] = defaultClients[k]) \/ defaultClients'[k] = new
        /\ ClientKey(c) \in DOMAIN defaultClients' /\ TakesClient(c, cl)
    BY <1>5 DEF DefaultCreates
  <2> HIDE DEF new
  <2>3. \A k \in DOMAIN defaultClients' : defaultClients'[k].shared /\ Working(defaultClients'[k].cfg)
    BY <1>0, <2>1, <2>2
  <2>4. UsableAs(cl)
    <3> HIDE DEF UsableAs
    <3> QED BY <1>3, <2>2, <2>3
  <2>5. TakesClient(c, cl) BY <2>2
  <2> HIDE DEF cl
  <2>6. \A d \in HTTPCallers : UsableAs(client[d])' BY <1>1, <2>4, <2>5
  <2> QED BY <2>3, <2>6 DEF HTTPConfigs, Working
<1>6. ASSUME NEW c \in HTTPCallers, NEW http, NEW options \in ClientOptions \cup {<<>>},
             TakesClient(c, Fresh(FromHTTPConfig(http, options), c, FALSE)), UNCHANGED defaultClients
      PROVE  HTTPConfigs'
  <2> DEFINE cl == Fresh(FromHTTPConfig(http, options), c, FALSE)
  <2>0. ~cl.shared /\ cl.cfg = FromHTTPConfig(http, options) BY DEF Fresh
  <2>1. ASSUME NEW f \in NeededFields PROVE cl.cfg[f] > 0 \/ SetByItsCaller(cl, f)
    <3>1. cl.cfg[f] > 0 \/ (f \in DOMAIN options /\ cl.cfg[f] = options[f])
      <4> HIDE DEF cl
      <4> QED BY <2>0, OptionsReplace
    <3>2. f \in DOMAIN options => options \in ClientOptions OBVIOUS
    <3> HIDE DEF cl
    <3> QED BY <2>0, <3>1, <3>2 DEF SetByItsCaller
  <2>2. TakesClient(c, cl) /\ UsableAs(cl) BY <1>6, <2>1
  <2> HIDE DEF cl
  <2>3. \A d \in HTTPCallers : UsableAs(client[d])' BY <1>1, <2>2
  <2> QED BY <1>2, <1>6, <2>3
<1>7. ASSUME NEW c \in HTTPCallers, UNCHANGED <<defaultClients, client>> PROVE HTTPConfigs'
  BY <1>0, <1>2, <1>7 DEF SetByItsCaller
<1>8. ASSUME NEW c \in HTTPCallers,
             \/ \E url \in {"absolute", "relative"} : Do(c, url) \/ RoundTrip(c, url) \/ InstrumentedRoundTrip(c, url)
             \/ \E fate \in Fates : Answer(c, fate)
             \/ ObserveDuration(c) \/ CountRequest(c) \/ AddFailedRate(c) \/ CountConnection(c)
             \/ RequestIsNotCounted(c)
      PROVE  HTTPConfigs'
  <2>1. UNCHANGED <<defaultClients, client>>
    BY <1>8 DEF Do, RoundTrip, InstrumentedRoundTrip, Sends, Answer, ObserveDuration, CountRequest, AddFailedRate,
                CountConnection, Add, RequestIsNotCounted, httpVars, httpProcess
  <2> QED BY <1>7, <2>1
<1>9. ASSUME NEW c \in HTTPCallers, NEW options \in ClientOptions, NewClient(c, options) PROVE HTTPConfigs'
  BY <1>6, <1>9 DEF NewClient
<1>10. ASSUME NEW c \in HTTPCallers, NEW name \in {"named", "missing"}, MustGet(c, name) PROVE HTTPConfigs'
  <2>1. UNCHANGED defaultClients BY <1>10 DEF MustGet
  <2>2. \/ TakesClient(c, Fresh(FromHTTPConfig(config[name], <<>>), c, FALSE))
        \/ UNCHANGED client BY <1>10 DEF MustGet
  <2> QED BY <1>6, <1>7, <2>1, <2>2
<1>11. UsableAs(NoClient)
  <2>1. Working(NoClient.cfg) BY DeclaredWorks DEF NoClient
  <2> HIDE DEF UsableAs
  <2> QED BY <1>3, <2>1
<1>12. CASE HTTPSetupReturns
  <2>1. SetupHook \in HTTPCallers BY HTTPAssumption DEF HTTPAssumption
  <2>2. TakesClient(SetupHook, NoClient) /\ UNCHANGED defaultClients BY <1>12 DEF HTTPSetupReturns
  <2>3. \A d \in HTTPCallers : UsableAs(client[d])' BY <1>1, <1>11, <2>1, <2>2
  <2> QED BY <1>2, <2>2, <2>3
<1>13. CASE NextExecution
  <2>1. UNCHANGED defaultClients /\ \A c \in HTTPCallers : client'[c] = NoClient BY <1>13 DEF NextExecution
  <2>2. \A c \in HTTPCallers : UsableAs(client'[c])
    <3> HIDE DEF UsableAs
    <3> QED BY <1>11, <2>1
  <2>3. \A d \in HTTPCallers : UsableAs(client[d])' BY <2>2 DEF SetByItsCaller
  <2> QED BY <1>2, <2>1, <2>3
<1>14. CASE UNCHANGED httpVars
  <2>1. UNCHANGED <<client, defaultClients>> BY <1>14 DEF httpVars
  <2> QED BY <1>0, <1>2, <2>1 DEF SetByItsCaller
<1> QED BY <1>4, <1>5, <1>8, <1>9, <1>10, <1>12, <1>13, <1>14 DEF HTTPNext

\* Nobody has a client of its own at the start.
LEMMA HTTPConfigsInitially == HTTPInit => HTTPConfigs
<1>1. Working(NoClient.cfg) BY DeclaredWorks DEF NoClient
<1> QED BY <1>1 DEF HTTPInit, HTTPConfigs, Working

\* Callers, clients and collectors are of the shapes the code gives them, and a
\* client that was not told otherwise has a timeout and connections to use.
THEOREM HTTPTypeCorrect == HTTPSpec => []HTTPTypeOK
<1>1. HTTPInit => HTTPTypes /\ HTTPCounts /\ HTTPConfigs BY HTTPTypesInitially, HTTPCountsInitially, HTTPConfigsInitially
<1>2. (HTTPTypes /\ HTTPCounts /\ HTTPConfigs) /\ [HTTPNext]_httpVars => (HTTPTypes /\ HTTPCounts /\ HTTPConfigs)'
  BY HTTPTypesInductive, HTTPCountsInductive, HTTPConfigsInductive
<1>3. HTTPTypes /\ HTTPCounts /\ HTTPConfigs => HTTPTypeOK
  BY DEF HTTPTypes, HTTPCounts, HTTPConfigs, HTTPTypeOK, NeededFields, Quiet, OwesSums, HTTPSums, NoSums
<1> QED BY <1>1, <1>2, <1>3, PTL DEF HTTPSpec

-----------------------------------------------------------------------------
(* Types: what a list of options leaves of a configuration.                *)

\* A set of naturals that has 0 and every successor has them all.  (Induction over a
\* set: the library's theorem is about an operator, which no prover here can be given.)
LEMMA SetInduction ==
  ASSUME NEW S \in SUBSET Nat, 0 \in S, \A n \in S : n + 1 \in S
  PROVE  S = Nat
<1> SUFFICES ASSUME Nat \ S # {} PROVE FALSE
  OBVIOUS
<1> DEFINE T == Nat \ S
           R == {ss \in Nat \X Nat : ss[1] < ss[2]}
<1>1. IsWellFoundedOn(R, Nat) BY NatLessThanWellFounded DEF OpToRel
<1>2. T \subseteq Nat /\ T # {} OBVIOUS
<1>3. PICK x \in T : \A y \in T : <<y, x>> \notin R
  <2> HIDE DEF T, R
  <2> QED BY <1>1, <1>2, WFMin
<1>4. x - 1 \in Nat /\ x - 1 < x OBVIOUS
<1>5. x - 1 \in S BY <1>3, <1>4
<1> QED BY <1>5

\* The last index of a list is the greatest.
LEMMA GreatestIndex ==
  ASSUME NEW k \in Nat, NEW s \in SUBSET (1..k+1), k + 1 \in s
  PROVE  Max(s) = k + 1
<1>1. k + 1 \in s /\ \A y \in s : k + 1 >= y OBVIOUS
<1>2. \A x \in s : (\A y \in s : x >= y) => x = k + 1 OBVIOUS
<1> QED BY <1>1, <1>2 DEF Max

\* The fold over a client's options satisfies its recursion.
LEMMA NATSOptionsFold ==
  ASSUME NEW options, NEW n \in Nat, DOMAIN options = 1..n
  PROVE  \E cfg : /\ cfg[0] = natsDefaults /\ cfg[n] = NATSConfig(options)
                  /\ \A k \in 0..n-1 : cfg[k+1] = ApplyNATSOption(cfg[k], options[k+1])
<1> DEFINE Step(it, s) == IF s = {} THEN natsDefaults
                          ELSE ApplyNATSOption(it[s \ {Max(s)}], options[Max(s)])
           Fold(it, k) == [s \in SUBSET (1..k) |-> Step(it, s)]
           S == {k \in Nat : \E it : it = Fold(it, k)}
<1>1. 0 \in S
  <2> DEFINE it == [s \in SUBSET (1..0) |-> natsDefaults]
  <2>1. SUBSET (1..0) = {{}} OBVIOUS
  <2>2. it = Fold(it, 0) BY <2>1
  <2> QED BY <2>2
<1>2. ASSUME NEW k \in S PROVE k + 1 \in S
  <2>0. k \in Nat /\ k + 1 \in Nat OBVIOUS
  <2>1. PICK g : g = Fold(g, k) OBVIOUS
  <2> DEFINE h == [s \in SUBSET (1..k+1) |->
                     IF k + 1 \in s THEN ApplyNATSOption(g[s \ {k+1}], options[k+1]) ELSE g[s]]
  <2>2. \A s \in SUBSET (1..k) : h[s] = g[s] BY <2>0
  <2>3. ASSUME NEW s \in SUBSET (1..k+1) PROVE h[s] = Step(h, s)
    <3>1. CASE k + 1 \in s
      <4>1. Max(s) = k + 1 BY <3>1, <2>0, GreatestIndex
      <4>2. s \ {k+1} \in SUBSET (1..k) BY <2>0
      <4> QED BY <3>1, <4>1, <4>2, <2>2
    <3>2. CASE k + 1 \notin s
      <4>1. s \in SUBSET (1..k)
        <5>1. \A i \in s : i \in 1..k BY <2>0, <3>2
        <5> QED BY <5>1
      <4>2. s \ {Max(s)} \in SUBSET (1..k) BY <4>1
      <4>3. h[s] = g[s] /\ h[s \ {Max(s)}] = g[s \ {Max(s)}] BY <4>1, <4>2, <2>2
      <4>4. g[s] = Step(g, s) BY <4>1, <2>1
      <4> QED BY <4>3, <4>4
    <3> QED BY <3>1, <3>2
  <2>4. h = Fold(h, k + 1)
    <3>1. h = [s \in SUBSET (1..k+1) |-> h[s]] OBVIOUS
    <3> HIDE DEF h
    <3> QED BY <2>3, <3>1
  <2> HIDE DEF h, Fold
  <2> QED BY <2>0, <2>4
<1>3. S = Nat
  <2> HIDE DEF S
  <2>1. S \in SUBSET Nat BY DEF S
  <2> QED BY <1>1, <1>2, <2>1, SetInduction
<1>4. \E it : it = Fold(it, n) BY <1>3
<1> DEFINE it == CHOOSE it : it = Fold(it, n)
           cfg == [k \in 0..n |-> it[1..k]]
<1>5. it = Fold(it, n) BY <1>4
<1>6. NATSConfig(options) = it[1..n] BY DEF NATSConfig, FoldLeft, MapThenFoldSet
<1> HIDE DEF it
<1>7. cfg[0] = natsDefaults
  <2>1. it[{}] = natsDefaults BY <1>5
  <2>2. 1..0 = {} OBVIOUS
  <2> QED BY <2>1, <2>2
<1>8. ASSUME NEW k \in 0..n-1 PROVE cfg[k+1] = ApplyNATSOption(cfg[k], options[k+1])
  <2>1. k \in Nat /\ k \in 0..n /\ k + 1 \in 0..n OBVIOUS
  <2>2. Max(1..k+1) = k + 1 /\ (1..k+1) \ {k+1} = 1..k BY <2>1, GreatestIndex
  <2>3. 1..k+1 \in SUBSET (1..n) /\ 1..k+1 # {} BY <2>1
  <2>4. it[1..k+1] = Step(it, 1..k+1) BY <1>5, <2>3
  <2> QED BY <2>1, <2>2, <2>3, <2>4
<1>9. cfg[n] = NATSConfig(options) BY <1>6
<1> HIDE DEF cfg
<1> QED BY <1>7, <1>8, <1>9

\* What holds at the beginning of a list, and from one to the next, holds at its end.
LEMMA HoldsAtTheEnd ==
  ASSUME NEW n \in Nat, NEW P, 0 \in P, \A k \in 0..n-1 : k \in P => k + 1 \in P
  PROVE  n \in P
<1> DEFINE S == {k \in Nat : k <= n => k \in P}
<1>1. 0 \in S OBVIOUS
<1>2. ASSUME NEW k \in S PROVE k + 1 \in S
  <2>1. k \in Nat /\ k + 1 \in Nat OBVIOUS
  <2>2. k + 1 <= n => k \in 0..n-1 /\ k \in P BY <2>1
  <2> QED BY <2>1, <2>2
<1>3. S = Nat
  <2> HIDE DEF S
  <2>1. S \in SUBSET Nat BY DEF S
  <2> QED BY <1>1, <1>2, <2>1, SetInduction
<1> QED BY <1>3

\* An option never takes the servers away.
LEMMA OptionKeepsServers ==
  ASSUME NEW cfg, NEW opt, cfg.servers # <<>>, DOMAIN cfg = {"servers", "timeout"}
  PROVE  LET new == ApplyNATSOption(cfg, opt)
         IN  new.servers # <<>> /\ DOMAIN new = {"servers", "timeout"}
<1>1. CASE opt.name = "WithURL" /\ opt.value # ""
  <2>1. ApplyNATSOption(cfg, opt) = [cfg EXCEPT !.servers = <<opt.value>>] BY <1>1 DEF ApplyNATSOption
  <2>2. <<opt.value>> # <<>> OBVIOUS
  <2> QED BY <2>1, <2>2
<1>2. CASE opt.name = "WithServers" /\ opt.value # <<>>
  <2>1. ApplyNATSOption(cfg, opt) = [cfg EXCEPT !.servers = opt.value] BY <1>2 DEF ApplyNATSOption
  <2> QED BY <1>2, <2>1
<1>3. CASE opt.name = "WithTimeout"
  <2>1. ApplyNATSOption(cfg, opt) = [cfg EXCEPT !.timeout = opt.value] BY <1>3 DEF ApplyNATSOption
  <2> QED BY <2>1
<1>4. CASE /\ ~(opt.name = "WithURL" /\ opt.value # "") /\ ~(opt.name = "WithServers" /\ opt.value # <<>>)
           /\ opt.name # "WithTimeout"
  BY <1>4 DEF ApplyNATSOption
<1> QED BY <1>1, <1>2, <1>3, <1>4

\* Whatever the options, a client has a server to connect to.
THEOREM ClientHasAServer ==
  ASSUME NEW options, options \in Seq(Range(options))
  PROVE  NATSConfig(options).servers # <<>>
<1> DEFINE n == Len(options)
<1>1. n \in Nat /\ DOMAIN options = 1..n OBVIOUS
<1> HIDE DEF n
<1>2. PICK cfg : /\ cfg[0] = natsDefaults /\ cfg[n] = NATSConfig(options)
                 /\ \A k \in 0..n-1 : cfg[k+1] = ApplyNATSOption(cfg[k], options[k+1])
  BY <1>1, NATSOptionsFold
<1> DEFINE P == {k \in Nat : cfg[k].servers # <<>> /\ DOMAIN cfg[k] = {"servers", "timeout"}}
<1>3. 0 \in P BY <1>2 DEF natsDefaults
<1>4. ASSUME NEW k \in 0..n-1, k \in P PROVE k + 1 \in P
  <2>1. cfg[k].servers # <<>> /\ DOMAIN cfg[k] = {"servers", "timeout"} BY <1>4
  <2>2. cfg[k+1] = ApplyNATSOption(cfg[k], options[k+1]) BY <1>2
  <2>3. cfg[k+1].servers # <<>> /\ DOMAIN cfg[k+1] = {"servers", "timeout"}
    BY <2>1, <2>2, OptionKeepsServers
  <2>4. k + 1 \in Nat BY <1>1
  <2> QED BY <2>3, <2>4
<1>5. n \in P
  <2> HIDE DEF P
  <2> QED BY <1>1, <1>3, <1>4, HoldsAtTheEnd
<1> QED BY <1>2, <1>5

\* So does the fold over the options of a Kafka client.
LEMMA KafkaOptionsFold ==
  ASSUME NEW options, NEW n \in Nat, DOMAIN options = 1..n
  PROVE  \E cfg : /\ cfg[0] = kafkaDefaults /\ cfg[n] = KafkaConfig(options)
                  /\ \A k \in 0..n-1 : cfg[k+1] = ApplyOption(cfg[k], options[k+1])
<1> DEFINE Step(it, s) == IF s = {} THEN kafkaDefaults
                          ELSE ApplyOption(it[s \ {Max(s)}], options[Max(s)])
           Fold(it, k) == [s \in SUBSET (1..k) |-> Step(it, s)]
           S == {k \in Nat : \E it : it = Fold(it, k)}
<1>1. 0 \in S
  <2> DEFINE it == [s \in SUBSET (1..0) |-> kafkaDefaults]
  <2>1. SUBSET (1..0) = {{}} OBVIOUS
  <2>2. it = Fold(it, 0) BY <2>1
  <2> QED BY <2>2
<1>2. ASSUME NEW k \in S PROVE k + 1 \in S
  <2>0. k \in Nat /\ k + 1 \in Nat OBVIOUS
  <2>1. PICK g : g = Fold(g, k) OBVIOUS
  <2> DEFINE h == [s \in SUBSET (1..k+1) |->
                     IF k + 1 \in s THEN ApplyOption(g[s \ {k+1}], options[k+1]) ELSE g[s]]
  <2>2. \A s \in SUBSET (1..k) : h[s] = g[s] BY <2>0
  <2>3. ASSUME NEW s \in SUBSET (1..k+1) PROVE h[s] = Step(h, s)
    <3>1. CASE k + 1 \in s
      <4>1. Max(s) = k + 1 BY <3>1, <2>0, GreatestIndex
      <4>2. s \ {k+1} \in SUBSET (1..k) BY <2>0
      <4> QED BY <3>1, <4>1, <4>2, <2>2
    <3>2. CASE k + 1 \notin s
      <4>1. s \in SUBSET (1..k)
        <5>1. \A i \in s : i \in 1..k BY <2>0, <3>2
        <5> QED BY <5>1
      <4>2. s \ {Max(s)} \in SUBSET (1..k) BY <4>1
      <4>3. h[s] = g[s] /\ h[s \ {Max(s)}] = g[s \ {Max(s)}] BY <4>1, <4>2, <2>2
      <4>4. g[s] = Step(g, s) BY <4>1, <2>1
      <4> QED BY <4>3, <4>4
    <3> QED BY <3>1, <3>2
  <2>4. h = Fold(h, k + 1)
    <3>1. h = [s \in SUBSET (1..k+1) |-> h[s]] OBVIOUS
    <3> HIDE DEF h
    <3> QED BY <2>3, <3>1
  <2> HIDE DEF h, Fold
  <2> QED BY <2>0, <2>4
<1>3. S = Nat
  <2> HIDE DEF S
  <2>1. S \in SUBSET Nat BY DEF S
  <2> QED BY <1>1, <1>2, <2>1, SetInduction
<1>4. \E it : it = Fold(it, n) BY <1>3
<1> DEFINE it == CHOOSE it : it = Fold(it, n)
           cfg == [k \in 0..n |-> it[1..k]]
<1>5. it = Fold(it, n) BY <1>4
<1>6. KafkaConfig(options) = it[1..n] BY DEF KafkaConfig, FoldLeft, MapThenFoldSet
<1> HIDE DEF it
<1>7. cfg[0] = kafkaDefaults
  <2>1. it[{}] = kafkaDefaults BY <1>5
  <2>2. 1..0 = {} OBVIOUS
  <2> QED BY <2>1, <2>2
<1>8. ASSUME NEW k \in 0..n-1 PROVE cfg[k+1] = ApplyOption(cfg[k], options[k+1])
  <2>1. k \in Nat /\ k \in 0..n /\ k + 1 \in 0..n OBVIOUS
  <2>2. Max(1..k+1) = k + 1 /\ (1..k+1) \ {k+1} = 1..k BY <2>1, GreatestIndex
  <2>3. 1..k+1 \in SUBSET (1..n) /\ 1..k+1 # {} BY <2>1
  <2>4. it[1..k+1] = Step(it, 1..k+1) BY <1>5, <2>3
  <2> QED BY <2>1, <2>2, <2>3, <2>4
<1>9. cfg[n] = KafkaConfig(options) BY <1>6
<1> HIDE DEF cfg
<1> QED BY <1>7, <1>8, <1>9

\* An option leaves a client that has a topic to publish to one to consume.
LEMMA OptionKeepsTopics ==
  ASSUME NEW cfg, NEW opt, DOMAIN cfg = {"topic", "topics", "acks", "startOffset"},
         opt.name \in {"WithTopic", "WithTopics", "WithAcks", "WithStartOffset"},
         cfg.topic # "" => cfg.topics # <<>>,
         ~(opt.name = "WithTopics" /\ opt.value = <<>>)
  PROVE  LET new == ApplyOption(cfg, opt)
         IN  /\ new.topic # "" => new.topics # <<>>
             /\ DOMAIN new = {"topic", "topics", "acks", "startOffset"}
<1>1. CASE opt.name = "WithTopic"
  <2>1. ApplyOption(cfg, opt) = [cfg EXCEPT !.topic = opt.value,
                                            !.topics = IF @ = <<>> /\ opt.value # "" THEN <<opt.value>> ELSE @]
    BY <1>1 DEF ApplyOption
  <2>2. <<opt.value>> # <<>> OBVIOUS
  <2> QED BY <2>1, <2>2
<1>2. CASE opt.name = "WithTopics"
  <2>1. ApplyOption(cfg, opt) = [cfg EXCEPT !.topics = opt.value,
                                            !.topic = IF opt.value # <<>> /\ @ = "" THEN opt.value[1] ELSE @]
    BY <1>2 DEF ApplyOption
  <2>2. ApplyOption(cfg, opt).topics = opt.value BY <2>1
  <2> QED BY <1>2, <2>1, <2>2
<1>3. CASE opt.name = "WithAcks"
  <2>1. ApplyOption(cfg, opt) = [cfg EXCEPT !.acks = opt.value] BY <1>3 DEF ApplyOption
  <2> QED BY <2>1
<1>4. CASE opt.name = "WithStartOffset"
  <2>1. ApplyOption(cfg, opt) = [cfg EXCEPT !.startOffset = opt.value] BY <1>4 DEF ApplyOption
  <2> QED BY <2>1
<1> QED BY <1>1, <1>2, <1>3, <1>4

\* In whatever order the options come, a client that has a topic to publish to has
\* one to consume, unless WithTopics took the topics away.
THEOREM TopicIsConsumed ==
  ASSUME NEW options \in KafkaOptions, ~TakesTopicsAway(options)
  PROVE  KafkaConfig(options).topic # "" => KafkaConfig(options).topics # <<>>
<1> DEFINE n == Len(options)
           Consumed(cfg) == /\ cfg.topic # "" => cfg.topics # <<>>
                            /\ DOMAIN cfg = {"topic", "topics", "acks", "startOffset"}
<1>1. n \in Nat /\ DOMAIN options = 1..n
  <2>1. options \in Seq(Range(options)) BY KafkaAssumption
  <2> QED BY <2>1
<1> HIDE DEF n
<1>2. PICK cfg : /\ cfg[0] = kafkaDefaults /\ cfg[n] = KafkaConfig(options)
                 /\ \A k \in 0..n-1 : cfg[k+1] = ApplyOption(cfg[k], options[k+1])
  BY <1>1, KafkaOptionsFold
<1> DEFINE P == {k \in Nat : Consumed(cfg[k])}
<1>3. 0 \in P
  <2>1. Consumed(kafkaDefaults) BY DEF kafkaDefaults
  <2> QED BY <1>2, <2>1
<1>4. ASSUME NEW k \in 0..n-1, k \in P PROVE k + 1 \in P
  <2>1. Consumed(cfg[k]) BY <1>4
  <2>2. cfg[k+1] = ApplyOption(cfg[k], options[k+1]) BY <1>2
  <2>3. k + 1 \in DOMAIN options /\ k + 1 \in Nat BY <1>1
  <2>4. ~(options[k+1].name = "WithTopics" /\ options[k+1].value = <<>>) BY <2>3 DEF TakesTopicsAway
  <2>5. options[k+1].name \in {"WithTopic", "WithTopics", "WithAcks", "WithStartOffset"}
    BY <2>3, KafkaAssumption
  <2>6. Consumed(cfg[k+1]) BY <2>1, <2>2, <2>4, <2>5, OptionKeepsTopics
  <2> QED BY <2>3, <2>6
<1>5. n \in P
  <2> HIDE DEF P
  <2> QED BY <1>1, <1>3, <1>4, HoldsAtTheEnd
<1> QED BY <1>2, <1>5

-----------------------------------------------------------------------------
(* Types: streams, Kafka, NATS, conversations.                            *)

\* What a stream is made of, beside its errors.
StreamTypes ==
  /\ body \in Bodies /\ ending \in Endings
  /\ parent \in {"live", "canceled", "deadline"}
  /\ closed \in BOOLEAN /\ frame \in BOOLEAN
  /\ monitor \in {"none", "waiting", "gone"}
  /\ nextAt \in {"none", "loop", "reading"}
  /\ pump \in {"none", "next", "send", "gone"} /\ events \in 0..EventBuffer

\* A stream starts with a whole response before it.
LEMMA StreamTypesInitially == StreamInit => StreamTypes
<1>1. 0 \in 0..EventBuffer BY StreamAssumption DEF StreamAssumption
<1>2. StreamInit => /\ body \in Bodies /\ ending \in Endings /\ parent = "live" /\ closed = FALSE /\ frame = FALSE
                    /\ monitor = "none" /\ nextAt = "none" /\ pump = "none" /\ events = 0
  BY DEF StreamInit
<1> QED BY <1>1, <1>2 DEF StreamTypes

\* The rest of a response is a response.
LEMMA RestOfBody == ASSUME body \in Bodies, body # <<>> PROVE Tail(body) \in Bodies
<1>1. PICK n \in 0..MaxLines : body \in [1..n -> SSELines] BY DEF Bodies
<1>2. n \in Nat /\ n <= MaxLines /\ MaxLines \in Nat BY StreamAssumption DEF StreamAssumption
<1>3. body \in Seq(SSELines) /\ Len(body) = n BY <1>1, <1>2
<1>4. n - 1 \in 0..MaxLines BY <1>2, <1>3
<1>5. Tail(body) \in Seq(SSELines) /\ Len(Tail(body)) = n - 1 BY <1>3
<1>6. Tail(body) \in [1..(n - 1) -> SSELines]
  <2> DEFINE t == Tail(body)
  <2>1. t \in Seq(SSELines) /\ Len(t) = n - 1 BY <1>5
  <2> HIDE DEF t
  <2>2. t \in [1..(n - 1) -> SSELines] BY <2>1
  <2> QED BY <2>2 DEF t
<1> QED BY <1>4, <1>6 DEF Bodies

\* Reading takes lines off the response; the channel never overflows its buffer.
LEMMA StreamTypesInductive == StreamTypes /\ [StreamNext]_sseVars => StreamTypes'
<1> SUFFICES ASSUME StreamTypes, [StreamNext]_sseVars PROVE StreamTypes'
  OBVIOUS
<1>1. CASE ParentEnds \/ DoStream \/ Events \/ CloseCancels \/ CloseBody
  BY <1>1 DEF ParentEnds, DoStream, Events, CloseCancels, CloseBody, reading, response, life, StreamTypes
<1>2. CASE ConnectFails \/ BadStatus \/ Connected \/ MonitorSeesParent \/ MonitorSeesStream
  BY <1>2 DEF ConnectFails, BadStatus, Connected, MonitorSeesParent, MonitorSeesStream, reading, response, StreamTypes
<1>3. CASE CallNext \/ PumpCallsNext \/ CheckContext
  BY <1>3 DEF CallNext, PumpCallsNext, CheckContext, Returns, response, life, StreamTypes
<1>4. CASE Send \/ SendGivesUp \/ Receive
  BY <1>4, StreamAssumption DEF Send, SendGivesUp, Receive, response, life, reading, StreamTypes, StreamAssumption
<1>5. ASSUME NEW line, NEW atEOF, Takes(line, atEOF), UNCHANGED <<ending, life, events>>, body' \in Bodies
      PROVE  StreamTypes'
  <2>1. /\ frame' \in BOOLEAN /\ nextAt' \in {"none", "loop"} /\ pump' \in {pump, "send", "gone"}
    BY <1>5 DEF Takes, Returns, StreamTypes
  <2> QED BY <1>5, <2>1 DEF life, StreamTypes
<1>6. CASE ReadLine
  <2>1. body' = Tail(body) /\ body # <<>> BY <1>6 DEF ReadLine
  <2>2. body' \in Bodies BY <2>1, RestOfBody DEF StreamTypes
  <2> QED BY <1>5, <1>6, <2>2 DEF ReadLine
<1>7. CASE ReadEOF
  BY <1>5, <1>7 DEF ReadEOF, response, StreamTypes
<1>8. CASE ReadFails
  BY <1>8 DEF ReadFails, Returns, response, life, StreamTypes
<1>9. CASE UNCHANGED sseVars
  BY <1>9 DEF sseVars, StreamTypes
<1> QED BY <1>1, <1>2, <1>3, <1>4, <1>6, <1>7, <1>8, <1>9 DEF StreamNext

\* A stream keeps to its types, for a response of any length.
LEMMA StreamTypeCorrect == StreamSpec => []StreamTypeOK
<1>1. StreamInit => StreamErrors /\ StreamTypes BY StreamErrorsInitially, StreamTypesInitially
<1>2. (StreamErrors /\ StreamTypes) /\ [StreamNext]_sseVars => (StreamErrors /\ StreamTypes)'
  BY StreamErrorsInductive, StreamTypesInductive
<1>3. StreamErrors /\ StreamTypes => StreamTypeOK BY DEF StreamErrors, StreamTypes, StreamTypeOK
<1> QED BY <1>1, <1>2, <1>3, PTL DEF StreamSpec

-----------------------------------------------------------------------------

\* What a Kafka client is made of: its configuration is what its options make.
KafkaTypes ==
  /\ kafkaBuild \in BOOLEAN /\ kclosed \in BOOLEAN
  /\ \E options \in KafkaOptions : kcfg = KafkaConfig(options)
  /\ position \in 0..TopicLength
  /\ dropped \subseteq 1..TopicLength

\* A client starts at the first position its configuration gives it.
LEMMA KafkaTypesInitially == KafkaInit => KafkaTypes
<1>1. FirstPosition(kcfg) \in 0..TopicLength BY KafkaAssumption DEF FirstPosition
<1> QED BY <1>1 DEF KafkaInit, KafkaTypes

\* A poll never passes the end of the topic.
LEMMA KafkaTypesInductive == KafkaTypes /\ [KafkaNext]_kafkaVars => KafkaTypes'
<1> SUFFICES ASSUME KafkaTypes, [KafkaNext]_kafkaVars PROVE KafkaTypes'
  OBVIOUS
<1>0. TopicLength \in Nat /\ position \in 0..TopicLength BY KafkaAssumption DEF KafkaTypes
<1>1. ASSUME UNCHANGED <<kcfg, kafkaBuild, position, dropped>>, kclosed' \in BOOLEAN PROVE KafkaTypes'
  BY <1>1 DEF KafkaTypes
<1>2. ASSUME UNCHANGED kafkaClient, NEW n \in Nat, position + n <= TopicLength, Advance(n),
             Drops(n) \/ UNCHANGED dropped
      PROVE  KafkaTypes'
  <2>1. position' \in 0..TopicLength BY <1>0, <1>2 DEF Advance
  <2>2. ToSet(Polled(n)) \subseteq 1..TopicLength BY <1>0, <1>2 DEF Polled, ToSet
  <2>3. dropped' \subseteq 1..TopicLength BY <1>2, <2>2 DEF Drops, KafkaTypes
  <2> QED BY <1>2, <2>1, <2>3 DEF kafkaClient, KafkaTypes
<1>3. CASE CloseKafka \/ UNCHANGED kafkaVars
  BY <1>1, <1>3 DEF CloseKafka, kafkaVars, consuming, KafkaTypes
<1>4. ASSUME NEW v \in KafkaVUs, ConsumeOne(v) PROVE KafkaTypes'
  BY <1>2, <1>4 DEF ConsumeOne, CanPoll
<1>5. ASSUME NEW v \in KafkaVUs, NEW n \in 0..TopicLength, PollBatch(v, n) \/ PollBatchFails(v, n) PROVE KafkaTypes'
  <2>1. n \in Nat BY <1>0
  <2>2. position + n <= TopicLength /\ Advance(n) BY <1>5 DEF PollBatch, PollBatchFails, CanPoll
  <2>3. UNCHANGED kafkaClient /\ (Drops(n) \/ UNCHANGED dropped) BY <1>5 DEF PollBatch, PollBatchFails
  <2> QED BY <1>2, <2>1, <2>2, <2>3
<1>6. ASSUME NEW v \in KafkaVUs, NEW n \in 0..1, ConsumeFails(v, n) PROVE KafkaTypes'
  BY <1>0, <1>2, <1>6 DEF ConsumeFails, CanPoll
<1>7. ASSUME NEW v \in KafkaVUs,
             \/ DisabledCall(v) \/ ConsumeNothing(v) \/ BatchTimesOut(v) \/ (\E failed \in BOOLEAN : Publish(v, failed))
             \/ \E msgs \in {<<"nil">>, <<"topic", "nil">>, <<"no topic">>} : PublishRefused(v, msgs)
             \/ \E size \in BatchSizes : BeginBatch(v, size)
      PROVE  KafkaTypes'
  <2>1. UNCHANGED <<kafkaClient, position, dropped>>
    BY <1>7 DEF DisabledCall, ConsumeNothing, BatchTimesOut, Publish, PublishRefused, BeginBatch, consuming
  <2> QED BY <1>1, <2>1 DEF kafkaClient, KafkaTypes
<1> QED BY <1>3, <1>4, <1>5, <1>6, <1>7 DEF KafkaNext

\* A Kafka client keeps to its types, whatever the options it was made with.
LEMMA KafkaTypeCorrect == KafkaSpec => []KafkaTypeOK
<1>1. KafkaInit => ReaderInv /\ KafkaTypes BY ReaderInitially, KafkaTypesInitially
<1>2. (ReaderInv /\ KafkaTypes) /\ [KafkaNext]_kafkaVars => (ReaderInv /\ KafkaTypes)'
  BY ReaderInductive, KafkaTypesInductive
<1>3. ReaderInv /\ KafkaTypes => KafkaTypeOK
  BY TopicIsConsumed DEF ReaderInv, ConsumerTypes, KafkaTypes, KafkaTypeOK
<1> QED BY <1>1, <1>2, <1>3, PTL DEF KafkaSpec

-----------------------------------------------------------------------------
\* A NATS client starts with a server, and not connected.
LEMMA NATSTypeInitially == NATSInit => NATSTypeOK
BY ClientHasAServer, NATSAssumption DEF NATSInit, NATSTypeOK

\* What a NATS client is made of.
NATSTypes == /\ NATSTypeOK /\ DOMAIN natsAnswer = NATSVUs /\ DOMAIN sub = NATSVUs /\ DOMAIN inbox = NATSVUs

\* A call changes what belongs to its caller.
LEMMA NATSTypesInductive == NATSTypes /\ [NATSNext]_natsVars => NATSTypes'
<1> SUFFICES ASSUME NATSTypes, [NATSNext]_natsVars PROVE NATSTypes'
  OBVIOUS
<1> DEFINE Answers == {"none", "ok", "refused", "disabled", "failed", "ErrTimeout"}
<1>0. /\ DOMAIN natsAnswer = NATSVUs /\ DOMAIN sub = NATSVUs /\ DOMAIN inbox = NATSVUs
      /\ \A v \in NATSVUs : sub[v] \in {"none", "active", "gone"} /\ inbox[v] \in 0..1 /\ natsAnswer[v] \in Answers
  BY DEF NATSTypes, NATSTypeOK
<1>1. ASSUME NEW v \in NATSVUs, NEW answer \in Answers, NEW fields, CallReturns(v, answer, fields)
      PROVE  DOMAIN natsAnswer' = NATSVUs /\ \A w \in NATSVUs : natsAnswer'[w] \in Answers
  BY <1>0, <1>1 DEF CallReturns
<1>2. ASSUME UNCHANGED <<ncfg, natsBuild>>, conn' \in {"none", "open", "closed", "disabled"},
             DOMAIN natsAnswer' = NATSVUs /\ \A w \in NATSVUs : natsAnswer'[w] \in Answers,
             DOMAIN sub' = NATSVUs /\ \A w \in NATSVUs : sub'[w] \in {"none", "active", "gone"},
             DOMAIN inbox' = NATSVUs /\ \A w \in NATSVUs : inbox'[w] \in 0..1
      PROVE  NATSTypes'
  BY <1>2 DEF NATSTypes, NATSTypeOK
<1>3. CASE Connect \/ CloseNATS \/ UNCHANGED natsVars
  BY <1>0, <1>2, <1>3 DEF Connect, CloseNATS, natsVars, subscriptions, NATSTypes, NATSTypeOK
<1>4. ASSUME NEW v \in NATSVUs, NEW answer \in Answers, NEW fields, CallReturns(v, answer, fields),
             UNCHANGED natsClient,
             sub' = sub \/ (\E s \in {"active", "gone"} : sub' = [sub EXCEPT ![v] = s]),
             inbox' = inbox \/ (\E n \in 0..1 : inbox' = [inbox EXCEPT ![v] = n])
      PROVE  NATSTypes'
  <2>1. DOMAIN sub' = NATSVUs /\ \A w \in NATSVUs : sub'[w] \in {"none", "active", "gone"} BY <1>0, <1>4
  <2>2. DOMAIN inbox' = NATSVUs /\ \A w \in NATSVUs : inbox'[w] \in 0..1 BY <1>0, <1>4
  <2> QED BY <1>1, <1>2, <1>4, <2>1, <2>2 DEF natsClient, NATSTypes, NATSTypeOK
<1>5. ASSUME NEW v \in NATSVUs, NATSRefuses(v) PROVE NATSTypes'
  BY <1>4, <1>5 DEF NATSRefuses, subscriptions
<1>6. ASSUME NEW v \in NATSVUs, NEW failed \in BOOLEAN, PublishNATS(v, failed) \/ PublishJetStream(v, failed)
      PROVE  NATSTypes'
  BY <1>4, <1>6 DEF PublishNATS, PublishJetStream, PublishReturns, subscriptions
<1>7. ASSUME NEW v \in NATSVUs, NEW timeout, RequestReplied(v, timeout) PROVE NATSTypes'
  BY <1>4, <1>7 DEF RequestReplied, subscriptions
<1>8. ASSUME NEW v \in NATSVUs, NEW err, (\E timeout : RequestFails(v, timeout, err)) \/ NextMsgFails(v, err)
      PROVE  NATSTypes'
  <2>1. ErrorOf(err) \in Answers BY DEF ErrorOf
  <2> QED BY <1>4, <1>8, <2>1 DEF RequestFails, NextMsgFails, subscriptions
<1>9. ASSUME NEW v \in NATSVUs, Subscribe(v) PROVE NATSTypes'
  <2>1. \E answer \in Answers : CallReturns(v, answer, {}) BY <1>9 DEF Subscribe
  <2> QED BY <1>4, <1>9, <2>1 DEF Subscribe
<1>10. ASSUME NEW v \in NATSVUs, Deliver(v) PROVE NATSTypes'
  <2>1. inbox' = [inbox EXCEPT ![v] = 1] /\ UNCHANGED <<natsClient, sub, natsAnswer>> BY <1>10 DEF Deliver
  <2> QED BY <1>0, <1>2, <2>1 DEF natsClient, NATSTypes, NATSTypeOK
<1>11. ASSUME NEW v \in NATSVUs, NextMsgReturns(v) PROVE NATSTypes'
  <2>1. inbox[v] - 1 \in 0..1 BY <1>0, <1>11 DEF NextMsgReturns
  <2> QED BY <1>4, <1>11, <2>1 DEF NextMsgReturns
<1>12. ASSUME NEW v \in NATSVUs, Unsubscribe(v) PROVE NATSTypes'
  <2>1. PICK answer \in Answers : CallReturns(v, answer, {}) BY <1>12 DEF Unsubscribe
  <2>2. sub' = [sub EXCEPT ![v] = "gone"] /\ inbox' = [inbox EXCEPT ![v] = 0] /\ UNCHANGED natsClient
    BY <1>12 DEF Unsubscribe
  <2>3. \E s \in {"active", "gone"} : sub' = [sub EXCEPT ![v] = s] BY <2>2
  <2>4. \E n \in 0..1 : inbox' = [inbox EXCEPT ![v] = n] BY <2>2
  <2> QED BY <1>4, <2>1, <2>2, <2>3, <2>4
<1> QED BY <1>3, <1>5, <1>6, <1>7, <1>8, <1>9, <1>10, <1>11, <1>12 DEF NATSNext

\* A NATS client keeps to its types, whatever the options it was made with.
LEMMA NATSTypeCorrect == NATSSpec => []NATSTypeOK
<1>1. NATSInit => NATSTypes BY NATSTypeInitially DEF NATSTypes, NATSInit
<1>2. NATSTypes => NATSTypeOK BY DEF NATSTypes
<1> QED BY <1>1, <1>2, NATSTypesInductive, PTL DEF NATSSpec

-----------------------------------------------------------------------------
\* What a conversation is made of.
ConvTypes ==
  /\ session \in {"none", "open", "closed"} /\ iterDone \in BOOLEAN
  /\ reader \in {"none", "scan", "push", "report", "gone"}
  /\ flow \in {"idle", "open"} => reader = "none"
  /\ parsed \in ServerEvents \cup {"none"} /\ (reader = "push" => parsed \in ServerEvents)
  /\ sessEvents \in Seq(ServerEvents) /\ Len(sessEvents) <= SessionBuffer
  /\ sessErrors \in 0..1 /\ (reader # "gone" => sessErrors = 0)
  /\ currentTurn \in 0..Turns
  /\ outcome \in {"none", "success", "mismatch", "error", "panic"}

\* A conversation starts with nothing.
LEMMA ConvTypesInitially == ConversationInit => ConvTypes
<1>1. ASSUME ConversationInit
      PROVE  /\ flow = "idle" /\ session = "none" /\ iterDone = FALSE /\ reader = "none" /\ parsed = "none"
             /\ sessEvents = <<>> /\ sessErrors = 0 /\ currentTurn = 0 /\ outcome = "none"
  BY <1>1 DEF ConversationInit
<1>2. 0 \in 0..Turns /\ 0 <= SessionBuffer BY ConversationAssumption DEF ConversationAssumption
<1>3. <<>> \in Seq(ServerEvents) /\ Len(<<>>) = 0 OBVIOUS
<1> QED BY <1>1, <1>2, <1>3 DEF ConvTypes

\* The event channel never overflows, and an error is reported once, at the end.
LEMMA ConvTypesInductive == ConvInv /\ ConvTypes /\ [ConversationNext]_convVars => ConvTypes'
<1> SUFFICES ASSUME ConvInv, ConvTypes, [ConversationNext]_convVars PROVE ConvTypes'
  OBVIOUS
<1>0. /\ Turns \in Nat /\ SessionBuffer \in Nat /\ sessEvents \in Seq(ServerEvents) /\ Len(sessEvents) <= SessionBuffer
      /\ currentTurn \in 0..Turns /\ sessErrors \in 0..1
  BY ConversationAssumption DEF ConversationAssumption, ConvTypes
\* The ends of a flow.
<1>1. ASSUME NEW how \in {"error", "panic", "success", "mismatch"}, NEW c, Ends(how, c)
      PROVE  flow' = "done" /\ outcome' = how /\ session' = "closed"
  BY <1>1 DEF Ends
<1>2. ASSUME NEW c, NEW got, Verified(c, got)
      PROVE  flow' = "done" /\ outcome' \in {"success", "mismatch"} /\ session' = "closed"
  BY <1>2 DEF Verified, Ends
\* What the reader and the channels do.
<1>3. ASSUME UNCHANGED <<flow, session, outcome, currentTurn>>,
             iterDone' \in BOOLEAN, UNCHANGED <<streamSide, sessEvents, sessErrors>>
      PROVE  ConvTypes'
  BY <1>3 DEF ConvTypes, streamSide
<1>4. ASSUME flow' \notin {"idle", "open"}, session' \in {"none", "open", "closed"}, UNCHANGED <<iterDone, streamSide>>,
             sessEvents' = sessEvents \/ (sessEvents # <<>> /\ sessEvents' = Tail(sessEvents)),
             sessErrors' = sessErrors \/ (sessErrors > 0 /\ sessErrors' = sessErrors - 1),
             currentTurn' \in 0..Turns, outcome' \in {outcome, "error", "panic", "success", "mismatch"}
      PROVE  ConvTypes'
  <2>1. sessEvents' \in Seq(ServerEvents) /\ Len(sessEvents') <= SessionBuffer BY <1>0, <1>4
  <2>2. sessErrors' \in 0..1 /\ (reader' # "gone" => sessErrors' = 0) BY <1>0, <1>4 DEF ConvTypes, streamSide
  <2> QED BY <1>4, <2>1, <2>2 DEF ConvTypes, streamSide
<1>5. CASE IterationEnds BY <1>3, <1>5 DEF IterationEnds, counts
<1>6. CASE UNCHANGED convVars BY <1>6 DEF convVars, ConvTypes
<1>7. CASE RunConversation BY <1>7 DEF RunConversation, streamSide, counts, ConvTypes
<1>8. CASE OpenFails BY <1>0, <1>4, <1>8 DEF OpenFails, counts, ConvTypes
<1>9. CASE StreamOpens
  BY <1>9 DEF StreamOpens, counts, ConvTypes
<1>10. CASE FirstEvent
  <2>1. flow' \in {"send", "done"} /\ (UNCHANGED <<session, outcome>> \/ (session' = "closed" /\ outcome' = "error"))
    BY <1>10 DEF FirstEvent, NotCreated
  <2> QED BY <1>0, <1>4, <1>10, <2>1 DEF FirstEvent, counts, ConvTypes
<1>11. CASE NoFirstEvent
  <2>1. flow' = "done" /\ session' = "closed" /\ outcome' = "error" BY <1>11 DEF NoFirstEvent, NotCreated
  <2> QED BY <1>0, <1>4, <1>11, <2>1 DEF NoFirstEvent, counts
<1>12. CASE SendNextMessage
  <2>1. currentTurn' = currentTurn + 1 /\ currentTurn < Turns
    BY <1>12 DEF SendNextMessage, ConvInv, Reached
  <2> QED BY <1>0, <1>4, <1>12, <2>1 DEF SendNextMessage, ConvTypes
<1>13. ASSUME NEW ok \in BOOLEAN, MessageAnswered(ok) PROVE ConvTypes'
  <2>1. \/ flow' = "loop" /\ UNCHANGED <<session, outcome>>
        \/ flow' = "done" /\ session' = "closed" /\ outcome' = "error"
    BY <1>1, <1>13 DEF MessageAnswered
  <2> QED BY <1>0, <1>4, <1>13, <2>1 DEF MessageAnswered, counts, ConvTypes
<1>14. CASE MessageUnanswered
  <2>1. flow' = "done" /\ session' = "closed" /\ outcome' = "panic" BY <1>1, <1>14 DEF MessageUnanswered
  <2> QED BY <1>0, <1>4, <1>14, <2>1 DEF MessageUnanswered, counts
<1>15. CASE TakeEvent
  <2>1. \/ flow' \in {flow, "closing", "thinking"} /\ UNCHANGED <<session, outcome>>
        \/ flow' = "done" /\ session' = "closed" /\ outcome' \in {"error", "success", "mismatch"}
    BY <1>1, <1>2, <1>15 DEF TakeEvent
  <2>2. flow = "loop" BY <1>15 DEF TakeEvent
  <2> QED BY <1>0, <1>4, <1>15, <2>1, <2>2 DEF TakeEvent, ConvTypes
<1>16. CASE LoopFails
  <2>1. flow' = "done" /\ session' = "closed" /\ outcome' = "error" BY <1>1, <1>16 DEF LoopFails
  <2> QED BY <1>0, <1>4, <1>16, <2>1 DEF LoopFails, counts
<1>17. CASE ThinkingTime
  <2>1. \/ flow' = "send" /\ UNCHANGED <<session, outcome>>
        \/ flow' = "done" /\ session' = "closed" /\ outcome' = "error"
    BY <1>1, <1>17 DEF ThinkingTime
  <2> QED BY <1>0, <1>4, <1>17, <2>1 DEF ThinkingTime, counts, ConvTypes
<1>18. ASSUME NEW ok \in BOOLEAN, CloseConversation(ok) PROVE ConvTypes'
  <2>1. flow' = "done" /\ session' = "closed" /\ outcome' \in {"error", "success", "mismatch"}
    BY <1>1, <1>2, <1>18 DEF CloseConversation
  <2> QED BY <1>0, <1>4, <1>18, <2>1 DEF CloseConversation, counts
<1>19. ASSUME NEW e \in ServerEvents, Scan(e) PROVE ConvTypes'
  BY <1>19 DEF Scan, counts, ConvTypes
<1>20. CASE Push
  <2>1. parsed \in ServerEvents BY <1>20 DEF Push, ConvTypes
  <2>2. sessEvents' \in Seq(ServerEvents) /\ Len(sessEvents') <= SessionBuffer BY <1>0, <1>20, <2>1 DEF Push
  <2> QED BY <1>20, <2>2 DEF Push, counts, ConvTypes
<1>21. CASE Report BY <1>0, <1>21 DEF Report, counts, ConvTypes
<1>22. ASSUME NEW failed \in BOOLEAN, ScanEnds(failed) PROVE ConvTypes'
  BY <1>22 DEF ScanEnds, counts, ConvTypes
<1> QED BY <1>5, <1>6, <1>7, <1>8, <1>9, <1>10, <1>11, <1>12, <1>13, <1>14, <1>15, <1>16, <1>17, <1>18, <1>19,
           <1>20, <1>21, <1>22 DEF ConversationNext

\* A conversation keeps to its types, for any number of turns and events.
LEMMA ConversationTypeCorrect == ConversationSpec => []ConversationTypeOK
<1>1. ConversationInit => ConvInv /\ ConvTypes BY ConvInitially, ConvTypesInitially
<1>2. (ConvInv /\ ConvTypes) /\ [ConversationNext]_convVars => (ConvInv /\ ConvTypes)'
  BY ConvInductive, ConvTypesInductive
<1>3. ConvInv /\ ConvTypes => ConversationTypeOK BY DEF ConvInv, ConvTypes, Talking, ConversationTypeOK
<1> QED BY <1>1, <1>2, <1>3, PTL DEF ConversationSpec
================================================================================
