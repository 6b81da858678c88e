----------------------------- MODULE Library_proofs -----------------------------
(***************************************************************************)
(* The services around the engines: the shared queue deals every record    *)
(* once, the watchdog counts a stalled iteration once, a group runs in the *)
(* context of its own virtual user's current hook; the suite runs only the *)
(* configurations its engines can run, and tells one verdict everywhere;   *)
(* the statistics that decide it are those of all that was recorded;       *)
(* and the library that runs one of the services at a time keeps what each *)
(* of them promises.  For any number of virtual users, records, hooks,     *)
(* nested groups, documents and thresholds.                                *)
(***************************************************************************)
EXTENDS MCLibrary, MetricStore_proofs, Clients_proofs, WellFoundedInduction

-----------------------------------------------------------------------------
(* The shared queue of a data set.                                         *)

\* The types the proof needs.
QueueTypes ==
  /\ size \in Int /\ cursor \in Nat
  /\ iteration \in [Readers -> Nat]
  /\ dealt \in [Readers -> Seq(Nat)]

\* The cursor separates what was dealt, once, from what was not; who is told
\* that the set is exhausted has moved the cursor past its end.
BelowCursor ==
  \A v \in Readers : \A k \in DOMAIN dealt[v] : dealt[v][k] < cursor
Distinct ==
  \A u, v \in Readers : \A j \in DOMAIN dealt[u], k \in DOMAIN dealt[v] :
    dealt[u][j] = dealt[v][k] => u = v /\ j = k
NoGap ==
  \A i \in 0..size-1 : i < cursor => \E v \in Readers : \E k \in DOMAIN dealt[v] : dealt[v][k] = i
PastTheEnd == exhausted # {} => cursor >= size

QueueInv ==
  /\ QueueTypes
  /\ strategy = "SharedQueue" => BelowCursor /\ Distinct /\ NoGap /\ PastTheEnd

\* A loaded document has a whole number of records.
LEMMA RecordsAreCounted ==
  ASSUME NEW format \in Formats, NEW doc \in Documents0
  PROVE  RecordsOf(format, doc) \in Int
<1>1. PICK n \in 0..MaxDocument : doc \in [1..n -> Lines]
  BY DEF Documents0
<1>2. IsFiniteSet(1..n) BY <1>1, FS_Interval, DataSetAssumption DEF DataSetAssumption
<1>3. Kept(doc) \subseteq 1..n BY <1>1 DEF Kept
<1>4. IsFiniteSet(Kept(doc)) BY <1>2, <1>3, FS_Subset
<1>5. Cardinality(Kept(doc)) \in Nat BY <1>4, FS_CardinalityType
<1> QED BY <1>5 DEF RecordsOf

\* Before the first call nothing is dealt and nobody was refused.
LEMMA QueueInitially == DataInit => QueueInv
<1> SUFFICES ASSUME DataInit PROVE QueueInv OBVIOUS
<1>1. size \in Int BY RecordsAreCounted DEF DataInit
<1>2. dealt \in [Readers -> Seq(Nat)] /\ \A v \in Readers : DOMAIN dealt[v] = {}
  BY DEF DataInit
<1>3. cursor = 0 /\ exhausted = {} /\ iteration \in [Readers -> Nat] BY DEF DataInit
<1> QED BY <1>1, <1>2, <1>3 DEF QueueInv, QueueTypes, BelowCursor, Distinct, NoGap, PastTheEnd

\* Dealing i to v appends it to what v has, and leaves the others alone.
LEMMA DealAppends ==
  ASSUME QueueTypes, NEW v \in Readers, NEW i \in Nat, Deal(v, i)
  PROVE  /\ dealt' \in [Readers -> Seq(Nat)]
         /\ \A w \in Readers \ {v} : dealt'[w] = dealt[w]
         /\ DOMAIN dealt'[v] = DOMAIN dealt[v] \cup {Len(dealt[v]) + 1}
         /\ Len(dealt[v]) + 1 \notin DOMAIN dealt[v]
         /\ \A k \in DOMAIN dealt[v] : dealt'[v][k] = dealt[v][k]
         /\ dealt'[v][Len(dealt[v]) + 1] = i
<1> DEFINE s == dealt[v]
<1>1. s \in Seq(Nat) BY DEF QueueTypes
<1>2. dealt' = [dealt EXCEPT ![v] = Append(s, i)] BY DEF Deal
<1>3. dealt'[v] = Append(s, i) /\ \A w \in Readers \ {v} : dealt'[w] = dealt[w]
  BY <1>2 DEF QueueTypes
<1>4. /\ Append(s, i) \in Seq(Nat) /\ Len(Append(s, i)) = Len(s) + 1
      /\ \A k \in 1..Len(s) : Append(s, i)[k] = s[k]
      /\ Append(s, i)[Len(s) + 1] = i
  BY <1>1
<1>5. DOMAIN s = 1..Len(s) /\ DOMAIN Append(s, i) = 1..(Len(s) + 1) /\ Len(s) \in Nat
  BY <1>1, <1>4
<1>6. dealt' \in [Readers -> Seq(Nat)] BY <1>1, <1>2, <1>4 DEF QueueTypes
<1> QED BY <1>3, <1>4, <1>5, <1>6

\* An atomic add that finds a record left deals the one under the cursor.
LEMMA QueueDeals ==
  ASSUME QueueInv, NEW v \in Readers, strategy = "SharedQueue", cursor < size,
         iteration' \in [Readers -> Nat],
         cursor' = cursor + 1, Deal(v, cursor), UNCHANGED <<strategy, size>>
  PROVE  QueueInv'
<1> USE DEF QueueInv
<1>1. QueueTypes /\ BelowCursor /\ Distinct /\ NoGap /\ PastTheEnd OBVIOUS
<1> HIDE DEF QueueInv
<1> DEFINE last == Len(dealt[v]) + 1
<1>2. cursor \in Nat /\ size \in Int BY <1>1 DEF QueueTypes
<1>3. /\ dealt' \in [Readers -> Seq(Nat)]
      /\ \A w \in Readers \ {v} : dealt'[w] = dealt[w]
      /\ DOMAIN dealt'[v] = DOMAIN dealt[v] \cup {last}
      /\ last \notin DOMAIN dealt[v]
      /\ \A k \in DOMAIN dealt[v] : dealt'[v][k] = dealt[v][k]
      /\ dealt'[v][last] = cursor
  BY <1>1, <1>2, DealAppends
<1> HIDE DEF last
<1>4. \A w \in Readers : \A k \in DOMAIN dealt[w] : dealt[w][k] \in Nat
  BY <1>1 DEF QueueTypes
<1>5. QueueTypes' BY <1>1, <1>2, <1>3 DEF QueueTypes
\* An index that is new is the cursor, any other was dealt before.
<1>6. ASSUME NEW w \in Readers, NEW k \in DOMAIN dealt'[w]
      PROVE  \/ w = v /\ k = last /\ dealt'[w][k] = cursor
             \/ k \in DOMAIN dealt[w] /\ dealt'[w][k] = dealt[w][k] /\ dealt[w][k] < cursor
  BY <1>1, <1>3 DEF BelowCursor
<1>7. BelowCursor' BY <1>2, <1>4, <1>6 DEF BelowCursor
<1>8. Distinct'
  <2> SUFFICES ASSUME NEW u \in Readers, NEW w \in Readers,
                      NEW j \in DOMAIN dealt'[u], NEW k \in DOMAIN dealt'[w],
                      dealt'[u][j] = dealt'[w][k]
               PROVE  u = w /\ j = k
    BY DEF Distinct
  <2> DEFINE Old(x, m) == m \in DOMAIN dealt[x] /\ dealt'[x][m] = dealt[x][m] /\ dealt[x][m] < cursor
             New(x, m) == x = v /\ m = last /\ dealt'[x][m] = cursor
  <2>1. (New(u, j) \/ Old(u, j)) /\ (New(w, k) \/ Old(w, k)) BY <1>6
  <2>2. CASE Old(u, j) /\ Old(w, k)
    <3>1. /\ j \in DOMAIN dealt[u] /\ k \in DOMAIN dealt[w]
          /\ dealt[u][j] = dealt[w][k]
      BY <2>2
    <3>2. Distinct BY <1>1
    <3> QED BY <3>1, <3>2 DEF Distinct
  <2>3. CASE New(u, j) /\ New(w, k) BY <2>3
  <2>4. CASE New(u, j) /\ Old(w, k) BY <1>2, <1>4, <2>4
  <2>5. CASE Old(u, j) /\ New(w, k)
    <3>1. dealt[u][j] = cursor /\ dealt[u][j] < cursor BY <2>5
    <3> QED BY <1>2, <3>1
  <2> QED BY <2>1, <2>2, <2>3, <2>4, <2>5
<1>9. NoGap'
  <2> SUFFICES ASSUME NEW i \in 0..size-1, i < cursor + 1
               PROVE  \E w \in Readers : \E k \in DOMAIN dealt'[w] : dealt'[w][k] = i
    BY DEF NoGap
  <2>1. CASE i = cursor BY <1>3, <2>1
  <2>2. CASE i < cursor
    <3>1. PICK w \in Readers : \E k \in DOMAIN dealt[w] : dealt[w][k] = i
      BY <1>1, <2>2 DEF NoGap
    <3>2. PICK k \in DOMAIN dealt[w] : dealt[w][k] = i BY <3>1
    <3>3. k \in DOMAIN dealt'[w] /\ dealt'[w][k] = i BY <1>3, <3>2
    <3> QED BY <3>3
  <2> QED BY <1>2, <2>1, <2>2
<1>10. PastTheEnd' BY <1>1, <1>2 DEF PastTheEnd, Deal
<1> QED BY <1>5, <1>7, <1>8, <1>9, <1>10 DEF QueueInv

\* Every step keeps the invariant.
LEMMA QueueStep == QueueInv /\ [DataNext]_dataVars => QueueInv'
<1> SUFFICES ASSUME QueueInv, [DataNext]_dataVars PROVE QueueInv' OBVIOUS
<1> USE DEF QueueInv
<1>0. size \in Int /\ cursor \in Nat BY DEF QueueTypes
<1>00. ASSUME NEW v \in Readers, Calls(v) PROVE iteration' \in [Readers -> Nat]
  BY <1>00 DEF Calls, QueueTypes
<1>1. ASSUME NEW v \in Readers, NextOfEmpty(v) PROVE QueueInv'
  BY <1>0, <1>00, <1>1 DEF NextOfEmpty, Calls, Exhausted, QueueTypes, BelowCursor, Distinct, NoGap, PastTheEnd
<1>2. ASSUME NEW v \in Readers, NextByPosition(v) PROVE QueueInv'
  <2>1. v \in Nat \ {0} /\ size > 0 /\ iteration[v] \in Nat
    BY <1>2, DataSetAssumption DEF NextByPosition, QueueTypes, DataSetAssumption
  <2>2. DealtByPosition(v) \in Nat BY <1>0, <2>1 DEF DealtByPosition
  <2>3. dealt' \in [Readers -> Seq(Nat)] BY <1>2, <2>2, DealAppends DEF NextByPosition
  <2> QED BY <1>2, <1>0, <1>00, <2>3 DEF NextByPosition, QueueTypes
<1>3. ASSUME NEW v \in Readers, NextAtRandom(v) PROVE QueueInv'
  <2>1. PICK i \in 0..size-1 : Deal(v, i) BY <1>3 DEF NextAtRandom
  <2>2. dealt' \in [Readers -> Seq(Nat)] BY <1>0, <2>1, DealAppends
  <2> QED BY <1>0, <1>00, <1>3, <2>2 DEF NextAtRandom, QueueTypes
<1>4. ASSUME NEW v \in Readers, NextFromQueue(v) PROVE QueueInv'
  <2>1. CASE cursor >= size
    <3>1. /\ cursor' = cursor + 1 /\ Calls(v) /\ strategy = "SharedQueue"
          /\ UNCHANGED <<strategy, size, dealt>>
      BY <1>4, <1>0, <2>1 DEF NextFromQueue, Exhausted
    <3>2. QueueTypes' BY <1>0, <1>00, <3>1 DEF QueueTypes
    <3>3. \A w \in Readers : \A k \in DOMAIN dealt[w] : dealt[w][k] \in Nat BY DEF QueueTypes
    <3>4. BelowCursor' BY <1>0, <3>1, <3>3 DEF BelowCursor
    <3>5. Distinct' /\ PastTheEnd' BY <1>0, <2>1, <3>1 DEF Distinct, PastTheEnd
    <3>6. NoGap' BY <1>0, <2>1, <3>1 DEF NoGap
    <3> QED BY <3>2, <3>4, <3>5, <3>6
  <2>2. CASE cursor < size BY <1>4, <2>2, <1>0, <1>00, QueueDeals DEF NextFromQueue
  <2> QED BY <1>0, <2>1, <2>2
<1>5. ASSUME UNCHANGED dataVars PROVE QueueInv'
  BY <1>5 DEF dataVars, QueueTypes, BelowCursor, Distinct, NoGap, PastTheEnd
<1> QED BY <1>1, <1>2, <1>3, <1>4, <1>5 DEF DataNext

\* The cursor, what was dealt and who was refused agree in every state.
THEOREM QueueInvariant == DataSpec => []QueueInv
<1> QED BY QueueInitially, QueueStep, PTL DEF DataSpec

\* The shared queue deals no record twice, and tells nobody that it is exhausted
\* while a record has not been dealt, with any number of virtual users that call
\* Next at the same time (data/strategy.go, SharedQueue).
THEOREM RecordsAreDealtOnceHolds == DataSpec => []RecordsAreDealtOnce
<1>1. QueueInv => RecordsAreDealtOnce
  <2> SUFFICES ASSUME QueueInv, strategy = "SharedQueue" PROVE RecordsAreDealtOnce
    BY DEF RecordsAreDealtOnce
  <2>1. Distinct /\ NoGap /\ PastTheEnd /\ cursor \in Nat /\ size \in Int
    BY DEF QueueInv, QueueTypes
  <2>2. exhausted # {} => \A i \in 0..size-1 : i < cursor BY <2>1 DEF PastTheEnd
  <2> QED BY <2>1, <2>2 DEF RecordsAreDealtOnce, Distinct, NoGap
<1> QED BY <1>1, QueueInvariant, PTL

\* What is dealt is an index of the set that was loaded.
DataSorts ==
  /\ strategy \in Strategies /\ size \in -1..MaxDocument
  /\ iteration \in [Readers -> 0..MaxNexts]
  /\ \A v \in Readers : \A k \in DOMAIN dealt[v] : dealt[v][k] \in 0..size-1
  /\ exhausted \subseteq Readers

\* A document has as many records as it keeps lines, the header of CSV aside.
LEMMA RecordsAreBounded ==
  ASSUME NEW format \in Formats, NEW doc \in Documents0, ~LoadError(format, doc)
  PROVE  RecordsOf(format, doc) \in 0..MaxDocument
<1>1. PICK n \in 0..MaxDocument : doc \in [1..n -> Lines]
  BY DEF Documents0
<1>2. n \in Nat /\ MaxDocument \in Nat BY <1>1, DataSetAssumption DEF DataSetAssumption
<1>3. IsFiniteSet(1..n) /\ Cardinality(1..n) = n
  BY <1>2, FS_Interval
<1>4. Kept(doc) \subseteq 1..n BY <1>1 DEF Kept
<1>5. IsFiniteSet(Kept(doc)) /\ Cardinality(Kept(doc)) <= n BY <1>3, <1>4, FS_Subset
<1>6. Cardinality(Kept(doc)) \in Nat BY <1>5, FS_CardinalityType
<1>7. CASE format = "CSV"
  <2>1. Kept(doc) # {} BY <1>7 DEF LoadError
  <2>2. Cardinality(Kept(doc)) # 0 BY <1>5, <2>1, FS_EmptySet
  <2> QED BY <1>1, <1>2, <1>5, <1>6, <1>7, <2>2 DEF RecordsOf
<1>8. CASE format # "CSV" BY <1>1, <1>2, <1>5, <1>6, <1>8 DEF RecordsOf
<1> QED BY <1>7, <1>8

\* A set is loaded, or loading it has failed.
LEMMA DataSortsInitially == DataInit => DataSorts
<1> SUFFICES ASSUME DataInit PROVE DataSorts OBVIOUS
<1>1. size \in -1..MaxDocument
  <2>1. PICK format \in Formats, doc \in Documents0 :
          size = IF LoadError(format, doc) THEN -1 ELSE RecordsOf(format, doc)
    BY DEF DataInit
  <2>2. MaxDocument \in Nat BY DataSetAssumption DEF DataSetAssumption
  <2>3. ~LoadError(format, doc) => size \in 0..MaxDocument BY <2>1, RecordsAreBounded
  <2> QED BY <2>1, <2>2, <2>3
<1>2. 0 \in 0..MaxNexts BY DataSetAssumption DEF DataSetAssumption
<1>3. /\ strategy \in Strategies /\ exhausted = {}
      /\ iteration = [v \in Readers |-> 0] /\ dealt = [v \in Readers |-> <<>>]
  BY DEF DataInit
<1>4. \A v \in Readers : DOMAIN dealt[v] = {} BY <1>3
<1>5. iteration \in [Readers -> 0..MaxNexts] BY <1>2, <1>3
<1> QED BY <1>1, <1>3, <1>4, <1>5 DEF DataSorts

\* Every strategy deals an index below the size.
LEMMA DataSortsInductive == QueueTypes /\ DataSorts /\ [DataNext]_dataVars => DataSorts'
<1> SUFFICES ASSUME QueueTypes, DataSorts, [DataNext]_dataVars PROVE DataSorts'
  OBVIOUS
<1>0. size \in -1..MaxDocument /\ MaxDocument \in Nat /\ MaxNexts \in Nat
  BY DataSetAssumption DEF DataSetAssumption, DataSorts
<1>1. ASSUME NEW v \in Readers, Calls(v) PROVE iteration' \in [Readers -> 0..MaxNexts]
  <2>1. iteration \in [Readers -> 0..MaxNexts] BY DEF DataSorts
  <2>2. iteration[v] < MaxNexts /\ iteration' = [iteration EXCEPT ![v] = @ + 1] BY <1>1 DEF Calls
  <2>3. iteration[v] + 1 \in 0..MaxNexts BY <1>0, <2>1, <2>2
  <2> QED BY <2>1, <2>2, <2>3
<1>2. ASSUME NEW v \in Readers, NEW i \in Nat, i < size, Deal(v, i), Calls(v), UNCHANGED <<strategy, size>>
      PROVE  DataSorts'
  <2>1. i \in 0..size-1 BY <1>0, <1>2
  <2>2. dealt \in [Readers -> Seq(Nat)] /\ dealt' = [dealt EXCEPT ![v] = Append(@, i)] /\ UNCHANGED exhausted
    BY <1>2 DEF QueueTypes, Deal
  <2>3. dealt'[v] = Append(dealt[v], i) /\ \A w \in Readers \ {v} : dealt'[w] = dealt[w] BY <2>2
  <2>4. \A k \in DOMAIN dealt'[v] : (k \in DOMAIN dealt[v] /\ dealt'[v][k] = dealt[v][k]) \/ dealt'[v][k] = i
    <3>1. dealt[v] \in Seq(Nat) BY <2>2
    <3> QED BY <2>3, <3>1
  <2>5. \A w \in Readers : \A k \in DOMAIN dealt'[w] : dealt'[w][k] \in 0..size-1
    BY <2>1, <2>3, <2>4 DEF DataSorts
  <2> QED BY <1>1, <1>2, <2>2, <2>5 DEF DataSorts
<1>3. ASSUME NEW v \in Readers, Exhausted(v), Calls(v), UNCHANGED <<strategy, size>> PROVE DataSorts'
  BY <1>1, <1>3 DEF Exhausted, DataSorts
<1>4. ASSUME NEW v \in Readers, NextOfEmpty(v) PROVE DataSorts'
  BY <1>3, <1>4 DEF NextOfEmpty
<1>5. ASSUME NEW v \in Readers, NextByPosition(v) PROVE DataSorts'
  <2>1. size \in Nat \ {0} BY <1>0, <1>5 DEF NextByPosition
  <2>2. v - 1 + iteration[v] \in Nat /\ iteration[v] \in Nat
    <3>1. v \in Nat \ {0} BY DataSetAssumption DEF DataSetAssumption
    <3>2. iteration[v] \in Nat BY DEF QueueTypes
    <3> QED BY <3>1, <3>2
  <2>3. \A n \in Nat : n % size \in Nat /\ n % size < size BY <2>1
  <2>4. DealtByPosition(v) \in Nat /\ DealtByPosition(v) < size BY <2>2, <2>3 DEF DealtByPosition
  <2> QED BY <1>2, <1>5, <2>4 DEF NextByPosition
<1>6. ASSUME NEW v \in Readers, NextAtRandom(v) PROVE DataSorts'
  <2>1. PICK i \in 0..size-1 : Deal(v, i) BY <1>6 DEF NextAtRandom
  <2>2. i \in Nat /\ i < size BY <1>0, <2>1
  <2> QED BY <1>2, <1>6, <2>1, <2>2 DEF NextAtRandom
<1>7. ASSUME NEW v \in Readers, NextFromQueue(v) PROVE DataSorts'
  <2>1. cursor \in Nat BY DEF QueueTypes
  <2>2. CASE cursor >= size BY <1>3, <1>7, <2>2 DEF NextFromQueue
  <2>3. CASE ~(cursor >= size)
    <3>1. Deal(v, cursor) /\ cursor < size BY <1>0, <1>7, <2>1, <2>3 DEF NextFromQueue
    <3> QED BY <1>2, <1>7, <2>1, <3>1 DEF NextFromQueue
  <2> QED BY <2>2, <2>3
<1>8. CASE UNCHANGED dataVars BY <1>8 DEF dataVars, DataSorts
<1> QED BY <1>4, <1>5, <1>6, <1>7, <1>8 DEF DataNext

\* Whatever the document and the strategy, a record that is dealt is one of the set.
LEMMA DataTypeCorrect == DataSpec => []DataTypeOK
<1>1. DataInit => QueueInv /\ DataSorts BY QueueInitially, DataSortsInitially
<1>2. (QueueInv /\ DataSorts) /\ [DataNext]_dataVars => (QueueInv /\ DataSorts)'
  BY QueueStep, DataSortsInductive DEF QueueInv
<1>3. QueueInv /\ DataSorts => DataTypeOK BY DEF QueueInv, QueueTypes, DataSorts, DataTypeOK
<1> QED BY <1>1, <1>2, <1>3, PTL DEF DataSpec

-----------------------------------------------------------------------------
(* The watchdog.                                                           *)

\* Iterations of a virtual user whose Begin has reset its stalled word.
Resets(v) == IF tpc[v] = "reset" THEN begun[v] - 1 ELSE begun[v]

\* Whether the checker has found v active, or is about to count it.
LooksAt(v) == wdpc \in {"start", "swap", "count"} /\ Head(scan) = v
Owed(v) == IF wdpc = "count" /\ Head(scan) = v THEN 1 ELSE 0

CountTypes ==
  /\ begun \in [Watched -> Nat] /\ counted \in [Watched -> Nat]
  /\ active \in [Watched -> BOOLEAN] /\ stalled \in [Watched -> BOOLEAN]
  /\ tpc \in [Watched -> {"new", "between", "reset", "activate", "running",
                          "unregister", "gone"}]

\* Every flag raised was preceded by a reset of its own, and one that is down
\* leaves room for the next.
CountOf(v) ==
  /\ tpc[v] = "reset" => begun[v] > 0
  /\ active[v] = TRUE \/ tpc[v] \in {"activate", "running"} \/ LooksAt(v) => Resets(v) > 0
  /\ counted[v] + Owed(v) <= Resets(v)
  /\ stalled[v] = FALSE /\ Resets(v) > 0 => counted[v] + Owed(v) < Resets(v)

CountInv ==
  /\ CountTypes
  /\ \A v \in Watched : CountOf(v)

\* No iteration has begun and nothing is counted.
LEMMA CountInitially == WatchInit => CountInv
BY DEF WatchInit, CountInv, CountTypes, CountOf, Resets, LooksAt, Owed

\* What another virtual user does, or the checker about another one, is nothing
\* to v.
LEMMA CountFrame ==
  ASSUME CountTypes, NEW v \in Watched, CountOf(v), wdpc' = wdpc, scan' = scan,
         counted' = counted,
         begun'[v] = begun[v], tpc'[v] = tpc[v], active'[v] = active[v], stalled'[v] = stalled[v]
  PROVE  CountOf(v)'
BY DEF CountOf, Resets, LooksAt, Owed

\* A virtual user's own steps: one that begins makes room for one more flag only
\* when it resets the stalled word.
LEMMA UserCounts ==
  ASSUME CountInv, NEW v \in Watched,
         \/ RegisterVU(v) \/ BeginStart(v) \/ BeginStalled(v) \/ BeginActive(v) \/ End(v)
         \/ UnregisterActive(v) \/ UnregisterVU(v)
  PROVE  CountInv'
<1> USE DEF Goes, Set
<1>0. CountTypes /\ CountOf(v) BY DEF CountInv
<1>1. /\ wdpc' = wdpc /\ scan' = scan /\ counted' = counted
      /\ \A u \in Watched \ {v} : /\ begun'[u] = begun[u] /\ tpc'[u] = tpc[u]
                                  /\ active'[u] = active[u] /\ stalled'[u] = stalled[u]
  BY <1>0 DEF CountTypes, RegisterVU, BeginStart, BeginStalled, BeginActive, End,
              UnregisterActive, UnregisterVU, checkerVars, runVars, trackerWords
<1>4. CountTypes'
  <2>1. tpc' \in [Watched -> {"new", "between", "reset", "activate", "running",
                             "unregister", "gone"}]
    BY <1>0 DEF CountTypes, RegisterVU, BeginStart, BeginStalled, BeginActive, End,
                UnregisterActive, UnregisterVU
  <2>2. begun' \in [Watched -> Nat]
    BY <1>0 DEF CountTypes, RegisterVU, BeginStart, BeginStalled, BeginActive, End,
                UnregisterActive, UnregisterVU
  <2>3. active' \in [Watched -> BOOLEAN] /\ stalled' \in [Watched -> BOOLEAN]
    BY <1>0 DEF CountTypes, RegisterVU, BeginStart, BeginStalled, BeginActive, End,
                UnregisterActive, UnregisterVU, trackerWords
  <2> QED BY <1>0, <1>1, <2>1, <2>2, <2>3 DEF CountTypes
<1>5. begun[v] \in Nat /\ counted[v] \in Nat /\ Owed(v) \in {0, 1} BY <1>0 DEF CountTypes, Owed
<1>2. \A u \in Watched \ {v} : CountOf(u)' BY <1>0, <1>1, CountFrame DEF CountInv
<1>3. CountOf(v)'
  <2>1. CASE BeginStart(v)
    <3>1. /\ tpc[v] = "between" /\ tpc'[v] = "reset" /\ begun'[v] = begun[v] + 1
          /\ active' = active /\ stalled' = stalled
      BY <1>0, <2>1 DEF BeginStart, CountTypes
    <3>2. Resets(v)' = Resets(v) /\ begun'[v] > 0 BY <1>5, <3>1 DEF Resets
    <3>3. Owed(v)' = Owed(v) /\ (LooksAt(v)' <=> LooksAt(v)) BY <1>1 DEF Owed, LooksAt
    <3> QED BY <1>0, <1>1, <1>5, <3>1, <3>2, <3>3 DEF CountOf
  <2>2. CASE BeginStalled(v)
    <3>1. /\ tpc[v] = "reset" /\ tpc'[v] = "activate" /\ begun' = begun
          /\ active' = active
      BY <1>0, <2>2 DEF BeginStalled, CountTypes
    <3>2. Resets(v) \in Nat /\ Resets(v)' = Resets(v) + 1
      BY <1>0, <1>5, <3>1 DEF Resets, CountOf
    <3>3. Owed(v)' = Owed(v) BY <1>1 DEF Owed
    <3> QED BY <1>0, <1>1, <1>5, <3>1, <3>2, <3>3 DEF CountOf
  <2>3. CASE ~BeginStart(v) /\ ~BeginStalled(v)
    <3>1. /\ begun' = begun /\ stalled' = stalled
          /\ Resets(v)' = Resets(v) /\ tpc'[v] # "reset"
          /\ tpc'[v] = "running" => tpc[v] = "activate"
          /\ tpc'[v] # "activate"
          /\ active'[v] = TRUE => active[v] = TRUE \/ tpc[v] = "activate"
      BY <1>0, <2>3 DEF CountTypes, Resets, RegisterVU, BeginActive, End, UnregisterActive,
                        UnregisterVU, trackerWords
    <3>2. Owed(v)' = Owed(v) /\ (LooksAt(v)' <=> LooksAt(v)) BY <1>1 DEF Owed, LooksAt
    <3> QED BY <1>0, <1>1, <3>1, <3>2 DEF CountOf
  <2> QED BY <2>1, <2>2, <2>3
<1> QED BY <1>2, <1>3, <1>4 DEF CountInv

\* The checker's steps on the virtual users' words are reads ...
LEMMA ReadsCount ==
  ASSUME CountInv, UNCHANGED <<tpc, trackerWords, begun, counted>>,
         \/ CheckStalledIterations \/ ReadClock \/ LockAndScan \/ LoadActive \/ LoadStart
         \/ StopWatchdog
  PROVE  CountInv'
<1>1. CountTypes' BY DEF CountInv, CountTypes, trackerWords
<1>2. ASSUME NEW v \in Watched PROVE CountOf(v)'
  <2>1. Resets(v)' = Resets(v) /\ Owed(v)' <= Owed(v) /\ Owed(v) \in {0, 1} /\ Owed(v)' \in {0, 1}
    BY DEF Resets, Owed, CheckStalledIterations, ReadClock, LockAndScan, LoadActive, LoadStart,
           StopWatchdog, NextTracker, Checker
  <2>2. LooksAt(v)' => LooksAt(v) \/ active[v] = TRUE
    BY DEF LooksAt, CheckStalledIterations, ReadClock, LockAndScan, LoadActive, LoadStart,
           StopWatchdog, NextTracker, Checker, CountInv, CountTypes
  <2>3. /\ tpc'[v] = tpc[v] /\ begun'[v] = begun[v] /\ active'[v] = active[v]
        /\ stalled'[v] = stalled[v] /\ counted'[v] = counted[v]
    BY DEF trackerWords
  <2>4. begun[v] \in Nat /\ counted[v] \in Nat /\ Resets(v) \in Int
    BY DEF CountInv, CountTypes, Resets
  <2>5. CountOf(v) BY DEF CountInv
  <2> QED BY <2>1, <2>2, <2>3, <2>4, <2>5 DEF CountOf
<1> QED BY <1>1, <1>2 DEF CountInv

\* ... but for the swap, which takes the room its virtual user's reset has made ...
LEMMA SwapCounts == ASSUME CountInv, SwapStalled PROVE CountInv'
<1>1. CountTypes' BY DEF CountInv, CountTypes, SwapStalled, Set
<1>2. ASSUME NEW v \in Watched PROVE CountOf(v)'
  <2>1. /\ tpc'[v] = tpc[v] /\ begun'[v] = begun[v] /\ active'[v] = active[v]
        /\ counted'[v] = counted[v] /\ Resets(v)' = Resets(v)
    BY DEF SwapStalled, Resets
  <2>2. /\ begun[v] \in Nat /\ counted[v] \in Nat /\ Resets(v) \in Int /\ CountOf(v)
        /\ wdpc = "swap" /\ Owed(v) = 0
    BY DEF CountInv, CountTypes, Resets, SwapStalled, Owed
  <2>3. CASE Head(scan) = v /\ stalled[v] = FALSE
    <3>1. wdpc' = "count" /\ stalled'[v] = TRUE /\ scan' = scan
      BY <2>3 DEF SwapStalled, Set, CountInv, CountTypes
    <3>2. Owed(v)' = 1 /\ LooksAt(v) BY <2>2, <2>3, <3>1 DEF Owed, LooksAt
    <3> QED BY <2>1, <2>2, <2>3, <3>1, <3>2 DEF CountOf
  <2>4. CASE Head(scan) # v
    <3>1. stalled'[v] = stalled[v] BY <2>4 DEF SwapStalled, Set, CountInv, CountTypes
    <3>2. Owed(v)' = 0 /\ ~LooksAt(v)'
      BY <2>2, <2>4 DEF SwapStalled, NextTracker, Owed, LooksAt
    <3> QED BY <2>1, <2>2, <3>1, <3>2 DEF CountOf
  <2>5. CASE Head(scan) = v /\ stalled[v] = TRUE
    <3>1. stalled' = stalled /\ wdpc' \in {"select", "active"}
      BY <2>5 DEF SwapStalled, NextTracker
    <3>2. Owed(v)' = 0 /\ ~LooksAt(v)' BY <3>1 DEF Owed, LooksAt
    <3> QED BY <2>1, <2>2, <3>1, <3>2 DEF CountOf
  <2> QED BY <2>3, <2>4, <2>5 DEF CountInv, CountTypes
<1> QED BY <1>1, <1>2 DEF CountInv

\* ... and the increment, which pays what the swap owed.
LEMMA CountCounts == ASSUME CountInv, CountStalled PROVE CountInv'
<1>0. counted' = [x \in Watched |-> IF x = Head(scan) THEN counted[x] + 1 ELSE counted[x]]
  BY DEF CountInv, CountTypes, CountStalled, Set
<1>1. CountTypes'
  <2>1. counted' \in [Watched -> Nat] BY <1>0 DEF CountInv, CountTypes
  <2> QED BY <2>1 DEF CountInv, CountTypes, CountStalled, trackerWords
<1>2. ASSUME NEW v \in Watched PROVE CountOf(v)'
  <2>1. /\ tpc'[v] = tpc[v] /\ begun'[v] = begun[v] /\ active'[v] = active[v]
        /\ stalled'[v] = stalled[v] /\ Resets(v)' = Resets(v)
    BY DEF CountStalled, Resets, trackerWords
  <2>2. /\ begun[v] \in Nat /\ counted[v] \in Nat /\ Resets(v) \in Int /\ CountOf(v)
        /\ Owed(v) \in {0, 1} /\ wdpc = "count"
    BY DEF CountInv, CountTypes, Resets, Owed, CountStalled
  <2>3. Owed(v)' = 0 /\ ~LooksAt(v)' BY DEF CountStalled, NextTracker, Owed, LooksAt
  <2>4. counted'[v] = counted[v] + Owed(v)
    BY <1>0, <2>2 DEF Owed
  <2> QED BY <2>1, <2>2, <2>3, <2>4 DEF CountOf
<1> QED BY <1>1, <1>2 DEF CountInv

\* Every step keeps the books.
LEMMA CountStep == CountInv /\ [WatchNext]_watchVars => CountInv'
<1> SUFFICES ASSUME CountInv, [WatchNext]_watchVars PROVE CountInv' OBVIOUS
<1>1. ASSUME NEW v \in Watched,
             \/ RegisterVU(v) \/ BeginStart(v) \/ BeginStalled(v) \/ BeginActive(v) \/ End(v)
             \/ UnregisterActive(v) \/ UnregisterVU(v)
      PROVE  CountInv'
  BY <1>1, UserCounts
<1>2. CASE UNCHANGED <<tpc, trackerWords, begun, counted, checkerVars>>
  BY <1>2 DEF trackerWords, checkerVars, CountInv, CountTypes, CountOf, Resets, LooksAt, Owed
<1>3. CASE ClockAdvances \/ TickerFires \/ UNCHANGED watchVars
  BY <1>2, <1>3 DEF ClockAdvances, TickerFires, watchVars, trackerWords, checkerVars
<1>4. CASE \/ CheckStalledIterations \/ ReadClock \/ LockAndScan \/ LoadActive \/ LoadStart
           \/ StopWatchdog
  BY <1>4, ReadsCount DEF CheckStalledIterations, ReadClock, LockAndScan, LoadActive, LoadStart,
                          StopWatchdog
<1>5. CASE SwapStalled BY <1>5, SwapCounts
<1>6. CASE CountStalled BY <1>6, CountCounts
<1> QED BY <1>1, <1>3, <1>4, <1>5, <1>6 DEF WatchNext

\* The books bound the count.
LEMMA CountSaysSo == CountInv => StalledAtMostOncePerIteration
<1> SUFFICES ASSUME CountInv, NEW v \in Watched PROVE counted[v] <= begun[v]
  BY DEF StalledAtMostOncePerIteration
<1>1. /\ CountOf(v) /\ counted[v] \in Nat /\ begun[v] \in Nat /\ Owed(v) \in {0, 1}
      /\ Resets(v) \in {begun[v], begun[v] - 1}
  BY DEF CountInv, CountTypes, Owed, Resets
<1> QED BY <1>1 DEF CountOf

\* The watchdog never counts more stalled iterations than a virtual user has begun:
\* each is reported once (engine/watchdog.go).
THEOREM StalledAtMostOnceHolds == WatchSpec => []StalledAtMostOncePerIteration
<1> QED BY CountInitially, CountStep, CountSaysSo, PTL DEF WatchSpec

-----------------------------------------------------------------------------
(* The contexts of hooks and groups.                                       *)

\* Where an adapter may point, and what is on a stack.
Pointers == [vu : ContextVUs, path : Seq(GroupNames)]
Frames == [depth : Nat \ {0}, path : Seq(GroupNames)]

\* Adapters are numbered without a gap; one that is in use is used by one virtual
\* user.
AdapterInv ==
  /\ inHook \subseteq ContextVUs
  /\ \E n \in Nat : DOMAIN at = 1..n
  /\ \A a \in DOMAIN at : at[a] \in Seq(Pointers) /\ Len(at[a]) > 0
  /\ pool \subseteq DOMAIN at
  /\ DOMAIN adapter = ContextVUs
  /\ \A v \in inHook : adapter[v] \in DOMAIN at \ pool
  /\ \A u, v \in inHook : adapter[u] = adapter[v] => u = v

\* Between hooks a virtual user is in no group.
StackInv ==
  /\ stack \in [ContextVUs -> Seq(Frames)]
  /\ \A v \in ContextVUs \ inHook : stack[v] = <<>>
  /\ \A v \in inHook : \A i \in DOMAIN stack[v] : stack[v][i].depth <= Len(at[adapter[v]])

\* A frame's adapter points at a context of its virtual user that is up to date.
Current(here, v) ==
  /\ here.vu = v
  /\ here.path # <<>> => here.path \in DOMAIN childContexts[v] /\ childContexts[v][here.path] = root[v]
CurrentInv ==
  /\ DOMAIN root = ContextVUs /\ DOMAIN childContexts = ContextVUs
  /\ \A v \in inHook : \A i \in DOMAIN stack[v] : Current(at[adapter[v]][stack[v][i].depth], v)

\* The groups that a virtual user is in are those it has not timed yet.
TimedInv ==
  /\ DOMAIN untimed = ContextVUs
  /\ \A v \in ContextVUs : \A i \in DOMAIN stack[v] : i > 1 => stack[v][i].path \in DOMAIN untimed[v]
  /\ \A v \in ContextVUs : \A p \in DOMAIN untimed[v] : untimed[v][p] = OnStack(v, p)

ContextInv == AdapterInv /\ StackInv /\ CurrentInv /\ TimedInv

\* Nobody is in a hook.
LEMMA ContextInitially == ContextInit => ContextInv
<1> SUFFICES ASSUME ContextInit PROVE ContextInv
  OBVIOUS
<1>1. AdapterInv
  <2>1. DOMAIN at = 1..0 /\ pool = {} /\ inHook = {} BY DEF ContextInit
  <2> QED BY <2>1 DEF AdapterInv, ContextInit
<1>2. stack \in [ContextVUs -> Seq(Frames)] /\ \A v \in ContextVUs : stack[v] = <<>> BY DEF ContextInit
<1>3. StackInv BY <1>2 DEF StackInv, ContextInit
<1>4. CurrentInv BY DEF CurrentInv, ContextInit
<1>5. TimedInv
  <2>1. DOMAIN untimed = ContextVUs /\ \A v \in ContextVUs : DOMAIN untimed[v] = {} BY DEF ContextInit
  <2> QED BY <1>2, <2>1 DEF TimedInv
<1> QED BY <1>1, <1>3, <1>4, <1>5 DEF ContextInv

\* The groups on a stack, by path.
Entered(s, p) == Cardinality({i \in DOMAIN s : i > 1 /\ s[i].path = p})

\* The hook's own frame is no group.
LEMMA EnteredOne ==
  ASSUME NEW s \in Seq(Frames), Len(s) < 2
  PROVE  \A p : Entered(s, p) = 0
<1> SUFFICES ASSUME NEW p PROVE Entered(s, p) = 0
  OBVIOUS
<1>1. DOMAIN s = 1..Len(s) /\ Len(s) \in Nat BY LenProperties
<1>2. {i \in DOMAIN s : i > 1 /\ s[i].path = p} = {} BY <1>1
<1> QED BY <1>2, FS_EmptySet DEF Entered

\* One more group on a stack.
LEMMA EnteredOneMore ==
  ASSUME NEW s \in Seq(Frames), Len(s) > 0, NEW t \in Seq(Frames), Len(t) = Len(s) + 1,
         \A i \in 1..Len(s) : t[i] = s[i]
  PROVE  \A p : /\ Entered(s, p) \in Nat
                /\ p = t[Len(t)].path => Entered(t, p) = Entered(s, p) + 1
                /\ p # t[Len(t)].path => Entered(t, p) = Entered(s, p)
<1> DEFINE f == t[Len(t)]
<1>1. f = t[Len(s) + 1] OBVIOUS
<1>2. Len(s) \in Nat /\ DOMAIN s = 1..Len(s) /\ DOMAIN t = 1..Len(s) + 1 BY LenProperties
<1>3. ASSUME NEW p
      PROVE  /\ Entered(s, p) \in Nat
             /\ p = f.path => Entered(t, p) = Entered(s, p) + 1
             /\ p # f.path => Entered(t, p) = Entered(s, p)
  <2> DEFINE S == {i \in DOMAIN s : i > 1 /\ s[i].path = p}
             T == {i \in DOMAIN t : i > 1 /\ t[i].path = p}
             x == Len(s) + 1
  <2>1. IsFiniteSet(S)
    <3>1. IsFiniteSet(1..Len(s)) BY <1>2, FS_Interval
    <3>2. S \subseteq 1..Len(s) BY <1>2
    <3> QED BY <3>1, <3>2, FS_Subset
  <2>2. Cardinality(S) \in Nat BY <2>1, FS_CardinalityType
  <2>3. x \notin S BY <1>2
  <2>4. CASE p = f.path
    <3>1. T = S \cup {x} BY <1>1, <1>2, <2>4
    <3> HIDE DEF S, T, x
    <3>2. Cardinality(T) = Cardinality(S) + 1 BY <2>1, <2>3, <3>1, FS_AddElement
    <3> QED BY <2>2, <2>4, <3>2 DEF Entered, S, T
  <2>5. CASE p # f.path
    <3>1. T = S BY <1>1, <1>2, <2>5
    <3> HIDE DEF S, T, x
    <3>2. Cardinality(T) = Cardinality(S) BY <2>2, <3>1
    <3> QED BY <2>2, <2>5, <3>2 DEF Entered, S, T
  <2> QED BY <2>4, <2>5
<1> QED BY <1>3

\* Entering a group.
LEMMA EnteredMore ==
  ASSUME NEW s \in Seq(Frames), Len(s) > 0, NEW f \in Frames, NEW t, t = Append(s, f)
  PROVE  /\ t \in Seq(Frames) /\ Len(t) = Len(s) + 1 /\ t[Len(t)] = f
         /\ \A i \in 1..Len(s) : t[i] = s[i]
BY AppendProperties

\* Leaving the last group of a stack.
LEMMA EnteredLess ==
  ASSUME NEW s \in Seq(Frames), Len(s) > 1, NEW t, t = SubSeq(s, 1, Len(s) - 1)
  PROVE  /\ t \in Seq(Frames) /\ Len(t) > 0 /\ Len(s) = Len(t) + 1
         /\ \A i \in 1..Len(t) : s[i] = t[i]
<1> DEFINE n == Len(s) - 1
<1>1. Len(s) \in Nat /\ DOMAIN s = 1..Len(s) /\ n \in 1..Len(s) BY LenProperties
<1>2. \A i \in 1..n : s[i] \in Frames BY <1>1, ElementOfSeq
<1>3. n \in Int /\ 1 <= n /\ t = SubSeq(s, 1, n) /\ Len(s) = n + 1 BY <1>1
<1> HIDE DEF n
<1>4. /\ t \in Seq(Frames) /\ Len(t) = n - 1 + 1 /\ \A i \in 1..n - 1 + 1 : t[i] = s[1 + i - 1]
  BY <1>2, <1>3, SubSeqProperties
<1>5. n - 1 + 1 = n /\ \A i \in 1..n : 1 + i - 1 = i BY <1>3
<1> QED BY <1>3, <1>4, <1>5

\* A step of one virtual user: its own stack and the groups it has not timed.
LEMMA TimedAfter ==
  ASSUME TimedInv, NEW v \in ContextVUs, DOMAIN untimed' = ContextVUs,
         \A u \in ContextVUs \ {v} : stack'[u] = stack[u] /\ untimed'[u] = untimed[u],
         \A i \in DOMAIN stack'[v] : i > 1 => stack'[v][i].path \in DOMAIN untimed'[v],
         \A p \in DOMAIN untimed'[v] : untimed'[v][p] = Entered(stack'[v], p)
  PROVE  TimedInv'
<1>1. ASSUME NEW u \in ContextVUs
      PROVE  /\ \A i \in DOMAIN stack'[u] : i > 1 => stack'[u][i].path \in DOMAIN untimed'[u]
             /\ \A p \in DOMAIN untimed'[u] : untimed'[u][p] = Entered(stack'[u], p)
  <2>1. CASE u = v BY <2>1
  <2>2. CASE u # v BY <2>2 DEF TimedInv, OnStack, Entered
  <2> QED BY <2>1, <2>2
<1> QED BY <1>1 DEF TimedInv, OnStack, Entered

\* The other virtual users' adapters and contexts stay as they are.
LEMMA OthersStayCurrent ==
  ASSUME AdapterInv, StackInv, CurrentInv, NEW v \in ContextVUs,
         NEW u \in ContextVUs \ {v}, u \in inHook, stack'[u] = stack[u], adapter'[u] = adapter[u],
         at'[adapter[u]] = at[adapter[u]], root'[u] = root[u], childContexts'[u] = childContexts[u]
  PROVE  /\ \A i \in DOMAIN stack'[u] : stack'[u][i].depth <= Len(at'[adapter'[u]])
         /\ \A i \in DOMAIN stack'[u] : Current(at[adapter[u]][stack[u][i].depth], u)'
<1>1. \A i \in DOMAIN stack[u] : stack[u][i].depth <= Len(at[adapter[u]]) BY DEF StackInv
<1>2. \A i \in DOMAIN stack[u] : Current(at[adapter[u]][stack[u][i].depth], u) BY DEF CurrentInv
<1> QED BY <1>1, <1>2 DEF Current

\* A hook's adapter, from the pool or new, is nobody else's and points at its
\* virtual user's context.
GetsAdapter(v, a) ==
  /\ DOMAIN adapter' = ContextVUs /\ adapter'[v] = a
  /\ \A u \in ContextVUs \ {v} : adapter'[u] = adapter[u]
  /\ \E n \in Nat : DOMAIN at' = 1..n
  /\ DOMAIN at' = DOMAIN at \cup {a}
  /\ a \notin pool' /\ pool' \subseteq pool
  /\ \A u \in inHook : adapter[u] # a
  /\ \A b \in DOMAIN at \ {a} : at'[b] = at[b]
  /\ at'[a] \in Seq(Pointers) /\ Len(at'[a]) > 0 /\ at'[a][1] = Here(v, <<>>)

\* An adapter from the pool.
LEMMA FromThePool ==
  ASSUME AdapterInv, NEW v \in ContextVUs, NEW a \in pool, pool' = pool \ {a},
         adapter' = [adapter EXCEPT ![v] = a], at' = [at EXCEPT ![a][1] = Here(v, <<>>)]
  PROVE  GetsAdapter(v, a)
<1>1. Here(v, <<>>) \in Pointers BY DEF Here, Pointers
<1>2. a \in DOMAIN at /\ at[a] \in Seq(Pointers) /\ Len(at[a]) > 0 BY DEF AdapterInv
<1>3. /\ DOMAIN at' = DOMAIN at /\ at'[a] = [at[a] EXCEPT ![1] = Here(v, <<>>)]
      /\ \A b \in DOMAIN at \ {a} : at'[b] = at[b]
  BY <1>2
<1>4. at'[a] \in Seq(Pointers) /\ Len(at'[a]) > 0 /\ at'[a][1] = Here(v, <<>>)
  <2> DEFINE s == at[a]
             here == Here(v, <<>>)
  <2>1. s \in Seq(Pointers) /\ here \in Pointers /\ Len(s) > 0 BY <1>1, <1>2
  <2> HIDE DEF s, here
  <2>2. 1 \in 1..Len(s) BY <2>1, LenProperties
  <2>3. /\ [s EXCEPT ![1] = here] \in Seq(Pointers) /\ Len([s EXCEPT ![1] = here]) = Len(s)
        /\ [s EXCEPT ![1] = here][1] = here
    BY <2>1, <2>2, ExceptSeq
  <2> QED BY <1>3, <2>1, <2>3 DEF s, here
<1>5. /\ DOMAIN adapter' = ContextVUs /\ adapter'[v] = a
      /\ \A u \in ContextVUs \ {v} : adapter'[u] = adapter[u]
      /\ \A u \in inHook : adapter[u] # a
  BY DEF AdapterInv
<1>6. (\E n \in Nat : DOMAIN at' = 1..n) /\ DOMAIN at' = DOMAIN at \cup {a} BY <1>2, <1>3 DEF AdapterInv
<1> QED BY <1>3, <1>4, <1>5, <1>6 DEF GetsAdapter

\* A new adapter.
LEMMA NewAdapter ==
  ASSUME AdapterInv, NEW v \in ContextVUs, pool = {}, pool' = pool,
         NEW a, a = Cardinality(DOMAIN at) + 1,
         adapter' = [adapter EXCEPT ![v] = a], at' = Assign(at, a, <<Here(v, <<>>)>>)
  PROVE  GetsAdapter(v, a)
<1>1. Here(v, <<>>) \in Pointers BY DEF Here, Pointers
<1>2. PICK n \in Nat : DOMAIN at = 1..n BY DEF AdapterInv
<1>3. Cardinality(DOMAIN at) = n BY <1>2, FS_Interval
<1>4. a = n + 1 /\ DOMAIN at \cup {a} = 1..n + 1 /\ a \notin DOMAIN at BY <1>2, <1>3
<1>5. /\ DOMAIN at' = DOMAIN at \cup {a} /\ at'[a] = <<Here(v, <<>>)>>
      /\ \A b \in DOMAIN at \ {a} : at'[b] = at[b]
  BY DEF Assign
<1>6. at'[a] \in Seq(Pointers) /\ Len(at'[a]) > 0 /\ at'[a][1] = Here(v, <<>>)
  <2> DEFINE here == Here(v, <<>>)
  <2>1. here \in Pointers /\ at'[a] = <<here>> BY <1>1, <1>5
  <2> HIDE DEF here
  <2>2. <<here>> \in Seq(Pointers) /\ Len(<<here>>) = 1 /\ <<here>>[1] = here BY <2>1
  <2> DEFINE one == <<here>>
  <2>3. one \in Seq(Pointers) /\ Len(one) = 1 /\ one[1] = here /\ at'[a] = one BY <2>1, <2>2
  <2> HIDE DEF one
  <2>4. at'[a] \in Seq(Pointers) /\ Len(at'[a]) > 0 /\ at'[a][1] = here BY <2>3
  <2> QED BY <2>4 DEF here
<1>7. /\ DOMAIN adapter' = ContextVUs /\ adapter'[v] = a
      /\ \A u \in ContextVUs \ {v} : adapter'[u] = adapter[u]
      /\ \A u \in inHook : adapter[u] # a
  BY <1>4 DEF AdapterInv
<1>8. \E m \in Nat : DOMAIN at' = 1..m
  <2> DEFINE m == n + 1
  <2>1. m \in Nat /\ 1..m = 1..n \cup {m} /\ a = m BY <1>4
  <2> HIDE DEF m
  <2>2. DOMAIN at' = 1..m BY <1>2, <1>5, <2>1
  <2> QED BY <2>1, <2>2
<1> QED BY <1>5, <1>6, <1>7, <1>8 DEF GetsAdapter

\* A hook begins.
LEMMA BeginHookKeeps ==
  ASSUME ContextInv, NEW v \in ContextVUs, NEW h \in Hooks0, BeginHook(v, h)
  PROVE  ContextInv'
<1> DEFINE first == <<[depth |-> 1, path |-> <<>>]>>
<1>0. AdapterInv /\ StackInv /\ CurrentInv /\ TimedInv BY DEF ContextInv
<1>1. /\ v \notin inHook /\ inHook' = inHook \cup {v}
      /\ DOMAIN root' = ContextVUs /\ \A u \in ContextVUs \ {v} : root'[u] = root[u]
      /\ stack' = [stack EXCEPT ![v] = first] /\ UNCHANGED <<childContexts, untimed>>
  BY <1>0 DEF BeginHook, CurrentInv
<1>2. /\ first \in Seq(Frames) /\ Len(first) = 1 /\ DOMAIN first = {1} /\ first[1].depth = 1
  BY DEF Frames
<1> HIDE DEF first
<1>3. /\ stack' \in [ContextVUs -> Seq(Frames)] /\ stack'[v] = first
      /\ \A u \in ContextVUs \ {v} : stack'[u] = stack[u]
  BY <1>0, <1>1, <1>2 DEF StackInv
<1>4. PICK a : GetsAdapter(v, a)
  <2>1. \/ \E b \in pool : /\ pool' = pool \ {b} /\ adapter' = [adapter EXCEPT ![v] = b]
                           /\ at' = [at EXCEPT ![b][1] = Here(v, <<>>)]
        \/ \E b : /\ b = Cardinality(DOMAIN at) + 1 /\ pool = {} /\ pool' = pool
                  /\ adapter' = [adapter EXCEPT ![v] = b] /\ at' = Assign(at, b, <<Here(v, <<>>)>>)
    BY DEF BeginHook
  <2> QED BY <1>0, <2>1, FromThePool, NewAdapter
<1>5. \A u \in inHook : adapter[u] \in DOMAIN at \ {a} /\ u # v BY <1>0, <1>1, <1>4 DEF AdapterInv, GetsAdapter
<1>6. AdapterInv'
  <2>1. inHook' \subseteq ContextVUs BY <1>0, <1>1 DEF AdapterInv
  <2>2. \A b \in DOMAIN at' : at'[b] \in Seq(Pointers) /\ Len(at'[b]) > 0 BY <1>0, <1>4 DEF AdapterInv, GetsAdapter
  <2>3. pool' \subseteq DOMAIN at' BY <1>0, <1>4 DEF AdapterInv, GetsAdapter
  <2>4. \A u \in inHook' : adapter'[u] \in DOMAIN at' \ pool' BY <1>0, <1>1, <1>4, <1>5 DEF AdapterInv, GetsAdapter
  <2>5. \A u, w \in inHook' : adapter'[u] = adapter'[w] => u = w BY <1>0, <1>1, <1>4, <1>5 DEF AdapterInv, GetsAdapter
  <2> QED BY <1>4, <2>1, <2>2, <2>3, <2>4, <2>5 DEF AdapterInv, GetsAdapter
<1>7. ASSUME NEW u \in inHook'
      PROVE  /\ \A i \in DOMAIN stack'[u] : stack'[u][i].depth <= Len(at'[adapter'[u]])
             /\ \A i \in DOMAIN stack'[u] : Current(at[adapter[u]][stack[u][i].depth], u)'
  <2>1. CASE u = v
    <3>1. at'[adapter'[v]][1] = Here(v, <<>>) /\ Len(at'[adapter'[v]]) > 0 BY <1>4 DEF GetsAdapter
    <3>2. Here(v, <<>>).vu = v /\ Here(v, <<>>).path = <<>> BY DEF Here
    <3>3. Len(at'[adapter'[v]]) \in Nat BY <1>4, LenProperties DEF GetsAdapter
    <3> QED BY <1>2, <1>3, <2>1, <3>1, <3>2, <3>3 DEF Current
  <2>2. CASE u # v
    <3>1. u \in inHook /\ u \in ContextVUs \ {v} BY <1>0, <1>1, <2>2 DEF AdapterInv
    <3>2. adapter'[u] = adapter[u] /\ at'[adapter[u]] = at[adapter[u]] BY <1>4, <1>5, <3>1 DEF GetsAdapter
    <3> QED BY <1>0, <1>1, <1>3, <3>1, <3>2, OthersStayCurrent
  <2> QED BY <2>1, <2>2
<1>8. StackInv'
  <2>1. \A u \in ContextVUs \ inHook' : stack'[u] = <<>> BY <1>0, <1>1, <1>3 DEF StackInv
  <2> QED BY <1>3, <1>7, <2>1 DEF StackInv
<1>9. CurrentInv' BY <1>0, <1>1, <1>7 DEF CurrentInv
<1>10. TimedInv'
  <2>1. stack[v] = <<>> /\ stack[v] \in Seq(Frames) BY <1>0, <1>1 DEF StackInv
  <2>2. \A p : Entered(stack[v], p) = 0
    <3>1. Len(stack[v]) < 2 BY <2>1
    <3> QED BY <2>1, <3>1, EnteredOne
  <2>3. \A p : Entered(first, p) = 0
    <3>1. Len(first) < 2 BY <1>2
    <3> QED BY <1>2, <3>1, EnteredOne
  <2>4. \A i \in DOMAIN stack'[v] : ~(i > 1) BY <1>2, <1>3
  <2>5. \A p \in DOMAIN untimed[v] : untimed[v][p] = Entered(stack[v], p) BY <1>0 DEF TimedInv, OnStack, Entered
  <2>6. \A p \in DOMAIN untimed'[v] : untimed'[v][p] = Entered(stack'[v], p) BY <1>1, <1>3, <2>2, <2>3, <2>5
  <2>7. DOMAIN untimed' = ContextVUs BY <1>0, <1>1 DEF TimedInv
  <2> QED BY <1>0, <1>1, <1>3, <2>4, <2>6, <2>7, TimedAfter
<1> QED BY <1>6, <1>8, <1>9, <1>10 DEF ContextInv

\* A hook that is over: its virtual user is in no group, and has its adapter no
\* more.
LEMMA HookIsOver ==
  ASSUME ContextInv, NEW v \in inHook, inHook' = inHook \ {v}, stack' = [stack EXCEPT ![v] = <<>>],
         adapter' = [adapter EXCEPT ![v] = 0], pool' \in {pool, pool \cup {adapter[v]}},
         UNCHANGED <<root, childContexts, at>>,
         DOMAIN untimed' = ContextVUs, \A u \in ContextVUs \ {v} : untimed'[u] = untimed[u],
         \A p \in DOMAIN untimed'[v] : untimed'[v][p] = 0
  PROVE  ContextInv'
<1>0. AdapterInv /\ StackInv /\ CurrentInv /\ TimedInv /\ v \in ContextVUs BY DEF ContextInv, AdapterInv
<1>1. /\ stack' \in [ContextVUs -> Seq(Frames)] /\ stack'[v] = <<>>
      /\ \A u \in ContextVUs \ {v} : stack'[u] = stack[u]
  BY <1>0 DEF StackInv
<1>2. DOMAIN adapter' = ContextVUs /\ \A u \in ContextVUs \ {v} : adapter'[u] = adapter[u]
  BY <1>0 DEF AdapterInv
<1>3. \A u \in inHook' : u \in inHook /\ u \in ContextVUs \ {v} /\ adapter[u] # adapter[v]
  BY <1>0 DEF AdapterInv
<1>4. AdapterInv'
  <2>1. inHook' \subseteq ContextVUs BY <1>3
  <2>2. pool' \subseteq DOMAIN at' BY <1>0 DEF AdapterInv
  <2>3. \A u \in inHook' : adapter'[u] \in DOMAIN at' \ pool' BY <1>0, <1>2, <1>3 DEF AdapterInv
  <2>4. \A u, w \in inHook' : adapter'[u] = adapter'[w] => u = w BY <1>0, <1>2, <1>3 DEF AdapterInv
  <2> QED BY <1>0, <1>2, <2>1, <2>2, <2>3, <2>4 DEF AdapterInv
<1>5. ASSUME NEW u \in inHook'
      PROVE  /\ \A i \in DOMAIN stack'[u] : stack'[u][i].depth <= Len(at'[adapter'[u]])
             /\ \A i \in DOMAIN stack'[u] : Current(at[adapter[u]][stack[u][i].depth], u)'
  BY <1>0, <1>1, <1>2, <1>3, OthersStayCurrent
<1>6. StackInv'
  <2>1. \A u \in ContextVUs \ inHook' : stack'[u] = <<>> BY <1>0, <1>1 DEF StackInv
  <2> QED BY <1>1, <1>5, <2>1 DEF StackInv
<1>7. CurrentInv' BY <1>0, <1>5 DEF CurrentInv
<1>8. TimedInv'
  <2>1. stack'[v] \in Seq(Frames) /\ Len(stack'[v]) < 2 /\ DOMAIN stack'[v] = {} BY <1>0, <1>1
  <2>2. \A p : Entered(stack'[v], p) = 0 BY <2>1, EnteredOne
  <2> QED BY <1>0, <1>1, <2>1, <2>2, TimedAfter
<1> QED BY <1>4, <1>6, <1>7, <1>8 DEF ContextInv

\* A hook returns.
LEMMA EndHookKeeps == ASSUME ContextInv, NEW v \in ContextVUs, EndHook(v) PROVE ContextInv'
<1>0. AdapterInv /\ StackInv /\ TimedInv BY DEF ContextInv
<1>1. stack[v] \in Seq(Frames) /\ Len(stack[v]) < 2 BY <1>0 DEF StackInv, EndHook
<1>2. \A p : Entered(stack[v], p) = 0 BY <1>1, EnteredOne
<1>3. \A p \in DOMAIN untimed[v] : untimed[v][p] = 0 BY <1>0, <1>2 DEF TimedInv, OnStack, Entered
<1>4. DOMAIN untimed = ContextVUs BY <1>0 DEF TimedInv
<1> QED BY <1>3, <1>4, HookIsOver DEF EndHook, identity

\* A hook panics, in whatever groups it is.
LEMMA HookPanicsKeeps == ASSUME ContextInv, NEW v \in ContextVUs, HookPanics(v) PROVE ContextInv'
<1>0. AdapterInv /\ StackInv /\ TimedInv BY DEF ContextInv
<1>1. ASSUME NEW p PROVE Entered(stack[v], p) \in Int
  <2>1. stack[v] \in Seq(Frames) BY <1>0 DEF StackInv
  <2>2. Len(stack[v]) \in Nat /\ DOMAIN stack[v] = 1..Len(stack[v]) BY <2>1, LenProperties
  <2> DEFINE S == {i \in DOMAIN stack[v] : i > 1 /\ stack[v][i].path = p}
  <2>3. S \subseteq 1..Len(stack[v]) /\ IsFiniteSet(1..Len(stack[v])) BY <2>2, FS_Interval
  <2>4. Cardinality(S) \in Nat BY <2>3, FS_Subset, FS_CardinalityType
  <2> QED BY <2>4 DEF Entered
<1>2. /\ DOMAIN untimed = ContextVUs
      /\ \A p \in DOMAIN untimed[v] : untimed[v][p] = Entered(stack[v], p)
  BY <1>0 DEF TimedInv, OnStack, Entered
<1>3. untimed' = [untimed EXCEPT ![v] = [p \in DOMAIN untimed[v] |-> untimed[v][p] - Entered(stack[v], p)]]
  BY DEF HookPanics, OnStack, Entered
<1>4. /\ DOMAIN untimed' = ContextVUs /\ \A u \in ContextVUs \ {v} : untimed'[u] = untimed[u]
      /\ \A p \in DOMAIN untimed'[v] : untimed'[v][p] = Entered(stack[v], p) - Entered(stack[v], p)
  BY <1>2, <1>3
<1>5. \A p \in DOMAIN untimed'[v] : untimed'[v][p] = 0 BY <1>1, <1>4
<1> QED BY <1>4, <1>5, HookIsOver DEF HookPanics, identity

\* Leaving a group.
LEMMA LeaveGroupKeeps == ASSUME ContextInv, NEW v \in ContextVUs, LeaveGroup(v) PROVE ContextInv'
<1> DEFINE s == stack[v]
           t == stack'[v]
           last == s[Len(s)].path
<1>0. AdapterInv /\ StackInv /\ CurrentInv /\ TimedInv BY DEF ContextInv
<1>1. /\ s \in Seq(Frames) /\ Len(s) > 1 /\ t = SubSeq(s, 1, Len(s) - 1)
      /\ \A u \in ContextVUs \ {v} : stack'[u] = stack[u]
      /\ DOMAIN stack' = ContextVUs
      /\ UNCHANGED <<inHook, root, pool, adapter, childContexts, at>>
      /\ v \in inHook
  BY <1>0 DEF StackInv, LeaveGroup, identity
<1>2. untimed' = [untimed EXCEPT ![v] = Plus(untimed[v], last, -1)] BY DEF LeaveGroup
<1> HIDE DEF s, t, last
<1>3. t \in Seq(Frames) /\ Len(t) > 0 /\ Len(s) = Len(t) + 1 /\ \A i \in 1..Len(t) : s[i] = t[i]
  BY <1>1, EnteredLess
<1>4. DOMAIN t \subseteq DOMAIN s /\ (\A i \in DOMAIN t : t[i] = s[i]) /\ Len(s) \in DOMAIN s
  <2>1. DOMAIN t = 1..Len(t) /\ DOMAIN s = 1..Len(s) /\ Len(t) \in Nat BY <1>1, <1>3, LenProperties
  <2> QED BY <1>3, <2>1
<1>5. AdapterInv' BY <1>0, <1>1 DEF AdapterInv
<1>6. stack' \in [ContextVUs -> Seq(Frames)]
  <2>1. \A u \in ContextVUs : stack'[u] \in Seq(Frames) BY <1>0, <1>1, <1>3 DEF StackInv, t
  <2>2. stack' = [u \in ContextVUs |-> stack'[u]] BY DEF LeaveGroup, StackInv, ContextInv
  <2> QED BY <2>1, <2>2
<1>10. ASSUME NEW u \in inHook'
       PROVE  /\ \A i \in DOMAIN stack'[u] : stack'[u][i].depth <= Len(at'[adapter'[u]])
              /\ \A i \in DOMAIN stack'[u] : Current(at[adapter[u]][stack[u][i].depth], u)'
  <2>1. CASE u = v
    <3>1. \A i \in DOMAIN s : s[i].depth <= Len(at[adapter[v]]) BY <1>0, <1>1 DEF StackInv, s
    <3>2. \A i \in DOMAIN s : Current(at[adapter[v]][s[i].depth], v) BY <1>0, <1>1 DEF CurrentInv, s
    <3>3. \A i \in DOMAIN t : i \in DOMAIN s /\ t[i].depth = s[i].depth BY <1>4
    <3>4. \A i \in DOMAIN t : t[i].depth <= Len(at'[adapter'[v]]) BY <1>1, <3>1, <3>3
    <3>5. ASSUME NEW i \in DOMAIN t PROVE Current(at[adapter[v]][t[i].depth], v)
      BY <3>2, <3>3
    <3>6. \A i \in DOMAIN t : Current(at[adapter[v]][stack[v][i].depth], v)'
      BY <1>1, <3>5 DEF Current, t
    <3> QED BY <2>1, <3>4, <3>6 DEF t
  <2>2. CASE u # v
    <3>1. u \in inHook /\ u \in ContextVUs \ {v} BY <1>0, <1>1, <2>2 DEF AdapterInv
    <3> QED BY <1>0, <1>1, <3>1, OthersStayCurrent
  <2> QED BY <2>1, <2>2
<1>7. StackInv'
  <2>1. \A u \in ContextVUs \ inHook' : stack'[u] = <<>> BY <1>0, <1>1 DEF StackInv
  <2> QED BY <1>6, <1>10, <2>1 DEF StackInv
<1>8. CurrentInv' BY <1>0, <1>1, <1>10 DEF CurrentInv
<1>9. TimedInv'
  <2>1. \A p : /\ Entered(t, p) \in Nat
               /\ p = last => Entered(s, p) = Entered(t, p) + 1
               /\ p # last => Entered(s, p) = Entered(t, p)
    BY <1>1, <1>3, EnteredOneMore DEF last
  <2>2. /\ DOMAIN untimed = ContextVUs
        /\ \A i \in DOMAIN s : i > 1 => s[i].path \in DOMAIN untimed[v]
        /\ \A p \in DOMAIN untimed[v] : untimed[v][p] = Entered(s, p)
    BY <1>0 DEF TimedInv, OnStack, Entered, s
  <2>3. last \in DOMAIN untimed[v] BY <1>1, <1>4, <2>2 DEF last
  <2>4. /\ DOMAIN untimed' = ContextVUs /\ \A u \in ContextVUs \ {v} : untimed'[u] = untimed[u]
        /\ DOMAIN untimed'[v] = DOMAIN untimed[v]
        /\ untimed'[v][last] = untimed[v][last] + (-1)
        /\ \A p \in DOMAIN untimed[v] \ {last} : untimed'[v][p] = untimed[v][p]
    BY <1>2, <2>2, <2>3 DEF Plus, Assign
  <2>5. \A i \in DOMAIN t : i > 1 => t[i].path \in DOMAIN untimed'[v] BY <1>4, <2>2, <2>4
  <2>6. ASSUME NEW p \in DOMAIN untimed'[v] PROVE untimed'[v][p] = Entered(t, p)
    <3>1. untimed[v][p] = Entered(s, p) /\ Entered(t, p) \in Nat BY <2>1, <2>2, <2>4
    <3>2. CASE p = last BY <2>1, <2>4, <3>1, <3>2
    <3>3. CASE p # last BY <2>1, <2>4, <3>1, <3>3
    <3> QED BY <3>2, <3>3
  <2> QED BY <1>0, <1>1, <2>4, <2>5, <2>6, TimedAfter DEF t
<1> QED BY <1>5, <1>7, <1>8, <1>9 DEF ContextInv

\* An adapter with its child adapter pointed at a group.
LEMMA ChildIsPointed ==
  ASSUME NEW s \in Seq(Pointers), NEW m \in Nat, m = Len(s), NEW depth \in Nat, 1 <= depth, depth <= m,
         NEW n \in Nat, n = IF depth = m THEN depth + 1 ELSE m, NEW below \in Pointers, NEW t,
         t = [d \in 1..n |-> IF d = depth + 1 THEN below ELSE s[d]]
  PROVE  /\ t \in Seq(Pointers) /\ Len(t) \in Nat
         /\ m <= Len(t) /\ depth + 1 <= Len(t) /\ t[depth + 1] = below
         /\ \A d \in 1..m : d # depth + 1 => t[d] = s[d]
<1>1. \A d \in 1..m : s[d] \in Pointers BY ElementOfSeq
<1>2. m <= n /\ depth + 1 <= n /\ \A d \in 1..n : d # depth + 1 => d \in 1..m
  <2>1. CASE depth = m BY <2>1
  <2>2. CASE depth # m BY <2>2
  <2> QED BY <2>1, <2>2
<1>5. t \in [1..n -> Pointers] BY <1>1, <1>2
<1>6. t \in Seq(Pointers) BY <1>5, IsASeq
<1>7. Len(t) = n BY <1>5, <1>6, LenProperties
<1>8. depth + 1 \in 1..n /\ \A d \in 1..m : d \in 1..n BY <1>2
<1> QED BY <1>2, <1>6, <1>7, <1>8

\* Entering a group.
LEMMA EnterGroupKeeps ==
  ASSUME ContextInv, NEW v \in ContextVUs, NEW name \in GroupNames, EnterGroup(v, name)
  PROVE  ContextInv'
<1> DEFINE s == stack[v]
           t == stack'[v]
           a == adapter[v]
<1>0. AdapterInv /\ StackInv /\ CurrentInv /\ TimedInv BY DEF ContextInv
<1>1. PICK k \in DOMAIN s :
        LET from == at[a][s[k].depth]
            path == Append(from.path, name)
        IN  /\ v \in inHook
            /\ childContexts' = [childContexts EXCEPT ![from.vu] = Assign(@, path, ContextAt(from))]
            /\ PointChild(a, s[k].depth, Here(from.vu, path))
            /\ stack' = [stack EXCEPT ![v] = Append(@, [depth |-> s[k].depth + 1, path |-> path])]
            /\ untimed' = [untimed EXCEPT ![v] = Plus(@, path, 1)]
            /\ UNCHANGED <<identity, inHook, pool, adapter>>
  BY DEF EnterGroup
<1> DEFINE depth == s[k].depth
           from == at[a][depth]
           path == Append(from.path, name)
           below == Here(v, path)
           f == [depth |-> depth + 1, path |-> path]
\* Where the group is entered from.
<1>2. /\ v \in inHook /\ a \in DOMAIN at /\ at[a] \in Seq(Pointers) /\ s \in Seq(Frames)
      /\ s[k] \in Frames
  <2>1. v \in inHook /\ s \in Seq(Frames) BY <1>0, <1>1 DEF StackInv
  <2>2. a \in DOMAIN at /\ at[a] \in Seq(Pointers) BY <1>0, <2>1 DEF AdapterInv
  <2>3. s[k] \in Frames BY <2>1, ElementOfSeq, LenProperties
  <2> QED BY <2>1, <2>2, <2>3
<1>3. depth \in 1..Len(at[a]) /\ Len(at[a]) \in Nat
  <2>1. depth \in Nat \ {0} BY <1>2 DEF Frames
  <2>2. depth <= Len(at[a]) BY <1>0, <1>2 DEF StackInv
  <2>3. Len(at[a]) \in Nat BY <1>2, LenProperties
  <2> QED BY <2>1, <2>2, <2>3
<1>4. from \in Pointers BY <1>2, <1>3, ElementOfSeq
<1>5. Current(from, v) BY <1>0, <1>2 DEF CurrentInv
<1>6. from.vu = v BY <1>5 DEF Current
<1>7. ContextAt(from) = root[v] BY <1>5, <1>6 DEF Current, ContextAt
<1>8. path \in Seq(GroupNames) /\ path # <<>>
  <2>1. from.path \in Seq(GroupNames) BY <1>4 DEF Pointers
  <2> QED BY <2>1, AppendProperties
<1>9. f \in Frames /\ f.depth = depth + 1 /\ f.path = path
  <2>1. depth + 1 \in Nat \ {0} BY <1>3
  <2> HIDE DEF depth, path
  <2> QED BY <1>8, <2>1 DEF Frames
<1>10. below \in Pointers /\ below.vu = v /\ below.path = path BY <1>8 DEF Pointers, Here
\* What the step does.
<1>11. /\ DOMAIN childContexts' = ContextVUs
       /\ childContexts'[v] = Assign(childContexts[v], path, root[v])
       /\ \A u \in ContextVUs \ {v} : childContexts'[u] = childContexts[u]
  BY <1>0, <1>1, <1>6, <1>7 DEF CurrentInv
<1>12. /\ path \in DOMAIN childContexts'[v] /\ childContexts'[v][path] = root[v]
       /\ \A q \in DOMAIN childContexts[v] :
            q # path => q \in DOMAIN childContexts'[v] /\ childContexts'[v][q] = childContexts[v][q]
  BY <1>11 DEF Assign
<1>13. /\ DOMAIN at' = DOMAIN at /\ \A b \in DOMAIN at \ {a} : at'[b] = at[b]
       /\ at'[a] = [d \in 1..(IF depth = Len(at[a]) THEN depth + 1 ELSE Len(at[a])) |->
                      IF d = depth + 1 THEN below ELSE at[a][d]]
  BY <1>1, <1>2, <1>6 DEF PointChild
<1>14. t = Append(s, f) /\ \A u \in ContextVUs \ {v} : stack'[u] = stack[u]
  BY <1>0, <1>1 DEF StackInv
<1>15. stack' \in [ContextVUs -> Seq(Frames)]
  <2>1. Append(s, f) \in Seq(Frames) BY <1>2, <1>9, AppendProperties
  <2>2. stack' = [stack EXCEPT ![v] = Append(s, f)] BY <1>1
  <2> QED BY <1>0, <2>1, <2>2 DEF StackInv
<1>16. UNCHANGED <<root, inHook, pool, adapter>> BY <1>1 DEF identity
<1>17. untimed' = [untimed EXCEPT ![v] = Plus(untimed[v], path, 1)] BY <1>1
<1> HIDE DEF s, t, a, depth, from, path, below, f
<1>18. /\ at'[a] \in Seq(Pointers) /\ Len(at'[a]) \in Nat
       /\ Len(at[a]) <= Len(at'[a]) /\ depth + 1 <= Len(at'[a]) /\ at'[a][depth + 1] = below
       /\ \A d \in 1..Len(at[a]) : d # depth + 1 => at'[a][d] = at[a][d]
  <2> DEFINE before == at[a]
             after == at'[a]
             m == Len(before)
             n == IF depth = m THEN depth + 1 ELSE m
  <2>1. before \in Seq(Pointers) /\ m \in Nat /\ m = Len(before) /\ depth \in Nat /\ 1 <= depth /\ depth <= m
    BY <1>2, <1>3
  <2>2. after = [d \in 1..n |-> IF d = depth + 1 THEN below ELSE before[d]] BY <1>13
  <2> HIDE DEF before, after, m
  <2>3. n \in Nat BY <2>1
  <2>4. n = IF depth = m THEN depth + 1 ELSE m OBVIOUS
  <2> HIDE DEF n
  <2>5. /\ after \in Seq(Pointers) /\ Len(after) \in Nat
        /\ m <= Len(after) /\ depth + 1 <= Len(after) /\ after[depth + 1] = below
        /\ \A d \in 1..m : d # depth + 1 => after[d] = before[d]
    BY <1>10, <2>1, <2>2, <2>3, <2>4, ChildIsPointed
  <2> QED BY <2>5 DEF before, after, m
<1>19. Len(s) > 0 /\ Len(s) \in Nat
  <2>1. s \in Seq(Frames) /\ k \in DOMAIN s BY <1>2
  <2> QED BY <2>1, LenProperties
<1>20. t \in Seq(Frames) /\ Len(t) = Len(s) + 1 /\ t[Len(t)] = f /\ \A i \in 1..Len(s) : t[i] = s[i]
  BY <1>2, <1>9, <1>14, <1>19, EnteredMore
<1>21. /\ DOMAIN s = 1..Len(s) /\ DOMAIN t = 1..Len(t)
       /\ \A i \in DOMAIN t : (i \in DOMAIN s /\ t[i] = s[i]) \/ (i = Len(t) /\ t[i] = f)
  <2>1. DOMAIN s = 1..Len(s) /\ DOMAIN t = 1..Len(t) BY <1>2, <1>20, LenProperties
  <2> QED BY <1>19, <1>20, <2>1
\* Every frame of the virtual user is still current.
<1> DEFINE Now(here) == /\ here.vu = v
                        /\ here.path # <<>> => /\ here.path \in DOMAIN childContexts'[v]
                                               /\ childContexts'[v][here.path] = root'[v]
<1>22. Now(below) BY <1>10, <1>12, <1>16
<1>23. ASSUME NEW here, Current(here, v) PROVE Now(here)
  <2>1. here.vu = v /\ (here.path # <<>> => here.path \in DOMAIN childContexts[v] /\ childContexts[v][here.path] = root[v])
    BY <1>23 DEF Current
  <2>2. CASE here.path = path BY <1>12, <1>16, <2>1, <2>2
  <2>3. CASE here.path # path BY <1>12, <1>16, <2>1, <2>3
  <2> QED BY <2>2, <2>3
<1> HIDE DEF Now
<1>24. ASSUME NEW i \in DOMAIN t
       PROVE  t[i].depth <= Len(at'[a]) /\ Now(at'[a][t[i].depth])
  <2>1. CASE i = Len(t) /\ t[i] = f BY <1>9, <1>18, <1>22, <2>1
  <2>2. CASE i \in DOMAIN s /\ t[i] = s[i]
    <3> DEFINE d == s[i].depth
    <3>1. s[i] \in Frames BY <1>2, <2>2, ElementOfSeq, LenProperties
    <3>2. d \in Nat \ {0} BY <3>1 DEF Frames
    <3>3. d <= Len(at[a]) BY <1>0, <1>2, <2>2 DEF StackInv, s, a
    <3>4. Current(at[a][d], v) BY <1>0, <1>2, <2>2 DEF CurrentInv, s, a
    <3> HIDE DEF d
    <3>5. d \in 1..Len(at[a]) /\ d <= Len(at'[a]) BY <1>3, <1>18, <3>2, <3>3
    <3>6. Now(at'[a][d])
      <4>1. CASE d = depth + 1 BY <1>18, <1>22, <4>1
      <4>2. CASE d # depth + 1 BY <1>18, <1>23, <3>4, <3>5, <4>2
      <4> QED BY <4>1, <4>2
    <3> QED BY <2>2, <3>5, <3>6 DEF d
  <2> QED BY <1>21, <2>1, <2>2
<1>25. ASSUME NEW u \in inHook'
       PROVE  /\ \A i \in DOMAIN stack'[u] : stack'[u][i].depth <= Len(at'[adapter'[u]])
              /\ \A i \in DOMAIN stack'[u] : Current(at[adapter[u]][stack[u][i].depth], u)'
  <2>1. CASE u = v BY <1>16, <1>24, <2>1 DEF Now, Current, t, a
  <2>2. CASE u # v
    <3>1. u \in inHook /\ u \in ContextVUs \ {v} BY <1>0, <1>16, <2>2 DEF AdapterInv
    <3>2. adapter[u] \in DOMAIN at \ {a} BY <1>0, <1>2, <2>2, <3>1 DEF AdapterInv, a
    <3> QED BY <1>0, <1>11, <1>13, <1>14, <1>16, <3>1, <3>2, OthersStayCurrent
  <2> QED BY <2>1, <2>2
<1>26. AdapterInv'
  <2>1. \A b \in DOMAIN at' : at'[b] \in Seq(Pointers) /\ Len(at'[b]) > 0
    <3>1. Len(at'[a]) > 0 BY <1>3, <1>18
    <3> QED BY <1>0, <1>13, <1>18, <3>1 DEF AdapterInv
  <2> QED BY <1>0, <1>13, <1>16, <2>1 DEF AdapterInv
<1>27. StackInv'
  <2>1. \A u \in ContextVUs \ inHook' : stack'[u] = <<>> BY <1>0, <1>2, <1>14, <1>16 DEF StackInv
  <2> QED BY <1>15, <1>25, <2>1 DEF StackInv
<1>28. CurrentInv' BY <1>0, <1>11, <1>16, <1>25 DEF CurrentInv
<1>29. TimedInv'
  <2>1. \A p : /\ Entered(s, p) \in Nat
               /\ p = path => Entered(t, p) = Entered(s, p) + 1
               /\ p # path => Entered(t, p) = Entered(s, p)
    BY <1>2, <1>9, <1>19, <1>20, EnteredOneMore
  <2>2. /\ DOMAIN untimed = ContextVUs
        /\ \A i \in DOMAIN s : i > 1 => s[i].path \in DOMAIN untimed[v]
        /\ \A p \in DOMAIN untimed[v] : untimed[v][p] = Entered(s, p)
    BY <1>0 DEF TimedInv, OnStack, Entered, s
  <2>3. path \notin DOMAIN untimed[v] => Entered(s, path) = 0
    <3> SUFFICES ASSUME path \notin DOMAIN untimed[v] PROVE Entered(s, path) = 0
      OBVIOUS
    <3>1. {i \in DOMAIN s : i > 1 /\ s[i].path = path} = {} BY <2>2
    <3> QED BY <3>1, FS_EmptySet DEF Entered
  <2>4. /\ DOMAIN untimed' = ContextVUs /\ \A u \in ContextVUs \ {v} : untimed'[u] = untimed[u]
        /\ DOMAIN untimed'[v] = DOMAIN untimed[v] \cup {path}
        /\ path \in DOMAIN untimed[v] => untimed'[v][path] = untimed[v][path] + 1
        /\ path \notin DOMAIN untimed[v] => untimed'[v][path] = 0 + 1
        /\ \A p \in DOMAIN untimed[v] \ {path} : untimed'[v][p] = untimed[v][p]
    BY <1>17, <2>2 DEF Plus, Assign
  <2>5. \A i \in DOMAIN t : i > 1 => t[i].path \in DOMAIN untimed'[v] BY <1>9, <1>21, <2>2, <2>4
  <2>6. ASSUME NEW p \in DOMAIN untimed'[v] PROVE untimed'[v][p] = Entered(t, p)
    <3>1. CASE p = path BY <2>1, <2>2, <2>3, <2>4, <3>1
    <3>2. CASE p # path BY <2>1, <2>2, <2>4, <3>2
    <3> QED BY <3>1, <3>2
  <2> QED BY <1>0, <1>14, <2>4, <2>5, <2>6, TimedAfter DEF t
<1> QED BY <1>26, <1>27, <1>28, <1>29 DEF ContextInv

\* Every step keeps the invariant.
LEMMA ContextInductive == ContextInv /\ [ContextNext]_contextVars => ContextInv'
<1> SUFFICES ASSUME ContextInv, [ContextNext]_contextVars PROVE ContextInv'
  OBVIOUS
<1>1. CASE UNCHANGED contextVars
  <2>1. UNCHANGED <<inHook, root, childContexts, pool, at, adapter, stack, untimed>> BY <1>1 DEF contextVars
  <2>2. AdapterInv' BY <2>1 DEF ContextInv, AdapterInv
  <2>3. StackInv' BY <2>1 DEF ContextInv, StackInv
  <2>4. CurrentInv'
    <3>1. ASSUME NEW v \in inHook', NEW i \in DOMAIN stack'[v]
          PROVE  Current(at[adapter[v]][stack[v][i].depth], v)'
      <4>1. Current(at[adapter[v]][stack[v][i].depth], v) BY <2>1 DEF ContextInv, CurrentInv
      <4> QED BY <2>1, <4>1 DEF Current
    <3> QED BY <2>1, <3>1 DEF ContextInv, CurrentInv
  <2>5. TimedInv' BY <2>1 DEF ContextInv, TimedInv, OnStack
  <2> QED BY <2>2, <2>3, <2>4, <2>5 DEF ContextInv
<1>2. CASE ContextNext
  BY <1>2, BeginHookKeeps, EndHookKeeps, HookPanicsKeeps, EnterGroupKeeps, LeaveGroupKeeps DEF ContextNext
<1> QED BY <1>1, <1>2

\* The invariant says what the property does.
LEMMA ContextInvSaysSo == ContextInv => GroupsRunInTheirIteration
<1> SUFFICES ASSUME ContextInv PROVE GroupsRunInTheirIteration
  OBVIOUS
<1>1. ASSUME NEW v \in inHook, NEW i \in DOMAIN stack[v]
      PROVE  LET here == at[adapter[v]][stack[v][i].depth] IN here.vu = v /\ ContextAt(here) = root[v]
  <2> DEFINE here == at[adapter[v]][stack[v][i].depth]
  <2>1. Current(here, v) BY DEF ContextInv, CurrentInv
  <2> HIDE DEF here
  <2>2. here.vu = v /\ ContextAt(here) = root[v] BY <2>1 DEF Current, ContextAt
  <2> QED BY <2>2 DEF here
<1>2. \A v \in ContextVUs : \A p \in DOMAIN untimed[v] : untimed[v][p] = OnStack(v, p)
  BY DEF ContextInv, TimedInv
<1> QED BY <1>1, <1>2 DEF GroupsRunInTheirIteration

\* Every group, whatever adapters and contexts it reuses, runs on its own virtual
\* user's context of now, and is timed once (Context.Group, suite.go).
THEOREM GroupsRunInTheirIterationHolds == ContextSpec => []GroupsRunInTheirIteration
<1> QED BY ContextInitially, ContextInductive, ContextInvSaysSo, PTL DEF ContextSpec

\* Where the hooks of a virtual user stand; in a hook it is at least in the hook's
\* own frame.
HookTypes ==
  /\ hook \in [ContextVUs -> Hooks0 \cup {"none"}]
  /\ prepared \in [ContextVUs -> Nat]
  /\ \A v \in ContextVUs : prepared[v] <= MaxHooks[v]
  /\ \A v \in inHook : Len(stack[v]) > 0

\* No hook has been called.
LEMMA HookTypesInitially == ContextInit => HookTypes
<1>1. \A v \in ContextVUs : MaxHooks[v] \in Nat BY ContextAssumption DEF ContextAssumption
<1> QED BY <1>1 DEF ContextInit, HookTypes

\* A hook begins with a frame, and only groups come and go above it.
LEMMA HookTypesInductive == StackInv /\ inHook \subseteq ContextVUs /\ HookTypes /\ [ContextNext]_contextVars => HookTypes'
<1> SUFFICES ASSUME StackInv, inHook \subseteq ContextVUs, HookTypes, [ContextNext]_contextVars PROVE HookTypes'
  OBVIOUS
<1>0. /\ stack \in [ContextVUs -> Seq(Frames)] /\ \A v \in inHook : Len(stack[v]) > 0
      /\ \A v \in ContextVUs : MaxHooks[v] \in Nat
  BY ContextAssumption DEF ContextAssumption, StackInv, HookTypes
<1>1. ASSUME NEW v \in ContextVUs, NEW s, stack' = [stack EXCEPT ![v] = s], Len(s) > 0 \/ inHook' = inHook \ {v},
             inHook' \in {inHook, inHook \cup {v}, inHook \ {v}}
      PROVE  \A w \in inHook' : Len(stack'[w]) > 0
  BY <1>0, <1>1
<1>2. ASSUME NEW v \in ContextVUs, EndHook(v) \/ HookPanics(v) PROVE HookTypes'
  <2>1. stack' = [stack EXCEPT ![v] = <<>>] /\ inHook' = inHook \ {v} /\ UNCHANGED <<hook, prepared>>
    BY <1>2 DEF EndHook, HookPanics, identity
  <2>2. \A w \in inHook' : Len(stack'[w]) > 0 BY <1>1, <2>1
  <2> QED BY <2>1, <2>2 DEF HookTypes
<1>3. ASSUME NEW v \in ContextVUs, NEW h \in Hooks0, BeginHook(v, h) PROVE HookTypes'
  <2> DEFINE s == <<[depth |-> 1, path |-> <<>>]>>
  <2>1. /\ stack' = [stack EXCEPT ![v] = s] /\ inHook' = inHook \cup {v}
        /\ hook' = [hook EXCEPT ![v] = h] /\ prepared' = [prepared EXCEPT ![v] = prepared[v] + 1]
        /\ prepared[v] < MaxHooks[v]
    BY <1>3 DEF BeginHook
  <2>2. Len(s) > 0 OBVIOUS
  <2> HIDE DEF s
  <2>3. \A w \in inHook' : Len(stack'[w]) > 0 BY <1>1, <2>1, <2>2
  <2>4. hook' \in [ContextVUs -> Hooks0 \cup {"none"}] BY <2>1 DEF HookTypes
  <2>5. prepared' \in [ContextVUs -> Nat] /\ \A w \in ContextVUs : prepared'[w] <= MaxHooks[w]
    BY <1>0, <2>1 DEF HookTypes
  <2> QED BY <2>3, <2>4, <2>5 DEF HookTypes
<1>4. ASSUME NEW v \in ContextVUs, NEW name \in GroupNames, EnterGroup(v, name) PROVE HookTypes'
  <2>1. /\ \E frame0 : stack' = [stack EXCEPT ![v] = Append(@, frame0)]
        /\ v \in inHook /\ UNCHANGED <<hook, prepared, inHook>>
    BY <1>4 DEF EnterGroup, identity
  <2>2. PICK frame0 : stack' = [stack EXCEPT ![v] = Append(stack[v], frame0)] BY <2>1
  <2>3. \A w \in inHook' : Len(stack'[w]) > 0
    <3> DEFINE s == Append(stack[v], frame0)
    <3>1. Len(s) > 0
      <4>1. stack[v] \in Seq(Frames) BY <1>0
      <4> QED BY <4>1
    <3> HIDE DEF s
    <3> QED BY <1>1, <2>1, <2>2, <3>1 DEF s
  <2> QED BY <2>1, <2>3 DEF HookTypes
<1>5. ASSUME NEW v \in ContextVUs, LeaveGroup(v) PROVE HookTypes'
  <2> DEFINE s == SubSeq(stack[v], 1, Len(stack[v]) - 1)
  <2>1. /\ stack' = [stack EXCEPT ![v] = s] /\ Len(stack[v]) > 1
        /\ UNCHANGED <<hook, prepared, inHook>>
    BY <1>5 DEF LeaveGroup, identity
  <2>2. Len(s) > 0
    <3>1. stack[v] \in Seq(Frames) BY <1>0
    <3> QED BY <2>1, <3>1
  <2> HIDE DEF s
  <2>3. \A w \in inHook' : Len(stack'[w]) > 0 BY <1>1, <2>1, <2>2
  <2> QED BY <2>1, <2>3 DEF HookTypes
<1>6. CASE UNCHANGED contextVars BY <1>6 DEF contextVars, HookTypes
<1> QED BY <1>2, <1>3, <1>4, <1>5, <1>6 DEF ContextNext

\* A hook works with an adapter of its own, in its own frame or in a group.
LEMMA ContextTypeCorrect == ContextSpec => []ContextTypeOK
<1>1. ContextInit => ContextInv /\ HookTypes BY ContextInitially, HookTypesInitially
<1>2. (ContextInv /\ HookTypes) /\ [ContextNext]_contextVars => (ContextInv /\ HookTypes)'
  BY ContextInductive, HookTypesInductive DEF ContextInv, AdapterInv
<1>3. ContextInv /\ HookTypes => ContextTypeOK
  <2> SUFFICES ASSUME ContextInv, HookTypes PROVE ContextTypeOK OBVIOUS
  <2>1. \A v \in ContextVUs : MaxHooks[v] \in Nat BY ContextAssumption DEF ContextAssumption
  <2>2. \A v \in ContextVUs : prepared[v] \in 0..MaxHooks[v] BY <2>1 DEF HookTypes
  <2>3. \A v \in inHook : stack[v] # <<>> BY DEF HookTypes
  <2> QED BY <2>2, <2>3 DEF ContextInv, AdapterInv, HookTypes, ContextTypeOK
<1> QED BY <1>1, <1>2, <1>3, PTL DEF ContextSpec

-----------------------------------------------------------------------------
(* The suite: from a configuration to the verdict.                         *)

\* A delay that validation accepts has draws, none of them negative and all within
\* its bounds.
LEMMA AcceptedDelayIsUsable ==
  ASSUME NEW d, DecodedDelay(d), ValidateDelayConfig(d)
  PROVE  DelayIsUsable(d)
<1>1. d.duration \in Int /\ d.min \in Int /\ d.max \in Int BY DEF DecodedDelay
<1>2. CASE d.type = "fixed"
  BY <1>1, <1>2 DEF ValidateDelayConfig, ValidateFixedDelay, DelayIsUsable, NewDelayGenerator, FixedDelays, AtLeast0
<1>3. CASE d.type = "range"
  <2>1. 0 <= d.min /\ d.min <= d.max /\ 0 < d.max
    BY <1>1, <1>3 DEF ValidateDelayConfig, ValidateRangeDelay
  <2>2. NewDelayGenerator(d, -1..3) = d.min..d.max
    BY <1>1, <1>3, <2>1 DEF NewDelayGenerator, RangeDelays, AtLeast0
  <2> QED BY <1>1, <2>1, <2>2 DEF DelayIsUsable
<1>4. ASSUME ValidateClamps(d), NEW x \in Nat
      PROVE  /\ Clamped(d, x) \in Nat
             /\ d.max > 0 => Clamped(d, x) <= d.max
             /\ d.min > 0 => Clamped(d, x) >= d.min
  BY <1>1, <1>4 DEF ValidateClamps, Clamped
<1>5. CASE d.type = "expo"
  <2>1. ValidateClamps(d) BY <1>5 DEF ValidateDelayConfig, ValidateExpoDelay
  <2>2. NewDelayGenerator(d, -1..3) = {Clamped(d, x) : x \in (-1..3) \cap Nat}
    BY <1>5 DEF NewDelayGenerator, ExpoDelays
  <2>3. 0 \in (-1..3) \cap Nat OBVIOUS
  <2> QED BY <1>4, <2>1, <2>2, <2>3 DEF DelayIsUsable
<1>6. CASE d.type = "gaussian"
  <2>1. ValidateClamps(d) BY <1>6 DEF ValidateDelayConfig, ValidateGaussianDelay
  <2>2. NewDelayGenerator(d, -1..3) = {Clamped(d, AtLeast0(x)) : x \in -1..3}
    BY <1>6 DEF NewDelayGenerator, GaussianDelays
  <2>3. 0 \in -1..3 /\ \A x \in -1..3 : AtLeast0(x) \in Nat BY DEF AtLeast0
  <2> QED BY <1>4, <2>1, <2>2, <2>3 DEF DelayIsUsable
<1> QED BY <1>2, <1>3, <1>5, <1>6 DEF ValidateDelayConfig

\* The fields of a decoded scenario.
ScenarioFields == DOMAIN EmptyScenario

\* The fields the proofs rest on are among them.
LEMMA FieldsOfScenario ==
  DecodedNumbers \cup {"type", "stages", "max_pretest_retries", "allow_unbounded_iterations", "interaction_delay",
                       "think_time", "thresholds"} \subseteq ScenarioFields
BY DEF ScenarioFields, EmptyScenario, DecodedNumbers

\* Conversion keeps what decoding guarantees, and sets the retries.
LEMMA ModelIsDecoded ==
  ASSUME NEW d, DecodedScenario(d)
  PROVE  DecodedScenario(ToModel(d)) /\ ToModel(d).max_pretest_retries # <<>>
<1> DEFINE m == ToModel(d)
<1>1. DOMAIN d = ScenarioFields BY DEF DecodedScenario, ScenarioFields
<1>2. /\ DOMAIN m = ScenarioFields
      /\ \A f \in ScenarioFields \ {"drain", "max_pretest_retries"} : m[f] = d[f]
  BY <1>1 DEF ToModel
<1>3. m.drain = IF d.drain = 0 /\ d.drain_period # 0 THEN d.drain_period ELSE d.drain
  BY <1>1, FieldsOfScenario DEF ToModel, DecodedNumbers
<1>4. m.max_pretest_retries = IF d.max_pretest_retries = <<>> THEN <<3>> ELSE d.max_pretest_retries
  BY <1>1, FieldsOfScenario DEF ToModel, Nil
<1> HIDE DEF m
<1>5. \A f \in DecodedNumbers : d[f] \in Int BY DEF DecodedScenario
<1>6. m.drain \in Int BY <1>3, <1>5 DEF DecodedNumbers
<1>7. \A f \in DecodedNumbers : m[f] \in Int
  <2>1. ASSUME NEW f \in DecodedNumbers PROVE m[f] \in Int
    <3>1. f # "max_pretest_retries" BY DEF DecodedNumbers
    <3>2. CASE f = "drain" BY <1>6, <3>2
    <3>3. CASE f # "drain" BY <1>2, <1>5, <3>1, <3>3, FieldsOfScenario
    <3> QED BY <3>2, <3>3
  <2> QED BY <2>1
<1>8. m.max_pretest_retries \in Seq(Int) /\ m.max_pretest_retries # <<>>
  <2>1. d.max_pretest_retries \in Seq(Int) BY DEF DecodedScenario
  <2>2. <<3>> \in Seq(Int) /\ <<3>> # <<>> OBVIOUS
  <2> QED BY <1>4, <2>1, <2>2
<1>9. /\ m.stages = d.stages /\ m.thresholds = d.thresholds
      /\ m.allow_unbounded_iterations = d.allow_unbounded_iterations
      /\ m.interaction_delay = d.interaction_delay /\ m.think_time = d.think_time
  BY <1>2, FieldsOfScenario
<1>10. DecodedScenario(m)
  <2>1. DOMAIN m = DOMAIN EmptyScenario BY <1>2 DEF ScenarioFields
  <2> QED BY <1>7, <1>8, <1>9, <2>1 DEF DecodedScenario
<1> QED BY <1>8, <1>10 DEF m

\* What the consumers of an accepted configuration assume of it.
ThresholdReady(th) ==
  /\ "on_no_data" \in DOMAIN th /\ th.on_no_data # ""
  /\ TargetOf(th) \in Int
  /\ th.stat \in validStats

PacingReady(s) ==
  CASE s.type = "constant_vus" -> s.vus > 0 /\ s.run_period > 0
    [] s.type = "arrival_rate" ->
         s.max_vus > 0 /\ s.target_tps > 0 /\ s.burst_buffer >= 0 /\ s.run_period > 0
    [] s.type = "ramping_vus"  ->
         /\ s.stages # <<>>
         /\ \A i \in DOMAIN s.stages : s.stages[i].target >= 0 /\ s.stages[i].duration > 0
    [] OTHER -> FALSE

ScenarioReady(s) ==
  /\ PacingReady(s)
  /\ s.vu_timeout > 0 \/ (s.vu_timeout = 0 /\ s.allow_unbounded_iterations)
  /\ s.drain >= 0 /\ s.ramp_up >= 0 /\ s.ramp_down >= 0
  /\ MaxPreTestRetriesOf(s) >= 0
  /\ \A i \in DOMAIN s.interaction_delay : DelayIsUsable(s.interaction_delay[i])
  /\ \A i \in DOMAIN s.think_time : DelayIsUsable(s.think_time[i])
  /\ IsList(s.thresholds) /\ \A i \in DOMAIN s.thresholds : ThresholdReady(s.thresholds[i])
  /\ ~ConflictingKinds(s.thresholds)

\* Validation resolves a threshold it accepts.
LEMMA AcceptedThresholdIsReady ==
  ASSUME NEW th, DecodedThreshold(th), ValidateThreshold(th)
  PROVE  /\ ThresholdReady(Resolved(th))
         /\ Resolved(th).metric = th.metric /\ Resolved(th).stat = th.stat
<1> DEFINE r == Resolved(th)
<1>1. {"metric", "stat", "operator", "target", "on_no_data"} \subseteq DOMAIN th BY DEF DecodedThreshold
<1>2. /\ DOMAIN r = DOMAIN th /\ \A f \in DOMAIN th \ {"on_no_data"} : r[f] = th[f]
      /\ r.on_no_data = IF th.on_no_data # "" THEN th.on_no_data
                        ELSE IF th.stat \in {"count", "value"} THEN "zero" ELSE "fail"
  BY <1>1 DEF Resolved
<1> HIDE DEF r
<1>3. r.metric = th.metric /\ r.stat = th.stat /\ r.target = th.target BY <1>1, <1>2
<1>4. r.on_no_data # "" BY <1>2
<1>5. TargetOf(r) \in Int
  <2> DEFINE goal == IF IsDurationStat(th.stat) THEN Head(th.target).duration ELSE Head(th.target).float
  <2>1. goal \in Seq(Int) /\ goal # <<>> BY DEF DecodedThreshold, ValidateThreshold, Nil
  <2>2. TargetOf(r) = Head(goal) BY <1>3 DEF TargetOf
  <2> HIDE DEF goal
  <2> QED BY <2>1, <2>2
<1>6. r.stat \in validStats BY <1>3 DEF ValidateThreshold
<1> QED BY <1>1, <1>2, <1>3, <1>4, <1>5, <1>6 DEF ThresholdReady, r

\* What validation accepts, its defaults written, is ready for the consumers.
LEMMA AcceptedScenarioIsReady ==
  ASSUME NEW m, DecodedScenario(m), m.max_pretest_retries # <<>>, ValidateScenario(m)
  PROVE  ScenarioReady(Normalised(m))
<1> DEFINE g == GuardDeadline(m)
           s == Normalised(m)
           ths == [i \in DOMAIN g.thresholds |-> Resolved(g.thresholds[i])]
<1>1. DOMAIN m = ScenarioFields BY DEF DecodedScenario, ScenarioFields
<1>2. /\ DOMAIN g = ScenarioFields
      /\ \A f \in ScenarioFields \ {"vu_timeout"} : g[f] = m[f]
      /\ g.vu_timeout = IF m.vu_timeout = 0 /\ ~m.allow_unbounded_iterations THEN 30 ELSE m.vu_timeout
  BY <1>1, FieldsOfScenario DEF GuardDeadline, DefaultGuardDeadline, DecodedNumbers
<1>3. /\ \A f \in ScenarioFields \ {"thresholds"} : s[f] = g[f]
      /\ s.thresholds = ths
  BY <1>2, FieldsOfScenario DEF Normalised
<1>4. g.thresholds = m.thresholds BY <1>2, FieldsOfScenario
<1>5. ths = [i \in DOMAIN m.thresholds |-> Resolved(m.thresholds[i])] BY <1>4
<1> HIDE DEF g, s, ths
<1>6. \A f \in ScenarioFields \ {"vu_timeout", "thresholds"} : s[f] = m[f] BY <1>2, <1>3
<1>7. /\ s.type = m.type /\ s.vus = m.vus /\ s.run_period = m.run_period /\ s.max_vus = m.max_vus
      /\ s.target_tps = m.target_tps /\ s.burst_buffer = m.burst_buffer /\ s.stages = m.stages
      /\ s.allow_unbounded_iterations = m.allow_unbounded_iterations
      /\ s.drain = m.drain /\ s.ramp_up = m.ramp_up /\ s.ramp_down = m.ramp_down
      /\ s.max_pretest_retries = m.max_pretest_retries
      /\ s.interaction_delay = m.interaction_delay /\ s.think_time = m.think_time
  BY <1>6, FieldsOfScenario DEF DecodedNumbers
<1>8. s.vu_timeout = IF m.vu_timeout = 0 /\ ~m.allow_unbounded_iterations THEN 30 ELSE m.vu_timeout
  BY <1>2, <1>3, FieldsOfScenario DEF DecodedNumbers
<1>9. m.vu_timeout \in Int /\ m.allow_unbounded_iterations \in BOOLEAN
  BY DEF DecodedScenario, DecodedNumbers
<1>10. ValidatePacing(m) /\ ValidateBounds(m) BY DEF ValidateScenario
<1>11. PacingReady(s) BY <1>7, <1>10 DEF PacingReady, ValidatePacing
<1>12. s.vu_timeout > 0 \/ (s.vu_timeout = 0 /\ s.allow_unbounded_iterations)
  <2>1. m.vu_timeout >= 0 BY <1>10 DEF ValidateBounds
  <2> QED BY <1>7, <1>8, <1>9, <2>1
<1>13. /\ s.drain >= 0 /\ s.ramp_up >= 0 /\ s.ramp_down >= 0
       /\ MaxPreTestRetriesOf(s) >= 0
  BY <1>7, <1>10 DEF ValidateBounds, MaxPreTestRetriesOf
<1>14. /\ \A i \in DOMAIN s.interaction_delay : DelayIsUsable(s.interaction_delay[i])
       /\ \A i \in DOMAIN s.think_time : DelayIsUsable(s.think_time[i])
  <2>1. /\ \A i \in DOMAIN m.interaction_delay : DecodedDelay(m.interaction_delay[i])
        /\ \A i \in DOMAIN m.think_time : DecodedDelay(m.think_time[i])
    BY DEF DecodedScenario
  <2>2. /\ \A i \in DOMAIN m.interaction_delay : ValidateDelayConfig(m.interaction_delay[i])
        /\ \A i \in DOMAIN m.think_time : ValidateDelayConfig(m.think_time[i])
    BY DEF ValidateScenario
  <2> QED BY <1>7, <2>1, <2>2, AcceptedDelayIsUsable
<1>15. IsList(m.thresholds) /\ \A i \in DOMAIN m.thresholds : DecodedThreshold(m.thresholds[i])
  BY DEF DecodedScenario
<1>16. /\ \A i \in DOMAIN m.thresholds : ValidateThreshold(m.thresholds[i])
       /\ ~ConflictingKinds(m.thresholds)
  BY DEF ValidateScenario
<1>17. DOMAIN s.thresholds = DOMAIN m.thresholds /\ \A i \in DOMAIN m.thresholds :
         s.thresholds[i] = Resolved(m.thresholds[i])
  BY <1>3, <1>5
<1>18. \A i \in DOMAIN m.thresholds :
         /\ ThresholdReady(s.thresholds[i])
         /\ s.thresholds[i].metric = m.thresholds[i].metric
         /\ s.thresholds[i].stat = m.thresholds[i].stat
  BY <1>15, <1>16, <1>17, AcceptedThresholdIsReady
<1>19. ~ConflictingKinds(s.thresholds) BY <1>16, <1>17, <1>18 DEF ConflictingKinds
<1>20. IsList(s.thresholds)
  <2>1. PICK k \in Nat : DOMAIN s.thresholds = 1..k BY <1>15, <1>17 DEF IsList
  <2>2. s.thresholds = [i \in 1..k |-> s.thresholds[i]] BY <1>3, <1>5, <2>1
  <2>3. Len(s.thresholds) = k BY <2>1, <2>2
  <2> QED BY <2>1, <2>3 DEF IsList
<1> QED BY <1>11, <1>12, <1>13, <1>14, <1>17, <1>18, <1>19, <1>20 DEF ScenarioReady, s

\* A set of numbers that are not above n has a least one.
LEMMA LeastNumber ==
  ASSUME NEW n \in Nat, NEW T, T \subseteq 1..n, T # {}
  PROVE  \E x \in T : \A y \in T : x <= y
<1> DEFINE S == 1..n
           R == StrictSubsetOrdering(S)
           B(x) == {y \in T : y < x}
           F == {B(x) : x \in T}
<1>1. IsFiniteSet(S) BY FS_Interval
<1>2. IsWellFoundedOn(R, FiniteSubsetsOf(S)) BY FS_StrictSubsetOrderingWellFounded
<1>3. FiniteSubsetsOf(S) = SUBSET S BY <1>1, FS_FiniteSubsetsOfFinite
<1>4. F \subseteq SUBSET S /\ F # {} OBVIOUS
<1>5. IsWellFoundedOn(R, SUBSET S) BY <1>2, <1>3
<1> HIDE DEF R, F
<1>6. PICK b \in F : \A c \in F : <<c, b>> \notin R BY <1>4, <1>5, WFMin
<1>7. PICK x \in T : b = B(x) BY <1>6 DEF F
<1>8. ASSUME NEW y \in T, y < x PROVE FALSE
  <2>1. B(y) \in F BY DEF F
  <2>5. x \in Nat /\ y \in Nat /\ \A z \in T : z \in Nat OBVIOUS
  <2>6. y \in B(x) /\ y \notin B(y) BY <1>8, <2>5
  <2>7. \A z \in T : z < y => z < x BY <1>8, <2>5
  <2>2. B(y) \subseteq B(x) /\ B(y) # B(x) BY <2>6, <2>7
  <2>3. B(y) \in SUBSET S /\ B(x) \in SUBSET S OBVIOUS
  <2>4. <<B(y), B(x)>> \in R BY <2>2, <2>3 DEF R, StrictSubsetOrdering
  <2> QED BY <1>6, <1>7, <2>1, <2>4
<1> QED BY <1>8

\* The metrics of an accepted scenario's thresholds are registered under the kind
\* that each of them implies.
LEMMA PreRegistered ==
  ASSUME NEW ths, IsList(ths), ~ConflictingKinds(ths), NEW types, NEW i \in DOMAIN ths,
         ths[i].metric \notin DOMAIN types
  PROVE  /\ ths[i].metric \in DOMAIN PreRegisterThresholdMetrics(types, ths)
         /\ PreRegisterThresholdMetrics(types, ths)[ths[i].metric] = InferredMetricKind(ths[i].stat)
<1> DEFINE n == ths[i].metric
           First(k) == CHOOSE a \in DOMAIN ths :
                         ths[a].metric = k /\ \A b \in DOMAIN ths : ths[b].metric = k => a <= b
           more == [k \in {ths[a].metric : a \in DOMAIN ths} |-> InferredMetricKind(ths[First(k)].stat)]
<1>1. PreRegisterThresholdMetrics(types, ths) = Register(types, more)
  BY DEF PreRegisterThresholdMetrics
<1>2. n \in DOMAIN more /\ more[n] = InferredMetricKind(ths[First(n)].stat) OBVIOUS
<1>3. First(n) \in DOMAIN ths /\ ths[First(n)].metric = n
  <2> DEFINE T == {a \in DOMAIN ths : ths[a].metric = n}
  <2>1. T \subseteq 1..Len(ths) /\ Len(ths) \in Nat /\ T # {} BY DEF IsList
  <2>2. PICK x \in T : \A y \in T : x <= y BY <2>1, LeastNumber
  <2> QED BY <2>2
<1>4. InferredMetricKind(ths[First(n)].stat) = InferredMetricKind(ths[i].stat)
  BY <1>3 DEF ConflictingKinds
<1> HIDE DEF more
<1> QED BY <1>1, <1>2, <1>4 DEF Register

\* The scenario that loading returns was accepted, and is ready for its consumers.
LEMMA LoadedScenarioIsReady ==
  ASSUME NEW f \in Documents, LoadConfig(f).err = "nil",
         NEW t \in DOMAIN Head(LoadConfig(f).config).scenarios
  PROVE  ScenarioReady(Head(LoadConfig(f).config).scenarios[t])
<1> DEFINE c == [f EXCEPT !.scenarios = [n \in DOMAIN f.scenarios |-> ToModel(f.scenarios[n])]]
           loaded == [c EXCEPT !.scenarios = [n \in DOMAIN c.scenarios |-> Normalised(c.scenarios[n])]]
<1>1. DecodedDocument(f) BY DocumentAssumption
<1>2. DOMAIN f = {"readable", "version", "default_scenario", "scenarios"} BY <1>1 DEF DecodedDocument
<1>3. c.scenarios = [n \in DOMAIN f.scenarios |-> ToModel(f.scenarios[n])] BY <1>2
<1>4. "scenarios" \in DOMAIN c BY <1>2
<1>5. loaded.scenarios = [n \in DOMAIN c.scenarios |-> Normalised(c.scenarios[n])] BY <1>4
<1>6. Validate(c) /\ LoadConfig(f).config = <<loaded>> BY DEF LoadConfig
<1> HIDE DEF c, loaded
<1>7. t \in DOMAIN f.scenarios /\ Head(LoadConfig(f).config) = loaded
  BY <1>3, <1>5, <1>6
<1>8. c.scenarios[t] = ToModel(f.scenarios[t]) /\ loaded.scenarios[t] = Normalised(c.scenarios[t])
  BY <1>3, <1>5, <1>7
<1>9. ValidateScenario(c.scenarios[t]) BY <1>3, <1>6, <1>7 DEF Validate
<1>10. DecodedScenario(f.scenarios[t]) BY <1>1, <1>7 DEF DecodedDocument
<1>11. /\ DecodedScenario(ToModel(f.scenarios[t]))
       /\ ToModel(f.scenarios[t]).max_pretest_retries # <<>>
  BY <1>10, ModelIsDecoded
<1>12. ScenarioReady(Normalised(ToModel(f.scenarios[t])))
  BY <1>8, <1>9, <1>11, AcceptedScenarioIsReady
<1> QED BY <1>7, <1>8, <1>12

\* The metrics of the thresholds are known under the kind their statistic implies.
ThresholdsKnown(s, types) ==
  \A i \in DOMAIN s.thresholds :
    s.thresholds[i].metric \notin CheckCounters =>
      /\ s.thresholds[i].metric \in DOMAIN types
      /\ types[s.thresholds[i].metric] = InferredMetricKind(s.thresholds[i].stat)

\* Registering more names keeps the kinds that are known.
LEMMA KnownStays ==
  ASSUME NEW s, NEW types, NEW more, ThresholdsKnown(s, types)
  PROVE  ThresholdsKnown(s, Register(types, more))
BY DEF ThresholdsKnown, Register

\* A verdict that holds is the comparison of a value, or a policy that does not fail.
LEMMA TrueVerdict ==
  ASSUME NEW st, NEW th, ThresholdReady(th), TRUE \in EvaluateThreshold(st, th)
  PROVE  \/ \E x \in ActualValues(st, th) : Compare(x, th.operator, TargetOf(th))
         \/ ActualValues(st, th) = {} /\ th.on_no_data # "fail"
<1>1. CASE ActualValues(st, th) = {}
  <2>1. EvaluateNoData(th) = TRUE BY <1>1 DEF EvaluateThreshold
  <2>2. ResolveOnNoData(th) = th.on_no_data BY DEF ResolveOnNoData, Resolved, ThresholdReady
  <2>3. th.on_no_data # "fail" BY <2>1, <2>2 DEF EvaluateNoData
  <2> QED BY <1>1, <2>3
<1>2. CASE ActualValues(st, th) # {}
  <2>1. TRUE \in {Compare(x, th.operator, TargetOf(th)) : x \in ActualValues(st, th)}
    BY <1>2 DEF EvaluateThreshold
  <2> QED BY <2>1
<1> QED BY <1>1, <1>2

-----------------------------------------------------------------------------
(* The inductive invariant of the suite. *)

\* The configuration the run uses was accepted, and its thresholds' metrics are known.
ConfigurationInv ==
  /\ file \in Documents
  /\ spc \in {"main", "resolve"} =>
       DOMAIN store = {"types", "cells"} /\ DOMAIN store.types = CheckCounters
  /\ spc \in {"execute", "strict", "sla", "report", "summary", "return"} =>
       scenario # Nil /\ ~flags.version
  /\ scenario # Nil => ScenarioReady(sc) /\ ThresholdsKnown(sc, store.types)

\* What is decided before the reports are written stays until the result is returned.
EvaluationInv ==
  /\ run.aborted \in BOOLEAN
  /\ spc \notin {"done", "panic"} => result = Nil
  /\ spc \in {"main", "resolve", "execute", "strict", "sla", "report"} => reports = {}
  /\ spc \in {"main", "resolve", "execute", "strict", "sla", "report", "summary"} => summary = Nil
  /\ spc \in {"report", "summary", "return"} =>
       /\ DOMAIN verdicts = DOMAIN sc.thresholds
       /\ \A i \in DOMAIN verdicts : verdicts[i] \in BOOLEAN /\ verdicts[i] \in EvaluateThreshold(store, sc.thresholds[i])
       /\ allPassed = (/\ AllPassed(verdicts)
                       /\ ~run.aborted
                       /\ ~(ResolveStrictMode = "fatal" /\ diagnostics # {}))
  /\ spc \in {"summary", "return"} =>
       \A d \in reports : (d.passed /\ ~d.aborted <=> allPassed) /\ d.aborted = run.aborted
  /\ spc = "return" /\ summary # Nil =>
       Head(summary).passed = allPassed /\ Head(summary).thresholds = verdicts

SuiteInv == ConfigurationInv /\ EvaluationInv /\ VerdictsAgree

\* Every step keeps the configuration accepted and its thresholds' metrics known.
LEMMA ConfigurationStep ==
  ASSUME SuiteInv, [SuiteNext]_suiteVars
  PROVE  ConfigurationInv'
<1>0. ConfigurationInv BY DEF SuiteInv
<1>1. CASE Resolve
  <2> DEFINE cfg == Head(LoadConfig(file).config)
             s == cfg.scenarios[TargetScenario(cfg)]
  <2>1. LoadConfig(file).err = "nil" /\ TargetScenario(cfg) \in DOMAIN cfg.scenarios
    BY <1>1 DEF Resolve, ResolutionError
  <2>2. /\ scenario' = <<s>> /\ UNCHANGED <<file, flags>> /\ ~flags.version
        /\ spc' = "execute" /\ spc = "resolve"
        /\ store' = [store EXCEPT !.types = PreRegisterThresholdMetrics(store.types, s.thresholds)]
    BY <1>1 DEF Resolve, inputs
  <2>3. file \in Documents /\ DOMAIN store.types = CheckCounters BY <1>0, <2>2 DEF ConfigurationInv
  <2>4. ScenarioReady(s) BY <2>1, <2>3, LoadedScenarioIsReady
  <2> HIDE DEF cfg, s
  <2>5. IsList(s.thresholds) /\ ~ConflictingKinds(s.thresholds) BY <2>4 DEF ScenarioReady
  <2>6. ThresholdsKnown(s, PreRegisterThresholdMetrics(store.types, s.thresholds))
    BY <2>3, <2>5, PreRegistered DEF ThresholdsKnown
  <2>7. store'.types = PreRegisterThresholdMetrics(store.types, s.thresholds)
    BY <1>0, <2>2 DEF ConfigurationInv
  <2>8. scenario' # Nil /\ sc' = s BY <2>2 DEF sc, Nil
  <2> QED BY <2>2, <2>3, <2>4, <2>6, <2>7, <2>8 DEF ConfigurationInv
<1>2. CASE Execute
  <2>1. PICK cells, named :
           store' = [types |-> Register(Register(store.types, BuiltIns), named), cells |-> cells]
    BY <1>2 DEF Execute
  <2>6. store'.types = Register(Register(store.types, BuiltIns), named) BY <2>1
  <2>2. UNCHANGED <<file, flags, scenario>> /\ spc = "execute" /\ spc' \in {"strict", "done"}
    BY <1>2 DEF Execute, inputs, Return
  <2>3. ScenarioReady(sc) /\ ThresholdsKnown(sc, store.types) BY <1>0, <2>2 DEF ConfigurationInv
  <2>4. ThresholdsKnown(sc, store'.types) BY <2>3, <2>6, KnownStays
  <2>5. sc' = sc BY <2>2 DEF sc
  <2> QED BY <1>0, <2>2, <2>3, <2>4, <2>5 DEF ConfigurationInv
<1>3. CASE UNCHANGED <<file, flags, scenario, store>> /\
           (\/ spc' \in {"panic", "done"} \/ spc' = spc
            \/ spc = "main" /\ spc' = "resolve"
            \/ spc \in {"strict", "sla", "report", "summary"} /\ spc' \in {"sla", "report", "summary", "return"})
  BY <1>0, <1>3 DEF ConfigurationInv, sc
<1>4. CASE RegisterScenarios \/ RegisterScenarioLate \/ ExecuteWithArgs
  BY <1>3, <1>4 DEF RegisterScenarios, RegisterScenarioLate, ExecuteWithArgs, inputs
<1>5. CASE ShowVersion \/ ResolveFails
  BY <1>3, <1>5 DEF ShowVersion, ResolveFails, inputs, Return
<1>6. CASE EngineMetricCollides
  BY <1>3, <1>6 DEF EngineMetricCollides, inputs
<1>7. CASE EvaluateStrictDiagnostics \/ EvaluateSLA
  BY <1>3, <1>7 DEF EvaluateStrictDiagnostics, EvaluateSLA, inputs
<1>8. CASE ReportExecution
  BY <1>3, <1>8 DEF ReportExecution, inputs
<1>9. CASE HandleSummary \/ ReturnResult
  BY <1>3, <1>9 DEF HandleSummary, ReturnResult, Return, inputs
<1>10. CASE UNCHANGED suiteVars BY <1>3, <1>10 DEF suiteVars
<1> QED BY <1>1, <1>2, <1>4, <1>5, <1>6, <1>7, <1>8, <1>9, <1>10 DEF SuiteNext

\* The verdict of every report is the exit code's.
LEMMA ReportsAgree ==
  ASSUME NEW sink, NEW format, allPassed \in BOOLEAN, run.aborted \in BOOLEAN,
         run.aborted => ~allPassed, NEW d \in WriteReport(sink, format)
  PROVE  (d.passed /\ ~d.aborted <=> allPassed) /\ d.aborted = run.aborted
<1>1. CASE d = JSONReport(sink) BY <1>1 DEF JSONReport
<1>2. CASE d = ConsoleReport(sink)
  <2> DEFINE verdict == IF run.aborted THEN "ABORTED" ELSE IF ~allPassed THEN "FAILED" ELSE "PASSED"
  <2>1. d.passed = (verdict = "PASSED") /\ d.aborted = (verdict = "ABORTED")
    BY <1>2 DEF ConsoleReport
  <2> QED BY <2>1
<1> QED BY <1>1, <1>2 DEF WriteReport

\* Every step keeps what is decided, and decides it as the code does.
LEMMA EvaluationStep ==
  ASSUME SuiteInv, [SuiteNext]_suiteVars
  PROVE  EvaluationInv'
<1>0. EvaluationInv /\ ConfigurationInv BY DEF SuiteInv
<1>1. CASE EvaluateSLA
  <2>1. /\ spc = "sla" /\ spc' = "report" /\ UNCHANGED <<scenario, store, run, diagnostics, flags, outputs>>
        /\ verdicts' \in [DOMAIN sc.thresholds -> BOOLEAN]
        /\ \A i \in DOMAIN verdicts' : verdicts'[i] \in EvaluateThreshold(store, sc.thresholds[i])
        /\ allPassed' = (/\ AllPassed(verdicts')
                         /\ ~run.aborted
                         /\ ~(ResolveStrictMode = "fatal" /\ diagnostics # {}))
    BY <1>1 DEF EvaluateSLA, inputs
  <2>2. sc' = sc /\ ResolveStrictMode' = ResolveStrictMode BY <2>1 DEF sc, ResolveStrictMode
  <2>3. UNCHANGED <<reports, summary, result>> BY <2>1 DEF outputs
  <2>4. DOMAIN verdicts' = DOMAIN sc.thresholds /\ \A i \in DOMAIN verdicts' : verdicts'[i] \in BOOLEAN
    BY <2>1
  <2> QED BY <1>0, <2>1, <2>2, <2>3, <2>4 DEF EvaluationInv
<1>2. CASE ReportExecution
  <2>1. /\ spc = "report" /\ spc' \in {"summary", "return"}
        /\ UNCHANGED <<scenario, store, run, flags, diagnostics, verdicts, allPassed, summary, result>>
    BY <1>2 DEF ReportExecution, inputs, evaluation
  <2>2. \A d \in reports' : \E sink, format : d \in WriteReport(sink, format)
    BY <1>2 DEF ReportExecution
  <2>3. sc' = sc /\ ResolveStrictMode' = ResolveStrictMode BY <2>1 DEF sc, ResolveStrictMode
  <2>4. allPassed = (/\ AllPassed(verdicts)
                     /\ ~run.aborted
                     /\ ~(ResolveStrictMode = "fatal" /\ diagnostics # {}))
    BY <1>0, <2>1 DEF EvaluationInv
  <2>5. allPassed \in BOOLEAN /\ run.aborted \in BOOLEAN /\ (run.aborted => ~allPassed)
    BY <1>0, <2>4 DEF EvaluationInv
  <2>6. \A d \in reports' : (d.passed /\ ~d.aborted <=> allPassed) /\ d.aborted = run.aborted
    BY <2>2, <2>5, ReportsAgree
  <2>7. summary = Nil /\ result = Nil BY <1>0, <2>1 DEF EvaluationInv
  <2> QED BY <1>0, <2>1, <2>3, <2>6, <2>7 DEF EvaluationInv
<1>3. CASE HandleSummary
  <2>1. /\ spc = "summary" /\ spc' = "return"
        /\ UNCHANGED <<scenario, store, run, flags, diagnostics, verdicts, allPassed, reports, result>>
        /\ summary' = <<ConvertReportSummaryToPublic(BuildSummaryData)>>
    BY <1>3 DEF HandleSummary, inputs, evaluation
  <2>2. sc' = sc /\ ResolveStrictMode' = ResolveStrictMode BY <2>1 DEF sc, ResolveStrictMode
  <2>3. Head(summary').passed = allPassed /\ Head(summary').thresholds = verdicts
    BY <2>1 DEF ConvertReportSummaryToPublic, BuildSummaryData
  <2> QED BY <1>0, <2>1, <2>2, <2>3 DEF EvaluationInv
<1>4. CASE EvaluateStrictDiagnostics
  BY <1>0, <1>4 DEF EvaluationInv, EvaluateStrictDiagnostics, inputs, outputs
<1>5. CASE Execute
  <2>0. \A o \in Outcomes : o.aborted \in BOOLEAN
    <3>1. \A breached : \A o \in RunOutcomes(breached) : o.aborted \in BOOLEAN
      BY DEF RunOutcomes
    <3>2. FailedSetup.aborted \in BOOLEAN
      BY DEF FailedSetup
    <3> QED BY <3>1, <3>2 DEF Outcomes
  <2>1. /\ spc = "execute" /\ run'.aborted \in BOOLEAN /\ UNCHANGED <<reports, summary>>
        /\ \/ spc' = "strict" /\ UNCHANGED result
           \/ spc' = "done"
    BY <1>5, <2>0 DEF Execute, Return
  <2> QED BY <1>0, <2>1 DEF EvaluationInv
<1>6. CASE Resolve
  BY <1>0, <1>6 DEF EvaluationInv, Resolve, inputs, outputs
<1>7. CASE RegisterScenarios \/ ExecuteWithArgs
  BY <1>0, <1>7 DEF EvaluationInv, RegisterScenarios, ExecuteWithArgs, outputs
<1>8. CASE spc' \in {"done", "panic"} /\ UNCHANGED run
  BY <1>0, <1>8 DEF EvaluationInv
<1>9. CASE RegisterScenarioLate \/ EngineMetricCollides \/ ShowVersion \/ ResolveFails \/ ReturnResult
  BY <1>8, <1>9 DEF RegisterScenarioLate, EngineMetricCollides, ShowVersion, ResolveFails, ReturnResult, Return
<1>10. CASE UNCHANGED suiteVars
  <2>1. UNCHANGED <<file, flags, spc, scenario, store, run, diagnostics, verdicts, allPassed, reports, summary, result>>
    BY <1>10 DEF suiteVars
  <2>2. sc' = sc /\ ResolveStrictMode' = ResolveStrictMode BY <2>1 DEF sc, ResolveStrictMode
  <2> QED BY <1>0, <2>1, <2>2 DEF EvaluationInv
<1> QED BY <1>1, <1>2, <1>3, <1>4, <1>5, <1>6, <1>7, <1>9, <1>10 DEF SuiteNext

\* A result that says no error, passed and not aborted means exit code 0, and no other.
LEMMA ExitCodeOf ==
  ASSUME NEW passed \in BOOLEAN, NEW aborted \in BOOLEAN, NEW err
  PROVE  LET r == [passed |-> passed, aborted |-> aborted, err |-> TranslateError(err)]
         IN  /\ err = "nil" => r.err = "nil" /\ (ExitCode(r) = 0 <=> passed /\ ~aborted)
             /\ ~passed => ExitCode(r) # 0
             /\ r.passed = passed /\ r.aborted = aborted
<1> DEFINE e == TranslateError(err)
           r == [passed |-> passed, aborted |-> aborted, err |-> e]
<1>1. err = "nil" => e = "nil" BY DEF TranslateError
<1> HIDE DEF e
<1>2. r.passed = passed /\ r.aborted = aborted /\ r.err = e OBVIOUS
<1> HIDE DEF r
<1>3. ExitCode(r) = 0 <=> r.err = "nil" /\ r.passed /\ ~r.aborted BY DEF ExitCode
<1> QED BY <1>1, <1>2, <1>3 DEF r, e

\* Every step keeps the verdicts together, and the one that returns makes them.
LEMMA VerdictsStep ==
  ASSUME SuiteInv, [SuiteNext]_suiteVars
  PROVE  VerdictsAgree'
<1>0. EvaluationInv /\ ConfigurationInv /\ VerdictsAgree BY DEF SuiteInv
<1>1. CASE spc' # "done" BY <1>1 DEF VerdictsAgree
<1>2. CASE ReturnResult
  <2> DEFINE r == [passed |-> allPassed, aborted |-> run.aborted, err |-> TranslateError("nil")]
  <2>1. /\ spc = "return" /\ result' = <<r>>
        /\ UNCHANGED <<flags, scenario, store, run, diagnostics, verdicts, allPassed, reports, summary>>
    BY <1>2 DEF ReturnResult, Return, inputs, evaluation
  <2>2. sc' = sc /\ ResolveStrictMode' = ResolveStrictMode BY <2>1 DEF sc, ResolveStrictMode
  <2>3. /\ DOMAIN verdicts = DOMAIN sc.thresholds
        /\ \A i \in DOMAIN verdicts : verdicts[i] \in BOOLEAN /\ verdicts[i] \in EvaluateThreshold(store, sc.thresholds[i])
        /\ allPassed = (/\ AllPassed(verdicts)
                        /\ ~run.aborted
                        /\ ~(ResolveStrictMode = "fatal" /\ diagnostics # {}))
        /\ \A d \in reports : (d.passed /\ ~d.aborted <=> allPassed) /\ d.aborted = run.aborted
        /\ summary # Nil => Head(summary).passed = allPassed /\ Head(summary).thresholds = verdicts
        /\ run.aborted \in BOOLEAN
    BY <1>0, <2>1 DEF EvaluationInv
  <2>4. scenario # Nil /\ ScenarioReady(sc) BY <1>0, <2>1 DEF ConfigurationInv
  <2>5. allPassed \in BOOLEAN /\ (allPassed => ~run.aborted /\ (ResolveStrictMode = "fatal" => diagnostics = {}))
    BY <2>3
  <2>6. /\ r.err = "nil" /\ (ExitCode(r) = 0 <=> allPassed)
        /\ r.passed = allPassed /\ r.aborted = run.aborted
    BY <2>3, <2>5, ExitCodeOf
  <2> HIDE DEF r
  <2>7. ASSUME allPassed, NEW i \in DOMAIN sc.thresholds
        PROVE  \/ \E x \in ActualValues(store, sc.thresholds[i]) :
                     Compare(x, sc.thresholds[i].operator, TargetOf(sc.thresholds[i]))
               \/ ActualValues(store, sc.thresholds[i]) = {} /\ sc.thresholds[i].on_no_data # "fail"
    <3>1. verdicts[i] = TRUE BY <2>3, <2>7 DEF AllPassed
    <3>2. TRUE \in EvaluateThreshold(store, sc.thresholds[i]) BY <2>3, <3>1
    <3>3. ThresholdReady(sc.thresholds[i]) BY <2>4 DEF ScenarioReady
    <3> QED BY <3>2, <3>3, TrueVerdict
  <2>8. Head(result') = r BY <2>1
  <2>9. /\ ExitCode(r) = 0 =>
             /\ scenario' # Nil /\ ~run'.aborted
             /\ \A i \in DOMAIN sc'.thresholds :
                     \/ \E x \in ActualValues(store', sc'.thresholds[i]) :
                          Compare(x, sc'.thresholds[i].operator, TargetOf(sc'.thresholds[i]))
                     \/ ActualValues(store', sc'.thresholds[i]) = {} /\ sc'.thresholds[i].on_no_data # "fail"
             /\ ResolveStrictMode' = "fatal" => diagnostics' = {}
    BY <2>1, <2>2, <2>4, <2>5, <2>6, <2>7
  <2>10. \A d \in reports' : (d.passed /\ ~d.aborted <=> ExitCode(r) = 0) /\ d.aborted = r.aborted
    BY <2>1, <2>3, <2>6
  <2>11. summary' # Nil => Head(summary').passed = r.passed /\ Head(summary').thresholds = verdicts'
    BY <2>1, <2>3, <2>6
  <2> QED BY <2>6, <2>8, <2>9, <2>10, <2>11 DEF VerdictsAgree
<1>3. ASSUME NEW err, result' = <<[passed |-> FALSE, aborted |-> FALSE, err |-> TranslateError(err)]>>,
             UNCHANGED <<reports, summary>>, reports = {}, summary = Nil
      PROVE  VerdictsAgree'
  <2> DEFINE r == [passed |-> FALSE, aborted |-> FALSE, err |-> TranslateError(err)]
  <2>1. ExitCode(r) # 0 BY ExitCodeOf
  <2>2. Head(result') = r BY <1>3
  <2> HIDE DEF r
  <2> QED BY <1>3, <2>1, <2>2 DEF VerdictsAgree
<1>4. CASE ResolveFails
  BY <1>0, <1>3, <1>4 DEF ResolveFails, Return, EvaluationInv
<1>5. CASE Execute
  <2>1. /\ spc = "execute" /\ UNCHANGED <<reports, summary>>
        /\ \/ spc' = "strict"
           \/ \E err : result' = <<[passed |-> FALSE, aborted |-> FALSE, err |-> TranslateError(err)]>>
    BY <1>5 DEF Execute, Return
  <2>2. reports = {} /\ summary = Nil BY <1>0, <2>1 DEF EvaluationInv
  <2> QED BY <1>1, <1>3, <2>1, <2>2
<1>6. CASE ShowVersion
  BY <1>6 DEF ShowVersion, inputs, VerdictsAgree
<1>7. CASE UNCHANGED suiteVars
  <2>1. UNCHANGED <<file, flags, spc, scenario, store, run, diagnostics, verdicts, allPassed, reports, summary, result>>
    BY <1>7 DEF suiteVars
  <2>2. sc' = sc /\ ResolveStrictMode' = ResolveStrictMode BY <2>1 DEF sc, ResolveStrictMode
  <2> QED BY <1>0, <2>1, <2>2 DEF VerdictsAgree
<1>8. CASE RegisterScenarios \/ RegisterScenarioLate \/ ExecuteWithArgs \/ Resolve \/ EngineMetricCollides
  BY <1>1, <1>8 DEF RegisterScenarios, RegisterScenarioLate, ExecuteWithArgs, Resolve, EngineMetricCollides
<1>9. CASE EvaluateStrictDiagnostics \/ EvaluateSLA \/ ReportExecution \/ HandleSummary
  BY <1>1, <1>9 DEF EvaluateStrictDiagnostics, EvaluateSLA, ReportExecution, HandleSummary
<1> QED BY <1>2, <1>4, <1>5, <1>6, <1>7, <1>8, <1>9 DEF SuiteNext

\* The invariant holds initially.
LEMMA SuiteInitial == SuiteInit => SuiteInv
<1> SUFFICES ASSUME SuiteInit PROVE SuiteInv OBVIOUS
<1>1. ConfigurationInv BY DEF SuiteInit, ConfigurationInv, NewStore
<1>2. EvaluationInv BY DEF SuiteInit, EvaluationInv, NoRun
<1>3. VerdictsAgree BY DEF SuiteInit, VerdictsAgree
<1> QED BY <1>1, <1>2, <1>3 DEF SuiteInv

\* A scenario that is ready, with known thresholds, is one that runs.
LEMMA ReadyScenarioRuns == ConfigurationInv => ValidatedScenarioRuns
<1> SUFFICES ASSUME ConfigurationInv, scenario # Nil PROVE ValidatedScenarioRuns
  BY DEF ValidatedScenarioRuns
<1>1. ScenarioReady(sc) /\ ThresholdsKnown(sc, store.types) BY DEF ConfigurationInv
<1>2. \A d \in Range(sc.interaction_delay) \cup Range(sc.think_time) : DelayIsUsable(d)
  <2>1. /\ \A i \in DOMAIN sc.interaction_delay : DelayIsUsable(sc.interaction_delay[i])
        /\ \A i \in DOMAIN sc.think_time : DelayIsUsable(sc.think_time[i])
    BY <1>1 DEF ScenarioReady
  <2> QED BY <2>1 DEF Range
<1>3. PacingReady(sc) BY <1>1 DEF ScenarioReady
<1>4. /\ sc.vu_timeout > 0 \/ (sc.vu_timeout = 0 /\ sc.allow_unbounded_iterations)
      /\ sc.drain >= 0 /\ sc.ramp_up >= 0 /\ sc.ramp_down >= 0
      /\ MaxPreTestRetriesOf(sc) >= 0
  BY <1>1 DEF ScenarioReady
<1>5. \A i \in DOMAIN sc.thresholds :
        /\ TargetOf(sc.thresholds[i]) \in Int
        /\ sc.thresholds[i].on_no_data # ""
        /\ sc.thresholds[i].metric \notin CheckCounters =>
             store.types[sc.thresholds[i].metric] = InferredMetricKind(sc.thresholds[i].stat)
  BY <1>1 DEF ScenarioReady, ThresholdReady, ThresholdsKnown
<1> QED BY <1>2, <1>3, <1>4, <1>5 DEF ValidatedScenarioRuns, PacingReady

\* The invariant of the suite holds in every state.
LEMMA SuiteInvariant == SuiteSpec => []SuiteInv
<1>1. SuiteInv /\ [SuiteNext]_suiteVars => SuiteInv'
  BY ConfigurationStep, EvaluationStep, VerdictsStep DEF SuiteInv
<1> QED BY <1>1, SuiteInitial, PTL DEF SuiteSpec

\* Whatever the configuration files, a scenario that loading returns can be run: the
\* pacing engines, the deadline of an iteration, the delay generators, the registry and
\* the SLA evaluator find in it what they assume (validate.go, dto.go).
THEOREM ValidatedScenarioRunsHolds == SuiteSpec => []ValidatedScenarioRuns
<1>1. SuiteInv => ValidatedScenarioRuns BY ReadyScenarioRuns DEF SuiteInv
<1> QED BY <1>1, SuiteInvariant, PTL

\* The exit code, the reports and the summary tell the same verdict, and exit code 0
\* is the verdict of a run that was not aborted and whose thresholds hold.
THEOREM VerdictsAgreeHolds == SuiteSpec => []VerdictsAgree
<1>1. SuiteInv => VerdictsAgree BY DEF SuiteInv
<1> QED BY <1>1, SuiteInvariant, PTL

-----------------------------------------------------------------------------
(* What the statistics of the metrics are: the sum over a set of cells is  *)
(* a fold, and the percentiles are ranks in a sorted list.                 *)

\* A family of subsets of a finite set that has each one of which it has the proper
\* subsets has them all.
LEMMA SubsetInduction ==
  ASSUME NEW S, IsFiniteSet(S), NEW Q,
         \A s \in SUBSET S : (\A t \in SUBSET s : t # s => t \in Q) => s \in Q
  PROVE  \A s \in SUBSET S : s \in Q
<1> DEFINE T == {s \in SUBSET S : s \notin Q}
           R == StrictSubsetOrdering(S)
<1> SUFFICES ASSUME T # {} PROVE FALSE OBVIOUS
<1>1. IsWellFoundedOn(R, SUBSET S)
  <2>1. IsWellFoundedOn(R, FiniteSubsetsOf(S)) BY FS_StrictSubsetOrderingWellFounded
  <2>2. FiniteSubsetsOf(S) = SUBSET S BY FS_FiniteSubsetsOfFinite
  <2> QED BY <2>1, <2>2
<1>2. PICK s \in T : \A t \in T : <<t, s>> \notin R
  <2>1. T \subseteq SUBSET S OBVIOUS
  <2> HIDE DEF T, R
  <2> QED BY <1>1, <2>1, WFMin
<1>3. ASSUME NEW t \in SUBSET s, t # s PROVE t \in Q
  <2>1. t \in SUBSET S BY <1>2
  <2>2. <<t, s>> \in R BY <1>2, <1>3, <2>1 DEF StrictSubsetOrdering
  <2> QED BY <1>2, <2>1, <2>2
<1> QED BY <1>2, <1>3

\* The recursion of SumOf, for the subsets of a set.
SumStep(it, s, i) ==
  IF s = {} THEN 0 ELSE it[s \ {CHOOSE c \in s : TRUE}] + (CHOOSE c \in s : TRUE).obs[i]
IsSum(it, S, i) == it = [s \in SUBSET S |-> SumStep(it, s, i)]

\* There is a function that satisfies it.
LEMMA SumExists ==
  ASSUME NEW S, IsFiniteSet(S), NEW i
  PROVE  \E it : IsSum(it, S, i)
<1> DEFINE B(k) == {s \in SUBSET S : Cardinality(s) <= k}
           IsPart(it, k) == it = [s \in B(k) |-> SumStep(it, s, i)]
           K == {k \in Nat : \E it : IsPart(it, k)}
<1>0. \A s \in SUBSET S : IsFiniteSet(s) /\ Cardinality(s) \in Nat
  BY FS_Subset, FS_CardinalityType
<1>1. 0 \in K
  <2> DEFINE it == [s \in B(0) |-> 0]
  <2>1. \A s \in B(0) : s = {} BY <1>0, FS_EmptySet
  <2>2. it = [s \in B(0) |-> SumStep(it, s, i)] BY <2>1 DEF SumStep
  <2> QED BY <2>2
<1>2. ASSUME NEW k \in K PROVE k + 1 \in K
  <2>0. k \in Nat /\ k + 1 \in Nat OBVIOUS
  <2>1. PICK g : IsPart(g, k) OBVIOUS
  <2> DEFINE h == [s \in B(k + 1) |-> SumStep(g, s, i)]
  <2>2. \A s \in B(k) : s \in B(k + 1) /\ h[s] = g[s] BY <1>0, <2>0, <2>1
  <2>3. ASSUME NEW s \in B(k + 1) PROVE SumStep(g, s, i) = SumStep(h, s, i)
    <3>1. CASE s = {} BY <3>1 DEF SumStep
    <3>2. CASE s # {}
      <4> DEFINE x == CHOOSE c \in s : TRUE
      <4>1. x \in s BY <3>2
      <4> HIDE DEF x
      <4>2. Cardinality(s \ {x}) = Cardinality(s) - 1 BY <1>0, <4>1, FS_RemoveElement
      <4>3. s \ {x} \in B(k) BY <1>0, <2>0, <4>2
      <4>4. h[s \ {x}] = g[s \ {x}] BY <2>2, <4>3
      <4> QED BY <3>2, <4>4 DEF SumStep, x
    <3> QED BY <3>1, <3>2
  <2>4. IsPart(h, k + 1)
    <3> HIDE DEF B
    <3>1. [s \in B(k + 1) |-> SumStep(g, s, i)] = [s \in B(k + 1) |-> SumStep(h, s, i)]
      <4> HIDE DEF h
      <4> QED BY <2>3
    <3> QED BY <3>1
  <2> HIDE DEF IsPart, h
  <2> QED BY <2>0, <2>4
<1>3. K = Nat
  <2> HIDE DEF K
  <2>1. K \in SUBSET Nat BY DEF K
  <2> QED BY <1>1, <1>2, <2>1, SetInduction
<1>4. PICK it : IsPart(it, Cardinality(S))
  <2>1. Cardinality(S) \in K BY <1>0, <1>3
  <2> QED BY <2>1
<1>5. B(Cardinality(S)) = SUBSET S BY <1>0, FS_Subset
<1>6. IsSum(it, S, i) BY <1>4, <1>5 DEF IsSum
<1> QED BY <1>6

\* The sum of a set is what it gives to the set.
LEMMA SumUnfolds ==
  ASSUME NEW S, IsFiniteSet(S), NEW i
  PROVE  \E it : IsSum(it, S, i) /\ SumOf(S, i) = it[S]
<1> DEFINE it == CHOOSE it : IsSum(it, S, i)
<1>1. IsSum(it, S, i) BY SumExists
<1>2. SumOf(S, i) = it[S] BY DEF SumOf, FoldSet, MapThenFoldSet, IsSum, SumStep
<1> HIDE DEF it
<1> QED BY <1>1, <1>2

\* It does not matter of which larger set a set is a subset.
LEMMA SumsAgree ==
  ASSUME NEW S, NEW T, IsFiniteSet(S), S \subseteq T, NEW i, NEW f, NEW g,
         IsSum(f, S, i), IsSum(g, T, i)
  PROVE  f[S] = g[S]
<1> DEFINE Q == {s \in SUBSET S : f[s] = g[s]}
<1>1. ASSUME NEW s \in SUBSET S, \A t \in SUBSET s : t # s => t \in Q PROVE s \in Q
  <2>1. f[s] = SumStep(f, s, i) /\ g[s] = SumStep(g, s, i) BY DEF IsSum
  <2>2. CASE s = {} BY <2>1, <2>2 DEF SumStep
  <2>3. CASE s # {}
    <3> DEFINE x == CHOOSE c \in s : TRUE
    <3>1. x \in s BY <2>3
    <3>2. f[s \ {x}] = g[s \ {x}] BY <1>1, <3>1
    <3> HIDE DEF x
    <3> QED BY <2>1, <2>3, <3>2 DEF SumStep, x
  <2> QED BY <2>2, <2>3
<1> HIDE DEF Q
<1>2. S \in Q BY <1>1, SubsetInduction
<1> QED BY <1>2 DEF Q

\* Nor which element comes first.
LEMMA SumsCommute ==
  ASSUME NEW S, IsFiniteSet(S), NEW i, \A c \in S : c.obs[i] \in Int, NEW f, IsSum(f, S, i)
  PROVE  \A s \in SUBSET S : f[s] \in Int /\ \A c \in s : f[s] = f[s \ {c}] + c.obs[i]
<1> DEFINE Q == {s \in SUBSET S : f[s] \in Int /\ \A c \in s : f[s] = f[s \ {c}] + c.obs[i]}
<1>1. ASSUME NEW s \in SUBSET S, \A t \in SUBSET s : t # s => t \in Q PROVE s \in Q
  <2>1. f[s] = SumStep(f, s, i) BY DEF IsSum
  <2>2. CASE s = {} BY <2>1, <2>2 DEF SumStep
  <2>3. CASE s # {}
    <3> DEFINE x == CHOOSE c \in s : TRUE
    <3>1. x \in s BY <2>3
    <3>2. f[s] = f[s \ {x}] + x.obs[i] BY <2>1, <2>3 DEF SumStep
    <3> HIDE DEF x
    <3>3. s \ {x} \in Q /\ x.obs[i] \in Int BY <1>1, <3>1
    <3>4. f[s] \in Int BY <3>2, <3>3
    <3>5. ASSUME NEW c \in s, c # x PROVE f[s] = f[s \ {c}] + c.obs[i]
      <4> DEFINE r == (s \ {x}) \ {c}
      <4>1. s \ {c} \in Q /\ c.obs[i] \in Int BY <1>1
      <4>2. c \in s \ {x} /\ x \in s \ {c} /\ (s \ {c}) \ {x} = r BY <3>1, <3>5
      <4>3. f[s \ {x}] = f[r] + c.obs[i] BY <3>3, <4>2
      <4>4. f[s \ {c}] = f[r] + x.obs[i] BY <4>1, <4>2
      <4>5. r \in Q
        <5>1. r \in SUBSET s /\ r # s BY <3>1
        <5> QED BY <1>1, <5>1
      <4>6. f[r] \in Int BY <4>5
      <4> HIDE DEF r, Q
      <4> QED BY <3>2, <3>3, <4>1, <4>3, <4>4, <4>6
    <3> QED BY <3>2, <3>4, <3>5
  <2> QED BY <2>2, <2>3
<1> HIDE DEF Q
<1>2. \A s \in SUBSET S : s \in Q BY <1>1, SubsetInduction
<1> QED BY <1>2 DEF Q


\* SumOf is the sum over a set of cells, in whatever order they are visited.
LEMMA SumOfOneMore ==
  ASSUME NEW S, IsFiniteSet(S), NEW i, \A c \in S : c.obs[i] \in Int
  PROVE  /\ SumOf(S, i) \in Int
         /\ S = {} => SumOf(S, i) = 0
         /\ \A c \in S : SumOf(S, i) = SumOf(S \ {c}, i) + c.obs[i]
<1>1. PICK f : IsSum(f, S, i) /\ SumOf(S, i) = f[S] BY SumUnfolds
<1>2. f[S] \in Int /\ \A c \in S : f[S] = f[S \ {c}] + c.obs[i]
  <2>1. IsSum(f, S, i) BY <1>1
  <2> DEFINE T == S
  <2>2. \A s \in SUBSET T : f[s] \in Int /\ \A c \in s : f[s] = f[s \ {c}] + c.obs[i]
    <3> HIDE DEF T
    <3>1. T = S BY DEF T
    <3>2. IsFiniteSet(T) /\ (\A c \in T : c.obs[i] \in Int) /\ IsSum(f, T, i) BY <2>1, <3>1
    <3> QED BY <3>2, SumsCommute
  <2>3. T \in SUBSET T OBVIOUS
  <2> QED BY <2>2, <2>3
<1>3. S = {} => f[S] = 0 BY <1>1 DEF IsSum, SumStep
<1>4. ASSUME NEW c \in S PROVE f[S \ {c}] = SumOf(S \ {c}, i)
  <2>1. IsFiniteSet(S \ {c}) BY FS_Subset
  <2>2. PICK g : IsSum(g, S \ {c}, i) /\ SumOf(S \ {c}, i) = g[S \ {c}] BY <2>1, SumUnfolds
  <2>3. g[S \ {c}] = f[S \ {c}] BY <1>1, <2>1, <2>2, SumsAgree
  <2> QED BY <2>2, <2>3
<1> QED BY <1>1, <1>2, <1>3, <1>4

\* The total of a counter does not depend on the order in which the cells of its tag
\* variants are visited, and one variant more adds what was added to it.
THEOREM TotalsAreOfAllVariants ==
  ASSUME NEW st, NEW name, NEW c \in CellsOf(st, "counter", name),
         IsFiniteSet(st.cells),
         \A d \in CellsOf(st, "counter", name) : d.obs[1] \in Nat
  PROVE  AggregatedCounterValue(st, name) =
           AggregatedCounterValue([cells |-> st.cells \ {c}], name) + c.obs[1]
<1> DEFINE S == CellsOf(st, "counter", name)
<1>1. IsFiniteSet(S) /\ \A d \in S : d.obs[1] \in Int BY FS_Subset DEF CellsOf
<1>2. SumOf(S, 1) = SumOf(S \ {c}, 1) + c.obs[1] BY <1>1, SumOfOneMore
<1>3. CellsOf([cells |-> st.cells \ {c}], "counter", name) = S \ {c} BY DEF CellsOf
<1> QED BY <1>2, <1>3 DEF AggregatedCounterValue

\* A rate has data exactly when some tag variant was attempted, and is then a ratio,
\* provided that each variant succeeded no more often than it was attempted.
THEOREM RatesAreRatios ==
  ASSUME NEW st, NEW name, IsFiniteSet(st.cells),
         \A c \in CellsOf(st, "rate", name) : c.obs[1] \in Nat /\ c.obs[2] \in Nat /\ c.obs[1] <= c.obs[2]
  PROVE  /\ RateData(st, name) = Nil <=> \A c \in CellsOf(st, "rate", name) : c.obs[2] = 0
         /\ AggregatedRateValue(st, name) \in 0..100
<1> DEFINE S == CellsOf(st, "rate", name)
           Q == {s \in SUBSET S : /\ SumOf(s, 1) \in Nat /\ SumOf(s, 2) \in Nat
                                  /\ SumOf(s, 1) <= SumOf(s, 2)
                                  /\ SumOf(s, 2) = 0 <=> \A c \in s : c.obs[2] = 0}
<1>1. IsFiniteSet(S) BY FS_Subset DEF CellsOf
<1>2. \A c \in S : c.obs[1] \in Nat /\ c.obs[2] \in Nat /\ c.obs[1] <= c.obs[2] OBVIOUS
<1> HIDE DEF S
<1>3. ASSUME NEW s \in SUBSET S, \A t \in SUBSET s : t # s => t \in Q PROVE s \in Q
  <2>0. IsFiniteSet(s) /\ \A c \in s : c.obs[1] \in Int /\ c.obs[2] \in Int BY <1>1, <1>2, FS_Subset
  <2>1. /\ s = {} => SumOf(s, 1) = 0 /\ SumOf(s, 2) = 0
        /\ \A c \in s : /\ SumOf(s, 1) = SumOf(s \ {c}, 1) + c.obs[1]
                        /\ SumOf(s, 2) = SumOf(s \ {c}, 2) + c.obs[2]
    BY <2>0, SumOfOneMore
  <2>2. CASE s = {} BY <2>1, <2>2
  <2>3. CASE s # {}
    <3>1. PICK c \in s : TRUE BY <2>3
    <3>2. s \ {c} \in Q BY <1>3
    <3>3. c.obs[1] \in Nat /\ c.obs[2] \in Nat /\ c.obs[1] <= c.obs[2] BY <1>2
    <3>4. \A d \in s : d = c \/ d \in s \ {c} OBVIOUS
    <3>5. /\ SumOf(s \ {c}, 1) \in Nat /\ SumOf(s \ {c}, 2) \in Nat
          /\ SumOf(s \ {c}, 1) <= SumOf(s \ {c}, 2)
          /\ SumOf(s \ {c}, 2) = 0 <=> \A d \in s \ {c} : d.obs[2] = 0
      BY <3>2
    <3>6. SumOf(s, 1) \in Nat /\ SumOf(s, 2) \in Nat /\ SumOf(s, 1) <= SumOf(s, 2)
      BY <2>1, <3>3, <3>5
    <3>7. SumOf(s, 2) = 0 <=> SumOf(s \ {c}, 2) = 0 /\ c.obs[2] = 0 BY <2>1, <3>3, <3>5
    <3>8. SumOf(s, 2) = 0 <=> \A d \in s : d.obs[2] = 0 BY <3>4, <3>5, <3>7
    <3> QED BY <3>6, <3>8
  <2> QED BY <2>2, <2>3
<1>4. S \in Q
  <2> HIDE DEF Q
  <2> QED BY <1>1, <1>3, SubsetInduction
<1> DEFINE num == SumOf(S, 1)
           den == SumOf(S, 2)
<1>5. num \in Nat /\ den \in Nat /\ num <= den /\ (den = 0 <=> \A c \in S : c.obs[2] = 0) BY <1>4
<1>6. RateData(st, name) = IF den = 0 THEN Nil ELSE <<(100 * num) \div den>> BY DEF RateData, S
<1> HIDE DEF num, den
<1>7. den # 0 => (100 * num) \div den \in 0..100
  <2> SUFFICES ASSUME den # 0 PROVE (100 * num) \div den \in 0..100 OBVIOUS
  <2> DEFINE q == (100 * num) \div den
             r == (100 * num) % den
  <2>1. q \in Int /\ r \in 0..den-1 /\ 100 * num = den * q + r BY <1>5
  <2> HIDE DEF q, r
  <2>2. q <= 100
    <3> SUFFICES ASSUME q >= 101 PROVE FALSE BY <2>1
    <3>1. den * q >= den * 101 BY <1>5, <2>1
    <3> QED BY <1>5, <2>1, <3>1
  <2>3. q >= 0
    <3> SUFFICES ASSUME q <= -1 PROVE FALSE BY <2>1
    <3>1. den * q <= -den BY <1>5, <2>1
    <3> QED BY <1>5, <2>1, <3>1
  <2> QED BY <2>1, <2>2, <2>3 DEF q
<1>8. RateData(st, name) = Nil <=> den = 0 BY <1>6 DEF Nil
<1>9. AggregatedRateValue(st, name) \in 0..100 BY <1>6, <1>7 DEF AggregatedRateValue, Nil
<1> QED BY <1>5, <1>8, <1>9 DEF S

\* The rank of a percentile is that of a sample, and grows with the percentile.
LEMMA RanksAreOrdered ==
  ASSUME NEW n \in Nat \ {0}
  PROVE  /\ 1 <= Rank(50, n) /\ Rank(50, n) <= Rank(90, n) /\ Rank(90, n) <= Rank(95, n)
         /\ Rank(95, n) <= Rank(99, n) /\ Rank(99, n) <= n
         /\ \A q \in {50, 90, 95, 99} : Rank(q, n) \in 1..n
<1> DEFINE D(q) == (q * n + 50) \div 100
<1>1. \A q \in {50, 90, 95, 99} : Rank(q, n) = IF D(q) < 1 THEN 1 ELSE D(q) BY DEF Rank
<1>2. D(50) \in Int /\ D(90) \in Int /\ D(95) \in Int /\ D(99) \in Int OBVIOUS
<1>3. D(50) <= D(90) /\ D(90) <= D(95) /\ D(95) <= D(99) /\ D(99) <= n OBVIOUS
<1> HIDE DEF D
<1> QED BY <1>1, <1>2, <1>3

\* The percentiles of a histogram are values that were recorded, and are ordered: a
\* threshold cannot hold for the p99 and fail, with the same target, for the p50.
THEOREM PercentilesAreOrdered ==
  ASSUME NEW samples \in Seq(Int), samples # <<>>,
         \A i, j \in DOMAIN samples : i <= j => samples[i] <= samples[j]
  PROVE  /\ SnapshotStat(samples, "min") <= SnapshotStat(samples, "p50")
         /\ SnapshotStat(samples, "p50") <= SnapshotStat(samples, "p90")
         /\ SnapshotStat(samples, "p90") <= SnapshotStat(samples, "p95")
         /\ SnapshotStat(samples, "p95") <= SnapshotStat(samples, "p99")
         /\ SnapshotStat(samples, "p99") <= SnapshotStat(samples, "max")
         /\ \A stat \in {"min", "p50", "p90", "p95", "p99", "max"} :
              SnapshotStat(samples, stat) \in Range(samples)
<1> DEFINE n == Len(samples)
<1>1. n \in Nat \ {0} /\ DOMAIN samples = 1..n OBVIOUS
<1>2. /\ SnapshotStat(samples, "min") = samples[1] /\ SnapshotStat(samples, "max") = samples[n]
      /\ SnapshotStat(samples, "p50") = samples[Rank(50, n)]
      /\ SnapshotStat(samples, "p90") = samples[Rank(90, n)]
      /\ SnapshotStat(samples, "p95") = samples[Rank(95, n)]
      /\ SnapshotStat(samples, "p99") = samples[Rank(99, n)]
  BY <1>1 DEF SnapshotStat
<1> HIDE DEF n
<1>3. /\ 1 <= Rank(50, n) /\ Rank(50, n) <= Rank(90, n) /\ Rank(90, n) <= Rank(95, n)
      /\ Rank(95, n) <= Rank(99, n) /\ Rank(99, n) <= n
      /\ {1, n, Rank(50, n), Rank(90, n), Rank(95, n), Rank(99, n)} \subseteq DOMAIN samples
  BY <1>1, RanksAreOrdered
<1>4. \A i \in DOMAIN samples : samples[i] \in Range(samples) BY DEF Range
<1>5. /\ SnapshotStat(samples, "min") <= SnapshotStat(samples, "p50")
      /\ SnapshotStat(samples, "p50") <= SnapshotStat(samples, "p90")
      /\ SnapshotStat(samples, "p90") <= SnapshotStat(samples, "p95")
      /\ SnapshotStat(samples, "p95") <= SnapshotStat(samples, "p99")
      /\ SnapshotStat(samples, "p99") <= SnapshotStat(samples, "max")
  BY <1>2, <1>3
<1> QED BY <1>2, <1>3, <1>4, <1>5

-----------------------------------------------------------------------------
(* The suite keeps to its types.                                           *)

MetricKinds == {"duration", "counter", "rate", "gauge"}

\* A statistic that validation accepts implies one of the four kinds.
LEMMA StatImpliesKind == ASSUME NEW stat \in validStats PROVE InferredMetricKind(stat) \in MetricKinds
<1>1. CASE IsDurationStat(stat) BY <1>1 DEF InferredMetricKind, MetricKinds
<1>2. CASE ~IsDurationStat(stat)
  <2>1. stat \in {"count", "rate", "value"} BY <1>2 DEF validStats, IsDurationStat
  <2>2. [count |-> "counter", rate |-> "rate", value |-> "gauge"][stat] \in MetricKinds
    <3>1. CASE stat = "count" BY <3>1 DEF MetricKinds
    <3>2. CASE stat = "rate" BY <3>2 DEF MetricKinds
    <3>3. CASE stat = "value" BY <3>3 DEF MetricKinds
    <3> QED BY <2>1, <3>1, <3>2, <3>3
  <2> QED BY <1>2, <2>2 DEF InferredMetricKind
<1> QED BY <1>1, <1>2

\* The metrics of the thresholds of an accepted scenario have one of the four kinds.
LEMMA PreRegisteredKinds ==
  ASSUME NEW ths, IsList(ths), \A i \in DOMAIN ths : ThresholdReady(ths[i]),
         NEW types, \A n \in DOMAIN types : types[n] \in MetricKinds
  PROVE  LET more == PreRegisterThresholdMetrics(types, ths)
         IN  /\ DOMAIN types \subseteq DOMAIN more
             /\ \A n \in DOMAIN more : more[n] \in MetricKinds
             /\ \A n \in DOMAIN types : more[n] = types[n]
<1> DEFINE First(k) == CHOOSE a \in DOMAIN ths :
                         ths[a].metric = k /\ \A b \in DOMAIN ths : ths[b].metric = k => a <= b
           more == [k \in {ths[a].metric : a \in DOMAIN ths} |-> InferredMetricKind(ths[First(k)].stat)]
<1>1. PreRegisterThresholdMetrics(types, ths) = Register(types, more)
  BY DEF PreRegisterThresholdMetrics
<1>2. ASSUME NEW k \in DOMAIN more PROVE more[k] \in MetricKinds
  <2>1. First(k) \in DOMAIN ths
    <3> DEFINE T == {a \in DOMAIN ths : ths[a].metric = k}
    <3>1. T \subseteq 1..Len(ths) /\ Len(ths) \in Nat /\ T # {} BY DEF IsList
    <3>2. PICK x \in T : \A y \in T : x <= y BY <3>1, LeastNumber
    <3> QED BY <3>2
  <2>2. ths[First(k)].stat \in validStats BY <2>1 DEF ThresholdReady
  <2>3. InferredMetricKind(ths[First(k)].stat) \in MetricKinds BY <2>2, StatImpliesKind
  <2> QED BY <2>3
<1> HIDE DEF more
<1> QED BY <1>1, <1>2 DEF Register

\* A store's cells have the kind that their name has.
StoreKinds(st) ==
  /\ \A n \in DOMAIN st.types : st.types[n] \in MetricKinds
  /\ \A c \in st.cells : HasType(st, c.name) /\ st.types[c.name] = c.kind

\* Reading the thresholds keeps the cells as they are.
LEMMA ResolveKeepsKinds == ASSUME ConfigurationInv, StoreKinds(store), Resolve PROVE StoreKinds(store')
<1> DEFINE cfg == Head(LoadConfig(file).config)
           s == cfg.scenarios[TargetScenario(cfg)]
           more == PreRegisterThresholdMetrics(store.types, s.thresholds)
<1>1. LoadConfig(file).err = "nil" /\ TargetScenario(cfg) \in DOMAIN cfg.scenarios
  BY DEF Resolve, ResolutionError
<1>2. spc = "resolve" /\ store' = [store EXCEPT !.types = more]
  BY DEF Resolve
<1>3. file \in Documents /\ DOMAIN store = {"types", "cells"} BY <1>2 DEF ConfigurationInv
<1>4. ScenarioReady(s) BY <1>1, <1>3, LoadedScenarioIsReady
<1> HIDE DEF cfg, s
<1>5. IsList(s.thresholds) /\ \A i \in DOMAIN s.thresholds : ThresholdReady(s.thresholds[i])
  BY <1>4 DEF ScenarioReady
<1>6. \A n \in DOMAIN store.types : store.types[n] \in MetricKinds BY DEF StoreKinds
<1>7. /\ DOMAIN store.types \subseteq DOMAIN more
      /\ \A n \in DOMAIN more : more[n] \in MetricKinds
      /\ \A n \in DOMAIN store.types : more[n] = store.types[n]
  BY <1>5, <1>6, PreRegisteredKinds
<1> HIDE DEF more
<1>8. store'.types = more /\ store'.cells = store.cells BY <1>2, <1>3
<1> QED BY <1>7, <1>8 DEF StoreKinds, HasType

\* What a run leaves in the store are cells whose name had their kind, or none before.
LEMMA ExecuteKeepsKinds == ASSUME StoreKinds(store), Execute PROVE StoreKinds(store')
<1>1. PICK cells \in Recordings :
        LET builtIn == Register(store.types, BuiltIns)
            kept  == {c \in cells : ~Collides(builtIn, c.name, c.kind)}
            named == [n \in {c.name : c \in kept} |-> (CHOOSE c \in kept : c.name = n).kind]
        IN  store' = [types |-> Register(builtIn, named), cells |-> kept]
  BY DEF Execute
<1> DEFINE builtIn == Register(store.types, BuiltIns)
           kept  == {c \in cells : ~Collides(builtIn, c.name, c.kind)}
           named == [n \in {c.name : c \in kept} |-> (CHOOSE c \in kept : c.name = n).kind]
<1>2. \A n \in DOMAIN builtIn : builtIn[n] \in MetricKinds BY DEF StoreKinds, Register, BuiltIns, MetricKinds
<1>3. /\ \A c \in cells : c.kind \in MetricKinds
      /\ \A c, d \in cells : c.name = d.name => c.kind = d.kind
  BY RecordingAssumption DEF MetricKinds
<1>4. ASSUME NEW c \in kept PROVE c.name \in DOMAIN named /\ named[c.name] = c.kind
  <2> DEFINE d == CHOOSE d \in kept : d.name = c.name
  <2>1. d \in kept /\ d.name = c.name OBVIOUS
  <2>2. named[c.name] = d.kind OBVIOUS
  <2>3. d \in cells /\ c \in cells BY <2>1
  <2> HIDE DEF d
  <2> QED BY <1>3, <2>1, <2>2, <2>3
<1>5. \A c \in kept : c \in cells /\ (c.name \in DOMAIN builtIn => builtIn[c.name] = c.kind)
  BY DEF Collides
<1>6. \A n \in DOMAIN named : \E c \in kept : c.name = n OBVIOUS
<1>7. store'.types = Register(builtIn, named) /\ store'.cells = kept BY <1>1
<1> HIDE DEF builtIn, kept, named
<1>8. \A n \in DOMAIN named : named[n] \in MetricKinds BY <1>3, <1>4, <1>5, <1>6
<1>9. \A n \in DOMAIN Register(builtIn, named) : Register(builtIn, named)[n] \in MetricKinds
  BY <1>2, <1>8 DEF Register
<1>10. \A c \in kept : c.name \in DOMAIN Register(builtIn, named) /\ Register(builtIn, named)[c.name] = c.kind
  BY <1>4, <1>5 DEF Register
<1> QED BY <1>7, <1>9, <1>10 DEF StoreKinds, HasType

\* The suite's own state.
SuiteSorts ==
  /\ spc \in {"main", "resolve", "execute", "strict", "sla", "report", "summary", "return",
              "done", "panic"}
  /\ logger \in {"none", "open", "closed"}
  /\ Len(scenario) <= 1 /\ Len(summary) <= 1 /\ Len(result) <= 1

\* It starts with the counters of checks and no cell.
LEMMA SuiteTypeInitially == SuiteInit => SuiteSorts /\ StoreKinds(store)
<1> SUFFICES ASSUME SuiteInit PROVE SuiteSorts /\ StoreKinds(store)
  OBVIOUS
<1>1. store = NewStore /\ spc = "main" /\ logger = "none" /\ scenario = <<>> /\ summary = <<>> /\ result = <<>>
  BY DEF SuiteInit, Nil
<1> QED BY <1>1 DEF SuiteSorts, StoreKinds, NewStore, MetricKinds

\* A step sets a result, a summary or a scenario, one of each.
LEMMA SuiteSortsInductive == SuiteSorts /\ [SuiteNext]_suiteVars => SuiteSorts'
<1> SUFFICES ASSUME SuiteSorts, [SuiteNext]_suiteVars PROVE SuiteSorts'
  OBVIOUS
<1>1. ASSUME NEW passed, NEW aborted, NEW err, Return(passed, aborted, err) PROVE spc' = "done" /\ Len(result') = 1
  BY <1>1 DEF Return
<1>2. CASE RegisterScenarios \/ RegisterScenarioLate \/ ExecuteWithArgs \/ EngineMetricCollides \/ UNCHANGED suiteVars
  BY <1>2 DEF SuiteSorts, RegisterScenarios, RegisterScenarioLate, ExecuteWithArgs, EngineMetricCollides, suiteVars, outputs
<1>3. CASE ShowVersion \/ ResolveFails \/ ReturnResult
  <2>1. spc' = "done" /\ Len(result') = 1 BY <1>1, <1>3 DEF ShowVersion, ResolveFails, ReturnResult
  <2>2. UNCHANGED <<logger, scenario, summary>> BY <1>3 DEF ShowVersion, ResolveFails, ReturnResult
  <2> QED BY <2>1, <2>2 DEF SuiteSorts
<1>4. CASE Resolve
  <2>1. spc' = "execute" /\ logger' = "open" /\ UNCHANGED <<summary, result>> BY <1>4 DEF Resolve, outputs
  <2>2. Len(scenario') = 1 BY <1>4 DEF Resolve
  <2> QED BY <2>1, <2>2 DEF SuiteSorts
<1>5. CASE Execute
  <2>1. logger' = "closed" /\ UNCHANGED <<scenario, summary>> BY <1>5 DEF Execute
  <2>2. \/ spc' = "strict" /\ UNCHANGED result
        \/ \E err : Return(FALSE, FALSE, err)
    BY <1>5 DEF Execute
  <2>3. spc' \in {"strict", "done"} /\ Len(result') <= 1
    <3>1. Len(result) <= 1 BY DEF SuiteSorts
    <3>2. CASE spc' = "strict" /\ UNCHANGED result BY <3>1, <3>2
    <3>3. CASE \E err : Return(FALSE, FALSE, err)
      <4>1. spc' = "done" /\ Len(result') = 1 BY <1>1, <3>3
      <4> QED BY <4>1
    <3> QED BY <2>2, <3>2, <3>3
  <2> QED BY <2>1, <2>3 DEF SuiteSorts
<1>6. CASE EvaluateStrictDiagnostics \/ EvaluateSLA \/ ReportExecution
  BY <1>6 DEF SuiteSorts, EvaluateStrictDiagnostics, EvaluateSLA, ReportExecution, outputs
<1>7. CASE HandleSummary
  <2>1. spc' = "return" /\ UNCHANGED <<logger, scenario, result>> BY <1>7 DEF HandleSummary
  <2>2. Len(summary') = 1 BY <1>7 DEF HandleSummary
  <2> QED BY <2>1, <2>2 DEF SuiteSorts
<1> QED BY <1>2, <1>3, <1>4, <1>5, <1>6, <1>7 DEF SuiteNext

\* Only reading the configuration and the run touch the store.
LEMMA StoreKindsInductive == SuiteInv /\ StoreKinds(store) /\ [SuiteNext]_suiteVars => StoreKinds(store)'
<1> SUFFICES ASSUME SuiteInv, StoreKinds(store), [SuiteNext]_suiteVars PROVE StoreKinds(store')
  OBVIOUS
<1>1. CASE Resolve BY <1>1, ResolveKeepsKinds DEF SuiteInv
<1>2. CASE Execute BY <1>2, ExecuteKeepsKinds
<1>3. CASE UNCHANGED store BY <1>3
<1>4. CASE RegisterScenarios \/ RegisterScenarioLate \/ ExecuteWithArgs \/ EngineMetricCollides \/ ShowVersion
           \/ ResolveFails \/ EvaluateStrictDiagnostics \/ EvaluateSLA \/ ReportExecution \/ HandleSummary
           \/ ReturnResult \/ UNCHANGED suiteVars
  BY <1>3, <1>4 DEF RegisterScenarios, RegisterScenarioLate, ExecuteWithArgs, EngineMetricCollides, ShowVersion, ResolveFails,
     EvaluateStrictDiagnostics, EvaluateSLA, ReportExecution, HandleSummary, ReturnResult, suiteVars
<1> QED BY <1>1, <1>2, <1>4 DEF SuiteNext

\* A metric in the store has one kind, one of the four, and its cells have it.
LEMMA SuiteTypeCorrect == SuiteSpec => []SuiteTypeOK
<1>1. SuiteInv /\ SuiteSorts /\ StoreKinds(store) /\ [SuiteNext]_suiteVars => SuiteSorts' /\ StoreKinds(store)'
  BY SuiteSortsInductive, StoreKindsInductive
<1>2. SuiteSorts /\ StoreKinds(store) => SuiteTypeOK BY DEF SuiteTypeOK, SuiteSorts, StoreKinds, MetricKinds
<1> QED BY <1>1, <1>2, SuiteTypeInitially, SuiteInvariant, PTL DEF SuiteSpec

-----------------------------------------------------------------------------
(* The watchdog keeps to its types.                                        *)

\* The lists of trackers, the clock and what the checker has read of it.
WatchSorts ==
  /\ clock \in 1..MaxNow /\ checkedAt \in 0..clock /\ ticked \in BOOLEAN
  /\ trackers \in Seq(Watched) /\ scan \in Seq(Watched)
  /\ startNano \in [Watched -> 0..MaxNow] /\ hung \subseteq Watched
  /\ wdpc \in {"select", "now", "lock", "active", "start", "swap", "count", "stopped"}
  /\ Scanning => scan # <<>>

\* Nobody is watched yet.
LEMMA WatchSortsInitially == WatchInit => WatchSorts
<1>1. MaxNow \in Nat \ {0} BY WatchdogAssumption DEF WatchdogAssumption
<1>2. 1 \in 1..MaxNow /\ 0 \in 0..MaxNow BY <1>1
<1>3. <<>> \in Seq(Watched) OBVIOUS
<1>4. ASSUME WatchInit
      PROVE  /\ clock = 1 /\ ticked = FALSE /\ trackers = <<>> /\ startNano = [v \in Watched |-> 0]
             /\ hung = {} /\ wdpc = "select" /\ checkedAt = 0 /\ scan = <<>>
  BY <1>4 DEF WatchInit
<1> QED BY <1>2, <1>3, <1>4 DEF WatchSorts, Scanning

\* A list stays one of trackers when one is taken off it.
LEMMA TrackerRemoved == ASSUME NEW s \in Seq(Watched), NEW v PROVE RemoveFirst(s, v) \in Seq(Watched)
<1>1. CASE \E i \in 1..Len(s) : s[i] = v
  <2> DEFINE k == SelectInSeq(s, LAMBDA t : t = v)
  <2>1. RemoveFirst(s, v) = SubSeq(s, 1, k - 1) \o SubSeq(s, k + 1, Len(s)) BY <1>1 DEF RemoveFirst, RemoveAt
  <2>2. k \in 1..Len(s)
    <3> DEFINE I == {i \in 1..Len(s) : s[i] = v}
    <3>1. k = Min(I) /\ I # {} BY <1>1 DEF SelectInSeq
    <3>2. \E i \in I : \A j \in I : i <= j
      <4>1. Len(s) \in Nat /\ I \subseteq 1..Len(s) /\ I # {} BY <3>1
      <4> HIDE DEF I
      <4> QED BY <4>1, LeastNumber
    <3>3. Min(I) \in I BY <3>2 DEF Min
    <3> QED BY <3>1, <3>3
  <2> HIDE DEF k
  <2>3. SubSeq(s, 1, k - 1) \in Seq(Watched) /\ SubSeq(s, k + 1, Len(s)) \in Seq(Watched) BY <2>2
  <2> QED BY <2>1, <2>3
<1>2. CASE ~\E i \in 1..Len(s) : s[i] = v BY <1>2 DEF RemoveFirst
<1> QED BY <1>1, <1>2

\* The checker's list shortens as it goes, and it holds the lock until it is empty.
LEMMA WatchSortsInductive == WatchSorts /\ [WatchNext]_watchVars => WatchSorts'
<1> SUFFICES ASSUME WatchSorts, [WatchNext]_watchVars PROVE WatchSorts'
  OBVIOUS
<1> DEFINE Steps0 == {"select", "now", "lock", "active", "start", "swap", "count", "stopped"}
<1>0. /\ MaxNow \in Nat \ {0} /\ clock \in 1..MaxNow /\ checkedAt \in 0..clock
      /\ trackers \in Seq(Watched) /\ scan \in Seq(Watched) /\ startNano \in [Watched -> 0..MaxNow]
      /\ wdpc \in Steps0
  BY WatchdogAssumption DEF WatchdogAssumption, WatchSorts
\* A virtual user
<1>1. ASSUME UNCHANGED <<checkerVars, clock, ticked>>, trackers' \in Seq(Watched),
             startNano' \in [Watched -> 0..MaxNow], hung' \subseteq Watched
      PROVE  WatchSorts'
  BY <1>1 DEF checkerVars, Scanning, WatchSorts
<1>2. ASSUME NEW v \in Watched,
             BeginStalled(v) \/ BeginActive(v) \/ End(v) \/ UnregisterActive(v)
      PROVE  WatchSorts'
  BY <1>1, <1>2 DEF BeginStalled, BeginActive, End, UnregisterActive, runVars, WatchSorts
<1>3. ASSUME NEW v \in Watched, BeginStart(v) PROVE WatchSorts'
  <2>1. startNano' = [startNano EXCEPT ![v] = clock] BY <1>3 DEF BeginStart, Set
  <2>2. clock \in 0..MaxNow BY <1>0
  <2>3. startNano' \in [Watched -> 0..MaxNow] BY <1>0, <2>1, <2>2
  <2> QED BY <1>1, <1>3, <2>3 DEF BeginStart, runVars, WatchSorts
<1>4. ASSUME NEW v \in Watched, RegisterVU(v) \/ UnregisterVU(v) PROVE WatchSorts'
  <2>1. trackers' = Append(trackers, v) \/ trackers' = RemoveFirst(trackers, v)
    BY <1>4 DEF RegisterVU, UnregisterVU
  <2>2. Append(trackers, v) \in Seq(Watched) BY <1>0
  <2>3. RemoveFirst(trackers, v) \in Seq(Watched) BY <1>0, TrackerRemoved
  <2> QED BY <1>1, <1>4, <2>1, <2>2, <2>3 DEF RegisterVU, UnregisterVU, runVars, trackerWords, WatchSorts
\* The clock and the ticker
<1>5. CASE ClockAdvances
  <2>1. clock' = clock + 1 /\ clock < MaxNow /\ UNCHANGED <<ticked, trackers, trackerWords, hung, checkerVars>>
    BY <1>5 DEF ClockAdvances
  <2>2. clock' \in 1..MaxNow /\ checkedAt \in 0..clock' BY <1>0, <2>1
  <2> QED BY <2>1, <2>2 DEF trackerWords, checkerVars, Scanning, WatchSorts
<1>6. CASE TickerFires
  BY <1>6 DEF TickerFires, trackerWords, checkerVars, Scanning, WatchSorts
\* The checker
<1>7. ASSUME UNCHANGED <<clock, trackers, startNano, hung>>, ticked' \in BOOLEAN, checkedAt' \in 0..clock,
             scan' \in Seq(Watched), wdpc' \in Steps0, wdpc' \in {"active", "start", "swap", "count"} => scan' # <<>>
      PROVE  WatchSorts'
  BY <1>7 DEF Scanning, WatchSorts
<1>8. CASE CheckStalledIterations
  <2>1. wdpc' = "now" /\ ticked' = FALSE /\ UNCHANGED <<clock, trackers, trackerWords, hung, checkedAt, scan>>
    BY <1>8 DEF CheckStalledIterations, Checker
  <2> QED BY <1>0, <1>7, <2>1 DEF trackerWords
<1>9. CASE ReadClock
  <2>1. wdpc' = "lock" /\ checkedAt' = clock /\ UNCHANGED <<clock, ticked, trackers, trackerWords, hung, scan>>
    BY <1>9 DEF ReadClock, Checker, runVars
  <2>2. ticked' \in BOOLEAN /\ checkedAt' \in 0..clock BY <1>0, <2>1 DEF WatchSorts
  <2> QED BY <1>0, <1>7, <2>1, <2>2 DEF trackerWords
<1>10. CASE LockAndScan
  <2>1. /\ wdpc' = IF trackers = <<>> THEN "select" ELSE "active"
        /\ scan' = trackers /\ UNCHANGED <<clock, ticked, trackers, trackerWords, hung, checkedAt>>
    BY <1>10 DEF LockAndScan, Checker, runVars
  <2>2. ticked' \in BOOLEAN /\ scan' \in Seq(Watched) BY <1>0, <2>1 DEF WatchSorts
  <2>3. wdpc' \in Steps0 /\ (wdpc' \in {"active", "start", "swap", "count"} => scan' # <<>>) BY <2>1
  <2> QED BY <1>0, <1>7, <2>1, <2>2, <2>3 DEF trackerWords
<1>11. ASSUME NextTracker, scan # <<>>
       PROVE  /\ scan' \in Seq(Watched) /\ wdpc' \in Steps0
              /\ wdpc' \in {"active", "start", "swap", "count"} => scan' # <<>>
  <2>1. scan' = Tail(scan) /\ wdpc' = IF Len(scan) = 1 THEN "select" ELSE "active" BY <1>11 DEF NextTracker
  <2>2. scan' \in Seq(Watched) /\ Len(scan') = Len(scan) - 1 BY <1>0, <1>11, <2>1
  <2>3. Len(scan) # 1 => scan' # <<>> BY <1>0, <1>11, <2>2
  <2> QED BY <2>1, <2>2, <2>3
<1>12. CASE LoadActive \/ LoadStart \/ SwapStalled \/ CountStalled
  <2>1. UNCHANGED <<clock, ticked, trackers, startNano, hung, checkedAt>>
    BY <1>12 DEF LoadActive, LoadStart, SwapStalled, CountStalled, runVars, trackerWords
  <2>2. NextTracker \/ (wdpc' \in {"start", "swap", "count"} /\ UNCHANGED scan)
    BY <1>12 DEF LoadActive, LoadStart, SwapStalled, CountStalled
  <2>3. scan # <<>> BY <1>12 DEF LoadActive, LoadStart, SwapStalled, CountStalled, Scanning, WatchSorts
  <2>4. ticked' \in BOOLEAN /\ checkedAt' \in 0..clock BY <2>1 DEF WatchSorts
  <2>5. CASE NextTracker BY <1>7, <1>11, <2>1, <2>3, <2>4, <2>5
  <2>6. CASE wdpc' \in {"start", "swap", "count"} /\ UNCHANGED scan BY <1>0, <1>7, <2>1, <2>3, <2>4, <2>6
  <2> QED BY <2>2, <2>5, <2>6
<1>13. CASE StopWatchdog
  <2>1. wdpc' = "stopped" /\ UNCHANGED <<clock, ticked, trackers, trackerWords, hung, checkedAt, scan>>
    BY <1>13 DEF StopWatchdog, Checker, runVars
  <2>2. ticked' \in BOOLEAN /\ checkedAt' \in 0..clock BY <2>1 DEF WatchSorts
  <2> QED BY <1>0, <1>7, <2>1, <2>2 DEF trackerWords
<1>14. CASE UNCHANGED watchVars BY <1>14 DEF watchVars, Scanning, WatchSorts
<1> QED BY <1>2, <1>3, <1>4, <1>5, <1>6, <1>8, <1>9, <1>10, <1>12, <1>13, <1>14 DEF WatchNext

\* The watchdog's types follow.
LEMMA WatchSortsSayIt == CountInv /\ WatchSorts => WatchTypeOK
BY DEF CountInv, CountTypes, WatchSorts, WatchTypeOK

-----------------------------------------------------------------------------
(* Parameters and checks.                                                  *)

\* What is accessed is declared, and a check is counted before it is cached.
LEMMA ServicesTypeInitially == ServicesInit => ServicesTypeOK
<1>0. MaxChecks \in Nat BY HookServicesAssumption
<1>1. 0 \in 0..MaxChecks BY <1>0
<1> QED BY <1>1 DEF ServicesInit, ServicesTypeOK

\* A check adds a name, or one to one of its two counters.
LEMMA ServicesTypeInductive == ServicesTypeOK /\ [ServicesNext]_serviceVars => ServicesTypeOK'
<1> SUFFICES ASSUME ServicesTypeOK, [ServicesNext]_serviceVars PROVE ServicesTypeOK'
  OBVIOUS
<1>1. ASSUME UNCHANGED <<checkCache, checks, checked>>, phase' \in {"setup", "run", "done"},
             accessed' \cup usedByVU' \subseteq Keys0
      PROVE  ServicesTypeOK'
  BY <1>1 DEF ServicesTypeOK
<1>2. CASE SetupReturns \/ Finish \/ ContextEnds \/ UNCHANGED serviceVars
  BY <1>1, <1>2 DEF SetupReturns, Finish, ContextEnds, serviceVars, ServicesTypeOK
<1>3. ASSUME NEW key \in Keys0, SetupParam(key) PROVE ServicesTypeOK'
  BY <1>1, <1>3 DEF SetupParam, ServicesTypeOK
<1>4. ASSUME NEW key, NEW as, Param(key, as) PROVE ServicesTypeOK'
  BY <1>1, <1>4 DEF Param, ServicesTypeOK
<1>5. ASSUME NEW positive, Sleep(positive) PROVE ServicesTypeOK'
  BY <1>1, <1>5 DEF Sleep, ServicesTypeOK
<1>6. ASSUME NEW v \in ServedVUs, NEW name \in CheckNames, NEW passed \in BOOLEAN, RecordCheck(v, name, passed)
      PROVE  ServicesTypeOK'
  <2> DEFINE Pairs == [{"passed", "failed"} -> Nat]
             pair == IF name \in DOMAIN checks THEN checks[name] ELSE [passed |-> 0, failed |-> 0]
             more == IF passed THEN [pair EXCEPT !.passed = @ + 1] ELSE [pair EXCEPT !.failed = @ + 1]
  <2>1. pair \in Pairs BY DEF ServicesTypeOK
  <2>2. more \in Pairs
    <3> HIDE DEF pair
    <3> QED BY <2>1
  <2>3. checks' = [n \in DOMAIN checks \cup {name} |-> IF n # name THEN checks[n] ELSE more]
    BY <1>6 DEF RecordCheck
  <2>4. /\ checked[v] < MaxChecks /\ checked' = [checked EXCEPT ![v] = @ + 1]
        /\ checkCache' = [checkCache EXCEPT ![v] = @ \cup {name}]
        /\ UNCHANGED <<phase, accessed, usedByVU>>
    BY <1>6 DEF RecordCheck
  <2> HIDE DEF more
  <2>5. \A n \in DOMAIN checks' : checks'[n] \in Pairs BY <2>2, <2>3 DEF ServicesTypeOK
  <2>6. checked' \in [ServedVUs -> 0..MaxChecks]
    <3>1. checked \in [ServedVUs -> 0..MaxChecks] /\ MaxChecks \in Nat
      BY HookServicesAssumption DEF HookServicesAssumption, ServicesTypeOK
    <3>2. checked[v] + 1 \in 0..MaxChecks BY <2>4, <3>1
    <3> QED BY <2>4, <3>1, <3>2
  <2>7. /\ checkCache' \in [ServedVUs -> SUBSET CheckNames]
        /\ \A w \in ServedVUs : checkCache'[w] \subseteq DOMAIN checks'
    BY <2>3, <2>4 DEF ServicesTypeOK
  <2> QED BY <2>4, <2>5, <2>6, <2>7 DEF ServicesTypeOK
<1> QED BY <1>2, <1>3, <1>4, <1>5, <1>6 DEF ServicesNext

\* A virtual user keeps counters that exist, of checks by their names.
LEMMA ServicesTypeCorrect == ServicesSpec => []ServicesTypeOK
BY ServicesTypeInitially, ServicesTypeInductive, PTL DEF ServicesSpec

-----------------------------------------------------------------------------
(* The library: the specification of each service, and what they promise   *)
(* together.                                                               *)

\* One part moves, and the others do not.
LEMMA OnePartMoves ==
  LibraryNext =>
    \/ SuiteNext /\ SuiteAlone
    \/ StoreNext /\ StoreAlone
    \/ SnapNext /\ SnapAlone
    \/ DataNext /\ DataAlone
    \/ WatchNext /\ WatchAlone
    \/ StreamNext /\ StreamAlone
    \/ HTTPNext /\ HTTPAlone
    \/ ContextNext /\ ContextAlone
    \/ ServicesNext /\ ServicesAlone
    \/ KafkaNext /\ KafkaAlone
    \/ NATSNext /\ NATSAlone
    \/ ConversationNext /\ TalkAlone
BY DEF LibraryNext, SuiteNext, StoreNext, SnapNext, DataNext, WatchNext, StreamNext, HTTPNext, ContextNext, ServicesNext,
       KafkaNext, NATSNext, ConversationNext

\* To each part a step of the library is a step of its own, or none.
LEMMA PartsMove ==
  [LibraryNext]_libraryVars =>
    /\ [SuiteNext]_suiteVars
    /\ [StoreNext]_storeVars
    /\ [SnapNext]_snapVars
    /\ [DataNext]_dataVars
    /\ [WatchNext]_watchVars
    /\ [StreamNext]_sseVars
    /\ [HTTPNext]_httpVars
    /\ [ContextNext]_contextVars
    /\ [ServicesNext]_serviceVars
    /\ [KafkaNext]_kafkaVars
    /\ [NATSNext]_natsVars
    /\ [ConversationNext]_convVars
BY OnePartMoves
   DEF libraryVars, SuiteAlone, StoreAlone, SnapAlone, DataAlone, WatchAlone, StreamAlone, HTTPAlone, ContextAlone,
       ServicesAlone, KafkaAlone, NATSAlone, TalkAlone

\* Each part starts as it does alone, and so it does at rest; but for the
\* watchdog, whose checker has stopped when it is at rest.
LEMMA PartsStart ==
  LibraryInit =>
    /\ SuiteInit /\ StoreInit /\ SnapInit /\ DataInit
    /\ StreamInit /\ HTTPInit /\ ContextInit /\ ServicesInit
    /\ KafkaInit /\ NATSInit /\ ConversationInit
    /\ WatchInit \/ WatchRests
BY DEF LibraryInit, SuiteStarts, SuiteRests, StoreRests, SnapRests, DataRests, StreamRests, HTTPRests, ContextRests,
       ServicesRest, KafkaRests, NATSRests, TalkRests

\* Taken alone, each part of the library behaves as its own specification says.
THEOREM LibraryRunsItsParts ==
  LibrarySpec => /\ SuiteSpec /\ StoreSpec /\ SnapSpec /\ DataSpec /\ StreamSpec /\ HTTPSpec
                 /\ ContextSpec /\ ServicesSpec /\ KafkaSpec /\ NATSSpec /\ ConversationSpec
<1>1. LibrarySpec => LibraryInit /\ [][LibraryNext]_libraryVars /\ StreamFairness /\ ConversationFairness
  BY DEF LibrarySpec, LibraryFairness
<1> QED BY <1>1, PartsStart, PartsMove, PTL
        DEF SuiteSpec, StoreSpec, SnapSpec, DataSpec, StreamSpec, HTTPSpec, ContextSpec, ServicesSpec, KafkaSpec,
            NATSSpec, ConversationSpec

\* The watchdog at rest owes nothing.
LEMMA CountAtRest == WatchRests => CountInv
BY DEF WatchRests, CountInv, CountTypes, CountOf, Resets, LooksAt, Owed

\* Every client counts a call once and as its caller saw it end, whoever else
\* uses the client meanwhile, and the watchdog a stalled iteration once.
THEOREM CallsAreCountedOnceHolds == LibrarySpec => []CallsAreCountedOnce
<1>1. LibrarySpec => []StalledAtMostOncePerIteration
  <2>1. LibraryInit => CountInv BY PartsStart, CountInitially, CountAtRest
  <2>2. CountInv /\ [LibraryNext]_libraryVars => CountInv' BY PartsMove, CountStep
  <2> QED BY <2>1, <2>2, CountSaysSo, PTL DEF LibrarySpec
<1> QED BY <1>1, LibraryRunsItsParts, RequestsAreCountedOnceHolds, DefaultClientIsSharedHolds,
           StreamCountsWhatHappenedHolds, KafkaCallsAreCountedHolds, NATSCallsAreCountedHolds,
           ConversationIsCountedHolds, PTL DEF CallsAreCountedOnce

\* The part that runs is one of the twelve, and stays the one.
Parts == {"suite", "store", "snapshot", "data", "watchdog", "stream", "http", "context",
          "services", "kafka", "nats", "conversation"}

\* No step changes the part that runs.
LEMMA PartStays == part \in Parts /\ [LibraryNext]_libraryVars => part' = part
BY OnePartMoves
   DEF libraryVars, SuiteAlone, StoreAlone, SnapAlone, DataAlone, WatchAlone, StreamAlone, HTTPAlone, ContextAlone,
       ServicesAlone, KafkaAlone, NATSAlone, TalkAlone

\* Each part of the library keeps its types, whatever the others' values are.
THEOREM LibraryTypeCorrect == LibrarySpec => []LibraryTypeOK
<1>1. LibrarySpec => [](part \in Parts)
  <2>1. LibraryInit => part \in Parts BY DEF LibraryInit, Parts
  <2>2. part \in Parts /\ [LibraryNext]_libraryVars => (part \in Parts)' BY PartStays
  <2> QED BY <2>1, <2>2, PTL DEF LibrarySpec
<1>2. LibrarySpec => [](part = "watchdog" => WatchTypeOK)
  <2> DEFINE Inv == CountInv /\ part \in Parts /\ (part = "watchdog" => WatchSorts)
  <2>1. LibraryInit => Inv
    <3>1. LibraryInit => CountInv BY PartsStart, CountInitially, CountAtRest
    <3>2. LibraryInit => part \in Parts BY DEF LibraryInit, Parts
    <3>3. LibraryInit /\ part = "watchdog" => WatchSorts
      <4>1. LibraryInit /\ part = "watchdog" => WatchInit BY DEF LibraryInit
      <4> QED BY <4>1, WatchSortsInitially
    <3> QED BY <3>1, <3>2, <3>3
  <2>2. Inv /\ [LibraryNext]_libraryVars => Inv'
    BY PartsMove, PartStays, CountStep, WatchSortsInductive
  <2>3. Inv => (part = "watchdog" => WatchTypeOK) BY WatchSortsSayIt
  <2> HIDE DEF Inv
  <2> QED BY <2>1, <2>2, <2>3, PTL DEF LibrarySpec
<1>3. /\ part \in Parts /\ (part = "watchdog" => WatchTypeOK)
      /\ SuiteTypeOK /\ StoreTypeOK /\ SnapTypeOK /\ DataTypeOK /\ StreamTypeOK /\ HTTPTypeOK
      /\ ContextTypeOK /\ ServicesTypeOK /\ KafkaTypeOK /\ NATSTypeOK /\ ConversationTypeOK
      => LibraryTypeOK
  BY DEF LibraryTypeOK, Parts
<1> QED BY <1>1, <1>2, <1>3, LibraryRunsItsParts, SuiteTypeCorrect, StoreTypeCorrect, SnapTypeCorrect, DataTypeCorrect,
           StreamTypeCorrect, HTTPTypeCorrect, ContextTypeCorrect, ServicesTypeCorrect, KafkaTypeCorrect, NATSTypeCorrect,
           ConversationTypeCorrect, PTL

\* Every safety invariant of a part holds in the library that runs it beside the
\* others, and its metrics are one map.
THEOREM LibrarySafety ==
  LibrarySpec => /\ [](/\ ValidatedScenarioRuns /\ VerdictsAgree /\ SnapshotsShowWhatWasObserved
                       /\ RecordsAreDealtOnce /\ GroupsRunInTheirIteration
                       /\ PolledRecordsReachOneReader /\ CallsAreCountedOnce)
                 /\ ImplementsMetricMap
<1> QED BY LibraryRunsItsParts, ValidatedScenarioRunsHolds, VerdictsAgreeHolds, RecordsAreDealtOnceHolds,
           SnapshotsShowWhatWasObservedHolds, StorageImplementsMetricMap,
           GroupsRunInTheirIterationHolds, PolledRecordsReachOneReaderHolds, CallsAreCountedOnceHolds, PTL
=============================================================================
