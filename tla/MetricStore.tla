------------------------------ MODULE MetricStore ------------------------------
(***************************************************************************)
(* Recording metrics from many virtual users (internal/metric): one        *)
(* copy-on-write map per kind, read without a lock and replaced under a    *)
(* mutex (syncStorage), the registry that keeps one kind per name, itself  *)
(* copy-on-write, and the cells with their atomic words.  A step is one    *)
(* access another goroutine can interleave with; what happens between      *)
(* taking and releasing a mutex without reading shared words outside it is *)
(* one step.                                                               *)
(***************************************************************************)
EXTENDS Integers, FiniteSets

CONSTANTS
  Recorders,     \* goroutines that record: virtual users
  MetricNames,
  Kinds,         \* the storages that are modelled: "counter", "rate"
  MaxRecords     \* bound: observations per recorder

ASSUME MetricStoreAssumption ==
  /\ IsFiniteSet(Recorders) /\ "nobody" \notin Recorders
  /\ Kinds \subseteq {"counter", "rate"}
  /\ MaxRecords \in Nat

MetricKeys == [name : MetricNames, kind : Kinds]
CellWords == {"num", "den"}
Nobody == "nobody"

VARIABLES
  readMap,     \* the published map of each kind: name |-> cell
  writeMu,     \* the holder of each kind's mutex
  registry,    \* the published map of the registry: name |-> kind
  words,       \* the cells, in order of their creation: their two words
  rpc,         \* where each recorder stands
  using,       \* the key it records under
  handle,      \* the cell it got, or none (0)
  recorded     \* bound: what it has recorded so far

storeVars == <<readMap, writeMu, registry, words, rpc, using, handle, recorded>>

StoreInit ==
  /\ readMap = [k \in Kinds |-> <<>>]
  /\ writeMu = [k \in Kinds |-> Nobody]
  /\ registry = <<>>
  /\ words = <<>>
  /\ rpc = [r \in Recorders |-> "idle"]
  /\ using \in [Recorders -> MetricKeys]
  /\ handle = [r \in Recorders |-> 0]
  /\ recorded = [r \in Recorders |-> 0]

Published(k) == k.name \in DOMAIN readMap[k.kind]
Put(f, x, y) == [z \in DOMAIN f \cup {x} |-> IF z = x THEN y ELSE f[z]]
Step(r, from, to) == rpc[r] = from /\ rpc' = [rpc EXCEPT ![r] = to]

\* GetOrCreate's first look, without the lock.
Look(r) ==
  /\ recorded[r] < MaxRecords
  /\ IF Published(using[r])
     THEN /\ Step(r, "idle", "add")
          /\ handle' = [handle EXCEPT ![r] = readMap[using[r].kind][using[r].name]]
     ELSE Step(r, "idle", "lock") /\ UNCHANGED handle
  /\ UNCHANGED <<readMap, writeMu, registry, words, using, recorded>>

\* Mutation: the mutex is taken and the map is not read again.
LookOnce(r) ==
  LET kind == using[r].kind
  IN  /\ writeMu[kind] = Nobody
      /\ Step(r, "lock", "register")
      /\ writeMu' = [writeMu EXCEPT ![kind] = r]
      /\ UNCHANGED <<readMap, registry, words, using, handle, recorded>>

\* The mutex is taken and the map read again.
LookAgain(r) ==
  LET kind == using[r].kind
  IN  /\ writeMu[kind] = Nobody
      /\ IF Published(using[r])
         THEN /\ Step(r, "lock", "add")
              /\ handle' = [handle EXCEPT ![r] = readMap[kind][using[r].name]]
              /\ UNCHANGED writeMu
         ELSE /\ Step(r, "lock", "register")
              /\ writeMu' = [writeMu EXCEPT ![kind] = r]
              /\ UNCHANGED handle
      /\ UNCHANGED <<readMap, registry, words, using, recorded>>

\* beforeCreate registers the name: known with this kind, known with another
\* (MustRegister panics and the deferred unlock runs), or not known.
MustRegister(r) ==
  LET k == using[r]
  IN  /\ CASE k.name \notin DOMAIN registry ->
                 Step(r, "register", "register locked") /\ UNCHANGED writeMu
           [] k.name \in DOMAIN registry /\ registry[k.name] = k.kind ->
                 Step(r, "register", "create") /\ UNCHANGED writeMu
           [] OTHER -> Step(r, "register", "panic")
                         /\ writeMu' = [writeMu EXCEPT ![k.kind] = Nobody]
      /\ UNCHANGED <<readMap, registry, words, using, handle, recorded>>

\* Register's second look and its update, under the registry's mutex.
RegisterLocked(r) ==
  LET k == using[r]
  IN  /\ IF k.name \notin DOMAIN registry
         THEN /\ registry' = Put(registry, k.name, k.kind)
              /\ Step(r, "register locked", "create") /\ UNCHANGED writeMu
         ELSE /\ UNCHANGED registry
              /\ IF registry[k.name] = k.kind
                 THEN Step(r, "register locked", "create") /\ UNCHANGED writeMu
                 ELSE Step(r, "register locked", "panic")
                        /\ writeMu' = [writeMu EXCEPT ![k.kind] = Nobody]
      /\ UNCHANGED <<readMap, words, using, handle, recorded>>

\* The factory's cell goes into a copy of the map, which is published; unlock.
Create(r) ==
  LET k == using[r]
      new == Cardinality(DOMAIN words) + 1
  IN  /\ Step(r, "create", "add")
      /\ words' = Put(words, new, [w \in CellWords |-> 0])
      /\ readMap' = [readMap EXCEPT ![k.kind] = Put(@, k.name, new)]
      /\ handle' = [handle EXCEPT ![r] = new]
      /\ writeMu' = [writeMu EXCEPT ![k.kind] = Nobody]
      /\ UNCHANGED <<registry, using, recorded>>

\* Counter.Inc is one atomic add; Rate.Add is two, the numerator's first.
AddFirst(r) ==
  /\ IF using[r].kind = "rate" THEN Step(r, "add", "add den") /\ UNCHANGED recorded
     ELSE Step(r, "add", "idle") /\ recorded' = [recorded EXCEPT ![r] = @ + 1]
  /\ words' = [words EXCEPT ![handle[r]]["num"] = @ + 1]
  /\ UNCHANGED <<readMap, writeMu, registry, using, handle>>

AddDenominator(r) ==
  /\ Step(r, "add den", "idle")
  /\ words' = [words EXCEPT ![handle[r]]["den"] = @ + 1]
  /\ recorded' = [recorded EXCEPT ![r] = @ + 1]
  /\ UNCHANGED <<readMap, writeMu, registry, using, handle>>

StoreNext ==
  \E r \in Recorders :
    \/ Look(r) \/ LookAgain(r) \/ MustRegister(r) \/ RegisterLocked(r)
    \/ Create(r) \/ AddFirst(r) \/ AddDenominator(r)

StoreSpec == StoreInit /\ [][StoreNext]_storeVars

-----------------------------------------------------------------------------
(* Properties. *)

StoreTypeOK ==
  /\ writeMu \in [Kinds -> Recorders \cup {Nobody}]
  /\ \A n \in DOMAIN registry : n \in MetricNames /\ registry[n] \in Kinds
  /\ \A c \in DOMAIN words : words[c] \in [CellWords -> Nat]
  /\ using \in [Recorders -> MetricKeys]
  /\ \A r \in Recorders :
       /\ rpc[r] \in {"idle", "lock", "register", "register locked", "create", "add",
                      "add den", "panic"}
       /\ rpc[r] \in {"add", "add den"} => handle[r] \in DOMAIN words
  /\ recorded \in [Recorders -> 0..MaxRecords]

\* What a reader finds under a key: its published cell (ForEach).
Found(k) == IF Published(k) THEN words[readMap[k.kind][k.name]] ELSE [w \in CellWords |-> 0]

Map == INSTANCE MetricMap
         WITH Keys <- MetricKeys, Words <- CellWords,
              kindOf <- registry, total <- [k \in MetricKeys |-> Found(k)]

\* However the recorders race to create a metric, they share one cell under one
\* kind: what a reader finds grows by exactly what is recorded, nothing is
\* recorded into a cell that is not published, and no name has two kinds.
ImplementsMetricMap == Map!MapSpec

\* The same as an invariant: whoever records does so into the published cell of
\* a key whose name is registered under its kind.
RecordersShareTheCell ==
  \A r \in Recorders :
    rpc[r] \in {"add", "add den"} =>
      /\ Published(using[r]) /\ handle[r] = readMap[using[r].kind][using[r].name]
      /\ using[r].name \in DOMAIN registry /\ registry[using[r].name] = using[r].kind
=============================================================================
