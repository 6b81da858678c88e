--------------------------- MODULE MetricStore_proofs ---------------------------
(***************************************************************************)
(* Metrics, for any number of virtual users, names and observations.  The  *)
(* copy-on-write storage implements one map; and a metric that is read     *)
(* while virtual users record shows no more than was observed, and no less *)
(* than was there when the read began.                                     *)
(***************************************************************************)
EXTENDS MetricStore, MetricSnapshot, FiniteSetTheorems, TLAPS

-----------------------------------------------------------------------------
(* The storage. *)

Standings == {"idle", "lock", "register", "register locked", "create", "add", "add den", "panic"}

\* The types the proof needs; the cells are numbered without a gap.
StoreTypes ==
  /\ using \in [Recorders -> MetricKeys]
  /\ rpc \in [Recorders -> Standings]
  /\ handle \in [Recorders -> Nat]
  /\ writeMu \in [Kinds -> Recorders \cup {Nobody}]
  /\ DOMAIN readMap = Kinds
  /\ \E n \in Nat : DOMAIN words = 1..n

\* A published cell exists, has one key, and its name has the key's kind.
CellsOfKeys ==
  \A k \in MetricKeys : Published(k) =>
    /\ readMap[k.kind][k.name] \in DOMAIN words
    /\ k.name \in DOMAIN registry /\ registry[k.name] = k.kind
    /\ \A m \in MetricKeys :
         Published(m) /\ readMap[m.kind][m.name] = readMap[k.kind][k.name] => m = k

\* Whoever creates a metric holds its kind's mutex and has not published it yet;
\* at the creation its name is registered.
Creating == {"register", "register locked", "create"}
Creators ==
  \A r \in Recorders :
    /\ rpc[r] \in Creating => writeMu[using[r].kind] = r /\ ~Published(using[r])
    /\ rpc[r] = "create" =>
         using[r].name \in DOMAIN registry /\ registry[using[r].name] = using[r].kind

StoreInv == StoreTypes /\ CellsOfKeys /\ Creators /\ RecordersShareTheCell

\* Before anything is recorded nothing is published.
LEMMA StoreInitially == StoreInit => StoreInv
<1> SUFFICES ASSUME StoreInit PROVE StoreInv OBVIOUS
<1>1. \A k \in MetricKeys : ~Published(k) BY DEF StoreInit, Published, MetricKeys
<1>2. DOMAIN words = 1..0 BY DEF StoreInit
<1>3. StoreTypes BY <1>2 DEF StoreInit, StoreTypes, Standings
<1>4. CellsOfKeys BY <1>1 DEF CellsOfKeys
<1>5. Creators /\ RecordersShareTheCell BY DEF StoreInit, Creators, Creating, RecordersShareTheCell
<1> QED BY <1>3, <1>4, <1>5 DEF StoreInv

\* A recorder that moves leaves the others where they are.
MovesTo(r, to) ==
  /\ rpc'[r] = to /\ rpc' \in [Recorders -> Standings]
  /\ \A s \in Recorders \ {r} : rpc'[s] = rpc[s]

\* What a step from one place to another does.
LEMMA Moves ==
  ASSUME StoreTypes, NEW r \in Recorders, NEW from, NEW to \in Standings, Step(r, from, to)
  PROVE  rpc[r] = from /\ MovesTo(r, to)
BY DEF StoreTypes, Step, MovesTo

\* What is published, and under which names, is only read.
LEMMA CellsStay ==
  ASSUME CellsOfKeys, UNCHANGED <<readMap, registry>>, DOMAIN words' = DOMAIN words
  PROVE  CellsOfKeys'
BY DEF CellsOfKeys, Published

\* Both looks give a recorder the published cell.
LEMMA FoundKeeps ==
  ASSUME StoreInv, NEW r \in Recorders, Published(using[r]), MovesTo(r, "add"),
         handle' = [handle EXCEPT ![r] = readMap[using[r].kind][using[r].name]],
         UNCHANGED <<readMap, writeMu, registry, words, using>>
  PROVE  StoreInv'
<1> USE DEF StoreInv
<1>1. using[r] \in MetricKeys BY DEF StoreTypes
<1>2. PICK n \in Nat : DOMAIN words = 1..n BY DEF StoreTypes
<1>3. readMap[using[r].kind][using[r].name] \in Nat BY <1>1, <1>2 DEF CellsOfKeys
<1>4. StoreTypes' BY <1>3 DEF StoreTypes, MovesTo
<1>5. CellsOfKeys' BY CellsStay
<1>6. Creators' BY DEF Creators, Creating, Published, MovesTo
<1>7. RecordersShareTheCell'
  BY <1>1 DEF RecordersShareTheCell, CellsOfKeys, Published, StoreTypes, MovesTo
<1> QED BY <1>4, <1>5, <1>6, <1>7

\* A recorder that goes on without the mutex and without a cell.
LEMMA WithoutCellKeeps ==
  ASSUME StoreInv, NEW r \in Recorders, NEW to \in {"idle", "lock", "panic"}, MovesTo(r, to),
         UNCHANGED <<readMap, writeMu, registry, using, handle>>, DOMAIN words' = DOMAIN words
  PROVE  StoreInv'
<1> USE DEF StoreInv
<1>1. StoreTypes' BY DEF StoreTypes, MovesTo
<1>2. CellsOfKeys' BY CellsStay
<1>3. Creators' BY DEF Creators, Creating, Published, MovesTo
<1>4. RecordersShareTheCell' BY DEF RecordersShareTheCell, Published, MovesTo
<1> QED BY <1>1, <1>2, <1>3, <1>4

\* A recorder that holds the mutex gives it up, and panics.
LEMMA PanicKeeps ==
  ASSUME StoreInv, NEW r \in Recorders, rpc[r] \in Creating, MovesTo(r, "panic"),
         writeMu' = [writeMu EXCEPT ![using[r].kind] = Nobody],
         UNCHANGED <<readMap, registry, words, using, handle>>
  PROVE  StoreInv'
<1> USE DEF StoreInv
<1>1. using[r] \in MetricKeys /\ using[r].kind \in Kinds BY DEF StoreTypes, MetricKeys
<1>2. StoreTypes' BY DEF StoreTypes, MovesTo
<1>3. CellsOfKeys' BY CellsStay
<1>4. Creators'
  <2> SUFFICES ASSUME NEW s \in Recorders, rpc'[s] \in Creating
               PROVE  /\ writeMu'[using[s].kind] = s /\ ~Published(using[s])
                      /\ rpc'[s] = "create" =>
                           using[s].name \in DOMAIN registry /\ registry[using[s].name] = using[s].kind
    BY DEF Creators, Creating, Published
  <2>1. s # r /\ rpc[s] = rpc'[s] BY DEF MovesTo, Creating
  <2>2. writeMu[using[s].kind] = s /\ writeMu[using[r].kind] = r BY <2>1 DEF Creators
  <2> QED BY <2>1, <2>2, <1>1 DEF Creators, StoreTypes
<1>5. RecordersShareTheCell' BY DEF RecordersShareTheCell, Published, MovesTo
<1> QED BY <1>2, <1>3, <1>4, <1>5

\* The first look, without the mutex.
LEMMA LookKeeps == ASSUME StoreInv, NEW r \in Recorders, Look(r) PROVE StoreInv'
<1>0. StoreTypes BY DEF StoreInv
<1>1. CASE Published(using[r])
  <2>1. MovesTo(r, "add") BY <1>0, <1>1, Moves DEF Look, Standings
  <2> QED BY <1>1, <2>1, FoundKeeps DEF Look
<1>2. CASE ~Published(using[r])
  <2>1. MovesTo(r, "lock") BY <1>0, <1>2, Moves DEF Look, Standings
  <2> QED BY <1>2, <2>1, WithoutCellKeeps DEF Look
<1> QED BY <1>1, <1>2

\* The second look, under the mutex: nobody else creates in this kind.
LEMMA LookAgainKeeps == ASSUME StoreInv, NEW r \in Recorders, LookAgain(r) PROVE StoreInv'
<1>0. StoreTypes BY DEF StoreInv
<1>1. CASE Published(using[r])
  <2>1. MovesTo(r, "add") BY <1>0, <1>1, Moves DEF LookAgain, Standings
  <2> QED BY <1>1, <2>1, FoundKeeps DEF LookAgain
<1>2. CASE ~Published(using[r])
  <2> USE DEF StoreInv
  <2>1. /\ Step(r, "lock", "register")
        /\ writeMu' = [writeMu EXCEPT ![using[r].kind] = r] /\ writeMu[using[r].kind] = Nobody
        /\ UNCHANGED <<readMap, registry, words, using, handle>>
    BY <1>2 DEF LookAgain
  <2>2. MovesTo(r, "register") BY <1>0, <2>1, Moves DEF Standings
  <2>3. using[r] \in MetricKeys /\ using[r].kind \in Kinds BY <1>0 DEF StoreTypes, MetricKeys
  <2>4. StoreTypes' BY <2>1, <2>2, <2>3 DEF StoreTypes, MovesTo
  <2>5. CellsOfKeys' BY <2>1, CellsStay
  <2>6. Creators'
    <3>1. \A s \in Recorders : s # Nobody BY MetricStoreAssumption DEF MetricStoreAssumption, Nobody
    <3>2. \A s \in Recorders \ {r} :
            rpc[s] \in Creating => writeMu'[using[s].kind] = s
      BY <1>0, <2>1, <2>3, <3>1 DEF Creators, StoreTypes
    <3>3. writeMu'[using[r].kind] = r BY <1>0, <2>1, <2>3 DEF StoreTypes
    <3> QED BY <1>2, <2>1, <2>2, <3>2, <3>3 DEF Creators, Creating, Published, MovesTo
  <2>7. RecordersShareTheCell' BY <2>1, <2>2 DEF RecordersShareTheCell, Published, MovesTo
  <2> QED BY <2>4, <2>5, <2>6, <2>7
<1> QED BY <1>1, <1>2

\* A name that is registered stays so, with its kind.
RegistryGrows ==
  \A n \in DOMAIN registry : n \in DOMAIN registry' /\ registry'[n] = registry[n]

\* A recorder that holds the mutex goes on.
LEMMA CreatingKeeps ==
  ASSUME StoreInv, NEW r \in Recorders, rpc[r] \in Creating,
         NEW to \in Creating, MovesTo(r, to), RegistryGrows,
         to = "create" =>
           using[r].name \in DOMAIN registry' /\ registry'[using[r].name] = using[r].kind,
         UNCHANGED <<readMap, writeMu, words, using, handle>>
  PROVE  StoreInv'
<1> USE DEF StoreInv
<1>1. StoreTypes' BY DEF StoreTypes, MovesTo
<1>2. CellsOfKeys' BY DEF CellsOfKeys, Published, RegistryGrows
<1>3. Creators' BY DEF Creators, Creating, Published, MovesTo, RegistryGrows
<1>4. RecordersShareTheCell'
  BY DEF RecordersShareTheCell, Published, MovesTo, RegistryGrows, Creating
<1> QED BY <1>1, <1>2, <1>3, <1>4

\* Register's look without its own mutex.
LEMMA MustRegisterKeeps == ASSUME StoreInv, NEW r \in Recorders, MustRegister(r) PROVE StoreInv'
<1>0. StoreTypes BY DEF StoreInv
<1>1. UNCHANGED <<readMap, registry, words, using, handle>> /\ RegistryGrows
  BY DEF MustRegister, RegistryGrows
<1>2. CASE using[r].name \notin DOMAIN registry
  <2>1. Step(r, "register", "register locked") /\ UNCHANGED writeMu BY <1>2 DEF MustRegister
  <2>2. rpc[r] = "register" /\ MovesTo(r, "register locked") BY <1>0, <2>1, Moves DEF Standings
  <2> QED BY <1>1, <2>1, <2>2, CreatingKeeps DEF Creating
<1>3. CASE using[r].name \in DOMAIN registry /\ registry[using[r].name] = using[r].kind
  <2>1. Step(r, "register", "create") /\ UNCHANGED writeMu BY <1>3 DEF MustRegister
  <2>2. rpc[r] = "register" /\ MovesTo(r, "create") BY <1>0, <2>1, Moves DEF Standings
  <2> QED BY <1>1, <1>3, <2>1, <2>2, CreatingKeeps DEF Creating
<1>4. CASE using[r].name \in DOMAIN registry /\ registry[using[r].name] # using[r].kind
  <2>1. /\ Step(r, "register", "panic")
        /\ writeMu' = [writeMu EXCEPT ![using[r].kind] = Nobody]
    BY <1>4 DEF MustRegister
  <2>2. rpc[r] = "register" /\ MovesTo(r, "panic") BY <1>0, <2>1, Moves DEF Standings
  <2> QED BY <1>1, <2>1, <2>2, PanicKeeps DEF Creating
<1> QED BY <1>2, <1>3, <1>4

\* Register under its mutex: the name is new, or has the kind, or another one.
LEMMA RegisterLockedKeeps == ASSUME StoreInv, NEW r \in Recorders, RegisterLocked(r) PROVE StoreInv'
<1>0. StoreTypes BY DEF StoreInv
<1>1. UNCHANGED <<readMap, words, using, handle>> BY DEF RegisterLocked
<1>2. CASE using[r].name \notin DOMAIN registry
  <2>1. /\ registry' = Put(registry, using[r].name, using[r].kind)
        /\ Step(r, "register locked", "create") /\ UNCHANGED writeMu
    BY <1>2 DEF RegisterLocked
  <2>2. rpc[r] = "register locked" /\ MovesTo(r, "create") BY <1>0, <2>1, Moves DEF Standings
  <2>3. RegistryGrows /\ using[r].name \in DOMAIN registry' /\ registry'[using[r].name] = using[r].kind
    BY <1>2, <2>1 DEF Put, RegistryGrows
  <2> QED BY <1>1, <2>1, <2>2, <2>3, CreatingKeeps DEF Creating
<1>3. CASE using[r].name \in DOMAIN registry /\ registry[using[r].name] = using[r].kind
  <2>1. Step(r, "register locked", "create") /\ UNCHANGED <<writeMu, registry>>
    BY <1>3 DEF RegisterLocked
  <2>2. rpc[r] = "register locked" /\ MovesTo(r, "create") BY <1>0, <2>1, Moves DEF Standings
  <2>3. RegistryGrows BY <2>1 DEF RegistryGrows
  <2> QED BY <1>1, <1>3, <2>1, <2>2, <2>3, CreatingKeeps DEF Creating
<1>4. CASE using[r].name \in DOMAIN registry /\ registry[using[r].name] # using[r].kind
  <2>1. /\ Step(r, "register locked", "panic") /\ UNCHANGED registry
        /\ writeMu' = [writeMu EXCEPT ![using[r].kind] = Nobody]
    BY <1>4 DEF RegisterLocked
  <2>2. rpc[r] = "register locked" /\ MovesTo(r, "panic") BY <1>0, <2>1, Moves DEF Standings
  <2> QED BY <1>1, <2>1, <2>2, PanicKeeps DEF Creating
<1> QED BY <1>2, <1>3, <1>4

\* The cell that is created is a new one, and the only change of what is
\* published.
LEMMA CreateChanges ==
  ASSUME StoreInv, NEW r \in Recorders, Create(r)
  PROVE  \E n \in Nat :
           /\ DOMAIN words = 1..n /\ words' = Put(words, n + 1, [w \in CellWords |-> 0])
           /\ handle' = [handle EXCEPT ![r] = n + 1]
           /\ Published(using[r])' /\ readMap'[using[r].kind][using[r].name] = n + 1
           /\ \A k \in MetricKeys \ {using[r]} :
                /\ Published(k)' <=> Published(k)
                /\ readMap'[k.kind][k.name] = readMap[k.kind][k.name] \/ ~Published(k)
           /\ DOMAIN readMap' = Kinds
<1> USE DEF StoreInv
<1>1. PICK n \in Nat : DOMAIN words = 1..n BY DEF StoreTypes
<1>2. Cardinality(DOMAIN words) = n BY <1>1, FS_Interval
<1>3. /\ readMap' = [readMap EXCEPT ![using[r].kind] = Put(@, using[r].name, n + 1)]
      /\ words' = Put(words, n + 1, [w \in CellWords |-> 0])
      /\ handle' = [handle EXCEPT ![r] = n + 1] /\ UNCHANGED using
  BY <1>2 DEF Create
<1>4. using[r] \in MetricKeys /\ DOMAIN readMap = Kinds BY DEF StoreTypes
<1>5. Published(using[r])' /\ readMap'[using[r].kind][using[r].name] = n + 1
  BY <1>3, <1>4 DEF Published, Put, MetricKeys
<1>6. ASSUME NEW k \in MetricKeys \ {using[r]}
      PROVE  /\ Published(k)' <=> Published(k)
             /\ readMap'[k.kind][k.name] = readMap[k.kind][k.name] \/ ~Published(k)
  <2>1. k.kind # using[r].kind \/ k.name # using[r].name BY <1>4, <1>6 DEF MetricKeys
  <2>2. CASE k.kind # using[r].kind BY <1>3, <1>4, <2>2 DEF Published, MetricKeys
  <2>3. CASE k.kind = using[r].kind /\ k.name # using[r].name
    BY <1>3, <1>4, <2>3 DEF Published, Put, MetricKeys
  <2> QED BY <2>1, <2>2, <2>3
<1> QED BY <1>1, <1>3, <1>4, <1>5, <1>6

\* The creator has the mutex of the kind: nobody else created the metric since
\* its second look, and the name is registered.
LEMMA CreateKeeps == ASSUME StoreInv, NEW r \in Recorders, Create(r) PROVE StoreInv'
<1> USE DEF StoreInv
<1>0. PICK n \in Nat :
        /\ DOMAIN words = 1..n /\ words' = Put(words, n + 1, [w \in CellWords |-> 0])
        /\ handle' = [handle EXCEPT ![r] = n + 1]
        /\ Published(using[r])' /\ readMap'[using[r].kind][using[r].name] = n + 1
        /\ \A k \in MetricKeys \ {using[r]} :
             /\ Published(k)' <=> Published(k)
             /\ readMap'[k.kind][k.name] = readMap[k.kind][k.name] \/ ~Published(k)
        /\ DOMAIN readMap' = Kinds
  BY CreateChanges
<1>1. /\ Step(r, "create", "add") /\ UNCHANGED <<registry, using>>
      /\ writeMu' = [writeMu EXCEPT ![using[r].kind] = Nobody]
  BY DEF Create
<1>2. rpc[r] = "create" /\ MovesTo(r, "add") BY <1>1, Moves DEF Standings
<1>3. using[r] \in MetricKeys /\ using[r].kind \in Kinds BY DEF StoreTypes, MetricKeys
<1>4. /\ using[r].name \in DOMAIN registry /\ registry[using[r].name] = using[r].kind
      /\ writeMu[using[r].kind] = r
  BY <1>2 DEF Creators, Creating
<1>5. DOMAIN words' = 1..(n + 1) /\ n + 1 \in DOMAIN words' /\ n + 1 \notin DOMAIN words
  BY <1>0 DEF Put
<1>6. StoreTypes'
  <2>1. \E m \in Nat : DOMAIN words' = 1..m BY <1>5, n + 1 \in Nat
  <2>2. handle' \in [Recorders -> Nat] BY <1>0 DEF StoreTypes
  <2>3. writeMu' \in [Kinds -> Recorders \cup {Nobody}] BY <1>1 DEF StoreTypes
  <2> QED BY <1>0, <1>1, <1>2, <2>1, <2>2, <2>3 DEF StoreTypes, MovesTo
<1>7. CellsOfKeys'
  <2>1. \A k \in MetricKeys \ {using[r]} : Published(k)' =>
          readMap'[k.kind][k.name] = readMap[k.kind][k.name] /\ readMap[k.kind][k.name] \in DOMAIN words
    BY <1>0 DEF CellsOfKeys
  <2>2. \A k \in MetricKeys : Published(k)' =>
          /\ readMap'[k.kind][k.name] \in DOMAIN words'
          /\ k.name \in DOMAIN registry /\ registry[k.name] = k.kind
    BY <1>0, <1>4, <1>5, <2>1 DEF CellsOfKeys
  <2>3. ASSUME NEW k \in MetricKeys, NEW m \in MetricKeys, Published(k)', Published(m)',
               readMap'[m.kind][m.name] = readMap'[k.kind][k.name]
        PROVE  m = k
    <3>1. CASE k # using[r] /\ m # using[r] BY <1>0, <2>1, <2>3, <3>1 DEF CellsOfKeys
    <3>2. CASE k = using[r] \/ m = using[r] BY <1>0, <1>5, <2>1, <2>3, <3>2
    <3> QED BY <3>1, <3>2
  <2> QED BY <1>1, <2>2, <2>3 DEF CellsOfKeys, Published
<1>8. Creators'
  <2> SUFFICES ASSUME NEW s \in Recorders, rpc'[s] \in Creating
               PROVE  /\ writeMu'[using[s].kind] = s /\ ~Published(using[s])'
                      /\ rpc'[s] = "create" =>
                           using[s].name \in DOMAIN registry /\ registry[using[s].name] = using[s].kind
    BY <1>1 DEF Creators, Creating, Published
  <2>1. s # r /\ rpc[s] = rpc'[s] BY <1>2 DEF MovesTo, Creating
  <2>2. /\ writeMu[using[s].kind] = s /\ ~Published(using[s])
        /\ using[s] \in MetricKeys /\ using[s].kind # using[r].kind
    BY <1>4, <2>1 DEF Creators, StoreTypes
  <2>3. ~Published(using[s])' BY <1>0, <1>1, <2>2 DEF Published
  <2> QED BY <1>1, <1>3, <2>1, <2>2, <2>3 DEF Creators, StoreTypes
<1>9. RecordersShareTheCell'
  <2> SUFFICES ASSUME NEW s \in Recorders, rpc'[s] \in {"add", "add den"}
               PROVE  /\ Published(using[s])'
                      /\ handle'[s] = readMap'[using[s].kind][using[s].name]
                      /\ using[s].name \in DOMAIN registry /\ registry[using[s].name] = using[s].kind
    BY <1>1 DEF RecordersShareTheCell, Published
  <2>1. CASE s = r BY <1>0, <1>4, <2>1 DEF StoreTypes
  <2>2. CASE s # r
    <3>1. rpc[s] = rpc'[s] BY <1>2, <2>2 DEF MovesTo
    <3>2. /\ Published(using[s]) /\ handle[s] = readMap[using[s].kind][using[s].name]
          /\ using[s].name \in DOMAIN registry /\ registry[using[s].name] = using[s].kind
          /\ using[s] \in MetricKeys
      BY <3>1 DEF RecordersShareTheCell, StoreTypes
    <3>3. using[s] # using[r] BY <1>2, <3>2 DEF Creators, Creating
    <3>4. handle'[s] = handle[s] BY <1>0, <2>2 DEF StoreTypes
    <3>5. Published(using[s])' /\ readMap'[using[s].kind][using[s].name] = readMap[using[s].kind][using[s].name]
      BY <1>0, <1>1, <3>2, <3>3 DEF Published
    <3> QED BY <3>2, <3>4, <3>5
  <2> QED BY <2>1, <2>2
<1> QED BY <1>6, <1>7, <1>8, <1>9

\* The adds change the words of a cell and nothing else.
LEMMA AddKeeps ==
  ASSUME StoreInv, NEW r \in Recorders, AddFirst(r) \/ AddDenominator(r)
  PROVE  StoreInv'
<1> USE DEF StoreInv
<1>1. UNCHANGED <<readMap, writeMu, registry, using, handle>> /\ DOMAIN words' = DOMAIN words
  BY DEF AddFirst, AddDenominator
<1>2. CASE Step(r, "add", "add den")
  <2>1. rpc[r] = "add" /\ MovesTo(r, "add den") BY <1>2, Moves DEF Standings
  <2>2. StoreTypes' BY <1>1, <2>1 DEF StoreTypes, MovesTo
  <2>3. CellsOfKeys' BY <1>1, CellsStay
  <2>4. Creators' BY <1>1, <2>1 DEF Creators, Creating, Published, MovesTo
  <2>5. RecordersShareTheCell' BY <1>1, <2>1 DEF RecordersShareTheCell, Published, MovesTo
  <2> QED BY <2>2, <2>3, <2>4, <2>5
<1>3. CASE Step(r, "add", "idle") \/ Step(r, "add den", "idle")
  <2>1. MovesTo(r, "idle") BY <1>3, Moves DEF Standings
  <2> QED BY <1>1, <2>1, WithoutCellKeeps
<1> QED BY <1>2, <1>3 DEF AddFirst, AddDenominator

\* Every step of a recorder keeps the invariant.
LEMMA StoreStep == StoreInv /\ [StoreNext]_storeVars => StoreInv'
<1> SUFFICES ASSUME StoreInv, [StoreNext]_storeVars PROVE StoreInv' OBVIOUS
<1>1. CASE StoreNext
  BY <1>1, LookKeeps, LookAgainKeeps, MustRegisterKeeps, RegisterLockedKeeps, CreateKeeps, AddKeeps
  DEF StoreNext
<1>2. CASE UNCHANGED storeVars
  BY <1>2 DEF storeVars, StoreInv, StoreTypes, CellsOfKeys, Creators, Creating,
              RecordersShareTheCell, Published
<1> QED BY <1>1, <1>2

\* The invariant of the storage.
THEOREM StoreInvariant == StoreSpec => []StoreInv
<1> QED BY StoreInitially, StoreStep, PTL DEF StoreSpec

\* Whoever adds to a metric adds to the cell a reader finds, under the one kind of
\* its name (metric/collector.go, metric/registry.go).
THEOREM RecordersShareTheCellHolds == StoreSpec => []RecordersShareTheCell
<1>1. StoreInv => RecordersShareTheCell BY DEF StoreInv
<1> QED BY <1>1, StoreInvariant, PTL

-----------------------------------------------------------------------------
(* The refinement. *)

Totals == [k \in MetricKeys |-> Found(k)]

\* At first nothing is declared and every total is zero.
LEMMA MapInitially == StoreInit => Map!MapInit
<1> SUFFICES ASSUME StoreInit PROVE Map!MapInit OBVIOUS
<1>1. \A k \in MetricKeys : Found(k) = [w \in CellWords |-> 0]
  BY DEF StoreInit, Published, MetricKeys, Found
<1> QED BY <1>1 DEF StoreInit, Map!MapInit

\* The lookups and the panics change nothing that is seen.
LEMMA LooksAreInvisible ==
  ASSUME UNCHANGED <<readMap, registry, words>>
  PROVE  UNCHANGED <<registry, Totals>>
BY DEF Totals, Found, Published

\* A name that is registered is declared.
LEMMA RegisterDeclares ==
  ASSUME StoreInv, NEW r \in Recorders, RegisterLocked(r)
  PROVE  Map!Declare(using[r]) \/ UNCHANGED <<registry, Totals>>
<1>1. UNCHANGED <<readMap, words>> BY DEF RegisterLocked
<1>2. Totals' = Totals BY <1>1 DEF Totals, Found, Published
<1>3. CASE using[r].name \notin DOMAIN registry
  BY <1>2, <1>3 DEF RegisterLocked, Put, Map!Declare, Totals
<1>4. CASE using[r].name \in DOMAIN registry
  BY <1>2, <1>4 DEF RegisterLocked
<1> QED BY <1>3, <1>4

\* A new cell reads as what was not there.
LEMMA CreateIsInvisible ==
  ASSUME StoreInv, NEW r \in Recorders, Create(r)
  PROVE  UNCHANGED <<registry, Totals>>
<1> USE DEF StoreInv
<1>0. PICK n \in Nat :
        /\ DOMAIN words = 1..n /\ words' = Put(words, n + 1, [w \in CellWords |-> 0])
        /\ handle' = [handle EXCEPT ![r] = n + 1]
        /\ Published(using[r])' /\ readMap'[using[r].kind][using[r].name] = n + 1
        /\ \A k \in MetricKeys \ {using[r]} :
             /\ Published(k)' <=> Published(k)
             /\ readMap'[k.kind][k.name] = readMap[k.kind][k.name] \/ ~Published(k)
        /\ DOMAIN readMap' = Kinds
  BY CreateChanges
<1>1. rpc[r] = "create" /\ using[r] \in MetricKeys /\ UNCHANGED <<registry, using>>
  BY DEF Create, Step, StoreTypes
<1>2. ~Published(using[r]) BY <1>1 DEF Creators, Creating
<1>3. words'[n + 1] = [w \in CellWords |-> 0] /\ \A c \in DOMAIN words : words'[c] = words[c]
  BY <1>0 DEF Put
<1>4. ASSUME NEW k \in MetricKeys PROVE Found(k)' = Found(k)
  <2>1. CASE k = using[r] BY <1>0, <1>1, <1>2, <1>3, <2>1 DEF Found, Published
  <2>2. CASE k # using[r] /\ Published(k)
    <3>1. /\ readMap'[k.kind][k.name] = readMap[k.kind][k.name] /\ Published(k)'
          /\ readMap[k.kind][k.name] \in DOMAIN words
      BY <1>0, <2>2 DEF CellsOfKeys
    <3> QED BY <1>3, <2>2, <3>1 DEF Found
  <2>3. CASE k # using[r] /\ ~Published(k)
    <3>1. ~Published(k)' BY <1>0, <2>3
    <3> QED BY <2>3, <3>1 DEF Found
  <2> QED BY <2>1, <2>2, <2>3
<1> QED BY <1>1, <1>4 DEF Totals

\* An add is one observation in the total of its key, and of no other.
LEMMA AddRecords ==
  ASSUME StoreInv, NEW r \in Recorders, NEW w \in CellWords, rpc[r] \in {"add", "add den"},
         words' = [words EXCEPT ![handle[r]][w] = @ + 1],
         UNCHANGED <<readMap, registry, using>>
  PROVE  Map!Record(using[r], w)
<1> USE DEF StoreInv
<1>1. /\ Published(using[r]) /\ handle[r] = readMap[using[r].kind][using[r].name]
      /\ using[r].name \in DOMAIN registry /\ registry[using[r].name] = using[r].kind
      /\ using[r] \in MetricKeys
  BY DEF RecordersShareTheCell, StoreTypes
<1>2. handle[r] \in DOMAIN words BY <1>1 DEF CellsOfKeys
<1>3. Found(using[r])' = [Found(using[r]) EXCEPT ![w] = @ + 1]
  <2>1. Found(using[r]) = words[handle[r]] BY <1>1 DEF Found
  <2>2. words'[handle[r]] = [words[handle[r]] EXCEPT ![w] = @ + 1] BY <1>2
  <2>3. Found(using[r])' = words'[handle[r]] BY <1>1 DEF Found, Published
  <2> QED BY <2>1, <2>2, <2>3
<1>4. ASSUME NEW k \in MetricKeys, k # using[r] PROVE Found(k)' = Found(k)
  <2>1. CASE Published(k)
    <3>1. readMap[k.kind][k.name] # handle[r] BY <1>1, <1>4, <2>1 DEF CellsOfKeys
    <3>2. words'[readMap[k.kind][k.name]] = words[readMap[k.kind][k.name]]
      BY <2>1, <3>1 DEF CellsOfKeys
    <3> QED BY <2>1, <3>2 DEF Found, Published
  <2>2. CASE ~Published(k) BY <2>2 DEF Found, Published
  <2> QED BY <2>1, <2>2
<1>5. Totals' = [Totals EXCEPT ![using[r]][w] = @ + 1]
  BY <1>1, <1>3, <1>4 DEF Totals
<1> QED BY <1>1, <1>5 DEF Map!Record, Totals

\* A recorder's first add is the map's record of a numerator ...
LEMMA FirstAddRecords ==
  ASSUME StoreInv, NEW r \in Recorders, AddFirst(r)
  PROVE  Map!Record(using[r], "num")
BY AddRecords DEF AddFirst, Step, CellWords

\* ... and its second of a denominator.
LEMMA DenominatorRecords ==
  ASSUME StoreInv, NEW r \in Recorders, AddDenominator(r)
  PROVE  Map!Record(using[r], "den")
BY AddRecords DEF AddDenominator, Step, CellWords

\* Every step of the storage is one of the map, or is not seen.
LEMMA MapStep ==
  StoreInv /\ [StoreNext]_storeVars => [Map!MapNext]_<<registry, Totals>>
<1> SUFFICES ASSUME StoreInv, [StoreNext]_storeVars
             PROVE  [Map!MapNext]_<<registry, Totals>>
  OBVIOUS
<1>1. \A r \in Recorders : using[r] \in MetricKeys BY DEF StoreInv, StoreTypes
<1>2. ASSUME NEW r \in Recorders, Look(r) \/ LookAgain(r) \/ MustRegister(r)
      PROVE  UNCHANGED <<registry, Totals>>
  BY <1>2, LooksAreInvisible DEF Look, LookAgain, MustRegister
<1>3. ASSUME NEW r \in Recorders, RegisterLocked(r) PROVE [Map!MapNext]_<<registry, Totals>>
  BY <1>1, <1>3, RegisterDeclares DEF Map!MapNext
<1>4. ASSUME NEW r \in Recorders, Create(r) PROVE UNCHANGED <<registry, Totals>>
  BY <1>4, CreateIsInvisible
<1>5. ASSUME NEW r \in Recorders, AddFirst(r) PROVE Map!MapNext
  BY <1>1, <1>5, FirstAddRecords DEF Map!MapNext, CellWords
<1>6. ASSUME NEW r \in Recorders, AddDenominator(r) PROVE Map!MapNext
  BY <1>1, <1>6, DenominatorRecords DEF Map!MapNext, CellWords
<1>7. CASE UNCHANGED storeVars
  BY <1>7, LooksAreInvisible DEF storeVars
<1>8. CASE StoreNext BY <1>2, <1>3, <1>4, <1>5, <1>6, <1>8 DEF StoreNext
<1> QED BY <1>7, <1>8

\* However the recorders race to create metrics, what a reader finds is one map
\* of names with one kind each and totals that grow by what is recorded
\* (metric/collector.go, metric/registry.go, metric/rate.go, metric/counter.go).
THEOREM StorageImplementsMetricMap == StoreSpec => ImplementsMetricMap
<1>1. Map!MapInit /\ [][Map!MapNext]_<<registry, Totals>> => ImplementsMetricMap
  BY DEF ImplementsMetricMap, Map!MapSpec, Totals
<1> QED BY <1>1, MapInitially, MapStep, StoreInvariant, PTL DEF StoreSpec

-----------------------------------------------------------------------------
(* Sums: the units that one counts, and what a unit more makes of it. *)

\* The units that a sum counts.
UnitsOf(f) == UNION {{x} \X (1..f[x]) : x \in DOMAIN f}

\* A unit is a place and a number up to what is there.
LEMMA UnitsAre ==
  ASSUME NEW D, NEW f \in [D -> Nat]
  PROVE  \A u : u \in UnitsOf(f) <=> \E x \in D : \E k \in 1..f[x] : u = <<x, k>>
BY DEF UnitsOf

\* The same of a pair.
LEMMA PairUnits ==
  ASSUME NEW D, NEW f \in [D -> Nat], NEW x, NEW k
  PROVE  <<x, k>> \in UnitsOf(f) <=> x \in D /\ k \in 1..f[x]
BY UnitsAre

\* There are finitely many: a sum is a natural number.
LEMMA UnitsAreFinite ==
  ASSUME NEW D, IsFiniteSet(D), NEW f \in [D -> Nat]
  PROVE  IsFiniteSet(UnitsOf(f)) /\ TotalOf(f) = Cardinality(UnitsOf(f)) /\ TotalOf(f) \in Nat
<1> DEFINE g == [x \in D |-> {x} \X (1..f[x])]
           U == {{x} \X (1..f[x]) : x \in D}
<1>1. g \in Surjection(D, U) BY DEF Surjection
<1>2. IsFiniteSet(U) BY <1>1, FS_Surjection
<1>3. ASSUME NEW x \in D PROVE IsFiniteSet({x} \X (1..f[x]))
  <2>1. IsFiniteSet({x}) BY FS_Singleton
  <2>2. IsFiniteSet(1..f[x]) BY FS_Interval
  <2> QED BY <2>1, <2>2, FS_Product
<1>4. IsFiniteSet(UNION U) BY <1>2, <1>3, FS_UNION
<1>5. UnitsOf(f) = UNION U BY DEF UnitsOf
<1>6. TotalOf(f) = Cardinality(UnitsOf(f)) BY DEF TotalOf, UnitsOf
<1> QED BY <1>4, <1>5, <1>6, FS_CardinalityType

\* A sum over more, or of more, is not less.
LEMMA TotalMonotone ==
  ASSUME NEW D, IsFiniteSet(D), NEW f \in [D -> Nat], NEW E, IsFiniteSet(E), NEW g \in [E -> Nat],
         D \subseteq E, \A x \in D : f[x] <= g[x]
  PROVE  TotalOf(f) <= TotalOf(g)
<1>1. UnitsOf(f) \subseteq UnitsOf(g)
  <2>1. ASSUME NEW u \in UnitsOf(f) PROVE u \in UnitsOf(g)
    <3>1. PICK x \in D, k \in Nat : k \in 1..f[x] /\ u = <<x, k>> BY UnitsAre
    <3>2. k \in 1..g[x] /\ x \in E BY <3>1
    <3> QED BY <3>1, <3>2, UnitsAre
  <2> QED BY <2>1
<1> QED BY <1>1, UnitsAreFinite, FS_Subset

\* What is zero elsewhere adds nothing.
LEMMA TotalOutside ==
  ASSUME NEW D, IsFiniteSet(D), NEW f \in [D -> Nat], NEW E, IsFiniteSet(E), NEW g \in [E -> Nat],
         D \subseteq E, \A x \in D : f[x] = g[x], \A x \in E \ D : g[x] = 0
  PROVE  TotalOf(f) = TotalOf(g)
<1>1. UnitsOf(g) = UnitsOf(f)
  <2>1. ASSUME NEW u \in UnitsOf(f) PROVE u \in UnitsOf(g)
    <3>1. PICK x \in D, k \in Nat : k \in 1..f[x] /\ u = <<x, k>> BY UnitsAre
    <3>2. k \in 1..g[x] /\ x \in E BY <3>1
    <3> QED BY <3>1, <3>2, UnitsAre
  <2>2. ASSUME NEW u \in UnitsOf(g) PROVE u \in UnitsOf(f)
    <3>1. PICK x \in E, k \in Nat : k \in 1..g[x] /\ u = <<x, k>> BY UnitsAre
    <3>2. x \in D BY <3>1
    <3>3. k \in 1..f[x] BY <3>1, <3>2
    <3> QED BY <3>1, <3>2, <3>3, UnitsAre
  <2> QED BY <2>1, <2>2
<1> QED BY <1>1, UnitsAreFinite

\* m units at one place, above the first a.
Column(x, a, m) == {x} \X (a+1 .. a+m)

\* They are m.
LEMMA ColumnOfUnits ==
  ASSUME NEW x, NEW a \in Nat, NEW m \in Nat
  PROVE  IsFiniteSet(Column(x, a, m)) /\ Cardinality(Column(x, a, m)) = m
<1> DEFINE I == a+1 .. a+m
           lo == a+1
           hi == a+m
<1>1. lo \in Int /\ hi \in Int /\ (IF lo > hi THEN 0 ELSE hi - lo + 1) = m OBVIOUS
<1> HIDE DEF lo, hi
<1>2. IsFiniteSet(lo..hi) /\ Cardinality(lo..hi) = m BY <1>1, FS_Interval
<1>3. IsFiniteSet(I) /\ Cardinality(I) = m BY <1>2 DEF lo, hi
<1>4. IsFiniteSet({x}) /\ Cardinality({x}) = 1 BY FS_Singleton
<1> HIDE DEF I
<1>5. IsFiniteSet({x} \X I) /\ Cardinality({x} \X I) = 1 * m BY <1>3, <1>4, FS_Product
<1> QED BY <1>5 DEF I, Column

\* A sum that grows at one place grows by as much.
LEMMA TotalGrows ==
  ASSUME NEW D, IsFiniteSet(D), NEW f \in [D -> Nat], NEW g \in [D -> Nat],
         NEW x \in D, NEW m \in Nat, g[x] = f[x] + m, \A y \in D \ {x} : g[y] = f[y]
  PROVE  TotalOf(g) = TotalOf(f) + m
<1> DEFINE a == f[x]
           N == Column(x, a, m)
<1>0. a \in Nat OBVIOUS
<1>1. IsFiniteSet(N) /\ Cardinality(N) = m
  <2> HIDE DEF a
  <2> QED BY <1>0, ColumnOfUnits
<1>7. \A u : u \in N <=> \E k \in f[x]+1 .. f[x]+m : u = <<x, k>> BY DEF Column
<1> HIDE DEF N
<1>2. UnitsOf(g) = UnitsOf(f) \cup N
  <2>1. ASSUME NEW u \in UnitsOf(g) PROVE u \in UnitsOf(f) \cup N
    <3>1. PICK y \in D, k \in Nat : k \in 1..g[y] /\ u = <<y, k>> BY UnitsAre
    <3>2. CASE y # x
      <4>1. k \in 1..f[y] BY <3>1, <3>2
      <4> QED BY <3>1, <4>1, UnitsAre
    <3>3. CASE y = x
      <4>1. k \in 1..f[x] \/ k \in f[x]+1 .. f[x]+m BY <3>1, <3>3
      <4> QED BY <1>7, <3>1, <3>3, <4>1, UnitsAre
    <3> QED BY <3>2, <3>3
  <2>2. ASSUME NEW u \in UnitsOf(f) PROVE u \in UnitsOf(g)
    <3>1. PICK y \in D, k \in Nat : k \in 1..f[y] /\ u = <<y, k>> BY UnitsAre
    <3>2. k \in 1..g[y] BY <3>1
    <3> QED BY <3>1, <3>2, UnitsAre
  <2>3. ASSUME NEW u \in N PROVE u \in UnitsOf(g)
    <3>1. PICK k \in f[x]+1 .. f[x]+m : u = <<x, k>> BY <1>7
    <3>2. k \in 1..g[x] BY <3>1
    <3> QED BY <3>1, <3>2, UnitsAre
  <2> QED BY <2>1, <2>2, <2>3
<1>3. UnitsOf(f) \cap N = {}
  <2>1. ASSUME NEW u \in UnitsOf(f), u \in N PROVE FALSE
    <3>1. PICK y \in D, k \in Nat : k \in 1..f[y] /\ u = <<y, k>> BY <2>1, UnitsAre
    <3>2. PICK j \in f[x]+1 .. f[x]+m : u = <<x, j>> BY <1>7, <2>1
    <3>3. y = x /\ k = j BY <3>1, <3>2
    <3>4. k <= f[x] /\ k >= f[x] + 1 /\ f[x] \in Nat /\ k \in Int BY <3>1, <3>2, <3>3
    <3> QED BY <3>4
  <2> QED BY <2>1
<1> HIDE DEF N
<1>4. IsFiniteSet(UnitsOf(f)) /\ TotalOf(f) = Cardinality(UnitsOf(f)) /\ TotalOf(f) \in Nat BY UnitsAreFinite
<1>5. TotalOf(g) = Cardinality(UnitsOf(g)) BY UnitsAreFinite
<1>6. Cardinality(UnitsOf(f) \cup N) = Cardinality(UnitsOf(f)) + Cardinality(N) - Cardinality({})
  BY <1>1, <1>3, <1>4, FS_Union
<1> QED BY <1>1, <1>2, <1>4, <1>5, <1>6, FS_EmptySet

\* And by one.
LEMMA TotalIncrements ==
  ASSUME NEW D, IsFiniteSet(D), NEW f \in [D -> Nat], NEW g \in [D -> Nat],
         NEW x \in D, g[x] = f[x] + 1, \A y \in D \ {x} : g[y] = f[y]
  PROVE  TotalOf(g) = TotalOf(f) + 1 /\ TotalOf(f) \in Nat
<1>1. 1 \in Nat OBVIOUS
<1>2. TotalOf(g) = TotalOf(f) + 1 BY <1>1, TotalGrows
<1> QED BY <1>2, UnitsAreFinite

\* A sum over one place more.
LEMMA TotalExtends ==
  ASSUME NEW D, IsFiniteSet(D), NEW f \in [D -> Nat], NEW x, x \notin D,
         NEW g \in [D \cup {x} -> Nat], \A y \in D : g[y] = f[y]
  PROVE  TotalOf(g) = TotalOf(f) + g[x]
<1> DEFINE E == D \cup {x}
           h == [y \in E |-> IF y = x THEN 0 ELSE f[y]]
<1>1. IsFiniteSet(E) BY FS_AddElement
<1>2. h \in [E -> Nat] OBVIOUS
<1>3. \A y \in D : f[y] = h[y] OBVIOUS
<1>4. \A y \in E \ D : h[y] = 0 OBVIOUS
<1>5. g[x] = h[x] + g[x] /\ g[x] \in Nat /\ x \in E /\ \A y \in E \ {x} : g[y] = h[y] OBVIOUS
<1> HIDE DEF h
<1>6. TotalOf(f) = TotalOf(h) BY <1>1, <1>2, <1>3, <1>4, TotalOutside
<1>7. TotalOf(g) = TotalOf(h) + g[x] BY <1>1, <1>2, <1>5, TotalGrows
<1> QED BY <1>6, <1>7

-----------------------------------------------------------------------------
(* The inductive invariant. *)

\* The types the proof needs, and what a virtual user has in hand.
SnapTypes ==
  /\ snapKind \in {"duration", "rate"}
  /\ histSeq \in [Variants -> Nat]
  /\ shardHist \in [Variants -> [Shards -> [Values -> Nat]]]
  /\ rateWords \in [Variants -> [num : Nat, den : Nat]]
  /\ known \in SUBSET Variants
  /\ opc \in [Observers -> {"idle", "shard", "record", "den"}]
  /\ DOMAIN observing = Observers
  /\ DOMAIN given = {"samples", "num", "den", "by"} /\ DOMAIN given.by = Observers
  /\ given.samples \in [Samples -> Nat] /\ given.num \in Nat /\ given.den \in Nat

HandInv ==
  \A o \in Observers :
    /\ opc[o] \in {"shard", "record"} =>
         /\ snapKind = "duration" /\ observing[o].variant \in known
         /\ observing[o].shard \in Shards /\ observing[o].value \in Values
    /\ opc[o] = "den" =>
         snapKind = "rate" /\ observing[o].variant \in known /\ observing[o].value \in Nat \ {0}

\* What was never created, or is of the other kind, is empty.
EmptyInv ==
  /\ \A h \in Variants, i \in Shards, x \in Values :
       snapKind = "rate" \/ h \notin known => shardHist[h][i][x] = 0
  /\ \A h \in Variants :
       snapKind = "duration" \/ h \notin known => rateWords[h].num = 0 /\ rateWords[h].den = 0

\* Everything observed is in a shard or in a hand, value by value; everything added
\* to a rate is in its words or in a hand.
HandOf(x) == {o \in InHand : observing[o].value = x}
Adding(h) == {o \in Observers : opc[o] = "den" /\ observing[o].variant = h}
DenInHand == [o \in Observers |-> IF opc[o] = "den" THEN observing[o].value ELSE 0]
SumInv ==
  /\ TotalOf([x \in Values |-> Recorded(shardHist, x)]) + Cardinality(InHand) = TotalOf(given.samples)
  /\ \A x \in Values : Recorded(shardHist, x) + Cardinality(HandOf(x)) = Given(x)
  /\ SumOfWord(rateWords, "num") = given.num
  /\ SumOfWord(rateWords, "den") + TotalOf(DenInHand) = given.den
  /\ \A h \in Variants : rateWords[h].num <= rateWords[h].den + Cardinality(Adding(h))

\* What was there when the read began is still there, in the variants it reads.
StartInv ==
  /\ DOMAIN atStart = {"hist", "words"}
  /\ atStart.hist \in [Variants -> [Shards -> [Values -> Nat]]]
  /\ atStart.words \in [Variants -> [num : Nat, den : Nat]]
  /\ \A h \in Variants, i \in Shards, x \in Values : atStart.hist[h][i][x] <= shardHist[h][i][x]
  /\ \A h \in Variants : /\ atStart.words[h].num <= rateWords[h].num
                         /\ atStart.words[h].den <= rateWords[h].den
  /\ snap.pc # "idle" => \A h \in Variants :
       h \in Range(snap.order)
         \/ (/\ \A i \in Shards, x \in Values : atStart.hist[h][i][x] = 0
             /\ atStart.words[h].num = 0 /\ atStart.words[h].den = 0)

\* Where the reader stands.
OnceEach(s) == \A j, k \in DOMAIN s : s[j] = s[k] => j = k
Before(order, v, i) ==
  {p \in Places : \E k \in DOMAIN order : order[k] = p[1] /\ (k < v \/ (k = v /\ p[2] < i))}
Seen ==
  IF snap.pc \in {"shards", "collect"} THEN Before(snap.order, snap.v, snap.i)
  ELSE {p \in Places : p[1] \in Range(snap.order)}
WalkInv ==
  /\ DOMAIN snap = DOMAIN NoRead
  /\ snap.pc \in {"idle", "shards", "collect", "merge", "merging", "num", "den", "read"}
  /\ snap.merged \in [Values -> Nat] /\ snap.num \in Nat /\ snap.den \in Nat
  /\ snap.raced \in BOOLEAN
  /\ snap.order \in Seq(Variants) /\ OnceEach(snap.order) /\ Range(snap.order) \subseteq known
  /\ snap.refs \in Seq(Places) /\ OnceEach(snap.refs) /\ Range(snap.refs) \subseteq Seen
  /\ snap.pc = "idle" => snap = NoRead
  /\ snap.pc \in {"shards", "collect", "num", "den"} => snap.v \in 1..Len(snap.order)
  /\ snap.i \in Shards
  /\ snap.pc \in {"shards", "collect", "merge", "merging"} => snapKind = "duration"
  /\ snap.pc \in {"num", "den"} => snapKind = "rate"
  /\ snap.pc \in {"collect", "merge", "merging"} => Len(snap.order) # 1
  /\ snap.pc = "merging" => snap.refs # <<>>
  /\ snap.pc \in {"shards", "num", "den", "read"} => snap.refs = <<>>
  /\ Len(snap.order) = 1 => ~snap.raced

\* What the reader has merged is between what the shards it is done with held when
\* it began, and what they hold.
OfPlaces(hist, S, x) == TotalOf([p \in S |-> hist[p[1]][p[2]][x]])
DoneWith == Seen \ Range(snap.refs)
MergedInv ==
  IF snapKind = "duration" THEN
    \A x \in Values : /\ snap.merged[x] <= OfPlaces(shardHist, DoneWith, x)
                      /\ ~snap.raced => OfPlaces(atStart.hist, DoneWith, x) <= snap.merged[x]
  ELSE snap.merged = Nothing

\* What it has added up of a rate is between what the words it has loaded held when
\* it began, and what they hold; a numerator leads its denominator by the adds that
\* were between the two.
OfVariants(rates, S, w) == TotalOf([h \in S |-> rates[h][w]])
FirstLoaded(n) == {snap.order[k] : k \in {k \in DOMAIN snap.order : k <= n}}
NumsLoaded == CASE snap.pc = "num" -> snap.v - 1 [] snap.pc = "den" -> snap.v [] OTHER -> Len(snap.order)
DensLoaded == CASE snap.pc \in {"num", "den"} -> snap.v - 1 [] OTHER -> Len(snap.order)
RateInv ==
  IF snapKind = "rate" THEN
    /\ OfVariants(atStart.words, FirstLoaded(NumsLoaded), "num") <= snap.num
    /\ snap.num <= OfVariants(rateWords, FirstLoaded(NumsLoaded), "num")
    /\ OfVariants(atStart.words, FirstLoaded(DensLoaded), "den") <= snap.den
    /\ snap.den <= OfVariants(rateWords, FirstLoaded(DensLoaded), "den")
    /\ snap.num <= snap.den + Cardinality(Observers) * NumsLoaded
                    + (IF snap.pc = "den" THEN rateWords[snap.order[snap.v]].den ELSE 0)
  ELSE snap.num = 0 /\ snap.den = 0

SnapInv == /\ SnapTypes /\ HandInv /\ EmptyInv /\ SumInv
           /\ StartInv /\ WalkInv /\ MergedInv /\ RateInv

\* The sets that are summed over.
LEMMA SnapSets ==
  /\ IsFiniteSet(Observers) /\ IsFiniteSet(Variants) /\ IsFiniteSet(Shards)
  /\ IsFiniteSet(Values) /\ IsFiniteSet(Samples) /\ IsFiniteSet(Places)
  /\ Values \subseteq Nat /\ Samples \subseteq Int /\ 0 \in Shards /\ Shards \subseteq Nat
  /\ \A d \in Samples : InRange(d) \in Values
<1>1. /\ IsFiniteSet(Observers) /\ IsFiniteSet(Variants) /\ IsFiniteSet(Samples)
      /\ Samples \subseteq Int /\ histShards \in Nat \ {0} /\ histMinValue \in Nat /\ histMaxValue \in Nat
      /\ histMinValue <= histMaxValue
  BY SnapshotAssumption
<1>2. IsFiniteSet(Shards) /\ 0 \in Shards /\ Shards \subseteq Nat
  <2>1. histShards - 1 \in Int BY <1>1
  <2> QED BY <1>1, <2>1, FS_Interval DEF Shards
<1>3. IsFiniteSet(Values) /\ Values \subseteq Nat BY <1>1, FS_Interval DEF Values
<1>4. IsFiniteSet(Places) BY <1>1, <1>2, FS_Product DEF Places
<1>5. \A d \in Samples : InRange(d) \in Values BY <1>1 DEF InRange, Values
<1> QED BY <1>1, <1>2, <1>3, <1>4, <1>5

\* The sums of the invariant, for any histograms, rates and samples of their types.
HistTypes(hist) == hist \in [Variants -> [Shards -> [Values -> Nat]]]
RateTypes(rates) == rates \in [Variants -> [num : Nat, den : Nat]]
AtPlaces(hist, S, x) == [p \in S |-> hist[p[1]][p[2]][x]]
GivenFor(samples, x) == TotalOf([d \in {d \in Samples : InRange(d) = x} |-> samples[d]])

\* A sum over places is one of natural numbers.
LEMMA AtPlacesType ==
  ASSUME NEW hist, HistTypes(hist), NEW S, S \subseteq Places, NEW x \in Values
  PROVE  /\ AtPlaces(hist, S, x) \in [S -> Nat] /\ IsFiniteSet(S)
         /\ \A p \in S : AtPlaces(hist, S, x)[p] = hist[p[1]][p[2]][x]
         /\ OfPlaces(hist, S, x) = TotalOf(AtPlaces(hist, S, x))
         /\ OfPlaces(hist, S, x) \in Nat
<1>1. IsFiniteSet(S) BY SnapSets, FS_Subset
<1>2. AtPlaces(hist, S, x) \in [S -> Nat] BY DEF AtPlaces, HistTypes, Places
<1>3. OfPlaces(hist, S, x) = TotalOf(AtPlaces(hist, S, x)) BY DEF OfPlaces, AtPlaces
<1>4. TotalOf(AtPlaces(hist, S, x)) \in Nat BY <1>1, <1>2, UnitsAreFinite
<1> QED BY <1>1, <1>2, <1>3, <1>4 DEF AtPlaces

\* What is recorded of a value is its sum over all places.
LEMMA RecordedIsOfPlaces ==
  ASSUME NEW hist, NEW x PROVE Recorded(hist, x) = OfPlaces(hist, Places, x)
BY DEF Recorded, OfPlaces

\* One value more in one shard.
OneMoreAt(hist, more, h, i, y) ==
  \A h2 \in Variants, i2 \in Shards, x \in Values :
    more[h2][i2][x] = IF h2 = h /\ i2 = i /\ x = y THEN hist[h2][i2][x] + 1 ELSE hist[h2][i2][x]

\* Then one more of it is recorded, and as much of every other value.
LEMMA OneMoreRecorded ==
  ASSUME NEW hist, HistTypes(hist), NEW h \in Variants, NEW i \in Shards, NEW y \in Values,
         NEW more, HistTypes(more), OneMoreAt(hist, more, h, i, y)
  PROVE  \A x \in Values : Recorded(more, x) = IF x = y THEN Recorded(hist, x) + 1 ELSE Recorded(hist, x)
<1>2. \A h2 \in Variants, i2 \in Shards, x \in Values :
        more[h2][i2][x] = IF h2 = h /\ i2 = i /\ x = y THEN hist[h2][i2][x] + 1 ELSE hist[h2][i2][x]
  BY DEF OneMoreAt
<1>3. ASSUME NEW x \in Values
      PROVE Recorded(more, x) = IF x = y THEN Recorded(hist, x) + 1 ELSE Recorded(hist, x)
  <2> DEFINE f == AtPlaces(hist, Places, x)
             g == AtPlaces(more, Places, x)
             q == <<h, i>>
  <2>1. /\ f \in [Places -> Nat] /\ g \in [Places -> Nat] /\ IsFiniteSet(Places)
        /\ \A p \in Places : f[p] = hist[p[1]][p[2]][x] /\ g[p] = more[p[1]][p[2]][x]
        /\ Recorded(hist, x) = TotalOf(f) /\ Recorded(more, x) = TotalOf(g) /\ TotalOf(f) \in Nat
    BY AtPlacesType, RecordedIsOfPlaces
  <2>2. q \in Places /\ q[1] = h /\ q[2] = i BY DEF Places
  <2>3. \A p \in Places : p[1] \in Variants /\ p[2] \in Shards /\ p = <<p[1], p[2]>> BY DEF Places
  <2>4. \A p \in Places \ {q} : g[p] = f[p] BY <1>2, <2>1, <2>2, <2>3
  <2>5. g[q] = IF x = y THEN f[q] + 1 ELSE f[q] BY <1>2, <2>1, <2>2, <2>3
  <2> HIDE DEF f, g, q
  <2>6. CASE x = y BY <2>1, <2>2, <2>4, <2>5, <2>6, TotalIncrements
  <2>7. CASE x # y
    <3>1. \A p \in Places : f[p] = g[p] BY <2>4, <2>5, <2>7
    <3>2. f = g BY <2>1, <3>1
    <3> QED BY <2>1, <2>7, <3>2
  <2> QED BY <2>6, <2>7
<1> QED BY <1>3

\* One sample more.
LEMMA OneSampleMore ==
  ASSUME NEW samples \in [Samples -> Nat], NEW d \in Samples
  PROVE  LET more == [samples EXCEPT ![d] = @ + 1]
         IN  /\ more \in [Samples -> Nat]
             /\ TotalOf(more) = TotalOf(samples) + 1 /\ TotalOf(samples) \in Nat
             /\ \A x \in Values : /\ GivenFor(samples, x) \in Nat
                                  /\ GivenFor(more, x) = IF x = InRange(d) THEN GivenFor(samples, x) + 1 ELSE GivenFor(samples, x)
<1> DEFINE more == [samples EXCEPT ![d] = @ + 1]
<1>1. more \in [Samples -> Nat] /\ more[d] = samples[d] + 1 /\ \A y \in Samples \ {d} : more[y] = samples[y]
  OBVIOUS
<1> HIDE DEF more
<1>2. TotalOf(more) = TotalOf(samples) + 1 /\ TotalOf(samples) \in Nat
  <2>1. IsFiniteSet(Samples) BY SnapSets
  <2> QED BY <1>1, <2>1, TotalIncrements
<1>3. ASSUME NEW x \in Values
      PROVE /\ GivenFor(samples, x) \in Nat
            /\ GivenFor(more, x) = IF x = InRange(d) THEN GivenFor(samples, x) + 1 ELSE GivenFor(samples, x)
  <2> DEFINE S == {e \in Samples : InRange(e) = x}
             f == [e \in S |-> samples[e]]
             g == [e \in S |-> more[e]]
  <2>1. IsFiniteSet(S) BY SnapSets, FS_Subset
  <2>2. f \in [S -> Nat] /\ g \in [S -> Nat] /\ \A e \in S \ {d} : g[e] = f[e] BY <1>1
  <2>3. d \in S => g[d] = f[d] + 1 BY <1>1
  <2>4. d \in S <=> x = InRange(d) OBVIOUS
  <2>5. GivenFor(samples, x) = TotalOf(f) /\ GivenFor(more, x) = TotalOf(g) BY DEF GivenFor
  <2> HIDE DEF S, f, g
  <2>6. TotalOf(f) \in Nat BY <2>1, <2>2, UnitsAreFinite
  <2>7. CASE d \in S BY <2>1, <2>2, <2>3, <2>4, <2>5, <2>6, <2>7, TotalIncrements
  <2>8. CASE d \notin S
    <3>1. \A e \in S : f[e] = g[e] BY <2>2, <2>8
    <3>2. f = g BY <2>2, <3>1
    <3> QED BY <2>4, <2>5, <2>6, <2>8, <3>2
  <2> QED BY <2>7, <2>8
<1> QED BY <1>1, <1>2, <1>3 DEF more

\* The sum of the recorded values, when one of them is one more.
LEMMA OneMoreInAll ==
  ASSUME NEW hist, HistTypes(hist), NEW more, HistTypes(more), NEW y \in Values,
         \A x \in Values : Recorded(more, x) = IF x = y THEN Recorded(hist, x) + 1 ELSE Recorded(hist, x)
  PROVE  TotalOf([x \in Values |-> Recorded(more, x)]) = TotalOf([x \in Values |-> Recorded(hist, x)]) + 1
<1> DEFINE f == [x \in Values |-> Recorded(hist, x)]
           g == [x \in Values |-> Recorded(more, x)]
<1>1. \A x \in Values : Recorded(hist, x) \in Nat /\ Recorded(more, x) \in Nat
  BY AtPlacesType, RecordedIsOfPlaces
<1>2. f \in [Values -> Nat] /\ g \in [Values -> Nat] BY <1>1
<1>3. g[y] = f[y] + 1 /\ \A x \in Values \ {y} : g[x] = f[x] OBVIOUS
<1> HIDE DEF f, g
<1>4. IsFiniteSet(Values) BY SnapSets
<1>5. TotalOf(g) = TotalOf(f) + 1 BY <1>2, <1>3, <1>4, TotalIncrements
<1> QED BY <1>5 DEF f, g

-----------------------------------------------------------------------------
(* Recording keeps the sums. *)

RecordInv == SnapTypes /\ HandInv /\ EmptyInv /\ SumInv

\* What was observed of a value, of any samples.
LEMMA GivenIsFor == \A x : Given(x) = GivenFor(given.samples, x)
BY DEF Given, GivenFor

\* Hands are finite sets.
LEMMA Hands ==
  /\ IsFiniteSet(InHand) /\ \A x : IsFiniteSet(HandOf(x))
  /\ Cardinality(InHand) \in Nat /\ \A x : Cardinality(HandOf(x)) \in Nat
  /\ \A h : IsFiniteSet(Adding(h)) /\ Cardinality(Adding(h)) \in Nat
<1>1. IsFiniteSet(Observers) BY SnapSets
<1>2. InHand \subseteq Observers /\ \A x : HandOf(x) \subseteq Observers BY DEF InHand, HandOf
<1>3. \A h : Adding(h) \subseteq Observers BY DEF Adding
<1> QED BY <1>1, <1>2, <1>3, FS_Subset, FS_CardinalityType

\* An observation is in a hand: its sample is counted, and its shard not yet.
LEMMA ObserveKeeps ==
  ASSUME RecordInv, NEW o \in Observers, NEW h \in Variants, NEW d \in Samples, Observe(o, h, d)
  PROVE  RecordInv'
<1> DEFINE n == histSeq[h] + 1
           w == [variant |-> h, shard |-> n % histShards, value |-> InRange(d)]
<1>0. SnapTypes /\ HandInv /\ EmptyInv /\ SumInv BY DEF RecordInv
<1>1. /\ snapKind = "duration" /\ opc[o] = "idle" /\ opc' = [opc EXCEPT ![o] = "shard"]
      /\ histSeq' = [histSeq EXCEPT ![h] = n] /\ observing' = [observing EXCEPT ![o] = w]
      /\ known' = known \cup {h}
      /\ given' = [given EXCEPT !.samples[d] = @ + 1, !.by[o] = @ + 1]
      /\ UNCHANGED <<snapKind, shardHist, rateWords>>
  BY DEF Observe, MayRecord, Records
<1>2. n \in Nat /\ n % histShards \in Shards
  <2>1. histShards \in Nat \ {0} BY SnapshotAssumption
  <2>2. n \in Nat BY <1>0 DEF SnapTypes
  <2>3. n % histShards \in 0..histShards-1 BY <2>1, <2>2
  <2> QED BY <2>2, <2>3 DEF Shards
<1>3. w.variant = h /\ w.shard \in Shards /\ w.value = InRange(d) /\ w.value \in Values BY <1>2, SnapSets
<1> HIDE DEF n, w
<1>4. /\ opc'[o] = "shard" /\ observing'[o] = w
      /\ \A p \in Observers \ {o} : opc'[p] = opc[p] /\ observing'[p] = observing[p]
  BY <1>0, <1>1 DEF SnapTypes
<1>5. /\ DOMAIN given' = {"samples", "num", "den", "by"} /\ DOMAIN given'.by = Observers
      /\ given'.samples = [given.samples EXCEPT ![d] = @ + 1]
      /\ given'.num = given.num /\ given'.den = given.den
  BY <1>0, <1>1 DEF SnapTypes
<1>6. /\ given'.samples \in [Samples -> Nat]
      /\ TotalOf(given'.samples) = TotalOf(given.samples) + 1 /\ TotalOf(given.samples) \in Nat
      /\ \A x \in Values : /\ Given(x) \in Nat
                           /\ Given(x)' = IF x = InRange(d) THEN Given(x) + 1 ELSE Given(x)
  <2>1. given.samples \in [Samples -> Nat] BY <1>0 DEF SnapTypes
  <2>2. \A x : Given(x)' = GivenFor(given'.samples, x) BY DEF Given, GivenFor
  <2> QED BY <1>5, <2>1, <2>2, OneSampleMore, GivenIsFor
<1>7. SnapTypes'
  BY <1>0, <1>1, <1>2, <1>5, <1>6 DEF SnapTypes
<1>8. HandInv'
  BY <1>0, <1>1, <1>3, <1>4 DEF HandInv
<1>9. EmptyInv' BY <1>0, <1>1 DEF EmptyInv
<1>10. /\ InHand' = InHand \cup {o} /\ o \notin InHand
       /\ \A x \in Values : HandOf(x)' = IF x = InRange(d) THEN HandOf(x) \cup {o} ELSE HandOf(x)
       /\ \A x \in Values : o \notin HandOf(x)
       /\ \A g \in Variants : Adding(g)' = Adding(g)
       /\ DenInHand' = DenInHand
  <2>1. InHand' = InHand \cup {o} /\ o \notin InHand BY <1>1, <1>4 DEF InHand
  <2>2. ASSUME NEW x \in Values
        PROVE  HandOf(x)' = IF x = InRange(d) THEN HandOf(x) \cup {o} ELSE HandOf(x)
    <3>1. HandOf(x)' = {p \in InHand \cup {o} : observing'[p].value = x} BY <2>1 DEF HandOf
    <3>2. \A p \in InHand : p \in Observers /\ p # o BY <2>1 DEF InHand
    <3>3. \A p \in InHand : observing'[p].value = observing[p].value BY <1>4, <3>2
    <3>4. observing'[o].value = InRange(d) BY <1>3, <1>4
    <3> QED BY <3>1, <3>3, <3>4 DEF HandOf
  <2>3. \A x \in Values : o \notin HandOf(x) BY <2>1 DEF HandOf
  <2>4. \A g \in Variants : Adding(g)' = Adding(g) BY <1>1, <1>4 DEF Adding
  <2>5. DenInHand' = DenInHand BY <1>1, <1>4 DEF DenInHand
  <2> QED BY <2>1, <2>2, <2>3, <2>4, <2>5
<1>11. Cardinality(InHand') = Cardinality(InHand) + 1 /\ Cardinality(InHand) \in Nat
  BY <1>10, Hands, FS_AddElement
<1>12. \A x \in Values :
         /\ Cardinality(HandOf(x)') = IF x = InRange(d) THEN Cardinality(HandOf(x)) + 1 ELSE Cardinality(HandOf(x))
         /\ Cardinality(HandOf(x)) \in Nat
  <2>1. ASSUME NEW x \in Values
        PROVE  Cardinality(HandOf(x) \cup {o}) = Cardinality(HandOf(x)) + 1 /\ Cardinality(HandOf(x)) \in Nat
    <3>1. IsFiniteSet(HandOf(x)) /\ o \notin HandOf(x) /\ Cardinality(HandOf(x)) \in Nat BY <1>10, Hands
    <3> QED BY <3>1, FS_AddElement
  <2> QED BY <1>10, <2>1
<1>13. SumInv'
  <2>1. TotalOf([x \in Values |-> Recorded(shardHist', x)]) + Cardinality(InHand') = TotalOf(given'.samples)
    <3> DEFINE T == TotalOf([x \in Values |-> Recorded(shardHist, x)])
    <3>1. T + Cardinality(InHand) = TotalOf(given.samples) BY <1>0 DEF SumInv
    <3>2. T \in Nat
      <4>1. \A x \in Values : Recorded(shardHist, x) \in Nat
        BY <1>0, AtPlacesType, RecordedIsOfPlaces DEF SnapTypes, HistTypes
      <4>2. [x \in Values |-> Recorded(shardHist, x)] \in [Values -> Nat] BY <4>1
      <4>3. IsFiniteSet(Values) BY SnapSets
      <4> QED BY <4>2, <4>3, UnitsAreFinite
    <3>3. TotalOf([x \in Values |-> Recorded(shardHist', x)]) = T BY <1>1
    <3> HIDE DEF T
    <3> QED BY <1>6, <1>11, <3>1, <3>2, <3>3
  <2>2. \A x \in Values : Recorded(shardHist', x) + Cardinality(HandOf(x)') = Given(x)'
    <3>1. \A x \in Values : Recorded(shardHist, x) \in Nat
      BY <1>0, AtPlacesType, RecordedIsOfPlaces DEF SnapTypes, HistTypes
    <3>2. \A x \in Values : Recorded(shardHist, x) + Cardinality(HandOf(x)) = Given(x) BY <1>0 DEF SumInv
    <3> QED BY <1>1, <1>6, <1>12, <3>1, <3>2
  <2>3. SumOfWord(rateWords', "num") = given'.num BY <1>0, <1>1, <1>5 DEF SumInv
  <2>4. SumOfWord(rateWords', "den") + TotalOf(DenInHand') = given'.den BY <1>0, <1>1, <1>5, <1>10 DEF SumInv
  <2>5. \A g \in Variants : rateWords'[g].num <= rateWords'[g].den + Cardinality(Adding(g)')
    BY <1>0, <1>1, <1>10 DEF SumInv
  <2> QED BY <2>1, <2>2, <2>3, <2>4, <2>5 DEF SumInv
<1> QED BY <1>7, <1>8, <1>9, <1>13 DEF RecordInv

\* The sums of the invariant are natural numbers.
LEMMA SumsAreNaturals ==
  ASSUME SnapTypes
  PROVE  /\ \A x \in Values : Recorded(shardHist, x) \in Nat /\ Given(x) \in Nat
         /\ TotalOf([x \in Values |-> Recorded(shardHist, x)]) \in Nat
         /\ TotalOf(given.samples) \in Nat
<1>1. \A x \in Values : Recorded(shardHist, x) \in Nat
  BY AtPlacesType, RecordedIsOfPlaces DEF SnapTypes, HistTypes
<1>2. IsFiniteSet(Values) /\ IsFiniteSet(Samples) BY SnapSets
<1>3. [x \in Values |-> Recorded(shardHist, x)] \in [Values -> Nat] BY <1>1
<1>4. given.samples \in [Samples -> Nat] BY DEF SnapTypes
<1>5. ASSUME NEW x \in Values PROVE Given(x) \in Nat
  <2> DEFINE S == {d \in Samples : InRange(d) = x}
             f == [d \in S |-> given.samples[d]]
  <2>1. IsFiniteSet(S) BY <1>2, FS_Subset
  <2>2. f \in [S -> Nat] BY <1>4
  <2>3. Given(x) = TotalOf(f) BY DEF Given
  <2> HIDE DEF S, f
  <2> QED BY <2>1, <2>2, <2>3, UnitsAreFinite
<1> QED BY <1>1, <1>2, <1>3, <1>4, <1>5, UnitsAreFinite

\* Taking the mutex of a shard moves nothing.
LEMMA LockShardKeeps ==
  ASSUME RecordInv, NEW o \in Observers, LockShard(o)
  PROVE  RecordInv'
<1>0. SnapTypes /\ HandInv /\ EmptyInv /\ SumInv BY DEF RecordInv
<1>1. /\ opc[o] = "shard" /\ opc' = [opc EXCEPT ![o] = "record"]
      /\ UNCHANGED <<snapKind, histSeq, shardHist, rateWords, known, observing, given>>
  BY DEF LockShard, Records
<1>2. opc'[o] = "record" /\ \A p \in Observers \ {o} : opc'[p] = opc[p] BY <1>0, <1>1 DEF SnapTypes
<1>3. InHand' = InHand BY <1>1, <1>2 DEF InHand
<1>4. \A x : HandOf(x)' = HandOf(x) BY <1>1, <1>3 DEF HandOf
<1>5. \A h \in Variants : Adding(h)' = Adding(h) BY <1>1, <1>2 DEF Adding
<1>6. DenInHand' = DenInHand BY <1>1, <1>2 DEF DenInHand
<1>7. SnapTypes' BY <1>0, <1>1 DEF SnapTypes
<1>8. HandInv' BY <1>0, <1>1, <1>2 DEF HandInv
<1>9. EmptyInv' BY <1>0, <1>1 DEF EmptyInv
<1>10. SumInv' BY <1>0, <1>1, <1>3, <1>4, <1>5, <1>6 DEF SumInv, Given
<1> QED BY <1>7, <1>8, <1>9, <1>10 DEF RecordInv

\* What is recorded leaves the hand, and is in the shard.
LEMMA RecordValueKeeps ==
  ASSUME RecordInv, NEW o \in Observers, RecordValue(o)
  PROVE  /\ RecordInv'
         /\ \A h \in Variants, i \in Shards, x \in Values : shardHist[h][i][x] <= shardHist'[h][i][x]
<1> DEFINE w == observing[o]
<1>0. SnapTypes /\ HandInv /\ EmptyInv /\ SumInv BY DEF RecordInv
<1>1. opc[o] = "record" /\ snapKind = "duration"
      /\ w.variant \in Variants /\ w.variant \in known /\ w.shard \in Shards /\ w.value \in Values
  BY <1>0 DEF RecordValue, Records, HandInv, SnapTypes
<1>2. /\ opc' = [opc EXCEPT ![o] = "idle"]
      /\ shardHist' = [shardHist EXCEPT ![w.variant][w.shard][w.value] = @ + 1]
      /\ observing' = [observing EXCEPT ![o] = NoWork]
      /\ UNCHANGED <<snapKind, histSeq, rateWords, known, given>>
  BY <1>1 DEF RecordValue, Records
<1>3. HistTypes(shardHist) BY <1>0 DEF SnapTypes, HistTypes
<1>4. /\ HistTypes(shardHist')
      /\ \A h2 \in Variants, i2 \in Shards, x \in Values :
           shardHist'[h2][i2][x] = IF h2 = w.variant /\ i2 = w.shard /\ x = w.value
                                   THEN shardHist[h2][i2][x] + 1 ELSE shardHist[h2][i2][x]
      /\ \A x \in Values : Recorded(shardHist', x) = IF x = w.value THEN Recorded(shardHist, x) + 1 ELSE Recorded(shardHist, x)
  <2> DEFINE h == w.variant
             i == w.shard
             y == w.value
  <2>1. h \in Variants /\ i \in Shards /\ y \in Values BY <1>1
  <2>2. shardHist' = [shardHist EXCEPT ![h][i][y] = @ + 1] BY <1>2
  <2> HIDE DEF h, i, y
  <2>3. HistTypes(shardHist') BY <1>3, <2>1, <2>2 DEF HistTypes
  <2>4. OneMoreAt(shardHist, shardHist', h, i, y) BY <1>3, <2>1, <2>2 DEF HistTypes, OneMoreAt
  <2>5. \A x \in Values : Recorded(shardHist', x) = IF x = y THEN Recorded(shardHist, x) + 1 ELSE Recorded(shardHist, x)
    BY <1>3, <2>1, <2>3, <2>4, OneMoreRecorded
  <2> QED BY <2>3, <2>4, <2>5 DEF h, i, y, OneMoreAt
<1>5. TotalOf([x \in Values |-> Recorded(shardHist', x)]) = TotalOf([x \in Values |-> Recorded(shardHist, x)]) + 1
  <2> DEFINE y == w.value
  <2>1. y \in Values /\ \A x \in Values : Recorded(shardHist', x) = IF x = y THEN Recorded(shardHist, x) + 1 ELSE Recorded(shardHist, x)
    BY <1>1, <1>4
  <2> HIDE DEF y
  <2> QED BY <1>3, <1>4, <2>1, OneMoreInAll
<1>6. /\ opc'[o] = "idle" /\ \A p \in Observers \ {o} : opc'[p] = opc[p] /\ observing'[p] = observing[p]
  BY <1>0, <1>2 DEF SnapTypes
<1>7. InHand' = InHand \ {o} /\ o \in InHand BY <1>1, <1>6 DEF InHand
<1>8. ASSUME NEW x \in Values
      PROVE  /\ HandOf(x)' = IF x = w.value THEN HandOf(x) \ {o} ELSE HandOf(x)
             /\ x = w.value <=> o \in HandOf(x)
  <2>1. HandOf(x)' = {p \in InHand \ {o} : observing'[p].value = x} BY <1>7 DEF HandOf
  <2>2. \A p \in InHand \ {o} : observing'[p].value = observing[p].value BY <1>6 DEF InHand
  <2>3. x = w.value <=> o \in HandOf(x) BY <1>7 DEF HandOf
  <2> QED BY <2>1, <2>2, <2>3 DEF HandOf
<1>9. Cardinality(InHand') = Cardinality(InHand) - 1 /\ Cardinality(InHand) \in Nat
  BY <1>7, Hands, FS_RemoveElement
<1>10. \A x \in Values :
         /\ Cardinality(HandOf(x)') = IF x = w.value THEN Cardinality(HandOf(x)) - 1 ELSE Cardinality(HandOf(x))
         /\ Cardinality(HandOf(x)) \in Nat
  <2>1. ASSUME NEW x \in Values, o \in HandOf(x)
        PROVE  Cardinality(HandOf(x) \ {o}) = Cardinality(HandOf(x)) - 1
    <3>1. IsFiniteSet(HandOf(x)) BY Hands
    <3> QED BY <2>1, <3>1, FS_RemoveElement
  <2>2. \A x \in Values : Cardinality(HandOf(x)) \in Nat BY Hands
  <2> QED BY <1>8, <2>1, <2>2
<1>11. /\ \A h \in Variants : Adding(h)' = Adding(h)
       /\ DenInHand' = DenInHand
  BY <1>1, <1>6 DEF Adding, DenInHand
<1>12. SnapTypes' BY <1>0, <1>2, <1>4 DEF SnapTypes, HistTypes
<1>13. HandInv' BY <1>0, <1>2, <1>6 DEF HandInv
<1>14. EmptyInv'
  <2>1. ASSUME NEW h \in Variants \ known, NEW i \in Shards, NEW x \in Values
        PROVE  shardHist'[h][i][x] = 0
    <3>1. h # w.variant /\ shardHist[h][i][x] = 0 BY <1>0, <1>1 DEF EmptyInv
    <3> QED BY <1>4, <3>1
  <2> QED BY <1>0, <1>1, <1>2, <2>1 DEF EmptyInv
<1>15. SumInv'
  <2>1. TotalOf([x \in Values |-> Recorded(shardHist', x)]) + Cardinality(InHand') = TotalOf(given'.samples)
    <3> DEFINE T == TotalOf([x \in Values |-> Recorded(shardHist, x)])
    <3>1. T + Cardinality(InHand) = TotalOf(given.samples) BY <1>0 DEF SumInv
    <3>2. T \in Nat BY <1>0, SumsAreNaturals
    <3>3. TotalOf([x \in Values |-> Recorded(shardHist', x)]) = T + 1 BY <1>5
    <3>4. TotalOf(given'.samples) = TotalOf(given.samples) BY <1>2
    <3> HIDE DEF T, w
    <3>5. T + 1 + (Cardinality(InHand) - 1) = TotalOf(given.samples) BY <1>9, <3>1, <3>2
    <3> QED BY <1>9, <3>3, <3>4, <3>5
  <2>2. \A x \in Values : Recorded(shardHist', x) + Cardinality(HandOf(x)') = Given(x)'
    <3>1. \A x \in Values : Recorded(shardHist, x) \in Nat BY <1>0, SumsAreNaturals
    <3>2. \A x \in Values : Recorded(shardHist, x) + Cardinality(HandOf(x)) = Given(x) BY <1>0 DEF SumInv
    <3>3. \A x : Given(x)' = Given(x) BY <1>2 DEF Given
    <3> HIDE DEF w
    <3> QED BY <1>4, <1>10, <3>1, <3>2, <3>3
  <2>3. SumOfWord(rateWords', "num") = given'.num BY <1>0, <1>2 DEF SumInv
  <2>4. SumOfWord(rateWords', "den") + TotalOf(DenInHand') = given'.den BY <1>0, <1>2, <1>11 DEF SumInv
  <2>5. \A g \in Variants : rateWords'[g].num <= rateWords'[g].den + Cardinality(Adding(g)')
    BY <1>0, <1>2, <1>11 DEF SumInv
  <2> QED BY <2>1, <2>2, <2>3, <2>4, <2>5 DEF SumInv
<1>16. \A h \in Variants, i \in Shards, x \in Values : shardHist[h][i][x] <= shardHist'[h][i][x]
  <2>1. \A h \in Variants, i \in Shards, x \in Values : shardHist[h][i][x] \in Nat BY <1>3 DEF HistTypes
  <2> HIDE DEF w
  <2> QED BY <1>4, <2>1
<1> QED BY <1>12, <1>13, <1>14, <1>15, <1>16 DEF RecordInv

-----------------------------------------------------------------------------
(* Adding to a rate keeps the sums. *)

RateWord == {"num", "den"}
AtVariants(rates, S, w) == [h \in S |-> rates[h][w]]

\* A sum over words is one of naturals.
LEMMA AtVariantsType ==
  ASSUME NEW rates, RateTypes(rates), NEW S, S \subseteq Variants, NEW w \in RateWord
  PROVE  /\ AtVariants(rates, S, w) \in [S -> Nat] /\ IsFiniteSet(S)
         /\ \A h \in S : AtVariants(rates, S, w)[h] = rates[h][w]
         /\ OfVariants(rates, S, w) = TotalOf(AtVariants(rates, S, w))
         /\ OfVariants(rates, S, w) \in Nat
<1>1. IsFiniteSet(S) BY SnapSets, FS_Subset
<1>2. \A h \in S : rates[h].num \in Nat /\ rates[h].den \in Nat BY DEF RateTypes
<1>3. \A h \in S : rates[h][w] \in Nat BY <1>2 DEF RateWord
<1>4. AtVariants(rates, S, w) \in [S -> Nat] BY <1>3 DEF AtVariants
<1>5. OfVariants(rates, S, w) = TotalOf(AtVariants(rates, S, w)) BY DEF OfVariants, AtVariants
<1>6. TotalOf(AtVariants(rates, S, w)) \in Nat BY <1>1, <1>4, UnitsAreFinite
<1> QED BY <1>1, <1>4, <1>5, <1>6 DEF AtVariants

\* The sum of a word is its sum over all variants.
LEMMA SumOfWordIsOfVariants ==
  ASSUME NEW rates, NEW w PROVE SumOfWord(rates, w) = OfVariants(rates, Variants, w)
BY DEF SumOfWord, OfVariants

\* A word that grows makes its sum grow by as much.
LEMMA WordGrows ==
  ASSUME NEW rates, RateTypes(rates), NEW more, RateTypes(more), NEW w \in RateWord,
         NEW h \in Variants, NEW m \in Nat, more[h][w] = rates[h][w] + m,
         \A g \in Variants \ {h} : more[g][w] = rates[g][w]
  PROVE  SumOfWord(more, w) = SumOfWord(rates, w) + m
<1> DEFINE f == AtVariants(rates, Variants, w)
           g == AtVariants(more, Variants, w)
<1>1. /\ f \in [Variants -> Nat] /\ g \in [Variants -> Nat] /\ IsFiniteSet(Variants)
      /\ \A v \in Variants : f[v] = rates[v][w] /\ g[v] = more[v][w]
      /\ SumOfWord(rates, w) = TotalOf(f) /\ SumOfWord(more, w) = TotalOf(g)
  BY AtVariantsType, SumOfWordIsOfVariants
<1> HIDE DEF f, g
<1>2. g[h] = f[h] + m /\ \A v \in Variants \ {h} : g[v] = f[v] BY <1>1
<1> QED BY <1>1, <1>2, TotalGrows

\* And leaves the other sum.
LEMMA WordStays ==
  ASSUME NEW rates, NEW more, NEW w, \A g \in Variants : more[g][w] = rates[g][w]
  PROVE  SumOfWord(more, w) = SumOfWord(rates, w)
<1>1. [h \in Variants |-> more[h][w]] = [h \in Variants |-> rates[h][w]] OBVIOUS
<1> QED BY <1>1 DEF SumOfWord

\* What recording never takes away.
RatesGrow ==
  \A h \in Variants : rateWords[h].num <= rateWords'[h].num /\ rateWords[h].den <= rateWords'[h].den

\* A numerator is added: its denominator is in a hand.
LEMMA AddNumeratorKeeps ==
  ASSUME RecordInv, NEW o \in Observers, NEW h \in Variants, NEW a \in Attempts, AddNumerator(o, h, a)
  PROVE  RecordInv' /\ RatesGrow
<1> DEFINE num == IF a[1] < 0 THEN 0 ELSE a[1]
           w == [variant |-> h, shard |-> 0, value |-> a[2]]
<1>0. SnapTypes /\ HandInv /\ EmptyInv /\ SumInv BY DEF RecordInv
<1>1. /\ snapKind = "rate" /\ opc[o] = "idle" /\ opc' = [opc EXCEPT ![o] = "den"] /\ a[2] > 0
      /\ rateWords' = [rateWords EXCEPT ![h].num = @ + num]
      /\ observing' = [observing EXCEPT ![o] = w]
      /\ known' = known \cup {h}
      /\ given' = [given EXCEPT !.num = @ + num, !.den = @ + a[2], !.by[o] = @ + 1]
      /\ UNCHANGED <<snapKind, histSeq, shardHist>>
  BY DEF AddNumerator, MayRecord, Records
<1>2. num \in {0, 1} /\ a[2] \in Nat \ {0}
  <2>1. a \in Int \X Int /\ (a[2] > 0 => a[1] <= 1) BY SnapshotAssumption
  <2>2. a[1] \in Int /\ a[2] \in Int BY <2>1
  <2> QED BY <1>1, <2>1, <2>2
<1>3. w.variant = h /\ w.value = a[2] OBVIOUS
<1> HIDE DEF num, w
<1>4. /\ opc'[o] = "den" /\ observing'[o] = w
      /\ \A p \in Observers \ {o} : opc'[p] = opc[p] /\ observing'[p] = observing[p]
  BY <1>0, <1>1 DEF SnapTypes
<1>5. /\ DOMAIN given' = {"samples", "num", "den", "by"} /\ DOMAIN given'.by = Observers
      /\ given'.samples = given.samples
      /\ given'.num = given.num + num /\ given'.den = given.den + a[2]
  BY <1>0, <1>1 DEF SnapTypes
<1>6. /\ rateWords[h].num \in Nat /\ rateWords[h].den \in Nat
      /\ rateWords'[h].num = rateWords[h].num + num /\ rateWords'[h].den = rateWords[h].den
      /\ \A g \in Variants \ {h} : rateWords'[g] = rateWords[g]
      /\ rateWords' \in [Variants -> [num : Nat, den : Nat]]
  <2>1. rateWords \in [Variants -> [num : Nat, den : Nat]] BY <1>0 DEF SnapTypes
  <2>2. rateWords[h].num \in Nat /\ rateWords[h].den \in Nat BY <2>1
  <2>3. rateWords'[h] = [rateWords[h] EXCEPT !.num = @ + num] BY <1>1, <2>1
  <2>4. rateWords'[h] \in [num : Nat, den : Nat] BY <1>2, <2>1, <2>2, <2>3
  <2>5. \A g \in Variants \ {h} : rateWords'[g] = rateWords[g] BY <1>1, <2>1
  <2>6. DOMAIN rateWords' = Variants /\ rateWords' = [g \in Variants |-> rateWords'[g]] BY <1>1, <2>1
  <2> QED BY <2>1, <2>2, <2>3, <2>4, <2>5, <2>6
<1>7. SnapTypes' BY <1>0, <1>1, <1>2, <1>5, <1>6 DEF SnapTypes
<1>8. HandInv' BY <1>0, <1>1, <1>2, <1>3, <1>4 DEF HandInv
<1>9. EmptyInv'
  <2>1. h \in known' /\ \A g \in Variants : g \notin known' => g # h /\ g \notin known BY <1>1
  <2> QED BY <1>0, <1>1, <1>6, <2>1 DEF EmptyInv
<1>10. /\ InHand' = InHand /\ \A x : HandOf(x)' = HandOf(x)
       /\ Adding(h)' = Adding(h) \cup {o} /\ o \notin Adding(h)
       /\ \A g \in Variants \ {h} : Adding(g)' = Adding(g)
  <2>1. InHand' = InHand /\ o \notin InHand BY <1>1, <1>4 DEF InHand
  <2>2. \A x : HandOf(x)' = HandOf(x)
    <3>1. \A p \in InHand : observing'[p].value = observing[p].value BY <1>4, <2>1 DEF InHand
    <3> QED BY <2>1, <3>1 DEF HandOf
  <2>3. Adding(h)' = Adding(h) \cup {o} /\ o \notin Adding(h) BY <1>1, <1>3, <1>4 DEF Adding
  <2>4. \A g \in Variants \ {h} : Adding(g)' = Adding(g) BY <1>1, <1>3, <1>4 DEF Adding
  <2> QED BY <2>1, <2>2, <2>3, <2>4
<1>11. Cardinality(Adding(h)') = Cardinality(Adding(h)) + 1 /\ Cardinality(Adding(h)) \in Nat
  BY <1>10, Hands, FS_AddElement
<1>12. DenInHand \in [Observers -> Nat] /\ DenInHand' \in [Observers -> Nat]
       /\ DenInHand[o] = 0 /\ DenInHand'[o] = a[2] /\ \A p \in Observers \ {o} : DenInHand'[p] = DenInHand[p]
  <2>1. \A p \in Observers : opc[p] = "den" => observing[p].value \in Nat BY <1>0 DEF HandInv
  <2>2. \A p \in Observers : opc'[p] = "den" => observing'[p].value \in Nat BY <1>8 DEF HandInv
  <2> QED BY <1>1, <1>3, <1>4, <2>1, <2>2 DEF DenInHand
<1>13. TotalOf(DenInHand') = TotalOf(DenInHand) + a[2] /\ TotalOf(DenInHand) \in Nat
  <2>1. IsFiniteSet(Observers) BY SnapSets
  <2>2. DenInHand'[o] = DenInHand[o] + a[2] BY <1>2, <1>12
  <2> QED BY <1>2, <1>12, <2>1, <2>2, TotalGrows, UnitsAreFinite
<1>14. /\ SumOfWord(rateWords', "num") = SumOfWord(rateWords, "num") + num
       /\ SumOfWord(rateWords', "den") = SumOfWord(rateWords, "den")
  <2>1. RateTypes(rateWords) /\ RateTypes(rateWords') BY <1>0, <1>6 DEF SnapTypes, RateTypes
  <2>2. rateWords'[h]["num"] = rateWords[h]["num"] + num /\ \A g \in Variants \ {h} : rateWords'[g]["num"] = rateWords[g]["num"]
    BY <1>6
  <2>3. \A g \in Variants : rateWords'[g]["den"] = rateWords[g]["den"] BY <1>6
  <2>4. "num" \in RateWord /\ num \in Nat BY <1>2 DEF RateWord
  <2> QED BY <2>1, <2>2, <2>3, <2>4, WordGrows, WordStays
<1>15. SumInv'
  <2>1. TotalOf([x \in Values |-> Recorded(shardHist', x)]) + Cardinality(InHand') = TotalOf(given'.samples)
    BY <1>0, <1>1, <1>5, <1>10 DEF SumInv
  <2>2. \A x \in Values : Recorded(shardHist', x) + Cardinality(HandOf(x)') = Given(x)'
    BY <1>0, <1>1, <1>5, <1>10 DEF SumInv, Given
  <2>3. SumOfWord(rateWords', "num") = given'.num BY <1>0, <1>5, <1>14 DEF SumInv
  <2>4. SumOfWord(rateWords', "den") + TotalOf(DenInHand') = given'.den
    <3>1. SumOfWord(rateWords, "den") \in Nat
      <4>1. RateTypes(rateWords) /\ "den" \in RateWord BY <1>0 DEF SnapTypes, RateTypes, RateWord
      <4> QED BY <4>1, AtVariantsType, SumOfWordIsOfVariants
    <3>2. SumOfWord(rateWords, "den") + TotalOf(DenInHand) = given.den BY <1>0 DEF SumInv
    <3> QED BY <1>2, <1>5, <1>13, <1>14, <3>1, <3>2
  <2>5. ASSUME NEW g \in Variants PROVE rateWords'[g].num <= rateWords'[g].den + Cardinality(Adding(g)')
    <3>1. rateWords[g].num <= rateWords[g].den + Cardinality(Adding(g)) BY <1>0 DEF SumInv
    <3>2. CASE g = h BY <1>2, <1>6, <1>11, <3>1, <3>2
    <3>3. CASE g # h BY <1>6, <1>10, <3>1, <3>3
    <3> QED BY <3>2, <3>3
  <2> QED BY <2>1, <2>2, <2>3, <2>4, <2>5 DEF SumInv
<1>16. RatesGrow
  <2>1. \A g \in Variants : rateWords[g].num \in Nat /\ rateWords[g].den \in Nat BY <1>0 DEF SnapTypes
  <2> QED BY <1>2, <1>6, <2>1 DEF RatesGrow
<1> QED BY <1>7, <1>8, <1>9, <1>15, <1>16 DEF RecordInv

\* The denominator leaves the hand, and is in the word.
LEMMA DenominatorOfKeeps ==
  ASSUME RecordInv, NEW o \in Observers, NEW h, NEW m, AddRateDenominator(o),
         observing[o].variant = h, observing[o].value = m
  PROVE  RecordInv' /\ RatesGrow
<1>0. SnapTypes /\ HandInv /\ EmptyInv /\ SumInv BY DEF RecordInv
<1>1. /\ opc[o] = "den" /\ opc' = [opc EXCEPT ![o] = "idle"]
      /\ rateWords' = [rateWords EXCEPT ![h].den = @ + m]
      /\ observing' = [observing EXCEPT ![o] = NoWork]
      /\ UNCHANGED <<snapKind, histSeq, shardHist, known, given>>
  BY DEF AddRateDenominator, Records
<1>2. snapKind = "rate" /\ h \in known /\ h \in Variants /\ m \in Nat \ {0}
  BY <1>0, <1>1 DEF HandInv, SnapTypes
<1>4. /\ opc'[o] = "idle" /\ \A p \in Observers \ {o} : opc'[p] = opc[p] /\ observing'[p] = observing[p]
  BY <1>0, <1>1 DEF SnapTypes
<1>6. /\ rateWords[h].num \in Nat /\ rateWords[h].den \in Nat
      /\ rateWords'[h].num = rateWords[h].num /\ rateWords'[h].den = rateWords[h].den + m
      /\ \A g \in Variants \ {h} : rateWords'[g] = rateWords[g]
      /\ rateWords' \in [Variants -> [num : Nat, den : Nat]]
  <2>1. rateWords \in [Variants -> [num : Nat, den : Nat]] BY <1>0 DEF SnapTypes
  <2>2. rateWords[h].num \in Nat /\ rateWords[h].den \in Nat BY <1>2, <2>1
  <2>3. rateWords'[h] = [rateWords[h] EXCEPT !.den = @ + m] BY <1>1, <1>2, <2>1
  <2>4. rateWords'[h] \in [num : Nat, den : Nat] BY <1>2, <2>1, <2>2, <2>3
  <2>5. \A g \in Variants \ {h} : rateWords'[g] = rateWords[g] BY <1>1, <2>1
  <2>6. DOMAIN rateWords' = Variants /\ rateWords' = [g \in Variants |-> rateWords'[g]] BY <1>1, <2>1
  <2>7. rateWords'[h].num = rateWords[h].num /\ rateWords'[h].den = rateWords[h].den + m
    BY <1>2, <2>1, <2>3
  <2> QED BY <2>1, <2>2, <2>4, <2>5, <2>6, <2>7
<1>7. SnapTypes' BY <1>0, <1>1, <1>6 DEF SnapTypes
<1>8. HandInv' BY <1>0, <1>1, <1>4 DEF HandInv
<1>9. EmptyInv' BY <1>0, <1>1, <1>2, <1>6 DEF EmptyInv
<1>10. /\ InHand' = InHand /\ \A x : HandOf(x)' = HandOf(x)
       /\ Adding(h)' = Adding(h) \ {o} /\ o \in Adding(h)
       /\ \A g \in Variants \ {h} : Adding(g)' = Adding(g)
  <2>1. InHand' = InHand /\ o \notin InHand BY <1>1, <1>4 DEF InHand
  <2>2. \A x : HandOf(x)' = HandOf(x)
    <3>1. \A p \in InHand : observing'[p].value = observing[p].value BY <1>4, <2>1 DEF InHand
    <3> QED BY <2>1, <3>1 DEF HandOf
  <2>3. Adding(h)' = Adding(h) \ {o} /\ o \in Adding(h) BY <1>1, <1>4 DEF Adding
  <2>4. \A g \in Variants \ {h} : Adding(g)' = Adding(g) BY <1>1, <1>4 DEF Adding
  <2> QED BY <2>1, <2>2, <2>3, <2>4
<1>11. Cardinality(Adding(h)') = Cardinality(Adding(h)) - 1 /\ Cardinality(Adding(h)) \in Nat
  BY <1>10, Hands, FS_RemoveElement
<1>12. DenInHand \in [Observers -> Nat] /\ DenInHand' \in [Observers -> Nat]
       /\ DenInHand[o] = m /\ DenInHand'[o] = 0 /\ \A p \in Observers \ {o} : DenInHand'[p] = DenInHand[p]
  <2>1. \A p \in Observers : opc[p] = "den" => observing[p].value \in Nat BY <1>0 DEF HandInv
  <2> QED BY <1>1, <1>4, <2>1 DEF DenInHand
<1>13. TotalOf(DenInHand) = TotalOf(DenInHand') + m /\ TotalOf(DenInHand') \in Nat
  <2>1. IsFiniteSet(Observers) BY SnapSets
  <2>2. DenInHand[o] = DenInHand'[o] + m BY <1>2, <1>12
  <2> QED BY <1>2, <1>12, <2>1, <2>2, TotalGrows, UnitsAreFinite
<1>14. /\ SumOfWord(rateWords', "den") = SumOfWord(rateWords, "den") + m
       /\ SumOfWord(rateWords', "num") = SumOfWord(rateWords, "num")
  <2>1. RateTypes(rateWords) /\ RateTypes(rateWords') BY <1>0, <1>6 DEF SnapTypes, RateTypes
  <2>2. rateWords'[h]["den"] = rateWords[h]["den"] + m /\ \A g \in Variants \ {h} : rateWords'[g]["den"] = rateWords[g]["den"]
    BY <1>6
  <2>3. \A g \in Variants : rateWords'[g]["num"] = rateWords[g]["num"] BY <1>6
  <2>4. "den" \in RateWord /\ m \in Nat BY <1>2 DEF RateWord
  <2> QED BY <1>2, <2>1, <2>2, <2>3, <2>4, WordGrows, WordStays
<1>15. SumInv'
  <2>1. TotalOf([x \in Values |-> Recorded(shardHist', x)]) + Cardinality(InHand') = TotalOf(given'.samples)
    BY <1>0, <1>1, <1>10 DEF SumInv
  <2>2. \A x \in Values : Recorded(shardHist', x) + Cardinality(HandOf(x)') = Given(x)'
    BY <1>0, <1>1, <1>10 DEF SumInv, Given
  <2>3. SumOfWord(rateWords', "num") = given'.num BY <1>0, <1>1, <1>14 DEF SumInv
  <2>4. SumOfWord(rateWords', "den") + TotalOf(DenInHand') = given'.den
    <3>1. SumOfWord(rateWords, "den") \in Nat
      <4>1. RateTypes(rateWords) /\ "den" \in RateWord BY <1>0 DEF SnapTypes, RateTypes, RateWord
      <4> QED BY <4>1, AtVariantsType, SumOfWordIsOfVariants
    <3>2. SumOfWord(rateWords, "den") + TotalOf(DenInHand) = given.den BY <1>0 DEF SumInv
    <3> QED BY <1>1, <1>2, <1>13, <1>14, <3>1, <3>2
  <2>5. ASSUME NEW g \in Variants PROVE rateWords'[g].num <= rateWords'[g].den + Cardinality(Adding(g)')
    <3>1. rateWords[g].num <= rateWords[g].den + Cardinality(Adding(g)) BY <1>0 DEF SumInv
    <3>2. CASE g = h BY <1>2, <1>6, <1>11, <3>1, <3>2
    <3>3. CASE g # h BY <1>6, <1>10, <3>1, <3>3
    <3> QED BY <3>2, <3>3
  <2> QED BY <2>1, <2>2, <2>3, <2>4, <2>5 DEF SumInv
<1>16. RatesGrow
  <2>1. \A g \in Variants : rateWords[g].num \in Nat /\ rateWords[g].den \in Nat BY <1>0 DEF SnapTypes
  <2> QED BY <1>2, <1>6, <2>1 DEF RatesGrow
<1> QED BY <1>7, <1>8, <1>9, <1>15, <1>16 DEF RecordInv

\* The same, whatever the denominator.
LEMMA AddRateDenominatorKeeps ==
  ASSUME RecordInv, NEW o \in Observers, AddRateDenominator(o)
  PROVE  RecordInv' /\ RatesGrow
BY DenominatorOfKeeps

-----------------------------------------------------------------------------
(* Recording keeps what the reader has. *)

HistBelow(a, b) == \A h \in Variants, i \in Shards, x \in Values : a[h][i][x] <= b[h][i][x]
RatesBelow(a, b) == \A h \in Variants : a[h].num <= b[h].num /\ a[h].den <= b[h].den

\* A sum over more places, or of more, is not less.
LEMMA PlacesMonotone ==
  ASSUME NEW a, HistTypes(a), NEW b, HistTypes(b), HistBelow(a, b),
         NEW S, NEW T, S \subseteq T, T \subseteq Places, NEW x \in Values
  PROVE  OfPlaces(a, S, x) <= OfPlaces(b, T, x) /\ OfPlaces(a, S, x) \in Nat /\ OfPlaces(b, T, x) \in Nat
<1> DEFINE f == AtPlaces(a, S, x)
           g == AtPlaces(b, T, x)
<1>0. S \subseteq Places OBVIOUS
<1>1. /\ f \in [S -> Nat] /\ IsFiniteSet(S) /\ \A p \in S : f[p] = a[p[1]][p[2]][x]
      /\ OfPlaces(a, S, x) = TotalOf(f) /\ OfPlaces(a, S, x) \in Nat
  BY <1>0, AtPlacesType
<1>2. /\ g \in [T -> Nat] /\ IsFiniteSet(T) /\ \A p \in T : g[p] = b[p[1]][p[2]][x]
      /\ OfPlaces(b, T, x) = TotalOf(g) /\ OfPlaces(b, T, x) \in Nat
  BY AtPlacesType
<1>3. \A p \in S : p[1] \in Variants /\ p[2] \in Shards BY DEF Places
<1>4. \A p \in S : f[p] <= g[p] BY <1>1, <1>2, <1>3 DEF HistBelow
<1> HIDE DEF f, g
<1> QED BY <1>1, <1>2, <1>4, TotalMonotone

\* The same for the words of a rate.
LEMMA VariantsMonotone ==
  ASSUME NEW a, RateTypes(a), NEW b, RateTypes(b), RatesBelow(a, b),
         NEW S, NEW T, S \subseteq T, T \subseteq Variants, NEW w \in RateWord
  PROVE  OfVariants(a, S, w) <= OfVariants(b, T, w) /\ OfVariants(a, S, w) \in Nat /\ OfVariants(b, T, w) \in Nat
<1> DEFINE f == AtVariants(a, S, w)
           g == AtVariants(b, T, w)
<1>0. S \subseteq Variants OBVIOUS
<1>1. /\ f \in [S -> Nat] /\ IsFiniteSet(S) /\ \A h \in S : f[h] = a[h][w]
      /\ OfVariants(a, S, w) = TotalOf(f) /\ OfVariants(a, S, w) \in Nat
  BY ONLY <1>0, RateTypes(a), w \in RateWord, AtVariantsType
<1>2. /\ g \in [T -> Nat] /\ IsFiniteSet(T) /\ \A h \in T : g[h] = b[h][w]
      /\ OfVariants(b, T, w) = TotalOf(g) /\ OfVariants(b, T, w) \in Nat
  BY AtVariantsType
<1>3. \A h \in Variants : a[h][w] <= b[h][w] BY DEF RatesBelow, RateWord
<1>4. \A h \in S : f[h] <= g[h] BY <1>1, <1>2, <1>3
<1> HIDE DEF f, g
<1> QED BY <1>1, <1>2, <1>4, TotalMonotone

\* The variants a sum of the invariant ranges over.
LEMMA WalkTypes ==
  ASSUME WalkInv
  PROVE  /\ \A n : FirstLoaded(n) \subseteq Range(snap.order) /\ FirstLoaded(n) \subseteq Variants
         /\ Seen \subseteq Places /\ DoneWith \subseteq Places
         /\ Len(snap.order) \in Nat /\ NumsLoaded \in Nat /\ DensLoaded \in Nat
         /\ \A k \in 1..Len(snap.order) : snap.order[k] \in Variants
<1>1. /\ snap.order \in Seq(Variants) /\ DOMAIN snap.order = 1..Len(snap.order) /\ Len(snap.order) \in Nat
      /\ snap.pc \in {"shards", "collect", "num", "den"} => snap.v \in 1..Len(snap.order)
  BY DEF WalkInv
<1>2. \A k \in 1..Len(snap.order) : snap.order[k] \in Variants BY <1>1
<1>3. \A n : FirstLoaded(n) \subseteq Range(snap.order) /\ FirstLoaded(n) \subseteq Variants
  BY <1>1, <1>2 DEF FirstLoaded, Range
<1>4. Seen \subseteq Places BY DEF Seen, Before
<1>5. NumsLoaded \in Nat /\ DensLoaded \in Nat BY <1>1 DEF NumsLoaded, DensLoaded
<1> QED BY <1>1, <1>2, <1>3, <1>4, <1>5 DEF DoneWith

\* What the reader holds stays between what was and what is, as that only grows.
LEMMA RecordingKeepsReader ==
  ASSUME SnapTypes, SnapTypes', StartInv, WalkInv, MergedInv, RateInv,
         known \subseteq known', HistBelow(shardHist, shardHist'), RatesBelow(rateWords, rateWords'),
         UNCHANGED <<snapKind, snap, atStart>>
  PROVE  StartInv' /\ WalkInv' /\ MergedInv' /\ RateInv'
<1>1. /\ HistTypes(shardHist) /\ HistTypes(shardHist') /\ HistTypes(atStart.hist)
      /\ RateTypes(rateWords) /\ RateTypes(rateWords') /\ RateTypes(atStart.words)
  BY DEF SnapTypes, StartInv, HistTypes, RateTypes
<1>2. StartInv'
  <2>1. \A h \in Variants, i \in Shards, x \in Values :
          atStart.hist[h][i][x] \in Nat /\ shardHist[h][i][x] \in Nat /\ shardHist'[h][i][x] \in Nat
    BY <1>1 DEF HistTypes
  <2>2. ASSUME NEW h \in Variants, NEW i \in Shards, NEW x \in Values
        PROVE  atStart'.hist[h][i][x] <= shardHist'[h][i][x]
    <3>1. atStart.hist[h][i][x] <= shardHist[h][i][x] BY DEF StartInv
    <3>2. shardHist[h][i][x] <= shardHist'[h][i][x] BY DEF HistBelow
    <3>3. atStart' = atStart OBVIOUS
    <3> QED BY <2>1, <3>1, <3>2, <3>3
  <2>3. \A h \in Variants : /\ atStart.words[h].num \in Nat /\ atStart.words[h].den \in Nat
                            /\ rateWords[h].num \in Nat /\ rateWords[h].den \in Nat
                            /\ rateWords'[h].num \in Nat /\ rateWords'[h].den \in Nat
    BY <1>1 DEF RateTypes
  <2>4. \A h \in Variants : /\ atStart'.words[h].num <= rateWords'[h].num
                            /\ atStart'.words[h].den <= rateWords'[h].den
    BY <2>3 DEF RatesBelow, StartInv
  <2> QED BY <2>2, <2>4 DEF StartInv
<1>3. Seen' = Seen /\ DoneWith' = DoneWith /\ NumsLoaded' = NumsLoaded /\ DensLoaded' = DensLoaded
      /\ \A n : FirstLoaded(n)' = FirstLoaded(n)
  BY DEF Seen, DoneWith, NumsLoaded, DensLoaded, FirstLoaded
<1>4. WalkInv' BY <1>3 DEF WalkInv
<1>5. MergedInv'
  <2>1. CASE snapKind = "duration"
    <3>1. ASSUME NEW x \in Values
          PROVE  /\ snap'.merged[x] <= OfPlaces(shardHist', DoneWith', x)
                 /\ ~snap'.raced => OfPlaces(atStart'.hist, DoneWith', x) <= snap'.merged[x]
      <4>1. /\ snap.merged[x] <= OfPlaces(shardHist, DoneWith, x)
            /\ ~snap.raced => OfPlaces(atStart.hist, DoneWith, x) <= snap.merged[x]
        BY <2>1 DEF MergedInv
      <4>2. /\ OfPlaces(shardHist, DoneWith, x) <= OfPlaces(shardHist', DoneWith, x)
            /\ OfPlaces(shardHist, DoneWith, x) \in Nat /\ OfPlaces(shardHist', DoneWith, x) \in Nat
        BY <1>1, WalkTypes, PlacesMonotone
      <4>3. snap.merged[x] \in Nat BY DEF WalkInv
      <4> QED BY <1>3, <4>1, <4>2, <4>3
    <3> QED BY <2>1, <3>1 DEF MergedInv
  <2>2. CASE snapKind # "duration" BY <2>2 DEF MergedInv
  <2> QED BY <2>1, <2>2
<1>6. RateInv'
  <2>1. CASE snapKind = "rate"
    <3> DEFINE N == FirstLoaded(NumsLoaded)
               D == FirstLoaded(DensLoaded)
               bound == Cardinality(Observers) * NumsLoaded
               ahead == IF snap.pc = "den" THEN rateWords[snap.order[snap.v]].den ELSE 0
               aheadNow == IF snap.pc = "den" THEN rateWords'[snap.order[snap.v]].den ELSE 0
    <3>1. /\ OfVariants(atStart.words, N, "num") <= snap.num
          /\ snap.num <= OfVariants(rateWords, N, "num")
          /\ OfVariants(atStart.words, D, "den") <= snap.den
          /\ snap.den <= OfVariants(rateWords, D, "den")
          /\ snap.num <= snap.den + bound + ahead
      BY <2>1 DEF RateInv
    <3>2. N \subseteq Variants /\ D \subseteq Variants /\ "num" \in RateWord /\ "den" \in RateWord
      BY WalkTypes DEF RateWord
    <3>3. N' = N /\ D' = D BY <1>3
    <3>4. bound \in Nat
      <4>1. Cardinality(Observers) \in Nat BY SnapSets, FS_CardinalityType
      <4>2. NumsLoaded \in Nat BY WalkTypes
      <4> QED BY <4>1, <4>2
    <3>5. ahead \in Nat /\ aheadNow \in Nat /\ ahead <= aheadNow
      <4>1. CASE snap.pc = "den"
        <5>1. snap.order[snap.v] \in Variants BY <4>1, WalkTypes DEF WalkInv
        <5> QED BY <1>1, <4>1, <5>1 DEF RateTypes, RatesBelow
      <4>2. CASE snap.pc # "den" BY <4>2
      <4> QED BY <4>1, <4>2
    <3>6. snap.num \in Nat /\ snap.den \in Nat BY DEF WalkInv
    <3>7. snap'.num = snap.num /\ snap'.den = snap.den /\ snap'.pc = snap.pc OBVIOUS
    <3>8. (IF snap'.pc = "den" THEN rateWords'[snap'.order[snap'.v]].den ELSE 0) = aheadNow OBVIOUS
    <3>9. bound' = bound BY <1>3
    <3> HIDE DEF N, D, bound, ahead, aheadNow
    <3>10. /\ OfVariants(rateWords, N, "num") <= OfVariants(rateWords', N, "num")
           /\ OfVariants(rateWords, N, "num") \in Nat /\ OfVariants(rateWords', N, "num") \in Nat
      BY <1>1, <3>2, VariantsMonotone
    <3>11. /\ OfVariants(rateWords, D, "den") <= OfVariants(rateWords', D, "den")
           /\ OfVariants(rateWords, D, "den") \in Nat /\ OfVariants(rateWords', D, "den") \in Nat
      BY <1>1, <3>2, VariantsMonotone
    <3>12. /\ OfVariants(atStart'.words, N, "num") <= snap'.num
           /\ snap'.num <= OfVariants(rateWords', N, "num")
           /\ OfVariants(atStart'.words, D, "den") <= snap'.den
           /\ snap'.den <= OfVariants(rateWords', D, "den")
      BY <3>1, <3>6, <3>7, <3>10, <3>11
    <3>13. snap'.num <= snap'.den + bound + aheadNow BY <3>1, <3>4, <3>5, <3>6, <3>7
    <3>14. /\ OfVariants(atStart'.words, N', "num") <= snap'.num
           /\ snap'.num <= OfVariants(rateWords', N', "num")
           /\ OfVariants(atStart'.words, D', "den") <= snap'.den
           /\ snap'.den <= OfVariants(rateWords', D', "den")
      BY <3>3, <3>12
    <3>15. snap'.num <= snap'.den + bound' + (IF snap'.pc = "den" THEN rateWords'[snap'.order[snap'.v]].den ELSE 0)
      BY <3>8, <3>9, <3>13
    <3> QED BY <2>1, <3>14, <3>15 DEF RateInv, N, D, bound
  <2>2. CASE snapKind # "rate" BY <2>2 DEF RateInv
  <2> QED BY <2>1, <2>2
<1> QED BY <1>2, <1>4, <1>5, <1>6

\* What does not change does not shrink.
LEMMA UnchangedBelow ==
  ASSUME SnapTypes
  PROVE  HistBelow(shardHist, shardHist) /\ RatesBelow(rateWords, rateWords)
<1>1. \A h \in Variants, i \in Shards, x \in Values : shardHist[h][i][x] \in Nat BY DEF SnapTypes
<1>2. \A h \in Variants : rateWords[h].num \in Nat /\ rateWords[h].den \in Nat BY DEF SnapTypes
<1> QED BY <1>1, <1>2 DEF HistBelow, RatesBelow

\* Every step of a virtual user keeps the invariant.
LEMMA RecordingKeeps ==
  ASSUME SnapInv, NEW o \in Observers,
         \/ \E h \in Variants : \/ \E d \in Samples : Observe(o, h, d)
                                \/ \E a \in Attempts : AddNumerator(o, h, a)
         \/ LockShard(o) \/ RecordValue(o) \/ AddRateDenominator(o)
  PROVE  SnapInv'
<1>0. /\ RecordInv /\ SnapTypes /\ StartInv /\ WalkInv /\ MergedInv /\ RateInv
      /\ HistBelow(shardHist, shardHist) /\ RatesBelow(rateWords, rateWords)
  BY UnchangedBelow DEF SnapInv, RecordInv
<1> DEFINE Kept == /\ RecordInv' /\ UNCHANGED <<snapKind, snap, atStart>> /\ known \subseteq known'
                   /\ HistBelow(shardHist, shardHist') /\ RatesBelow(rateWords, rateWords')
<1>1. ASSUME NEW h \in Variants, NEW d \in Samples, Observe(o, h, d) PROVE Kept
  <2>1. RecordInv' BY <1>0, <1>1, ObserveKeeps
  <2>2. known' = known \cup {h} /\ UNCHANGED <<snapKind, shardHist, rateWords, snap, atStart>> BY <1>1 DEF Observe
  <2> QED BY <1>0, <2>1, <2>2
<1>2. ASSUME NEW h \in Variants, NEW a \in Attempts, AddNumerator(o, h, a) PROVE Kept
  <2>1. RecordInv' /\ RatesBelow(rateWords, rateWords') BY <1>0, <1>2, AddNumeratorKeeps DEF RatesGrow, RatesBelow
  <2>2. known' = known \cup {h} /\ UNCHANGED <<snapKind, shardHist, snap, atStart>> BY <1>2 DEF AddNumerator
  <2> QED BY <1>0, <2>1, <2>2
<1>3. ASSUME LockShard(o) PROVE Kept
  <2>1. RecordInv' BY <1>0, <1>3, LockShardKeeps
  <2>2. UNCHANGED <<known, snapKind, shardHist, rateWords, snap, atStart>> BY <1>3 DEF LockShard
  <2> QED BY <1>0, <2>1, <2>2
<1>4. ASSUME RecordValue(o) PROVE Kept
  <2>1. RecordInv' /\ HistBelow(shardHist, shardHist') BY <1>0, <1>4, RecordValueKeeps DEF HistBelow
  <2>2. UNCHANGED <<known, snapKind, rateWords, snap, atStart>> BY <1>4 DEF RecordValue
  <2> QED BY <1>0, <2>1, <2>2
<1>5. ASSUME AddRateDenominator(o) PROVE Kept
  <2>1. RecordInv' /\ RatesBelow(rateWords, rateWords') BY <1>0, <1>5, AddRateDenominatorKeeps DEF RatesGrow, RatesBelow
  <2>2. UNCHANGED <<known, snapKind, shardHist, snap, atStart>> BY <1>5 DEF AddRateDenominator
  <2> QED BY <1>0, <2>1, <2>2
<1>6. Kept BY <1>1, <1>2, <1>3, <1>4, <1>5
<1>7. SnapTypes' BY <1>6 DEF RecordInv
<1>8. StartInv' /\ WalkInv' /\ MergedInv' /\ RateInv' BY <1>0, <1>6, <1>7, RecordingKeepsReader
<1> QED BY <1>6, <1>8 DEF SnapInv, RecordInv

-----------------------------------------------------------------------------
(* The reader's walk over variants and shards. *)

\* Any order of the variants that exist has each of them once.
LEMMA OrderOfAll ==
  ASSUME NEW K, K \subseteq Variants, NEW order \in SetToSeqs(K)
  PROVE  order \in Seq(Variants) /\ OnceEach(order) /\ Range(order) = K
<1> DEFINE n == Cardinality(K)
<1>1. IsFiniteSet(K) BY SnapSets, FS_Subset
<1>2. n \in Nat BY <1>1, FS_CardinalityType
<1>3. order \in [1..n -> K] /\ \A i, j \in 1..n : i # j => order[i] # order[j] BY DEF SetToSeqs
<1> HIDE DEF n
<1>4. DOMAIN order = 1..n /\ order \in Seq(Variants) BY <1>2, <1>3
<1>5. OnceEach(order) BY <1>3, <1>4 DEF OnceEach
<1>6. order \in Injection(1..n, K) BY <1>3 DEF Injection, IsInjective
<1>7. Cardinality(1..n) = n /\ IsFiniteSet(1..n) BY <1>2, FS_Interval
<1>8. order \in Surjection(1..n, K) BY <1>1, <1>6, <1>7, FS_Injection DEF n
<1>9. Range(order) = K BY <1>3, <1>4, <1>8 DEF Range, Surjection
<1> QED BY <1>4, <1>5, <1>9

\* The next place is not one of those before it, and those before the one after
\* it are the same and it.
LEMMA BeforeNext ==
  ASSUME NEW order \in Seq(Variants), OnceEach(order), NEW v \in 1..Len(order), NEW i \in Shards
  PROVE  /\ <<order[v], i>> \in Places /\ <<order[v], i>> \notin Before(order, v, i)
         /\ i < histShards - 1 => Before(order, v, i + 1) = Before(order, v, i) \cup {<<order[v], i>>}
         /\ i = histShards - 1 => Before(order, v + 1, 0) = Before(order, v, i) \cup {<<order[v], i>>}
         /\ i = histShards - 1 /\ v = Len(order) =>
              {p \in Places : p[1] \in Range(order)} = Before(order, v, i) \cup {<<order[v], i>>}
<1> DEFINE at == <<order[v], i>>
<1>1. histShards \in Nat \ {0} /\ Shards = 0..histShards-1 /\ i \in Nat BY SnapshotAssumption DEF Shards
<1>2. DOMAIN order = 1..Len(order) /\ Len(order) \in Nat /\ v \in Nat OBVIOUS
<1>3. at \in Places /\ at[1] = order[v] /\ at[2] = i BY DEF Places
<1>4. \A p \in Places : p[1] \in Variants /\ p[2] \in 0..histShards-1 /\ p = <<p[1], p[2]>> BY <1>1 DEF Places
<1>5. \A k \in 1..Len(order) : order[k] = order[v] => k = v BY <1>2 DEF OnceEach
<1>6. \A p \in Places : \A w, j : p \in Before(order, w, j) <=>
        \E k \in 1..Len(order) : order[k] = p[1] /\ (k < w \/ (k = w /\ p[2] < j))
  BY <1>2 DEF Before
<1>7. \A w, j : Before(order, w, j) \subseteq Places BY DEF Before
<1>9. ASSUME NEW p \in Places
      PROVE  /\ p = at <=> p[1] = order[v] /\ p[2] = i
             /\ p[2] \in Nat /\ p[2] <= histShards - 1
  BY <1>1, <1>3, <1>4 DEF at
<1> HIDE DEF at
<1>8. at \notin Before(order, v, i)
  <2>1. ASSUME at \in Before(order, v, i) PROVE FALSE
    <3>1. PICK k \in 1..Len(order) : order[k] = at[1] /\ (k < v \/ (k = v /\ at[2] < i)) BY <1>3, <1>6, <2>1
    <3>2. k = v BY <1>3, <1>5, <3>1
    <3> QED BY <1>1, <1>2, <1>3, <3>1, <3>2
  <2> QED BY <2>1
<1>10. ASSUME NEW p \in Places, i < histShards - 1
       PROVE  p \in Before(order, v, i + 1) <=> (p \in Before(order, v, i) \/ p = at)
  <2>1. p[2] < i + 1 <=> (p[2] < i \/ p[2] = i) BY <1>1, <1>9
  <2> QED BY <1>2, <1>6, <1>9, <2>1
<1>11. ASSUME NEW p \in Places, i = histShards - 1
       PROVE  p \in Before(order, v + 1, 0) <=> (p \in Before(order, v, i) \/ p = at)
  <2>1. p[2] < i \/ p[2] = i BY <1>1, <1>9, <1>11
  <2>2. \A k \in 1..Len(order) : (k < v + 1 \/ (k = v + 1 /\ p[2] < 0)) <=> (k < v \/ k = v) BY <1>2, <1>9
  <2> QED BY <1>2, <1>6, <1>9, <2>1, <2>2
<1>12. ASSUME NEW p \in Places, i = histShards - 1, v = Len(order)
       PROVE  p[1] \in Range(order) <=> (p \in Before(order, v, i) \/ p = at)
  <2>1. p[2] < i \/ p[2] = i BY <1>1, <1>9, <1>12
  <2>4. \A n \in Nat : \A k \in 1..n : k < n \/ k = n OBVIOUS
  <2>2. \A k \in 1..Len(order) : k < v \/ k = v BY ONLY <1>2, <1>12, <2>4
  <2>3. p[1] \in Range(order) <=> \E k \in 1..Len(order) : order[k] = p[1] BY <1>2 DEF Range
  <2> QED BY <1>2, <1>6, <1>9, <2>1, <2>2, <2>3
<1> QED BY <1>3, <1>7, <1>8, <1>10, <1>11, <1>12 DEF at

\* The sum over one place more, that was not there.
LEMMA PlaceMore ==
  ASSUME NEW hist, HistTypes(hist), NEW S, S \subseteq Places, NEW at \in Places, at \notin S, NEW x \in Values
  PROVE  /\ OfPlaces(hist, S \cup {at}, x) = OfPlaces(hist, S, x) + hist[at[1]][at[2]][x]
         /\ OfPlaces(hist, S, x) \in Nat /\ hist[at[1]][at[2]][x] \in Nat
<1> DEFINE T == S \cup {at}
           f == AtPlaces(hist, S, x)
           g == AtPlaces(hist, T, x)
<1>1. /\ f \in [S -> Nat] /\ IsFiniteSet(S) /\ \A p \in S : f[p] = hist[p[1]][p[2]][x]
      /\ OfPlaces(hist, S, x) = TotalOf(f) /\ OfPlaces(hist, S, x) \in Nat
  BY AtPlacesType
<1>2. T \subseteq Places OBVIOUS
<1>3. /\ g \in [T -> Nat] /\ \A p \in T : g[p] = hist[p[1]][p[2]][x]
      /\ OfPlaces(hist, T, x) = TotalOf(g)
  <2> HIDE DEF T
  <2> QED BY <1>2, AtPlacesType
<1> HIDE DEF f, g
<1>4. TotalOf(g) = TotalOf(f) + g[at]
  <2>1. g \in [S \cup {at} -> Nat] /\ \A p \in S : g[p] = f[p] BY <1>1, <1>3
  <2>2. f \in [S -> Nat] /\ IsFiniteSet(S) BY <1>1
  <2> QED BY ONLY <2>1, <2>2, at \notin S, TotalExtends
<1> QED BY <1>1, <1>3, <1>4

\* The same for the words of a rate.
LEMMA VariantMore ==
  ASSUME NEW rates, RateTypes(rates), NEW S, S \subseteq Variants, NEW h \in Variants, h \notin S, NEW w \in RateWord
  PROVE  /\ OfVariants(rates, S \cup {h}, w) = OfVariants(rates, S, w) + rates[h][w]
         /\ OfVariants(rates, S, w) \in Nat /\ rates[h][w] \in Nat
<1> DEFINE T == S \cup {h}
           f == AtVariants(rates, S, w)
           g == AtVariants(rates, T, w)
<1>1. /\ f \in [S -> Nat] /\ IsFiniteSet(S) /\ \A p \in S : f[p] = rates[p][w]
      /\ OfVariants(rates, S, w) = TotalOf(f) /\ OfVariants(rates, S, w) \in Nat
  BY AtVariantsType
<1>2. T \subseteq Variants OBVIOUS
<1>3. /\ g \in [T -> Nat] /\ \A p \in T : g[p] = rates[p][w]
      /\ OfVariants(rates, T, w) = TotalOf(g)
  <2> HIDE DEF T
  <2> QED BY <1>2, AtVariantsType
<1> HIDE DEF f, g
<1>4. TotalOf(g) = TotalOf(f) + g[h]
  <2>1. g \in [S \cup {h} -> Nat] /\ \A p \in S : g[p] = f[p] BY <1>1, <1>3
  <2>2. f \in [S -> Nat] /\ IsFiniteSet(S) BY <1>1
  <2> QED BY ONLY <2>1, <2>2, h \notin S, TotalExtends
<1> QED BY <1>1, <1>3, <1>4

\* The sum over nothing.
LEMMA NoPlaces == ASSUME NEW f, DOMAIN f = {} PROVE TotalOf(f) = 0
<1>1. UNION {{x} \X (1..f[x]) : x \in DOMAIN f} = {} OBVIOUS
<1> QED BY <1>1, FS_EmptySet DEF TotalOf

\* So over no place, and over no variant.
LEMMA OverNothing ==
  /\ \A hist, x : OfPlaces(hist, {}, x) = 0
  /\ \A rates, w : OfVariants(rates, {}, w) = 0
BY NoPlaces DEF OfPlaces, OfVariants

\* A step of the reader records nothing.
LEMMA ReadingKeepsRecords ==
  ASSUME SnapInv, UNCHANGED recording
  PROVE  RecordInv'
<1>1. /\ SnapTypes /\ HandInv /\ EmptyInv /\ SumInv
      /\ UNCHANGED <<snapKind, histSeq, shardHist, shardMu, rateWords, known, opc, observing, given>>
  BY DEF SnapInv, recording
<1>2. SnapTypes' BY <1>1 DEF SnapTypes
<1>3. HandInv' BY <1>1 DEF HandInv
<1>4. EmptyInv' BY <1>1 DEF EmptyInv
<1>5. InHand' = InHand /\ DenInHand' = DenInHand
      /\ (\A x : HandOf(x)' = HandOf(x) /\ Adding(x)' = Adding(x) /\ Given(x)' = Given(x))
  BY <1>1 DEF InHand, DenInHand, HandOf, Adding, Given
<1>6. SumInv' BY <1>1, <1>5 DEF SumInv
<1> QED BY <1>2, <1>3, <1>4, <1>6 DEF RecordInv

\* What was there when the read began is remembered.
LEMMA StartStays ==
  ASSUME SnapInv, UNCHANGED <<recording, atStart>>, snap.pc # "idle", snap'.order = snap.order
  PROVE  StartInv'
<1>1. StartInv /\ UNCHANGED <<shardHist, rateWords, atStart>> BY DEF SnapInv, recording
<1> QED BY <1>1 DEF StartInv

\* A read begins with every variant there is, and with nothing merged.
LEMMA BeginReadKeeps ==
  ASSUME SnapInv, BeginRead
  PROVE  SnapInv'
<1>0. /\ SnapTypes /\ HandInv /\ EmptyInv /\ SumInv /\ StartInv /\ WalkInv /\ MergedInv /\ RateInv
  BY DEF SnapInv
<1>1. RecordInv' BY ReadingKeepsRecords DEF BeginRead
<1>2. PICK order \in SetToSeqs(known) :
        snap' = [snap EXCEPT !.order = order, !.v = 1,
                   !.pc = CASE order = <<>>           -> "read"
                            [] order # <<>> /\ snapKind = "rate" -> "num"
                            [] OTHER -> IF Len(order) = 1 THEN "shards" ELSE "collect"]
  BY DEF BeginRead
<1>3. /\ snap = NoRead /\ atStart' = [hist |-> shardHist, words |-> rateWords]
      /\ UNCHANGED <<snapKind, shardHist, rateWords, known>>
  BY <1>0 DEF BeginRead, WalkInv, recording
<1>4. order \in Seq(Variants) /\ OnceEach(order) /\ Range(order) = known
  BY <1>0, OrderOfAll DEF SnapTypes
<1>5. /\ snap'.order = order /\ snap'.v = 1 /\ snap'.i = 0 /\ snap'.refs = <<>>
      /\ snap'.merged = Nothing /\ snap'.raced = FALSE /\ snap'.num = 0 /\ snap'.den = 0
      /\ DOMAIN snap' = DOMAIN NoRead
  BY <1>2, <1>3 DEF NoRead
<1>6. /\ order = <<>> => snap'.pc = "read"
      /\ order # <<>> /\ snapKind = "rate" => snap'.pc = "num"
      /\ order # <<>> /\ snapKind = "duration" /\ Len(order) = 1 => snap'.pc = "shards"
      /\ order # <<>> /\ snapKind = "duration" /\ Len(order) # 1 => snap'.pc = "collect"
  BY <1>2, <1>3 DEF NoRead
<1>7. snapKind \in {"duration", "rate"} BY <1>0 DEF SnapTypes
<1>8. order # <<>> => 1 \in 1..Len(order) BY <1>4
<1>9. order = <<>> => Range(order) = {} BY DEF Range
<1>10. Nothing \in [Values -> Nat] /\ \A x \in Values : Nothing[x] = 0 BY DEF Nothing
<1>11. 0 \in Shards /\ Shards \subseteq Nat BY SnapSets
<1>12. StartInv'
  <2>1. HistBelow(shardHist, shardHist) /\ RatesBelow(rateWords, rateWords) BY <1>0, UnchangedBelow
  <2>2. atStart'.hist = shardHist /\ atStart'.words = rateWords /\ DOMAIN atStart' = {"hist", "words"} BY <1>3
  <2>3. \A h \in Variants : h \in Range(order)
           \/ (/\ \A i \in Shards, x \in Values : shardHist[h][i][x] = 0
               /\ rateWords[h].num = 0 /\ rateWords[h].den = 0)
    BY <1>0, <1>4 DEF EmptyInv
  <2>4. \A h \in Variants, i \in Shards, x \in Values : atStart'.hist[h][i][x] <= shardHist'[h][i][x]
    BY <1>3, <2>1, <2>2 DEF HistBelow
  <2>5. \A h \in Variants : /\ atStart'.words[h].num <= rateWords'[h].num
                            /\ atStart'.words[h].den <= rateWords'[h].den
    BY <1>3, <2>1, <2>2 DEF RatesBelow
  <2>6. /\ atStart'.hist \in [Variants -> [Shards -> [Values -> Nat]]]
        /\ atStart'.words \in [Variants -> [num : Nat, den : Nat]]
    BY <1>0, <2>2 DEF SnapTypes
  <2> QED BY <1>5, <2>2, <2>3, <2>4, <2>5, <2>6 DEF StartInv
<1>13. Seen' \ Range(<<>>) = DoneWith' /\ Range(<<>>) = {} BY <1>5 DEF DoneWith, Range
<1>14. WalkInv'
  <2>1. OnceEach(<<>>) /\ <<>> \in Seq(Places) BY DEF OnceEach
  <2>2. snap'.pc \in {"read", "num", "shards", "collect"} BY <1>6, <1>7
  <2>3. snap'.pc # "read" => order # <<>> BY <1>6
  <2>4. snap'.pc \in {"shards", "collect"} => snapKind = "duration" BY <1>6, <1>7
  <2>5. snap'.pc = "num" => snapKind = "rate" BY <1>6, <1>7
  <2>6. snap'.pc = "collect" => Len(order) # 1 BY <1>6, <1>7
  <2> QED
    BY <1>3, <1>4, <1>5, <1>8, <1>10, <1>11, <1>13, <2>1, <2>2, <2>3, <2>4, <2>5, <2>6 DEF WalkInv
<1>15. MergedInv'
  <2>1. CASE snapKind = "duration"
    <3>1. Seen' = {}
      <4>1. CASE order = <<>>
        <5>1. snap'.pc = "read" /\ Range(snap'.order) = {} BY <1>5, <1>6, <1>9, <4>1
        <5> QED BY <5>1 DEF Seen
      <4>2. CASE order # <<>>
        <5>1. snap'.pc \in {"shards", "collect"} BY <1>6, <2>1, <4>2
        <5>2. Before(order, 1, 0) = {}
          <6>1. DOMAIN order \subseteq Nat \ {0} BY <1>4
          <6>2. \A p \in Places : p[2] \in Nat BY <1>11 DEF Places
          <6> QED BY <6>1, <6>2 DEF Before
        <5> QED BY <1>5, <5>1, <5>2 DEF Seen
      <4> QED BY <4>1, <4>2
    <3>2. DoneWith' = {} BY <1>13, <3>1
    <3>3. \A hist, x : OfPlaces(hist, DoneWith', x) = 0 BY <3>2, OverNothing
    <3>4. \A x \in Values : snap'.merged[x] = 0 BY <1>5, <1>10
    <3>5. ASSUME NEW x \in Values
          PROVE  /\ snap'.merged[x] <= OfPlaces(shardHist', DoneWith', x)
                 /\ OfPlaces(atStart'.hist, DoneWith', x) <= snap'.merged[x]
      BY <3>3, <3>4
    <3> QED BY <1>3, <2>1, <3>5 DEF MergedInv
  <2>2. CASE snapKind = "rate" BY <1>3, <1>5, <2>2 DEF MergedInv
  <2> QED BY <1>7, <2>1, <2>2
<1>16. RateInv'
  <2>1. CASE snapKind = "rate"
    <3>1. NumsLoaded' = 0 /\ DensLoaded' = 0 /\ snap'.pc # "den"
      <4>1. CASE order = <<>>
        <5>1. snap'.pc = "read" /\ Len(snap'.order) = 0 BY <1>5, <1>6, <4>1
        <5> QED BY <5>1 DEF NumsLoaded, DensLoaded
      <4>2. CASE order # <<>>
        <5>1. snap'.pc = "num" /\ snap'.v = 1 BY <1>5, <1>6, <2>1, <4>2
        <5> QED BY <5>1 DEF NumsLoaded, DensLoaded
      <4> QED BY <4>1, <4>2
    <3>2. FirstLoaded(0)' = {}
      <4>1. DOMAIN snap'.order \subseteq Nat \ {0} BY <1>4, <1>5
      <4> QED BY <4>1 DEF FirstLoaded
    <3>3. FirstLoaded(NumsLoaded)' = {} /\ FirstLoaded(DensLoaded)' = {}
      <4>1. FirstLoaded(NumsLoaded)' = FirstLoaded(0)' BY <3>1 DEF FirstLoaded
      <4>2. FirstLoaded(DensLoaded)' = FirstLoaded(0)' BY <3>1 DEF FirstLoaded
      <4> QED BY <3>2, <4>1, <4>2
    <3>4. \A rates, w : OfVariants(rates, {}, w) = 0 BY OverNothing
    <3>5. Cardinality(Observers) * NumsLoaded' = 0
      <4>1. Cardinality(Observers) \in Nat BY SnapSets, FS_CardinalityType
      <4> QED BY <3>1, <4>1
    <3>6. snap'.num <= snap'.den + Cardinality(Observers) * NumsLoaded'
                       + (IF snap'.pc = "den" THEN rateWords'[snap'.order[snap'.v]].den ELSE 0)
      BY <1>5, <3>1, <3>5
    <3> QED BY <1>3, <1>5, <2>1, <3>3, <3>4, <3>6 DEF RateInv
  <2>2. CASE snapKind = "duration" BY <1>3, <1>5, <2>2 DEF RateInv
  <2> QED BY <1>7, <2>1, <2>2
<1> QED BY <1>1, <1>12, <1>14, <1>15, <1>16 DEF SnapInv, RecordInv

\* What is taken of one shard more is between what it held when the read began, if
\* all of it is taken, and what it holds.
LEMMA TakeMore ==
  ASSUME NEW hist, HistTypes(hist), NEW start, HistTypes(start), HistBelow(start, hist),
         NEW S, S \subseteq Places, NEW at \in Places, at \notin S, NEW x \in Values,
         NEW m \in Nat, NEW t \in Nat, m <= OfPlaces(hist, S, x), t <= hist[at[1]][at[2]][x]
  PROVE  /\ m + t <= OfPlaces(hist, S \cup {at}, x)
         /\ OfPlaces(start, S, x) <= m /\ t = hist[at[1]][at[2]][x] =>
              OfPlaces(start, S \cup {at}, x) <= m + t
<1>1. /\ OfPlaces(hist, S \cup {at}, x) = OfPlaces(hist, S, x) + hist[at[1]][at[2]][x]
      /\ OfPlaces(hist, S, x) \in Nat /\ hist[at[1]][at[2]][x] \in Nat
  BY PlaceMore
<1>2. /\ OfPlaces(start, S \cup {at}, x) = OfPlaces(start, S, x) + start[at[1]][at[2]][x]
      /\ OfPlaces(start, S, x) \in Nat /\ start[at[1]][at[2]][x] \in Nat
  BY PlaceMore
<1>3. start[at[1]][at[2]][x] <= hist[at[1]][at[2]][x]
  <2>1. at[1] \in Variants /\ at[2] \in Shards BY DEF Places
  <2> QED BY <2>1 DEF HistBelow
<1>4. m + t <= OfPlaces(hist, S \cup {at}, x) BY <1>1
<1>5. ASSUME OfPlaces(start, S, x) <= m, t = hist[at[1]][at[2]][x]
      PROVE  OfPlaces(start, S \cup {at}, x) <= m + t
  BY <1>1, <1>2, <1>3, <1>5
<1> QED BY <1>4, <1>5

\* What a step of a read that has begun keeps whatever it does.
LEMMA ReadGoesOn ==
  ASSUME SnapInv, UNCHANGED <<recording, atStart>>, snap.pc # "idle", snap'.order = snap.order
  PROVE  /\ RecordInv' /\ StartInv' /\ SnapTypes /\ SnapTypes' /\ WalkInv /\ MergedInv /\ RateInv
         /\ HistTypes(shardHist) /\ HistTypes(atStart.hist) /\ HistBelow(atStart.hist, shardHist)
         /\ RateTypes(rateWords) /\ RateTypes(atStart.words) /\ RatesBelow(atStart.words, rateWords)
         /\ shardHist' = shardHist /\ rateWords' = rateWords /\ atStart' = atStart
         /\ snapKind' = snapKind /\ known' = known /\ snapKind \in {"duration", "rate"}
<1>1. /\ SnapTypes /\ StartInv /\ WalkInv /\ MergedInv /\ RateInv
      /\ UNCHANGED <<snapKind, shardHist, rateWords, known>>
  BY DEF SnapInv, recording
<1>2. RecordInv' BY ReadingKeepsRecords
<1>3. StartInv' BY StartStays
<1>4. SnapTypes' BY <1>2 DEF RecordInv
<1>5. HistTypes(shardHist) /\ RateTypes(rateWords) BY <1>1 DEF SnapTypes, HistTypes, RateTypes
<1>6. HistTypes(atStart.hist) /\ RateTypes(atStart.words) BY <1>1 DEF StartInv, HistTypes, RateTypes
<1>7. HistBelow(atStart.hist, shardHist) /\ RatesBelow(atStart.words, rateWords)
  BY <1>1 DEF StartInv, HistBelow, RatesBelow
<1>8. snapKind \in {"duration", "rate"} BY <1>1 DEF SnapTypes
<1> QED BY <1>1, <1>2, <1>3, <1>4, <1>5, <1>6, <1>7, <1>8

\* Going on to the next shard: one more place is seen.
LEMMA NextShardIsNext ==
  ASSUME SnapInv, snap.pc \in {"shards", "collect"}, NEW then \in {"read", "merge"}
  PROVE  LET next == NextShard(then)
             at   == Place
         IN  /\ at \in Places /\ at \notin Seen
             /\ DOMAIN next = DOMAIN snap /\ next.order = snap.order /\ next.refs = snap.refs
             /\ next.merged = snap.merged /\ next.raced = snap.raced
             /\ next.num = snap.num /\ next.den = snap.den /\ next.i \in Shards
             /\ next.pc \in {snap.pc, then}
             /\ next.pc = snap.pc => next.v \in 1..Len(snap.order)
             /\ next.pc = snap.pc => Before(snap.order, next.v, next.i) = Seen \cup {at}
             /\ next.pc = then => {p \in Places : p[1] \in Range(snap.order)} = Seen \cup {at}
<1> DEFINE next == NextShard(then)
           at == Place
           order == snap.order
           v == snap.v
           i == snap.i
<1>1. /\ order \in Seq(Variants) /\ OnceEach(order) /\ v \in 1..Len(order) /\ i \in Shards
      /\ DOMAIN snap = DOMAIN NoRead /\ Len(order) \in Nat
  BY DEF SnapInv, WalkInv
<1>2. histShards \in Nat \ {0} /\ Shards = 0..histShards-1 BY SnapshotAssumption DEF Shards
<1>3. at = <<order[v], i>> /\ Seen = Before(order, v, i) BY DEF Place, Seen
<1>4. /\ at \in Places /\ at \notin Seen
      /\ i < histShards - 1 => Before(order, v, i + 1) = Seen \cup {at}
      /\ i = histShards - 1 => Before(order, v + 1, 0) = Seen \cup {at}
      /\ i = histShards - 1 /\ v = Len(order) => {p \in Places : p[1] \in Range(order)} = Seen \cup {at}
  <2> HIDE DEF order, v, i, at
  <2> QED BY <1>1, <1>3, BeforeNext
<1>5. DOMAIN snap = {"pc", "order", "v", "i", "refs", "seen", "merged", "raced", "num", "den"}
  BY <1>1 DEF NoRead
<1>6. CASE i < histShards - 1
  <2>1. next = [snap EXCEPT !.i = @ + 1] BY <1>1, <1>2, <1>6 DEF NextShard
  <2>2. i + 1 \in Shards BY <1>1, <1>2, <1>6
  <2>3. /\ DOMAIN next = DOMAIN snap /\ next.order = order /\ next.refs = snap.refs
        /\ next.merged = snap.merged /\ next.raced = snap.raced /\ next.num = snap.num /\ next.den = snap.den
        /\ next.i = i + 1 /\ next.v = v /\ next.pc = snap.pc
    BY <1>5, <2>1
  <2> QED BY <1>1, <1>4, <1>6, <2>2, <2>3
<1>7. CASE i = histShards - 1 /\ v < Len(order)
  <2>1. next = [snap EXCEPT !.i = 0, !.v = @ + 1] BY <1>7, <1>2 DEF NextShard
  <2>2. 0 \in Shards /\ v + 1 \in 1..Len(order) BY <1>1, <1>2, <1>7
  <2>3. /\ DOMAIN next = DOMAIN snap /\ next.order = order /\ next.refs = snap.refs
        /\ next.merged = snap.merged /\ next.raced = snap.raced /\ next.num = snap.num /\ next.den = snap.den
        /\ next.i = 0 /\ next.v = v + 1 /\ next.pc = snap.pc
    BY <1>5, <2>1
  <2> QED BY <1>1, <1>4, <1>7, <2>2, <2>3
<1>8. CASE i = histShards - 1 /\ v = Len(order)
  <2>1. next = [snap EXCEPT !.pc = then, !.i = 0, !.v = 1] BY <1>8, <1>1, <1>2 DEF NextShard
  <2>2. 0 \in Shards BY <1>2
  <2>3. /\ DOMAIN next = DOMAIN snap /\ next.order = order /\ next.refs = snap.refs
        /\ next.merged = snap.merged /\ next.raced = snap.raced /\ next.num = snap.num /\ next.den = snap.den
        /\ next.i = 0 /\ next.v = 1 /\ next.pc = then
    BY <1>5, <2>1
  <2>4. then # snap.pc OBVIOUS
  <2> QED BY <1>1, <1>4, <1>8, <2>2, <2>3, <2>4
<1>9. i < histShards - 1 \/ (i = histShards - 1 /\ v < Len(order)) \/ (i = histShards - 1 /\ v = Len(order))
  BY <1>1, <1>2
<1> QED BY <1>6, <1>7, <1>8, <1>9

\* A place put at the end, or taken from the front, of a list without repetitions.
LEMMA AppendOnce ==
  ASSUME NEW s \in Seq(Places), OnceEach(s), NEW at \in Places, at \notin Range(s)
  PROVE  LET t == Append(s, at)
         IN  t \in Seq(Places) /\ OnceEach(t) /\ Range(t) = Range(s) \cup {at}
<1> DEFINE t == Append(s, at)
           n == Len(s)
<1>1. t \in Seq(Places) /\ n \in Nat /\ DOMAIN s = 1..n /\ DOMAIN t = 1..n+1 OBVIOUS
<1>2. t[n+1] = at /\ \A k \in 1..n : t[k] = s[k] OBVIOUS
<1> HIDE DEF t, n
<1>3. \A k \in 1..n+1 : k \in 1..n \/ k = n + 1 BY <1>1
<1>4. \A k \in 1..n : s[k] \in Range(s) BY <1>1 DEF Range
<1>5. OnceEach(t) BY <1>1, <1>2, <1>3, <1>4 DEF OnceEach
<1>6. Range(t) = Range(s) \cup {at}
  <2>1. n + 1 \in 1..n+1 /\ \A k \in 1..n : k \in 1..n+1 BY <1>1
  <2> QED BY <1>1, <1>2, <1>3, <2>1 DEF Range
<1> QED BY <1>1, <1>5, <1>6 DEF t

\* The same of its tail.
LEMMA TailOnce ==
  ASSUME NEW s \in Seq(Places), OnceEach(s), s # <<>>
  PROVE  LET t == Tail(s)
         IN  /\ t \in Seq(Places) /\ OnceEach(t) /\ Head(s) \in Range(s) /\ Head(s) \notin Range(t)
             /\ Range(s) = Range(t) \cup {Head(s)}
<1> DEFINE t == Tail(s)
           n == Len(s)
<1>1. t \in Seq(Places) /\ n \in Nat \ {0} /\ DOMAIN s = 1..n /\ DOMAIN t = 1..n-1 OBVIOUS
<1>2. Head(s) = s[1] /\ \A k \in 1..n-1 : t[k] = s[k+1] OBVIOUS
<1> HIDE DEF t, n
<1>3. \A k \in 1..n-1 : k + 1 \in 1..n /\ k + 1 # 1 BY <1>1
<1>4. 1 \in 1..n /\ \A k \in 1..n : k = 1 \/ (k - 1 \in 1..n-1 /\ (k - 1) + 1 = k) BY <1>1
<1>5. OnceEach(t)
  <2>1. ASSUME NEW j \in 1..n-1, NEW k \in 1..n-1, t[j] = t[k] PROVE j = k
    <3>1. s[j+1] = s[k+1] /\ j + 1 \in 1..n /\ k + 1 \in 1..n BY <1>2, <1>3, <2>1
    <3>2. j + 1 = k + 1 BY <1>1, <3>1 DEF OnceEach
    <3> QED BY <3>2
  <2> QED BY <1>1, <2>1 DEF OnceEach
<1>6. Head(s) \in Range(s) BY <1>1, <1>2, <1>4 DEF Range
<1>7. Head(s) \notin Range(t)
  <2>1. ASSUME NEW k \in 1..n-1, t[k] = s[1] PROVE FALSE
    <3>1. s[k+1] = s[1] /\ k + 1 \in 1..n BY <1>2, <1>3, <2>1
    <3>2. k + 1 = 1 BY <1>1, <1>4, <3>1 DEF OnceEach
    <3> QED BY <1>3, <3>2
  <2> QED BY <1>1, <1>2, <2>1 DEF Range
<1>8. Range(s) = Range(t) \cup {Head(s)}
  <2>1. ASSUME NEW k \in 1..n PROVE s[k] \in Range(t) \cup {Head(s)}
    <3>1. CASE k = 1 BY <1>2, <3>1
    <3>2. CASE k # 1
      <4>1. k - 1 \in 1..n-1 /\ (k - 1) + 1 = k BY <1>4, <3>2
      <4>2. t[k-1] = s[k] BY <1>2, <4>1
      <4> QED BY <1>1, <4>1, <4>2 DEF Range
    <3> QED BY <3>1, <3>2
  <2>2. ASSUME NEW k \in 1..n-1 PROVE t[k] \in Range(s)
    BY <1>1, <1>2, <1>3 DEF Range
  <2> QED BY <1>1, <1>6, <2>1, <2>2 DEF Range
<1> QED BY <1>1, <1>5, <1>6, <1>7, <1>8 DEF t

\* A place more is seen: merged at once, or set aside.
LEMMA MergeLockedKeeps ==
  ASSUME SnapInv, MergeLocked
  PROVE  SnapInv'
<1> DEFINE next == NextShard("read")
           at == Place
           now == shardHist[at[1]][at[2]]
<1>1. /\ snap.pc = "shards" /\ UNCHANGED <<recording, atStart>>
      /\ snap' = [next EXCEPT !.merged = Plus0(@, now)]
  BY DEF MergeLocked, Reads
<1>2. /\ at \in Places /\ at \notin Seen
      /\ DOMAIN next = DOMAIN snap /\ next.order = snap.order /\ next.refs = snap.refs
      /\ next.merged = snap.merged /\ next.raced = snap.raced
      /\ next.num = snap.num /\ next.den = snap.den /\ next.i \in Shards
      /\ next.pc \in {"shards", "read"}
      /\ next.pc = "shards" => next.v \in 1..Len(snap.order)
      /\ next.pc = "shards" => Before(snap.order, next.v, next.i) = Seen \cup {at}
      /\ next.pc = "read" => {p \in Places : p[1] \in Range(snap.order)} = Seen \cup {at}
  <2>1. snap.pc \in {"shards", "collect"} /\ "read" \in {"read", "merge"} BY <1>1
  <2> QED BY <1>1, <2>1, NextShardIsNext
<1> HIDE DEF next, at
<1>3. DOMAIN snap = DOMAIN NoRead BY DEF SnapInv, WalkInv
<1>4. /\ DOMAIN snap' = DOMAIN NoRead /\ snap'.order = snap.order /\ snap'.refs = snap.refs
      /\ snap'.merged = Plus0(snap.merged, now) /\ snap'.raced = snap.raced
      /\ snap'.num = snap.num /\ snap'.den = snap.den /\ snap'.i = next.i /\ snap'.v = next.v /\ snap'.pc = next.pc
  <2>1. DOMAIN next = {"pc", "order", "v", "i", "refs", "seen", "merged", "raced", "num", "den"}
    BY <1>2, <1>3 DEF NoRead
  <2> QED BY <1>1, <1>2, <1>3, <2>1
<1>5. /\ RecordInv' /\ StartInv' /\ WalkInv /\ MergedInv /\ RateInv
      /\ HistTypes(shardHist) /\ HistTypes(atStart.hist) /\ HistBelow(atStart.hist, shardHist)
      /\ shardHist' = shardHist /\ rateWords' = rateWords /\ atStart' = atStart
      /\ snapKind' = snapKind /\ known' = known
  BY <1>1, <1>4, ReadGoesOn
<1>6. snap.refs = <<>> /\ snapKind = "duration" BY <1>1, <1>5 DEF WalkInv
<1>7. Range(<<>>) = {} BY DEF Range
<1>8. DoneWith = Seen BY <1>6, <1>7 DEF DoneWith
<1>9. Seen' = Seen \cup {at} /\ DoneWith' = Seen \cup {at}
  <2>1. Seen' = Seen \cup {at}
    <3>1. CASE next.pc = "shards"
      <4>1. Seen' = Before(snap'.order, snap'.v, snap'.i) BY <1>4, <3>1 DEF Seen
      <4> QED BY <1>2, <1>4, <3>1, <4>1
    <3>2. CASE next.pc = "read"
      <4>1. Seen' = {p \in Places : p[1] \in Range(snap'.order)} BY <1>4, <3>2 DEF Seen
      <4> QED BY <1>2, <1>4, <3>2, <4>1
    <3> QED BY <1>2, <3>1, <3>2
  <2>2. DoneWith' = Seen' \ Range(snap'.refs) BY DEF DoneWith
  <2> QED BY <1>4, <1>6, <1>7, <2>1, <2>2
<1>10. at[1] \in Variants /\ at[2] \in Shards BY <1>2 DEF Places
<1>11. now \in [Values -> Nat] /\ snap.merged \in [Values -> Nat] /\ snap'.merged \in [Values -> Nat]
       /\ \A x \in Values : snap'.merged[x] = snap.merged[x] + now[x]
  <2>1. now \in [Values -> Nat] BY <1>5, <1>10 DEF HistTypes
  <2>2. snap.merged \in [Values -> Nat] BY <1>5 DEF WalkInv
  <2> HIDE DEF now
  <2> QED BY <1>4, <2>1, <2>2 DEF Plus0
<1>12. WalkInv'
  <2>1. snap'.refs = <<>> /\ OnceEach(<<>>) BY <1>4, <1>6 DEF OnceEach
  <2>2. Range(snap'.refs) \subseteq Seen' BY <1>7, <2>1
  <2> HIDE DEF now
  <2> QED BY <1>2, <1>4, <1>5, <1>6, <1>11, <2>1, <2>2 DEF WalkInv
<1>13. MergedInv'
  <2>1. ASSUME NEW x \in Values
        PROVE  /\ snap'.merged[x] <= OfPlaces(shardHist, Seen \cup {at}, x)
               /\ ~snap.raced => OfPlaces(atStart.hist, Seen \cup {at}, x) <= snap'.merged[x]
    <3>1. /\ snap.merged[x] <= OfPlaces(shardHist, Seen, x)
          /\ ~snap.raced => OfPlaces(atStart.hist, Seen, x) <= snap.merged[x]
      BY <1>5, <1>6, <1>8 DEF MergedInv
    <3>2. Seen \subseteq Places BY <1>5, WalkTypes
    <3>3. now[x] \in Nat /\ now[x] <= shardHist[at[1]][at[2]][x] BY <1>11
    <3>4. snap.merged[x] \in Nat BY <1>11
    <3>5. /\ snap.merged[x] + now[x] <= OfPlaces(shardHist, Seen \cup {at}, x)
          /\ OfPlaces(atStart.hist, Seen, x) <= snap.merged[x] /\ now[x] = shardHist[at[1]][at[2]][x] =>
               OfPlaces(atStart.hist, Seen \cup {at}, x) <= snap.merged[x] + now[x]
      BY <1>2, <1>5, <3>1, <3>2, <3>3, <3>4, TakeMore
    <3> QED BY <1>11, <3>1, <3>5
  <2> QED BY <1>4, <1>5, <1>6, <1>9, <2>1 DEF MergedInv
<1>14. RateInv'
  <2>1. snapKind' # "rate" BY <1>5, <1>6
  <2>2. snap.num = 0 /\ snap.den = 0 BY <1>5, <1>6 DEF RateInv
  <2> QED BY <1>4, <2>1, <2>2 DEF RateInv
<1> QED BY <1>5, <1>12, <1>13, <1>14 DEF SnapInv, RecordInv

\* An empty shard is done with, another one is set aside.
LEMMA CollectShardKeeps ==
  ASSUME SnapInv, CollectShard
  PROVE  SnapInv'
<1> DEFINE next == NextShard("merge")
           at == Place
           now == shardHist[at[1]][at[2]]
<1>1. /\ snap.pc = "collect" /\ UNCHANGED <<recording, atStart>>
      /\ snap' = [next EXCEPT !.refs = IF now = Nothing THEN @ ELSE Append(@, at)]
  BY DEF CollectShard, Reads
<1>2. /\ at \in Places /\ at \notin Seen
      /\ DOMAIN next = DOMAIN snap /\ next.order = snap.order /\ next.refs = snap.refs
      /\ next.merged = snap.merged /\ next.raced = snap.raced
      /\ next.num = snap.num /\ next.den = snap.den /\ next.i \in Shards
      /\ next.pc \in {"collect", "merge"}
      /\ next.pc = "collect" => next.v \in 1..Len(snap.order)
      /\ next.pc = "collect" => Before(snap.order, next.v, next.i) = Seen \cup {at}
      /\ next.pc = "merge" => {p \in Places : p[1] \in Range(snap.order)} = Seen \cup {at}
  <2>1. snap.pc \in {"shards", "collect"} /\ "merge" \in {"read", "merge"} BY <1>1
  <2> QED BY <1>1, <2>1, NextShardIsNext
<1> HIDE DEF next, at
<1>3. DOMAIN snap = DOMAIN NoRead BY DEF SnapInv, WalkInv
<1>4. /\ DOMAIN snap' = DOMAIN NoRead /\ snap'.order = snap.order
      /\ snap'.merged = snap.merged /\ snap'.raced = snap.raced
      /\ snap'.num = snap.num /\ snap'.den = snap.den /\ snap'.i = next.i /\ snap'.v = next.v /\ snap'.pc = next.pc
      /\ now = Nothing => snap'.refs = snap.refs
      /\ now # Nothing => snap'.refs = Append(snap.refs, at)
  <2>1. DOMAIN next = {"pc", "order", "v", "i", "refs", "seen", "merged", "raced", "num", "den"}
    BY <1>2, <1>3 DEF NoRead
  <2> HIDE DEF now
  <2> QED BY <1>1, <1>2, <1>3, <2>1
<1>5. /\ RecordInv' /\ StartInv' /\ WalkInv /\ MergedInv /\ RateInv
      /\ HistTypes(shardHist) /\ HistTypes(atStart.hist) /\ HistBelow(atStart.hist, shardHist)
      /\ shardHist' = shardHist /\ rateWords' = rateWords /\ atStart' = atStart
      /\ snapKind' = snapKind /\ known' = known
  BY <1>1, <1>4, ReadGoesOn
<1>6. snapKind = "duration" /\ Len(snap.order) # 1 BY <1>1, <1>5 DEF WalkInv
<1>7. snap.refs \in Seq(Places) /\ OnceEach(snap.refs) /\ Range(snap.refs) \subseteq Seen BY <1>5 DEF WalkInv
<1>8. Seen' = Seen \cup {at}
  <2>1. CASE next.pc = "collect"
    <3>1. Seen' = Before(snap'.order, snap'.v, snap'.i) BY <1>4, <2>1 DEF Seen
    <3> QED BY <1>2, <1>4, <2>1, <3>1
  <2>2. CASE next.pc = "merge"
    <3>1. Seen' = {p \in Places : p[1] \in Range(snap'.order)} BY <1>4, <2>2 DEF Seen
    <3> QED BY <1>2, <1>4, <2>2, <3>1
  <2> QED BY <1>2, <2>1, <2>2
<1>9. at \notin Range(snap.refs) BY <1>2, <1>7
<1>10. /\ Append(snap.refs, at) \in Seq(Places) /\ OnceEach(Append(snap.refs, at))
       /\ Range(Append(snap.refs, at)) = Range(snap.refs) \cup {at}
  BY <1>2, <1>7, <1>9, AppendOnce
<1>11. snap'.refs \in Seq(Places) /\ OnceEach(snap'.refs) /\ Range(snap'.refs) \subseteq Seen'
  <2> HIDE DEF now
  <2> QED BY <1>4, <1>7, <1>8, <1>10
<1>12. WalkInv'
  <2>1. snap'.pc \in {"collect", "merge"} /\ snap'.i \in Shards
        /\ (snap'.pc = "collect" => snap'.v \in 1..Len(snap'.order)) BY <1>2, <1>4
  <2>2. /\ snap.merged \in [Values -> Nat] /\ snap.num \in Nat /\ snap.den \in Nat /\ snap.raced \in BOOLEAN
        /\ snap.order \in Seq(Variants) /\ OnceEach(snap.order) /\ Range(snap.order) \subseteq known
    BY <1>5 DEF WalkInv
  <2> HIDE DEF now
  <2> QED BY <1>4, <1>5, <1>6, <1>11, <2>1, <2>2 DEF WalkInv
<1>13. MergedInv'
  <2>1. ASSUME NEW x \in Values
        PROVE  /\ snap.merged[x] <= OfPlaces(shardHist, DoneWith, x) /\ snap.merged[x] \in Nat
               /\ ~snap.raced => OfPlaces(atStart.hist, DoneWith, x) <= snap.merged[x]
    BY <1>5, <1>6 DEF MergedInv, WalkInv
  <2>2. CASE now = Nothing
    <3>1. DoneWith' = DoneWith \cup {at}
      <4>1. DoneWith' = Seen' \ Range(snap'.refs) /\ DoneWith = Seen \ Range(snap.refs) BY DEF DoneWith
      <4> HIDE DEF now
      <4> QED BY <1>4, <1>8, <1>9, <2>2, <4>1
    <3>2. DoneWith \subseteq Places /\ at \notin DoneWith
      <4>1. DoneWith \subseteq Seen BY DEF DoneWith
      <4> QED BY <1>2, <1>5, <4>1, WalkTypes
    <3>3. ASSUME NEW x \in Values
          PROVE  /\ snap.merged[x] <= OfPlaces(shardHist, DoneWith \cup {at}, x)
                 /\ ~snap.raced => OfPlaces(atStart.hist, DoneWith \cup {at}, x) <= snap.merged[x]
      <4>1. shardHist[at[1]][at[2]][x] = 0 BY <2>2 DEF Nothing
      <4>2. /\ snap.merged[x] + 0 <= OfPlaces(shardHist, DoneWith \cup {at}, x)
            /\ OfPlaces(atStart.hist, DoneWith, x) <= snap.merged[x] /\ 0 = shardHist[at[1]][at[2]][x] =>
                 OfPlaces(atStart.hist, DoneWith \cup {at}, x) <= snap.merged[x] + 0
        <5>1. 0 \in Nat /\ 0 <= shardHist[at[1]][at[2]][x] BY <4>1
        <5> QED BY <1>2, <1>5, <2>1, <3>2, <5>1, TakeMore
      <4>3. snap.merged[x] + 0 = snap.merged[x] BY <2>1
      <4> QED BY <2>1, <4>1, <4>2, <4>3
    <3> QED BY <1>4, <1>5, <1>6, <3>1, <3>3 DEF MergedInv
  <2>3. CASE now # Nothing
    <3>1. DoneWith' = DoneWith
      <4>1. DoneWith' = Seen' \ Range(snap'.refs) /\ DoneWith = Seen \ Range(snap.refs) BY DEF DoneWith
      <4> HIDE DEF now
      <4> QED BY <1>2, <1>4, <1>8, <1>10, <2>3, <4>1
    <3> QED BY <1>4, <1>5, <1>6, <2>1, <3>1 DEF MergedInv
  <2> QED BY <2>2, <2>3
<1>14. RateInv'
  <2>1. snapKind' # "rate" BY <1>5, <1>6
  <2>2. snap.num = 0 /\ snap.den = 0 BY <1>5, <1>6 DEF RateInv
  <2> QED BY <1>4, <2>1, <2>2 DEF RateInv
<1> QED BY <1>5, <1>12, <1>13, <1>14 DEF SnapInv, RecordInv

\* The fields of the reader.
ReaderFields == {"pc", "order", "v", "i", "refs", "seen", "merged", "raced", "num", "den"}

\* Whether somebody writes is noticed when a merge begins ...
LEMMA MergeBeginsKeeps ==
  ASSUME SnapInv, MergeBegins
  PROVE  SnapInv'
<1> DEFINE held == shardHist[Head(snap.refs)[1]][Head(snap.refs)[2]]
           busy == shardMu[Head(snap.refs)[1]][Head(snap.refs)[2]] # "unlocked"
<1>1. /\ snap.pc = "merge" /\ UNCHANGED <<recording, atStart>> /\ snap.refs # <<>>
      /\ snap' = [snap EXCEPT !.pc = "merging", !.seen = held, !.raced = @ \/ busy]
  BY DEF MergeBegins, Reads
<1>2. busy \in BOOLEAN OBVIOUS
<1> HIDE DEF held, busy
<1>3. DOMAIN snap = ReaderFields /\ DOMAIN NoRead = ReaderFields
  BY DEF SnapInv, WalkInv, NoRead, ReaderFields
<1>4. /\ DOMAIN snap' = DOMAIN NoRead /\ snap'.order = snap.order /\ snap'.refs = snap.refs
      /\ snap'.merged = snap.merged /\ snap'.num = snap.num /\ snap'.den = snap.den
      /\ snap'.i = snap.i /\ snap'.pc = "merging"
  BY <1>1, <1>3 DEF ReaderFields
<1>5. snap'.raced = (snap.raced \/ busy) BY <1>1, <1>3 DEF ReaderFields
<1>6. /\ RecordInv' /\ StartInv' /\ WalkInv /\ MergedInv /\ RateInv
      /\ shardHist' = shardHist /\ rateWords' = rateWords /\ atStart' = atStart
      /\ snapKind' = snapKind /\ known' = known
  BY <1>1, <1>4, ReadGoesOn
<1>7. snapKind = "duration" /\ Len(snap.order) # 1 /\ snap.raced \in BOOLEAN BY <1>1, <1>6 DEF WalkInv
<1>8. Seen' = Seen /\ DoneWith' = DoneWith
  <2>1. Seen' = Seen BY <1>1, <1>4 DEF Seen
  <2> QED BY <1>4, <2>1 DEF DoneWith
<1>9. WalkInv'
  <2>1. snap'.raced \in BOOLEAN BY <1>2, <1>5, <1>7
  <2> QED BY <1>1, <1>4, <1>6, <1>7, <1>8, <2>1 DEF WalkInv
<1>10. MergedInv'
  <2>1. ~snap'.raced => ~snap.raced BY <1>2, <1>5, <1>7
  <2> QED BY <1>4, <1>6, <1>7, <1>8, <2>1 DEF MergedInv
<1>11. RateInv' BY <1>4, <1>6, <1>7 DEF RateInv
<1> QED BY <1>6, <1>9, <1>10, <1>11 DEF SnapInv, RecordInv

\* When nothing is set aside, all places are done with.
LEMMA MergeIsOverKeeps ==
  ASSUME SnapInv, MergeIsOver
  PROVE  SnapInv'
<1>1. /\ snap.pc = "merge" /\ UNCHANGED <<recording, atStart>> /\ snap.refs = <<>>
      /\ snap' = [snap EXCEPT !.pc = "read"]
  BY DEF MergeIsOver, Reads
<1>3. DOMAIN snap = ReaderFields /\ DOMAIN NoRead = ReaderFields
  BY DEF SnapInv, WalkInv, NoRead, ReaderFields
<1>4. /\ DOMAIN snap' = DOMAIN NoRead /\ snap'.order = snap.order /\ snap'.refs = snap.refs
      /\ snap'.merged = snap.merged /\ snap'.num = snap.num /\ snap'.den = snap.den
      /\ snap'.i = snap.i /\ snap'.pc = "read" /\ snap'.raced = snap.raced
  BY <1>1, <1>3 DEF ReaderFields
<1>6. /\ RecordInv' /\ StartInv' /\ WalkInv /\ MergedInv /\ RateInv
      /\ shardHist' = shardHist /\ rateWords' = rateWords /\ atStart' = atStart
      /\ snapKind' = snapKind /\ known' = known
  BY <1>1, <1>4, ReadGoesOn
<1>7. snapKind = "duration" BY <1>1, <1>6 DEF WalkInv
<1>8. Seen' = Seen /\ DoneWith' = DoneWith
  <2>1. Seen' = Seen BY <1>1, <1>4 DEF Seen
  <2> QED BY <1>4, <2>1 DEF DoneWith
<1>9. WalkInv' BY <1>1, <1>4, <1>6, <1>8 DEF WalkInv
<1>10. MergedInv' BY <1>4, <1>6, <1>7, <1>8 DEF MergedInv
<1>11. RateInv' BY <1>4, <1>6, <1>7 DEF RateInv
<1> QED BY <1>6, <1>9, <1>10, <1>11 DEF SnapInv, RecordInv

\* What is merged without a lock is part of the shard, and all of it if nobody wrote.
LEMMA MergeEndsKeeps ==
  ASSUME SnapInv, MergeEnds
  PROVE  SnapInv'
<1> DEFINE at == Head(snap.refs)
           now == shardHist[at[1]][at[2]]
           raced == snap.raced \/ now # snap.seen \/ shardMu[at[1]][at[2]] # "unlocked"
<1>1. snap.pc = "merging" /\ UNCHANGED <<recording, atStart>> BY DEF MergeEnds, Reads
<1>2. PICK taken \in [Values -> UNION {0..now[x] : x \in Values}] :
        /\ \A x \in Values : taken[x] <= now[x]
        /\ ~raced => taken = now
        /\ snap' = [snap EXCEPT !.pc = "merge", !.refs = Tail(@), !.seen = Nothing,
                                !.merged = Plus0(@, taken), !.raced = raced]
  BY DEF MergeEnds
<1>0. raced \in BOOLEAN /\ (~raced => ~snap.raced)
  <2>1. snap.raced \in BOOLEAN BY DEF SnapInv, WalkInv
  <2> QED BY <2>1
<1> HIDE DEF at, raced
<1>3. DOMAIN snap = ReaderFields /\ DOMAIN NoRead = ReaderFields
  BY DEF SnapInv, WalkInv, NoRead, ReaderFields
<1>4. /\ DOMAIN snap' = DOMAIN NoRead /\ snap'.order = snap.order /\ snap'.refs = Tail(snap.refs)
      /\ snap'.merged = Plus0(snap.merged, taken) /\ snap'.num = snap.num /\ snap'.den = snap.den
      /\ snap'.i = snap.i /\ snap'.pc = "merge"
  <2> HIDE DEF now
  <2> QED BY <1>2, <1>3 DEF ReaderFields
<1>5. snap'.raced = raced
  <2> HIDE DEF now
  <2> QED BY <1>2, <1>3 DEF ReaderFields
<1>6. /\ RecordInv' /\ StartInv' /\ WalkInv /\ MergedInv /\ RateInv
      /\ HistTypes(shardHist) /\ HistTypes(atStart.hist) /\ HistBelow(atStart.hist, shardHist)
      /\ shardHist' = shardHist /\ rateWords' = rateWords /\ atStart' = atStart
      /\ snapKind' = snapKind /\ known' = known
  BY <1>1, <1>4, ReadGoesOn
<1>7. /\ snapKind = "duration" /\ Len(snap.order) # 1 /\ snap.refs # <<>>
      /\ snap.refs \in Seq(Places) /\ OnceEach(snap.refs) /\ Range(snap.refs) \subseteq Seen
  BY <1>1, <1>6 DEF WalkInv
<1>8. /\ Tail(snap.refs) \in Seq(Places) /\ OnceEach(Tail(snap.refs))
      /\ at \in Range(snap.refs) /\ at \notin Range(Tail(snap.refs))
      /\ Range(snap.refs) = Range(Tail(snap.refs)) \cup {at}
  BY <1>7, TailOnce DEF at
<1>9. Seen' = Seen /\ DoneWith' = DoneWith \cup {at} /\ at \notin DoneWith /\ DoneWith \subseteq Places /\ at \in Places
  <2>1. Seen' = Seen BY <1>1, <1>4 DEF Seen
  <2>2. DoneWith' = Seen' \ Range(snap'.refs) /\ DoneWith = Seen \ Range(snap.refs) BY DEF DoneWith
  <2>3. Seen \subseteq Places /\ DoneWith \subseteq Places BY <1>6, WalkTypes
  <2> QED BY <1>4, <1>7, <1>8, <2>1, <2>2, <2>3
<1>10. now \in [Values -> Nat]
  <2>1. at[1] \in Variants /\ at[2] \in Shards BY <1>9 DEF Places
  <2> QED BY <1>6, <2>1 DEF HistTypes
<1>11. taken \in [Values -> Nat]
  <2>1. ASSUME NEW x \in Values PROVE taken[x] \in Nat
    <3>1. PICK y \in Values : taken[x] \in 0..now[y] BY <1>2
    <3>2. now[y] \in Nat BY <1>10
    <3> HIDE DEF now
    <3> QED BY <3>1, <3>2
  <2> QED BY <1>2, <2>1
<1>12. snap.merged \in [Values -> Nat] /\ snap'.merged \in [Values -> Nat]
       /\ \A x \in Values : snap'.merged[x] = snap.merged[x] + taken[x]
  <2>1. snap.merged \in [Values -> Nat] BY <1>6 DEF WalkInv
  <2> QED BY <1>4, <1>11, <2>1 DEF Plus0
<1>13. WalkInv'
  <2>1. Range(snap'.refs) \subseteq Seen' BY <1>4, <1>7, <1>8, <1>9
  <2>2. snap'.raced \in BOOLEAN BY <1>0, <1>5
  <2> HIDE DEF now
  <2> QED BY <1>1, <1>4, <1>6, <1>7, <1>8, <1>12, <2>1, <2>2 DEF WalkInv
<1>14. MergedInv'
  <2>1. ASSUME NEW x \in Values
        PROVE  /\ snap'.merged[x] <= OfPlaces(shardHist, DoneWith \cup {at}, x)
               /\ ~raced => OfPlaces(atStart.hist, DoneWith \cup {at}, x) <= snap'.merged[x]
    <3>1. /\ snap.merged[x] <= OfPlaces(shardHist, DoneWith, x)
          /\ ~snap.raced => OfPlaces(atStart.hist, DoneWith, x) <= snap.merged[x]
      BY <1>6, <1>7 DEF MergedInv
    <3>3. taken[x] \in Nat /\ taken[x] <= shardHist[at[1]][at[2]][x] BY <1>2, <1>11
    <3>4. snap.merged[x] \in Nat BY <1>12
    <3>5. /\ snap.merged[x] + taken[x] <= OfPlaces(shardHist, DoneWith \cup {at}, x)
          /\ OfPlaces(atStart.hist, DoneWith, x) <= snap.merged[x] /\ taken[x] = shardHist[at[1]][at[2]][x] =>
               OfPlaces(atStart.hist, DoneWith \cup {at}, x) <= snap.merged[x] + taken[x]
      BY <1>6, <1>9, <3>1, <3>3, <3>4, TakeMore
    <3>6. ~raced => taken[x] = shardHist[at[1]][at[2]][x] BY <1>2
    <3> QED BY <1>0, <1>12, <3>1, <3>5, <3>6
  <2> HIDE DEF now
  <2> QED BY <1>4, <1>5, <1>6, <1>7, <1>9, <2>1 DEF MergedInv
<1>15. RateInv'
  <2>1. snapKind' # "rate" BY <1>6, <1>7
  <2>2. snap.num = 0 /\ snap.den = 0 BY <1>6, <1>7 DEF RateInv
  <2> QED BY <1>4, <2>1, <2>2 DEF RateInv
<1> QED BY <1>6, <1>13, <1>14, <1>15 DEF SnapInv, RecordInv

\* The variants loaded, when one more is.
LEMMA FirstNext ==
  ASSUME WalkInv, snap.v \in 1..Len(snap.order)
  PROVE  /\ FirstLoaded(snap.v) = FirstLoaded(snap.v - 1) \cup {snap.order[snap.v]}
         /\ snap.order[snap.v] \notin FirstLoaded(snap.v - 1) /\ snap.order[snap.v] \in Variants
         /\ FirstLoaded(snap.v - 1) \subseteq Variants
<1> DEFINE order == snap.order
           v == snap.v
<1>1. /\ order \in Seq(Variants) /\ OnceEach(order) /\ v \in 1..Len(order)
      /\ DOMAIN order = 1..Len(order) /\ Len(order) \in Nat
  BY DEF WalkInv
<1>2. FirstLoaded(v) = {order[k] : k \in {k \in DOMAIN order : k <= v}} BY DEF FirstLoaded
<1>3. FirstLoaded(v - 1) = {order[k] : k \in {k \in DOMAIN order : k <= v - 1}} BY DEF FirstLoaded
<1>4. FirstLoaded(v - 1) \subseteq Variants BY WalkTypes
<1> HIDE DEF order, v
<1>5. \A k \in DOMAIN order : k <= v <=> (k <= v - 1 \/ k = v) BY <1>1
<1>6. v \in DOMAIN order /\ ~(v <= v - 1) BY <1>1
<1>7. FirstLoaded(v) = FirstLoaded(v - 1) \cup {order[v]} BY <1>2, <1>3, <1>5, <1>6
<1>8. order[v] \notin FirstLoaded(v - 1) BY <1>1, <1>3, <1>6 DEF OnceEach
<1>9. order[v] \in Variants BY <1>1
<1> QED BY <1>4, <1>7, <1>8, <1>9 DEF order, v

\* One variant more in a sum over those loaded.
LEMMA LoadMore ==
  ASSUME NEW rates, RateTypes(rates), NEW start, RateTypes(start), RatesBelow(start, rates),
         NEW S, S \subseteq Variants, NEW h \in Variants, h \notin S, NEW w \in RateWord, NEW m \in Nat,
         OfVariants(start, S, w) <= m, m <= OfVariants(rates, S, w)
  PROVE  /\ OfVariants(start, S \cup {h}, w) <= m + rates[h][w]
         /\ m + rates[h][w] <= OfVariants(rates, S \cup {h}, w)
<1>1. /\ OfVariants(rates, S \cup {h}, w) = OfVariants(rates, S, w) + rates[h][w]
      /\ OfVariants(rates, S, w) \in Nat /\ rates[h][w] \in Nat
  BY VariantMore
<1>2. /\ OfVariants(start, S \cup {h}, w) = OfVariants(start, S, w) + start[h][w]
      /\ OfVariants(start, S, w) \in Nat /\ start[h][w] \in Nat
  BY VariantMore
<1>3. start[h][w] <= rates[h][w] BY DEF RatesBelow, RateWord
<1> QED BY <1>1, <1>2, <1>3

\* A numerator leads its denominator by the virtual users that are between the two.
LEMMA LoadNumeratorKeeps ==
  ASSUME SnapInv, LoadNumerator
  PROVE  SnapInv'
<1> DEFINE h == snap.order[snap.v]
           n == rateWords[h].num
           d == rateWords[h].den
<1>1. /\ snap.pc = "num" /\ UNCHANGED <<recording, atStart>>
      /\ snap' = [snap EXCEPT !.pc = "den", !.num = @ + n]
  BY DEF LoadNumerator, Reads
<1> HIDE DEF h, n, d
<1>3. DOMAIN snap = ReaderFields /\ DOMAIN NoRead = ReaderFields
  BY DEF SnapInv, WalkInv, NoRead, ReaderFields
<1>4. /\ DOMAIN snap' = DOMAIN NoRead /\ snap'.order = snap.order /\ snap'.refs = snap.refs
      /\ snap'.merged = snap.merged /\ snap'.num = snap.num + n /\ snap'.den = snap.den
      /\ snap'.v = snap.v /\ snap'.i = snap.i /\ snap'.pc = "den" /\ snap'.raced = snap.raced
  BY <1>1, <1>3 DEF ReaderFields
<1>6. /\ RecordInv' /\ StartInv' /\ WalkInv /\ MergedInv /\ RateInv /\ SumInv
      /\ RateTypes(rateWords) /\ RateTypes(atStart.words) /\ RatesBelow(atStart.words, rateWords)
      /\ shardHist' = shardHist /\ rateWords' = rateWords /\ atStart' = atStart
      /\ snapKind' = snapKind /\ known' = known
  BY <1>1, <1>4, ReadGoesOn DEF SnapInv
<1>7. snapKind = "rate" /\ snap.v \in 1..Len(snap.order) /\ snap.num \in Nat /\ snap.den \in Nat
  BY <1>1, <1>6 DEF WalkInv
<1>8. /\ FirstLoaded(snap.v) = FirstLoaded(snap.v - 1) \cup {h}
      /\ h \notin FirstLoaded(snap.v - 1) /\ h \in Variants /\ FirstLoaded(snap.v - 1) \subseteq Variants
  BY <1>6, <1>7, FirstNext DEF h
<1>9. n \in Nat /\ d \in Nat /\ n = rateWords[h]["num"] /\ n <= d + Cardinality(Adding(h))
      /\ Cardinality(Adding(h)) <= Cardinality(Observers)
      /\ Cardinality(Adding(h)) \in Nat /\ Cardinality(Observers) \in Nat
  <2>1. n \in Nat /\ d \in Nat BY <1>6, <1>8 DEF RateTypes, n, d
  <2>2. n <= d + Cardinality(Adding(h)) BY <1>6, <1>8 DEF SumInv, n, d
  <2>3. Adding(h) \subseteq Observers /\ IsFiniteSet(Observers) BY SnapSets DEF Adding
  <2>4. Cardinality(Adding(h)) <= Cardinality(Observers) BY <2>3, FS_Subset
  <2>5. Cardinality(Observers) \in Nat BY <2>3, FS_CardinalityType
  <2>6. Cardinality(Adding(h)) \in Nat BY Hands
  <2> QED BY <2>1, <2>2, <2>4, <2>5, <2>6 DEF n
<1>10. Seen' = Seen BY <1>1, <1>4 DEF Seen
<1>15. snap.refs = <<>> BY <1>1, <1>6 DEF WalkInv
<1>11. WalkInv'
  <2>1. snap'.num \in Nat BY <1>4, <1>7, <1>9
  <2> QED BY <1>1, <1>4, <1>6, <1>7, <1>10, <1>15, <2>1 DEF WalkInv
<1>12. MergedInv' BY <1>4, <1>6, <1>7 DEF MergedInv
<1>13. RateInv'
  <2> DEFINE v == snap.v
             C == Cardinality(Observers)
  <2>1. /\ NumsLoaded = v - 1 /\ DensLoaded = v - 1 BY <1>1 DEF NumsLoaded, DensLoaded
  <2>2. /\ NumsLoaded' = v /\ DensLoaded' = v - 1 BY <1>4 DEF NumsLoaded, DensLoaded
  <2>3. \A k : FirstLoaded(k)' = FirstLoaded(k) BY <1>4 DEF FirstLoaded
  <2>4. FirstLoaded(NumsLoaded)' = FirstLoaded(v) /\ FirstLoaded(DensLoaded)' = FirstLoaded(v - 1)
    <3>1. FirstLoaded(NumsLoaded)' = FirstLoaded(v)' /\ FirstLoaded(DensLoaded)' = FirstLoaded(v - 1)'
      BY <1>4, <2>2 DEF FirstLoaded
    <3>2. FirstLoaded(v)' = FirstLoaded(v) /\ FirstLoaded(v - 1)' = FirstLoaded(v - 1) BY <1>4 DEF FirstLoaded
    <3> QED BY <3>1, <3>2
  <2>5. /\ OfVariants(atStart.words, FirstLoaded(v - 1), "num") <= snap.num
        /\ snap.num <= OfVariants(rateWords, FirstLoaded(v - 1), "num")
        /\ OfVariants(atStart.words, FirstLoaded(v - 1), "den") <= snap.den
        /\ snap.den <= OfVariants(rateWords, FirstLoaded(v - 1), "den")
        /\ snap.num <= snap.den + C * (v - 1)
    <3>1. snap.den + C * (v - 1) + 0 = snap.den + C * (v - 1)
      <4>1. v - 1 \in Nat /\ C \in Nat BY <1>7, <1>9
      <4>2. C * (v - 1) \in Nat BY <4>1
      <4> QED BY <1>7, <4>2
    <3> QED BY <1>1, <1>6, <1>7, <2>1, <3>1 DEF RateInv
  <2>6. /\ OfVariants(atStart.words, FirstLoaded(v), "num") <= snap'.num
        /\ snap'.num <= OfVariants(rateWords, FirstLoaded(v), "num")
    <3> DEFINE S == FirstLoaded(v - 1)
    <3>1. S \subseteq Variants /\ h \notin S /\ FirstLoaded(v) = S \cup {h} BY <1>8
    <3>2. OfVariants(atStart.words, S, "num") <= snap.num /\ snap.num <= OfVariants(rateWords, S, "num") BY <2>5
    <3> HIDE DEF S
    <3>3. "num" \in RateWord BY DEF RateWord
    <3>4. /\ OfVariants(atStart.words, S \cup {h}, "num") <= snap.num + rateWords[h]["num"]
          /\ snap.num + rateWords[h]["num"] <= OfVariants(rateWords, S \cup {h}, "num")
      BY <1>6, <1>7, <1>8, <3>1, <3>2, <3>3, LoadMore
    <3> QED BY <1>4, <1>9, <3>1, <3>4
  <2>7. snap'.num <= snap'.den + C * v + d
    <3>1. C * v = C * (v - 1) + C /\ C * (v - 1) \in Nat
      <4>1. v \in Nat \ {0} /\ C \in Nat BY <1>7, <1>9
      <4>2. \A a \in Nat, b \in Nat \ {0} : a * b = a * (b - 1) + a /\ a * (b - 1) \in Nat OBVIOUS
      <4> HIDE DEF C, v
      <4> QED BY <4>1, <4>2
    <3> DEFINE p == C * (v - 1)
    <3>2. snap.num <= snap.den + p BY <2>5
    <3>3. p \in Nat /\ C * v = p + C BY <3>1
    <3>4. n <= d + C /\ C \in Nat BY <1>9
    <3>6. snap.num \in Nat /\ snap.den \in Nat /\ n \in Nat /\ d \in Nat BY <1>7, <1>9
    <3> HIDE DEF p, C
    <3>5. snap.num + n <= snap.den + (p + C) + d BY ONLY <3>2, <3>3, <3>4, <3>6
    <3> QED BY <1>4, <3>3, <3>5
  <2>8. (IF snap'.pc = "den" THEN rateWords'[snap'.order[snap'.v]].den ELSE 0) = d BY <1>4, <1>6 DEF d, h
  <2>9. snap'.num <= snap'.den + C * NumsLoaded' + (IF snap'.pc = "den" THEN rateWords'[snap'.order[snap'.v]].den ELSE 0)
    BY <2>2, <2>7, <2>8
  <2>10. /\ OfVariants(atStart'.words, FirstLoaded(NumsLoaded)', "num") <= snap'.num
         /\ snap'.num <= OfVariants(rateWords', FirstLoaded(NumsLoaded)', "num")
         /\ OfVariants(atStart'.words, FirstLoaded(DensLoaded)', "den") <= snap'.den
         /\ snap'.den <= OfVariants(rateWords', FirstLoaded(DensLoaded)', "den")
    BY <1>4, <1>6, <2>4, <2>5, <2>6
  <2> QED BY <1>6, <1>7, <2>9, <2>10 DEF RateInv
<1> QED BY <1>6, <1>11, <1>12, <1>13 DEF SnapInv, RecordInv

\* The denominator of the same variant follows.
LEMMA LoadDenominatorKeeps ==
  ASSUME SnapInv, LoadDenominator
  PROVE  SnapInv'
<1> DEFINE h == snap.order[snap.v]
           d == rateWords[h].den
           last == snap.v = Len(snap.order)
<1>1. /\ snap.pc = "den" /\ UNCHANGED <<recording, atStart>>
      /\ snap' = [snap EXCEPT !.pc = IF last THEN "read" ELSE "num",
                              !.v = IF last THEN 1 ELSE @ + 1, !.den = @ + d]
  BY DEF LoadDenominator, Reads
<1>0. last <=> snap.v = Len(snap.order) OBVIOUS
<1> HIDE DEF h, d, last
<1>3. DOMAIN snap = ReaderFields /\ DOMAIN NoRead = ReaderFields
  BY DEF SnapInv, WalkInv, NoRead, ReaderFields
<1>4. /\ DOMAIN snap' = DOMAIN NoRead /\ snap'.order = snap.order /\ snap'.refs = snap.refs
      /\ snap'.merged = snap.merged /\ snap'.num = snap.num /\ snap'.den = snap.den + d
      /\ snap'.i = snap.i /\ snap'.raced = snap.raced
      /\ last => snap'.pc = "read" /\ snap'.v = 1
      /\ ~last => snap'.pc = "num" /\ snap'.v = snap.v + 1
  BY <1>1, <1>3 DEF ReaderFields
<1>6. /\ RecordInv' /\ StartInv' /\ WalkInv /\ MergedInv /\ RateInv
      /\ RateTypes(rateWords) /\ RateTypes(atStart.words) /\ RatesBelow(atStart.words, rateWords)
      /\ shardHist' = shardHist /\ rateWords' = rateWords /\ atStart' = atStart
      /\ snapKind' = snapKind /\ known' = known
  BY <1>1, <1>4, ReadGoesOn DEF SnapInv
<1>7. /\ snapKind = "rate" /\ snap.v \in 1..Len(snap.order) /\ snap.num \in Nat /\ snap.den \in Nat
      /\ Len(snap.order) \in Nat
  BY <1>1, <1>6, WalkTypes DEF WalkInv
<1>8. /\ FirstLoaded(snap.v) = FirstLoaded(snap.v - 1) \cup {h}
      /\ h \notin FirstLoaded(snap.v - 1) /\ h \in Variants /\ FirstLoaded(snap.v - 1) \subseteq Variants
  BY <1>6, <1>7, FirstNext DEF h
<1>9. d \in Nat /\ d = rateWords[h]["den"] BY <1>6, <1>8 DEF RateTypes, d
<1>10. Seen' = Seen BY <1>1, <1>4 DEF Seen
<1>14. ~last => snap.v + 1 \in 1..Len(snap.order) BY <1>0, <1>7
<1>15. snap.refs = <<>> BY <1>1, <1>6 DEF WalkInv
<1>11. WalkInv'
  <2>1. snap'.den \in Nat BY <1>4, <1>7, <1>9
  <2> QED BY <1>1, <1>4, <1>6, <1>7, <1>10, <1>14, <1>15, <2>1 DEF WalkInv
<1>12. MergedInv' BY <1>4, <1>6, <1>7 DEF MergedInv
<1>13. RateInv'
  <2> DEFINE v == snap.v
             C == Cardinality(Observers)
  <2>1. /\ NumsLoaded = v /\ DensLoaded = v - 1 BY <1>1 DEF NumsLoaded, DensLoaded
  <2>2. /\ NumsLoaded' = v /\ DensLoaded' = v
    <3>1. CASE last BY <1>0, <1>4, <3>1 DEF NumsLoaded, DensLoaded
    <3>2. CASE ~last
      <4>1. snap'.v - 1 = v BY <1>4, <1>7, <3>2
      <4> QED BY <1>4, <3>2, <4>1 DEF NumsLoaded, DensLoaded
    <3> QED BY <3>1, <3>2
  <2>4. FirstLoaded(NumsLoaded)' = FirstLoaded(v) /\ FirstLoaded(DensLoaded)' = FirstLoaded(v)
    BY <1>4, <2>2 DEF FirstLoaded
  <2>5. /\ OfVariants(atStart.words, FirstLoaded(v), "num") <= snap.num
        /\ snap.num <= OfVariants(rateWords, FirstLoaded(v), "num")
        /\ OfVariants(atStart.words, FirstLoaded(v - 1), "den") <= snap.den
        /\ snap.den <= OfVariants(rateWords, FirstLoaded(v - 1), "den")
        /\ snap.num <= snap.den + C * v + d
    BY <1>1, <1>6, <1>7, <2>1 DEF RateInv, d, h
  <2>6. /\ OfVariants(atStart.words, FirstLoaded(v), "den") <= snap'.den
        /\ snap'.den <= OfVariants(rateWords, FirstLoaded(v), "den")
    <3> DEFINE S == FirstLoaded(v - 1)
    <3>1. S \subseteq Variants /\ h \notin S /\ FirstLoaded(v) = S \cup {h} BY <1>8
    <3>2. OfVariants(atStart.words, S, "den") <= snap.den /\ snap.den <= OfVariants(rateWords, S, "den") BY <2>5
    <3> HIDE DEF S
    <3>3. "den" \in RateWord BY DEF RateWord
    <3>4. /\ OfVariants(atStart.words, S \cup {h}, "den") <= snap.den + rateWords[h]["den"]
          /\ snap.den + rateWords[h]["den"] <= OfVariants(rateWords, S \cup {h}, "den")
      BY <1>6, <1>7, <1>8, <3>1, <3>2, <3>3, LoadMore
    <3> QED BY <1>4, <1>9, <3>1, <3>4
  <2>7. snap'.num <= snap'.den + C * v + 0
    <3> DEFINE p == C * v
    <3>1. p \in Nat
      <4>1. v \in Nat /\ C \in Nat
        <5>1. C \in Nat BY SnapSets, FS_CardinalityType
        <5> QED BY <1>7, <5>1
      <4> QED BY <4>1
    <3>2. snap.num <= snap.den + p + d BY <2>5
    <3> HIDE DEF p
    <3>3. snap.num <= (snap.den + d) + p + 0 BY <1>7, <1>9, <3>1, <3>2
    <3> QED BY <1>4, <3>3 DEF p
  <2>8. snap'.pc # "den" BY <1>4
  <2>9. snap'.num <= snap'.den + C * NumsLoaded' + (IF snap'.pc = "den" THEN rateWords'[snap'.order[snap'.v]].den ELSE 0)
    BY <2>2, <2>7, <2>8
  <2>10. /\ OfVariants(atStart'.words, FirstLoaded(NumsLoaded)', "num") <= snap'.num
         /\ snap'.num <= OfVariants(rateWords', FirstLoaded(NumsLoaded)', "num")
         /\ OfVariants(atStart'.words, FirstLoaded(DensLoaded)', "den") <= snap'.den
         /\ snap'.den <= OfVariants(rateWords', FirstLoaded(DensLoaded)', "den")
    BY <1>4, <1>6, <2>4, <2>5, <2>6
  <2> QED BY <1>6, <1>7, <2>9, <2>10 DEF RateInv
<1> QED BY <1>6, <1>11, <1>12, <1>13 DEF SnapInv, RecordInv

-----------------------------------------------------------------------------
(* What a run shows. *)

\* A sum of nothing but zeros.
LEMMA TotalOfZeros ==
  ASSUME NEW D, IsFiniteSet(D), NEW f, DOMAIN f = D, \A x \in D : f[x] = 0
  PROVE  TotalOf(f) = 0
<1>1. UNION {{x} \X (1..f[x]) : x \in DOMAIN f} = {} OBVIOUS
<1> QED BY <1>1, FS_EmptySet DEF TotalOf

\* The invariant holds at the beginning.
LEMMA SnapInitially ==
  ASSUME SnapInit
  PROVE  SnapInv
<1>1. /\ snapKind \in {"duration", "rate"}
      /\ histSeq = [h \in Variants |-> 0]
      /\ shardHist = [h \in Variants |-> [i \in Shards |-> Nothing]]
      /\ rateWords = [h \in Variants |-> [num |-> 0, den |-> 0]]
      /\ known = {}
      /\ opc = [o \in Observers |-> "idle"]
      /\ observing = [o \in Observers |-> NoWork]
      /\ snap = NoRead
      /\ given = [samples |-> [d \in Samples |-> 0], num |-> 0, den |-> 0,
                  by |-> [o \in Observers |-> 0]]
      /\ atStart = [hist |-> shardHist, words |-> rateWords]
  BY DEF SnapInit
<1>2. Nothing \in [Values -> Nat] /\ \A x \in Values : Nothing[x] = 0 BY DEF Nothing
<1>3. /\ shardHist \in [Variants -> [Shards -> [Values -> Nat]]]
      /\ \A h \in Variants, i \in Shards, x \in Values : shardHist[h][i][x] = 0
  BY <1>1, <1>2
<1>4. /\ rateWords \in [Variants -> [num : Nat, den : Nat]]
      /\ \A h \in Variants : rateWords[h].num = 0 /\ rateWords[h].den = 0
  BY <1>1
<1>5. /\ DOMAIN given = {"samples", "num", "den", "by"} /\ DOMAIN given.by = Observers
      /\ given.samples \in [Samples -> Nat] /\ given.num = 0 /\ given.den = 0
      /\ \A d \in Samples : given.samples[d] = 0
  BY <1>1
<1>6. \A o \in Observers : opc[o] = "idle" BY <1>1
<1>7. SnapTypes BY <1>1, <1>3, <1>4, <1>5 DEF SnapTypes
<1>8. HandInv BY <1>6 DEF HandInv
<1>9. EmptyInv BY <1>3, <1>4 DEF EmptyInv
<1>10. SumInv
  <2>1. InHand = {} /\ \A x : HandOf(x) = {} BY <1>6 DEF InHand, HandOf
  <2>2. \A h : Adding(h) = {} BY <1>6 DEF Adding
  <2>3. Cardinality({}) = 0 BY FS_EmptySet
  <2>4. ASSUME NEW x \in Values PROVE Recorded(shardHist, x) = 0
    <3> DEFINE f == AtPlaces(shardHist, Places, x)
    <3>1. DOMAIN f = Places /\ IsFiniteSet(Places) BY SnapSets DEF AtPlaces
    <3>2. \A p \in Places : f[p] = 0 BY <1>3 DEF AtPlaces, Places
    <3>3. Recorded(shardHist, x) = TotalOf(f) BY DEF Recorded, AtPlaces
    <3> HIDE DEF f
    <3> QED BY <3>1, <3>2, <3>3, TotalOfZeros
  <2>5. TotalOf([x \in Values |-> Recorded(shardHist, x)]) = 0
    <3> DEFINE f == [x \in Values |-> Recorded(shardHist, x)]
    <3>1. DOMAIN f = Values /\ IsFiniteSet(Values) /\ \A x \in Values : f[x] = 0 BY <2>4, SnapSets
    <3> HIDE DEF f
    <3>2. TotalOf(f) = 0 BY <3>1, TotalOfZeros
    <3> QED BY <3>2 DEF f
  <2>6. ASSUME NEW x \in Values PROVE Given(x) = 0
    <3> DEFINE S == {d \in Samples : InRange(d) = x}
               f == [d \in S |-> given.samples[d]]
    <3>1. IsFiniteSet(S) BY SnapSets, FS_Subset
    <3>2. DOMAIN f = S /\ \A d \in S : f[d] = 0 BY <1>5
    <3>3. Given(x) = TotalOf(f) BY DEF Given
    <3> HIDE DEF S, f
    <3> QED BY <3>1, <3>2, <3>3, TotalOfZeros
  <2>7. TotalOf(given.samples) = 0
    <3>1. IsFiniteSet(Samples) /\ DOMAIN given.samples = Samples BY <1>5, SnapSets
    <3> QED BY <1>5, <3>1, TotalOfZeros
  <2>8. SumOfWord(rateWords, "num") = 0 /\ SumOfWord(rateWords, "den") = 0
    <3> DEFINE f == [h \in Variants |-> rateWords[h]["num"]]
               g == [h \in Variants |-> rateWords[h]["den"]]
    <3>1. DOMAIN f = Variants /\ DOMAIN g = Variants /\ IsFiniteSet(Variants) BY SnapSets
    <3>2. \A h \in Variants : f[h] = 0 /\ g[h] = 0 BY <1>4
    <3>3. SumOfWord(rateWords, "num") = TotalOf(f) /\ SumOfWord(rateWords, "den") = TotalOf(g) BY DEF SumOfWord
    <3> HIDE DEF f, g
    <3> QED BY <3>1, <3>2, <3>3, TotalOfZeros
  <2>9. TotalOf(DenInHand) = 0
    <3>1. DOMAIN DenInHand = Observers /\ \A o \in Observers : DenInHand[o] = 0 BY <1>6 DEF DenInHand
    <3>2. IsFiniteSet(Observers) BY SnapSets
    <3> QED BY <3>1, <3>2, TotalOfZeros
  <2>10. TotalOf([x \in Values |-> Recorded(shardHist, x)]) + Cardinality(InHand) = TotalOf(given.samples)
    BY <2>1, <2>3, <2>5, <2>7
  <2>11. \A x \in Values : Recorded(shardHist, x) + Cardinality(HandOf(x)) = Given(x) BY <2>1, <2>3, <2>4, <2>6
  <2>12. SumOfWord(rateWords, "num") = given.num /\ SumOfWord(rateWords, "den") + TotalOf(DenInHand) = given.den
    BY <1>5, <2>8, <2>9
  <2>13. \A h \in Variants : rateWords[h].num <= rateWords[h].den + Cardinality(Adding(h)) BY <1>4, <2>2, <2>3
  <2> QED BY <2>10, <2>11, <2>12, <2>13 DEF SumInv
<1>11. StartInv
  <2>1. DOMAIN atStart = {"hist", "words"} /\ atStart.hist = shardHist /\ atStart.words = rateWords BY <1>1
  <2>2. snap.pc = "idle" BY <1>1 DEF NoRead
  <2> QED BY <1>3, <1>4, <2>1, <2>2 DEF StartInv
<1>12. /\ snap.pc = "idle" /\ snap.order = <<>> /\ snap.v = 0 /\ snap.i = 0 /\ snap.refs = <<>>
       /\ snap.merged = Nothing /\ snap.raced = FALSE /\ snap.num = 0 /\ snap.den = 0
  BY <1>1 DEF NoRead
<1>13. Range(<<>>) = {} /\ OnceEach(<<>>) /\ Len(<<>>) = 0 /\ DOMAIN <<>> = {} BY DEF Range, OnceEach
<1>14. Seen = {} /\ DoneWith = {} BY <1>12, <1>13 DEF Seen, DoneWith
<1>15. WalkInv
  <2>1. 0 \in Shards BY SnapSets
  <2>2. snap.order \in Seq(Variants) /\ OnceEach(snap.order) /\ Range(snap.order) \subseteq known BY <1>12, <1>13
  <2>3. snap.refs \in Seq(Places) /\ OnceEach(snap.refs) /\ Range(snap.refs) \subseteq Seen BY <1>12, <1>13
  <2>4. snap.merged \in [Values -> Nat] /\ snap.num \in Nat /\ snap.den \in Nat BY <1>2, <1>12
  <2>5. FALSE \in BOOLEAN OBVIOUS
  <2>6. snap.raced = FALSE BY <1>12
  <2>7. snap.raced \in BOOLEAN BY ONLY <2>5, <2>6, Zenon
  <2> QED BY <1>1, <1>12, <2>1, <2>2, <2>3, <2>4, <2>7 DEF WalkInv
<1>16. MergedInv
  <2>1. \A hist, x : OfPlaces(hist, DoneWith, x) = 0 BY <1>14, OverNothing
  <2>2. \A x \in Values : snap.merged[x] = 0 BY <1>2, <1>12
  <2> QED BY <1>12, <2>1, <2>2 DEF MergedInv
<1>17. RateInv
  <2>1. NumsLoaded = 0 /\ DensLoaded = 0 BY <1>12, <1>13 DEF NumsLoaded, DensLoaded
  <2>2. FirstLoaded(NumsLoaded) = {} /\ FirstLoaded(DensLoaded) = {} BY <1>12, <1>13 DEF FirstLoaded
  <2>3. \A rates, w : OfVariants(rates, {}, w) = 0 BY OverNothing
  <2>4. Cardinality(Observers) * NumsLoaded = 0
    <3>1. Cardinality(Observers) \in Nat BY SnapSets, FS_CardinalityType
    <3> QED BY <2>1, <3>1
  <2> QED BY <1>12, <2>2, <2>3, <2>4 DEF RateInv
<1> QED BY <1>7, <1>8, <1>9, <1>10, <1>11, <1>15, <1>16, <1>17 DEF SnapInv

\* Every step keeps the invariant, one lemma for each action.
LEMMA SnapStepKeeps ==
  ASSUME SnapInv, [SnapNext]_snapVars
  PROVE  SnapInv'
<1>1. ASSUME NEW o \in Observers,
             \/ \E h \in Variants : \/ \E d \in Samples : Observe(o, h, d)
                                    \/ \E a \in Attempts : AddNumerator(o, h, a)
             \/ LockShard(o) \/ RecordValue(o) \/ AddRateDenominator(o)
      PROVE  SnapInv'
  BY <1>1, RecordingKeeps
<1>2. CASE BeginRead BY <1>2, BeginReadKeeps
<1>3. CASE MergeLocked BY <1>3, MergeLockedKeeps
<1>4. CASE CollectShard BY <1>4, CollectShardKeeps
<1>5. CASE MergeBegins BY <1>5, MergeBeginsKeeps
<1>6. CASE MergeEnds BY <1>6, MergeEndsKeeps
<1>7. CASE MergeIsOver BY <1>7, MergeIsOverKeeps
<1>8. CASE LoadNumerator BY <1>8, LoadNumeratorKeeps
<1>9. CASE LoadDenominator BY <1>9, LoadDenominatorKeeps
<1>10. CASE UNCHANGED snapVars
  <2>1. RecordInv' BY <1>10, ReadingKeepsRecords DEF snapVars
  <2>2. /\ StartInv /\ WalkInv /\ MergedInv /\ RateInv
        /\ UNCHANGED <<snapKind, shardHist, rateWords, known, snap, atStart>>
    BY <1>10 DEF SnapInv, snapVars, recording
  <2>3. StartInv' BY <2>2 DEF StartInv
  <2>4. /\ Seen' = Seen /\ DoneWith' = DoneWith /\ NumsLoaded' = NumsLoaded /\ DensLoaded' = DensLoaded
        /\ \A n : FirstLoaded(n)' = FirstLoaded(n)
    BY <2>2 DEF Seen, DoneWith, NumsLoaded, DensLoaded, FirstLoaded
  <2>5. WalkInv' BY <2>2, <2>4 DEF WalkInv
  <2>6. MergedInv' BY <2>2, <2>4 DEF MergedInv
  <2>7. FirstLoaded(NumsLoaded)' = FirstLoaded(NumsLoaded) /\ FirstLoaded(DensLoaded)' = FirstLoaded(DensLoaded)
    BY <2>2, <2>4 DEF FirstLoaded
  <2>8. RateInv' BY <2>2, <2>4, <2>7 DEF RateInv
  <2> QED BY <2>1, <2>3, <2>5, <2>6, <2>8 DEF SnapInv, RecordInv
<1> QED BY <1>1, <1>2, <1>3, <1>4, <1>5, <1>6, <1>7, <1>8, <1>9, <1>10 DEF SnapNext

\* A sum over the variants read is the sum over all: the others were empty.
LEMMA ReadIsAllOfIt ==
  ASSUME SnapInv, snap.pc = "read"
  PROVE  /\ \A x \in Values : Recorded(atStart.hist, x) = OfPlaces(atStart.hist, DoneWith, x)
         /\ \A w \in RateWord : SumOfWord(atStart.words, w) = OfVariants(atStart.words, Range(snap.order), w)
         /\ FirstLoaded(NumsLoaded) = Range(snap.order) /\ FirstLoaded(DensLoaded) = Range(snap.order)
<1>0. /\ HistTypes(atStart.hist) /\ RateTypes(atStart.words) /\ WalkInv
      /\ \A h \in Variants : h \notin Range(snap.order) =>
           /\ \A i \in Shards, x \in Values : atStart.hist[h][i][x] = 0
           /\ atStart.words[h].num = 0 /\ atStart.words[h].den = 0
  BY DEF SnapInv, StartInv, HistTypes, RateTypes
<1>1. DoneWith = {p \in Places : p[1] \in Range(snap.order)}
  <2>1. snap.refs = <<>> /\ Range(<<>>) = {} BY <1>0 DEF WalkInv, Range
  <2> QED BY <2>1 DEF DoneWith, Seen
<1>2. ASSUME NEW x \in Values PROVE Recorded(atStart.hist, x) = OfPlaces(atStart.hist, DoneWith, x)
  <2> DEFINE f == AtPlaces(atStart.hist, DoneWith, x)
             g == AtPlaces(atStart.hist, Places, x)
  <2>1. DoneWith \subseteq Places BY <1>1
  <2>2. /\ f \in [DoneWith -> Nat] /\ IsFiniteSet(DoneWith) /\ \A p \in DoneWith : f[p] = atStart.hist[p[1]][p[2]][x]
        /\ OfPlaces(atStart.hist, DoneWith, x) = TotalOf(f)
    BY <1>0, <2>1, AtPlacesType
  <2>3. /\ g \in [Places -> Nat] /\ IsFiniteSet(Places) /\ \A p \in Places : g[p] = atStart.hist[p[1]][p[2]][x]
        /\ OfPlaces(atStart.hist, Places, x) = TotalOf(g)
    BY <1>0, AtPlacesType
  <2>4. ASSUME NEW p \in Places \ DoneWith PROVE g[p] = 0
    <3>1. p[1] \in Variants /\ p[2] \in Shards BY DEF Places
    <3>2. p[1] \notin Range(snap.order) BY <1>1
    <3>3. atStart.hist[p[1]][p[2]][x] = 0 BY <1>0, <3>1, <3>2
    <3> QED BY <2>3, <3>3
  <2>5. \A p \in DoneWith : f[p] = g[p] BY <2>1, <2>2, <2>3
  <2> HIDE DEF f, g
  <2>6. TotalOf(f) = TotalOf(g) BY <2>1, <2>2, <2>3, <2>4, <2>5, TotalOutside
  <2> QED BY <2>2, <2>3, <2>6, RecordedIsOfPlaces
<1>3. Range(snap.order) \subseteq Variants BY <1>0 DEF WalkInv, Range
<1>4. ASSUME NEW w \in RateWord
      PROVE  SumOfWord(atStart.words, w) = OfVariants(atStart.words, Range(snap.order), w)
  <2> DEFINE R == Range(snap.order)
  <2>1. R \subseteq Variants BY <1>3
  <2>0. \A h \in Variants \ R : atStart.words[h][w] = 0 BY <1>0 DEF RateWord
  <2> HIDE DEF R
  <2> DEFINE f == AtVariants(atStart.words, R, w)
             g == AtVariants(atStart.words, Variants, w)
  <2>2. /\ f \in [R -> Nat] /\ IsFiniteSet(R) /\ \A h \in R : f[h] = atStart.words[h][w]
        /\ OfVariants(atStart.words, R, w) = TotalOf(f)
    BY <1>0, <2>1, AtVariantsType
  <2>3. /\ g \in [Variants -> Nat] /\ IsFiniteSet(Variants) /\ \A h \in Variants : g[h] = atStart.words[h][w]
        /\ OfVariants(atStart.words, Variants, w) = TotalOf(g)
    BY <1>0, AtVariantsType
  <2> HIDE DEF f, g
  <2>4. \A h \in Variants \ R : g[h] = 0 BY <2>0, <2>3
  <2>5. \A h \in R : f[h] = g[h] BY <2>1, <2>2, <2>3
  <2>6. TotalOf(f) = TotalOf(g) BY <2>1, <2>2, <2>3, <2>4, <2>5, TotalOutside
  <2>7. SumOfWord(atStart.words, w) = OfVariants(atStart.words, R, w) BY <2>2, <2>3, <2>6, SumOfWordIsOfVariants
  <2> QED BY <2>7 DEF R
<1>5. NumsLoaded = Len(snap.order) /\ DensLoaded = Len(snap.order) BY DEF NumsLoaded, DensLoaded
<1>6. DOMAIN snap.order = 1..Len(snap.order) /\ Len(snap.order) \in Nat BY <1>0 DEF WalkInv
<1>7. FirstLoaded(Len(snap.order)) = Range(snap.order)
  <2>1. \A k \in DOMAIN snap.order : k <= Len(snap.order) BY <1>6
  <2> QED BY <2>1 DEF FirstLoaded, Range
<1> QED BY <1>2, <1>4, <1>5, <1>7

\* Nothing was there of the kind that is not read.
LEMMA OtherKindIsEmpty ==
  ASSUME SnapInv
  PROVE  /\ snapKind = "rate" => \A x \in Values : Recorded(atStart.hist, x) = 0
         /\ snapKind = "duration" =>
              \A w \in RateWord : SumOfWord(atStart.words, w) = 0
<1>0. /\ HistTypes(atStart.hist) /\ RateTypes(atStart.words) /\ EmptyInv
      /\ HistBelow(atStart.hist, shardHist) /\ RatesBelow(atStart.words, rateWords)
  BY DEF SnapInv, StartInv, HistTypes, RateTypes, HistBelow, RatesBelow
<1>1. ASSUME snapKind = "rate", NEW x \in Values PROVE Recorded(atStart.hist, x) = 0
  <2> DEFINE f == AtPlaces(atStart.hist, Places, x)
  <2>1. ASSUME NEW p \in Places PROVE f[p] = 0
    <3>1. p[1] \in Variants /\ p[2] \in Shards BY DEF Places
    <3>2. atStart.hist[p[1]][p[2]][x] \in Nat BY <1>0, <3>1 DEF HistTypes
    <3>3. atStart.hist[p[1]][p[2]][x] <= 0 BY <1>0, <1>1, <3>1 DEF HistBelow, EmptyInv
    <3> QED BY <3>2, <3>3 DEF AtPlaces
  <2>2. DOMAIN f = Places /\ IsFiniteSet(Places) BY SnapSets DEF AtPlaces
  <2>3. Recorded(atStart.hist, x) = TotalOf(f) BY DEF Recorded, AtPlaces
  <2> HIDE DEF f
  <2> QED BY <2>1, <2>2, <2>3, TotalOfZeros
<1>2. ASSUME snapKind = "duration", NEW w \in RateWord PROVE SumOfWord(atStart.words, w) = 0
  <2> DEFINE f == AtVariants(atStart.words, Variants, w)
  <2>1. ASSUME NEW h \in Variants PROVE f[h] = 0
    <3>1. atStart.words[h].num \in Nat /\ atStart.words[h].den \in Nat BY <1>0 DEF RateTypes
    <3>2. atStart.words[h].num <= 0 /\ atStart.words[h].den <= 0 BY <1>0, <1>2 DEF RatesBelow, EmptyInv
    <3> QED BY <3>1, <3>2 DEF AtVariants, RateWord
  <2>2. DOMAIN f = Variants /\ IsFiniteSet(Variants) BY SnapSets DEF AtVariants
  <2>3. SumOfWord(atStart.words, w) = TotalOf(f) BY DEF SumOfWord, AtVariants
  <2> HIDE DEF f
  <2> QED BY <2>1, <2>2, <2>3, TotalOfZeros
<1> QED BY <1>1, <1>2

\* The invariant says what a read shows.
LEMMA InvariantShows ==
  ASSUME SnapInv
  PROVE  SnapshotsShowWhatWasObserved
<1>0. /\ SnapTypes /\ EmptyInv /\ SumInv /\ WalkInv /\ MergedInv /\ RateInv
      /\ snapKind \in {"duration", "rate"} /\ RateTypes(rateWords) /\ HistTypes(shardHist)
  BY DEF SnapInv, SnapTypes, RateTypes, HistTypes
<1>1. TotalOf([x \in Values |-> Recorded(shardHist, x)]) + Cardinality(InHand) = TotalOf(given.samples)
  BY <1>0 DEF SumInv
<1>2. ASSUME snap.pc = "read", NEW x \in Values
      PROVE  /\ snap.merged[x] <= Given(x)
             /\ ~snap.raced => Recorded(atStart.hist, x) <= snap.merged[x]
  <2>1. Recorded(shardHist, x) <= Given(x) /\ Recorded(shardHist, x) \in Nat /\ Given(x) \in Nat
    <3>1. Recorded(shardHist, x) + Cardinality(HandOf(x)) = Given(x) BY <1>0 DEF SumInv
    <3>2. Recorded(shardHist, x) \in Nat /\ Given(x) \in Nat BY <1>0, SumsAreNaturals
    <3>3. Cardinality(HandOf(x)) \in Nat BY Hands
    <3> QED BY <3>1, <3>2, <3>3
  <2>2. CASE snapKind = "duration"
    <3>1. /\ snap.merged[x] <= OfPlaces(shardHist, DoneWith, x)
          /\ ~snap.raced => OfPlaces(atStart.hist, DoneWith, x) <= snap.merged[x]
      BY <1>0, <2>2 DEF MergedInv
    <3>2. OfPlaces(shardHist, DoneWith, x) <= Recorded(shardHist, x) /\ OfPlaces(shardHist, DoneWith, x) \in Nat
      <4>1. HistBelow(shardHist, shardHist) /\ DoneWith \subseteq Places BY <1>0, UnchangedBelow, WalkTypes
      <4>2. Places \subseteq Places OBVIOUS
      <4> QED BY <1>0, <4>1, <4>2, PlacesMonotone, RecordedIsOfPlaces
    <3>3. Recorded(atStart.hist, x) = OfPlaces(atStart.hist, DoneWith, x) BY <1>2, ReadIsAllOfIt
    <3>4. snap.merged[x] \in Nat BY <1>0 DEF WalkInv
    <3> QED BY <2>1, <3>1, <3>2, <3>3, <3>4
  <2>3. CASE snapKind = "rate"
    <3>1. snap.merged[x] = 0 BY <1>0, <2>3 DEF MergedInv, Nothing
    <3>2. Recorded(atStart.hist, x) = 0 BY <2>3, OtherKindIsEmpty
    <3> QED BY <2>1, <3>1, <3>2
  <2> QED BY <1>0, <2>2, <2>3
<1>3. Len(snap.order) = 1 => ~snap.raced BY <1>0 DEF WalkInv
<1>4. ASSUME snap.pc = "read"
      PROVE  /\ snap.num \in SumOfWord(atStart.words, "num") .. given.num
             /\ snap.den \in SumOfWord(atStart.words, "den") .. given.den
             /\ snap.num <= snap.den + Cardinality(Observers) * Len(snap.order)
  <2>1. /\ SumOfWord(rateWords, "num") = given.num
        /\ SumOfWord(rateWords, "den") + TotalOf(DenInHand) = given.den
        /\ given.num \in Nat /\ given.den \in Nat /\ snap.num \in Nat /\ snap.den \in Nat
        /\ Len(snap.order) \in Nat
    BY <1>0, WalkTypes DEF SumInv, SnapTypes, WalkInv
  <2>2. "num" \in RateWord /\ "den" \in RateWord BY DEF RateWord
  <2>3. Cardinality(Observers) \in Nat BY SnapSets, FS_CardinalityType
  <2>4. CASE snapKind = "rate"
    <3> DEFINE R == Range(snap.order)
               bound == Cardinality(Observers) * Len(snap.order)
    <3>1. /\ SumOfWord(atStart.words, "num") = OfVariants(atStart.words, R, "num")
          /\ SumOfWord(atStart.words, "den") = OfVariants(atStart.words, R, "den")
          /\ FirstLoaded(NumsLoaded) = R /\ FirstLoaded(DensLoaded) = R
      BY <1>4, <2>2, ReadIsAllOfIt
    <3>2. /\ OfVariants(atStart.words, R, "num") <= snap.num
          /\ snap.num <= OfVariants(rateWords, R, "num")
          /\ OfVariants(atStart.words, R, "den") <= snap.den
          /\ snap.den <= OfVariants(rateWords, R, "den")
      BY <1>0, <2>4, <3>1 DEF RateInv
    <3>3. snap.num <= snap.den + bound + 0
      <4>1. NumsLoaded = Len(snap.order) BY <1>4 DEF NumsLoaded
      <4> QED BY <1>0, <1>4, <2>4, <4>1 DEF RateInv
    <3>4. bound \in Nat BY <2>1, <2>3
    <3>5. R \subseteq Variants BY <1>0 DEF WalkInv, Range
    <3> HIDE DEF R, bound
    <3>6. /\ OfVariants(rateWords, R, "num") <= SumOfWord(rateWords, "num")
          /\ OfVariants(rateWords, R, "den") <= SumOfWord(rateWords, "den")
          /\ OfVariants(rateWords, R, "num") \in Nat /\ OfVariants(rateWords, R, "den") \in Nat
          /\ SumOfWord(rateWords, "num") \in Nat /\ SumOfWord(rateWords, "den") \in Nat
      <4>1. RatesBelow(rateWords, rateWords) /\ Variants \subseteq Variants BY <1>0, UnchangedBelow
      <4>2. \A w \in RateWord : /\ OfVariants(rateWords, R, w) <= OfVariants(rateWords, Variants, w)
                                /\ OfVariants(rateWords, R, w) \in Nat /\ OfVariants(rateWords, Variants, w) \in Nat
        BY <1>0, <3>5, <4>1, VariantsMonotone
      <4> QED BY <2>2, <4>2, SumOfWordIsOfVariants
    <3>7. SumOfWord(atStart.words, "num") \in Nat /\ SumOfWord(atStart.words, "den") \in Nat
      <4>1. RateTypes(atStart.words) BY DEF SnapInv, StartInv, RateTypes
      <4>2. \A w \in RateWord : OfVariants(atStart.words, R, w) \in Nat BY ONLY <3>5, <4>1, AtVariantsType
      <4> QED BY <2>2, <3>1, <4>2
    <3>8. TotalOf(DenInHand) \in Nat
      <4>1. DenInHand \in [Observers -> Nat] BY DEF SnapInv, HandInv, DenInHand
      <4>2. IsFiniteSet(Observers) BY SnapSets
      <4> QED BY <4>1, <4>2, UnitsAreFinite
    <3>9. snap.num \in SumOfWord(atStart.words, "num") .. given.num
      BY <2>1, <3>1, <3>2, <3>6, <3>7
    <3>10. snap.den \in SumOfWord(atStart.words, "den") .. given.den
      BY <2>1, <3>1, <3>2, <3>6, <3>7, <3>8
    <3>11. snap.num <= snap.den + bound BY <2>1, <3>3, <3>4
    <3> QED BY <3>9, <3>10, <3>11 DEF bound
  <2>5. CASE snapKind = "duration"
    <3>1. snap.num = 0 /\ snap.den = 0 BY <1>0, <2>5 DEF RateInv
    <3>2. SumOfWord(atStart.words, "num") = 0 /\ SumOfWord(atStart.words, "den") = 0
      BY <2>2, <2>5, OtherKindIsEmpty
    <3>3. Cardinality(Observers) * Len(snap.order) \in Nat BY <2>1, <2>3
    <3> QED BY <2>1, <3>1, <3>2, <3>3
  <2> QED BY <1>0, <2>4, <2>5
<1> QED BY <1>1, <1>2, <1>3, <1>4 DEF SnapshotsShowWhatWasObserved

\* Nothing that is observed is lost, and a read of a metric while it is recorded shows
\* no more than was observed and no less than was there when it began.
THEOREM SnapshotsShowWhatWasObservedHolds == SnapSpec => []SnapshotsShowWhatWasObserved
<1>1. SnapInit => SnapInv BY SnapInitially
<1>2. SnapInv /\ [SnapNext]_snapVars => SnapInv' BY SnapStepKeeps
<1>3. SnapInv => SnapshotsShowWhatWasObserved BY InvariantShows
<1> QED BY <1>1, <1>2, <1>3, PTL DEF SnapSpec

-----------------------------------------------------------------------------
(* The types that no other proof needs.                                    *)

\* The registry's kinds, the words of the cells, and the recorders' bound.
StoreSorts ==
  /\ \A n \in DOMAIN registry : n \in MetricNames /\ registry[n] \in Kinds
  /\ \A c \in DOMAIN words : words[c] \in [CellWords -> Nat]
  /\ recorded \in [Recorders -> 0..MaxRecords]
  /\ \A r \in Recorders : rpc[r] \in Standings \ {"idle", "panic"} => recorded[r] < MaxRecords

\* Nothing is recorded at first.
LEMMA StoreSortsInitially == StoreInit => StoreSorts
<1>1. 0 \in 0..MaxRecords BY MetricStoreAssumption DEF MetricStoreAssumption
<1>2. ASSUME StoreInit
      PROVE  /\ DOMAIN registry = {} /\ DOMAIN words = {}
             /\ \A r \in Recorders : rpc[r] = "idle"
             /\ recorded = [r \in Recorders |-> 0]
  BY <1>2 DEF StoreInit
<1> QED BY <1>1, <1>2 DEF StoreSorts

\* A step registers a name under its recorder's kind, makes a cell of zeros or adds
\* one to a word, and records only below the bound.
LEMMA StoreSortsInductive == StoreTypes /\ RecordersShareTheCell /\ CellsOfKeys /\ StoreSorts /\ [StoreNext]_storeVars => StoreSorts'
<1> SUFFICES ASSUME StoreTypes, RecordersShareTheCell, CellsOfKeys, StoreSorts, [StoreNext]_storeVars PROVE StoreSorts'
  OBVIOUS
<1>0. /\ \A r \in Recorders : using[r].name \in MetricNames /\ using[r].kind \in Kinds
      /\ DOMAIN rpc = Recorders /\ MaxRecords \in Nat
  BY MetricStoreAssumption DEF StoreTypes, MetricKeys
<1>1. ASSUME NEW r \in Recorders, NEW to \in Standings, MovesTo(r, to), UNCHANGED recorded,
             to \notin {"idle", "panic"} => recorded[r] < MaxRecords
      PROVE  /\ recorded' \in [Recorders -> 0..MaxRecords]
             /\ \A q \in Recorders : rpc'[q] \in Standings \ {"idle", "panic"} => recorded'[q] < MaxRecords
  BY <1>1 DEF MovesTo, StoreSorts
<1>2. ASSUME NEW r \in Recorders, NEW to \in Standings, NEW from, Step(r, from, to), UNCHANGED recorded,
             from = "idle" => recorded[r] < MaxRecords, from # "panic", UNCHANGED <<registry, words>>
      PROVE  StoreSorts'
  <2>1. rpc[r] = from /\ MovesTo(r, to) BY <1>2, Moves
  <2>2. rpc[r] \in Standings BY DEF StoreTypes
  <2>3. recorded[r] < MaxRecords BY <1>2, <2>1, <2>2 DEF StoreSorts
  <2> QED BY <1>1, <1>2, <2>1, <2>3 DEF StoreSorts
<1>3. ASSUME NEW r \in Recorders, Look(r) \/ LookAgain(r) \/ MustRegister(r) PROVE StoreSorts'
  <2>1. UNCHANGED <<recorded, registry, words>> BY <1>3 DEF Look, LookAgain, MustRegister
  <2>2. CASE Look(r)
    <3>1. (Step(r, "idle", "add") \/ Step(r, "idle", "lock")) /\ recorded[r] < MaxRecords BY <2>2 DEF Look
    <3> QED BY <1>2, <2>1, <3>1 DEF Standings
  <2>3. CASE LookAgain(r)
    <3>1. Step(r, "lock", "add") \/ Step(r, "lock", "register") BY <2>3 DEF LookAgain
    <3> QED BY <1>2, <2>1, <3>1 DEF Standings
  <2>4. CASE MustRegister(r)
    <3>1. Step(r, "register", "register locked") \/ Step(r, "register", "create") \/ Step(r, "register", "panic")
      BY <2>4 DEF MustRegister
    <3> QED BY <1>2, <2>1, <3>1 DEF Standings
  <2> QED BY <1>3, <2>2, <2>3, <2>4
<1>4. ASSUME NEW r \in Recorders, RegisterLocked(r) PROVE StoreSorts'
  <2>1. UNCHANGED <<recorded, words>> /\ (registry' = registry \/ registry' = Put(registry, using[r].name, using[r].kind))
    BY <1>4 DEF RegisterLocked
  <2>2. \E to \in {"create", "panic"} : Step(r, "register locked", to) BY <1>4 DEF RegisterLocked
  <2>3. \A n \in DOMAIN registry' : n \in MetricNames /\ registry'[n] \in Kinds
    BY <1>0, <2>1 DEF Put, StoreSorts
  <2>4. PICK to \in {"create", "panic"} : rpc[r] = "register locked" /\ MovesTo(r, to)
    BY <2>2, Moves DEF Standings
  <2>5. recorded[r] < MaxRecords BY <2>4 DEF StoreSorts, Standings
  <2> QED BY <1>1, <2>1, <2>3, <2>4, <2>5 DEF StoreSorts, Standings
<1>5. ASSUME NEW r \in Recorders, Create(r) PROVE StoreSorts'
  <2> DEFINE new == Cardinality(DOMAIN words) + 1
  <2>1. words' = Put(words, new, [w \in CellWords |-> 0]) /\ UNCHANGED <<recorded, registry>> /\ Step(r, "create", "add")
    BY <1>5 DEF Create
  <2> HIDE DEF new
  <2>2. \A c \in DOMAIN words' : words'[c] \in [CellWords -> Nat] BY <2>1 DEF Put, StoreSorts
  <2>3. rpc[r] = "create" /\ MovesTo(r, "add") BY <2>1, Moves DEF Standings
  <2>4. recorded[r] < MaxRecords BY <2>3 DEF StoreSorts, Standings
  <2> QED BY <1>1, <2>1, <2>2, <2>3, <2>4 DEF StoreSorts, Standings
<1>6. ASSUME NEW r \in Recorders, AddFirst(r) \/ AddDenominator(r) PROVE StoreSorts'
  <2>1. UNCHANGED registry /\ \E w \in CellWords : words' = [words EXCEPT ![handle[r]][w] = @ + 1]
    BY <1>6 DEF AddFirst, AddDenominator, CellWords
  <2>2. \A c \in DOMAIN words' : words'[c] \in [CellWords -> Nat]
    BY <2>1 DEF StoreSorts, CellWords
  <2>3. \/ Step(r, "add", "add den") /\ UNCHANGED recorded
        \/ (Step(r, "add", "idle") \/ Step(r, "add den", "idle")) /\ recorded' = [recorded EXCEPT ![r] = @ + 1]
    BY <1>6 DEF AddFirst, AddDenominator
  <2>4. rpc[r] \in {"add", "add den"} BY <2>3 DEF Step
  <2>5. recorded[r] < MaxRecords BY <2>4 DEF StoreSorts, Standings
  <2>6. CASE Step(r, "add", "add den") /\ UNCHANGED recorded
    <3>1. MovesTo(r, "add den") BY <2>6, Moves DEF Standings
    <3> QED BY <1>1, <2>1, <2>2, <2>5, <2>6, <3>1 DEF StoreSorts, Standings
  <2>7. CASE (Step(r, "add", "idle") \/ Step(r, "add den", "idle")) /\ recorded' = [recorded EXCEPT ![r] = @ + 1]
    <3>1. MovesTo(r, "idle") BY <2>7, Moves DEF Standings
    <3>2. recorded' \in [Recorders -> 0..MaxRecords]
      <4>1. recorded \in [Recorders -> 0..MaxRecords] BY DEF StoreSorts
      <4>2. recorded[r] + 1 \in 0..MaxRecords BY <1>0, <2>5, <4>1
      <4> QED BY <2>7, <4>1, <4>2
    <3>3. \A q \in Recorders \ {r} : recorded'[q] = recorded[q] /\ rpc'[q] = rpc[q]
      BY <2>7, <3>1 DEF MovesTo, StoreSorts
    <3>4. rpc'[r] = "idle" BY <3>1 DEF MovesTo
    <3>5. \A q \in Recorders : rpc'[q] \in Standings \ {"idle", "panic"} => recorded'[q] < MaxRecords
      BY <3>3, <3>4 DEF StoreSorts
    <3> QED BY <2>1, <2>2, <3>2, <3>5 DEF StoreSorts
  <2> QED BY <2>3, <2>6, <2>7
<1>7. CASE UNCHANGED storeVars BY <1>7 DEF storeVars, StoreSorts
<1> QED BY <1>3, <1>4, <1>5, <1>6, <1>7 DEF StoreNext

\* The storage keeps to its types.
LEMMA StoreTypeCorrect == StoreSpec => []StoreTypeOK
<1>1. StoreInit => StoreInv /\ StoreSorts BY StoreInitially, StoreSortsInitially
<1>2. (StoreInv /\ StoreSorts) /\ [StoreNext]_storeVars => (StoreInv /\ StoreSorts)'
  BY StoreStep, StoreSortsInductive DEF StoreInv
<1>3. StoreInv /\ StoreSorts => StoreTypeOK
  <2> SUFFICES ASSUME StoreInv, StoreSorts PROVE StoreTypeOK OBVIOUS
  <2>1. \A r \in Recorders : rpc[r] \in {"add", "add den"} => handle[r] \in DOMAIN words
    <3> SUFFICES ASSUME NEW r \in Recorders, rpc[r] \in {"add", "add den"} PROVE handle[r] \in DOMAIN words OBVIOUS
    <3>1. Published(using[r]) /\ handle[r] = readMap[using[r].kind][using[r].name] /\ using[r] \in MetricKeys
      BY DEF StoreInv, RecordersShareTheCell, StoreTypes
    <3> QED BY <3>1 DEF StoreInv, CellsOfKeys
  <2> QED BY <2>1 DEF StoreInv, StoreTypes, StoreSorts, StoreTypeOK, Standings
<1> QED BY <1>1, <1>2, <1>3, PTL DEF StoreSpec

-----------------------------------------------------------------------------
\* The shards' mutexes are held by virtual users.
MutexesTyped == shardMu \in [Variants -> [Shards -> Observers \cup {"unlocked"}]]

\* A shard's mutex is taken by who records and given back.
LEMMA MutexesStayTyped == MutexesTyped /\ [SnapNext]_snapVars => MutexesTyped'
<1> SUFFICES ASSUME MutexesTyped, [SnapNext]_snapVars PROVE MutexesTyped'
  OBVIOUS
<1>1. ASSUME NEW h, NEW i, NEW x \in Observers \cup {"unlocked"}, shardMu' = [shardMu EXCEPT ![h][i] = x]
      PROVE  MutexesTyped'
  BY <1>1 DEF MutexesTyped
<1>2. ASSUME NEW o \in Observers, LockShard(o) \/ RecordValue(o) PROVE MutexesTyped'
  BY <1>1, <1>2 DEF LockShard, RecordValue
<1>3. ASSUME UNCHANGED shardMu PROVE MutexesTyped' BY <1>3 DEF MutexesTyped
<1>4. ASSUME NEW o \in Observers,
             \/ \E h \in Variants, d \in Samples : Observe(o, h, d)
             \/ \E h \in Variants, a \in Attempts : AddNumerator(o, h, a)
             \/ AddRateDenominator(o)
      PROVE  MutexesTyped'
  BY <1>3, <1>4 DEF Observe, AddNumerator, AddRateDenominator
<1>5. CASE BeginRead \/ MergeLocked \/ CollectShard \/ MergeBegins \/ MergeEnds \/ MergeIsOver
  BY <1>3, <1>5 DEF BeginRead, MergeLocked, CollectShard, MergeBegins, MergeEnds, MergeIsOver, Reads, recording
<1>6. CASE LoadNumerator \/ LoadDenominator \/ UNCHANGED snapVars
  BY <1>3, <1>6 DEF LoadNumerator, LoadDenominator, Reads, recording, snapVars
<1> QED BY <1>2, <1>4, <1>5, <1>6 DEF SnapNext

\* A reading of a run in progress keeps to its types.
LEMMA SnapTypeCorrect == SnapSpec => []SnapTypeOK
<1>1. SnapInit => SnapInv /\ MutexesTyped BY SnapInitially DEF SnapInit, MutexesTyped
<1>2. (SnapInv /\ MutexesTyped) /\ [SnapNext]_snapVars => (SnapInv /\ MutexesTyped)'
  BY SnapStepKeeps, MutexesStayTyped
<1>3. SnapInv /\ MutexesTyped => SnapTypeOK BY DEF SnapInv, SnapTypes, WalkInv, MutexesTyped, SnapTypeOK
<1> QED BY <1>1, <1>2, <1>3, PTL DEF SnapSpec
=============================================================================
