-------------------------------- MODULE DataSet --------------------------------
(***************************************************************************)
(* Data sets (pkg/vuhive/data): records loaded from CSV, JSON or JSONL and *)
(* dealt to the virtual users by a strategy.  The shared queue's cursor is *)
(* one atomic word; the slice behind it is never changed.                  *)
(***************************************************************************)
EXTENDS Integers, Sequences, FiniteSets

CONSTANTS
  Readers,       \* virtual users, numbered from 1
  MaxDocument,   \* bound: lines of a document
  MaxNexts       \* bound: calls of Next per virtual user

ASSUME DataSetAssumption ==
  /\ Readers \subseteq Nat \ {0}
  /\ MaxDocument \in Nat /\ MaxNexts \in Nat

Strategies == {"Sequential", "Random", "UniquePerVU", "SharedQueue", "unknown"}
Formats == {"CSV", "JSON", "JSONL"}

\* A line of a document, or an element of JSON's one array: a record, a record
\* without its last column, a blank line, or one that does not parse.
Lines == {"row", "ragged", "blank", "broken"}

\* What the loaders make of a document: an error, or the records.  Blank lines
\* are skipped; CSV's first record is the header, and all have to have as many
\* columns as it.
Kept(doc) == {i \in DOMAIN doc : doc[i] # "blank"}
LoadError(format, doc) ==
  \/ \E i \in DOMAIN doc : doc[i] = "broken"
  \/ format = "CSV" /\ (Kept(doc) = {} \/ \E i, j \in Kept(doc) : doc[i] # doc[j])
RecordsOf(format, doc) == Cardinality(Kept(doc)) - (IF format = "CSV" THEN 1 ELSE 0)

VARIABLES
  strategy,
  size,        \* the number of records, or -1 when loading failed
  cursor,      \* the shared queue's atomic counter
  iteration,   \* each virtual user's iteration
  dealt,       \* history: the index each call got, per virtual user
  exhausted    \* history: virtual users that were told the set is exhausted

dataVars == <<strategy, size, cursor, iteration, dealt, exhausted>>

Documents0 == UNION {[1..n -> Lines] : n \in 0..MaxDocument}

DataInit ==
  /\ strategy \in Strategies
  /\ \E format \in Formats, doc \in Documents0 :
       size = IF LoadError(format, doc) THEN -1 ELSE RecordsOf(format, doc)
  /\ cursor = 0
  /\ iteration = [v \in Readers |-> 0]
  /\ dealt = [v \in Readers |-> <<>>]
  /\ exhausted = {}

\* The index a strategy that goes by virtual user and iteration selects.
DealtByPosition(v) ==
  IF strategy \in {"Sequential", "UniquePerVU"} THEN (v - 1 + iteration[v]) % size
  ELSE iteration[v] % size

Deal(v, i) == dealt' = [dealt EXCEPT ![v] = Append(@, i)] /\ UNCHANGED exhausted
Exhausted(v) == exhausted' = exhausted \cup {v} /\ UNCHANGED dealt

Calls(v) == /\ size >= 0 /\ iteration[v] < MaxNexts
            /\ iteration' = [iteration EXCEPT ![v] = @ + 1]

NextOfEmpty(v) ==
  /\ Calls(v) /\ size = 0
  /\ Exhausted(v)
  /\ UNCHANGED <<strategy, size, cursor>>

NextByPosition(v) ==
  /\ Calls(v) /\ size > 0 /\ strategy \in {"Sequential", "UniquePerVU", "unknown"}
  /\ Deal(v, DealtByPosition(v))
  /\ UNCHANGED <<strategy, size, cursor>>

NextAtRandom(v) ==
  /\ Calls(v) /\ size > 0 /\ strategy = "Random"
  /\ \E i \in 0..size-1 : Deal(v, i)
  /\ UNCHANGED <<strategy, size, cursor>>

\* Mutation: the queue starts again at its end.
QueueWrapsAround(v) ==
  /\ Calls(v) /\ size > 0 /\ strategy = "SharedQueue"
  /\ cursor' = cursor + 1
  /\ Deal(v, cursor % size)
  /\ UNCHANGED <<strategy, size>>

\* One atomic add gives the caller its index, or shows that none is left.
NextFromQueue(v) ==
  /\ Calls(v) /\ size > 0 /\ strategy = "SharedQueue"
  /\ cursor' = cursor + 1
  /\ IF cursor >= size THEN Exhausted(v) ELSE Deal(v, cursor)
  /\ UNCHANGED <<strategy, size>>

DataNext ==
  \E v \in Readers :
    NextOfEmpty(v) \/ NextByPosition(v) \/ NextAtRandom(v) \/ NextFromQueue(v)

DataSpec == DataInit /\ [][DataNext]_dataVars

-----------------------------------------------------------------------------
(* Properties. *)

DataTypeOK ==
  /\ strategy \in Strategies
  /\ size \in -1..MaxDocument
  /\ cursor \in Nat
  /\ iteration \in [Readers -> 0..MaxNexts]
  /\ \A v \in Readers : \A k \in DOMAIN dealt[v] : dealt[v][k] \in 0..size-1
  /\ exhausted \subseteq Readers

\* "SharedQueue dispenses each record exactly once across all concurrent VUs
\* until exhausted" (strategy.go:15): no record is dealt twice, and nobody is
\* told that the set is exhausted while a record has not been dealt.
RecordsAreDealtOnce ==
  strategy = "SharedQueue" =>
    /\ \A u, v \in Readers : \A j \in DOMAIN dealt[u], k \in DOMAIN dealt[v] :
         dealt[u][j] = dealt[v][k] => u = v /\ j = k
    /\ exhausted # {} => \A i \in 0..size-1 :
                           \E v \in Readers : \E k \in DOMAIN dealt[v] : dealt[v][k] = i
=============================================================================
