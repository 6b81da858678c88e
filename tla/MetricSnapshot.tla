---------------------------- MODULE MetricSnapshot ----------------------------
(***************************************************************************)
(* Reading metrics of a run in progress (internal/metric): the abort       *)
(* monitor and the watchdog ask for a histogram or a rate, over all tag    *)
(* variants of its name, while virtual users record.  A histogram is       *)
(* striped over shards with a mutex each; a rate is two atomic words.      *)
(*                                                                         *)
(* A shard is an external HDR histogram: a count per value.  It is not     *)
(* safe for concurrent use; what a merge takes from a shard that is        *)
(* written meanwhile is any part of it.                                    *)
(***************************************************************************)
EXTENDS Integers, FiniteSets, SequencesExt

CONSTANTS
  Observers,      \* virtual users
  Variants,       \* the tags under which the name may occur
  histShards,
  histMinValue, histMaxValue,
  Samples,        \* durations that are observed
  Attempts,       \* pairs <<numerator, denominator>> that are added to a rate
  MaxObserved     \* bound: observations of each virtual user

ASSUME SnapshotAssumption ==
  /\ IsFiniteSet(Observers) /\ "unlocked" \notin Observers /\ IsFiniteSet(Variants)
  /\ histShards \in Nat \ {0} /\ Samples \subseteq Int /\ IsFiniteSet(Samples)
  /\ histMinValue \in Nat /\ histMaxValue \in Nat /\ histMinValue <= histMaxValue
  /\ \A a \in Attempts : a \in Int \X Int /\ (a[2] > 0 => a[1] <= 1)
  /\ MaxObserved \in [Observers -> Nat]

Shards == 0..histShards-1
Values == histMinValue..histMaxValue
Nothing == [x \in Values |-> 0]

VARIABLES
  snapKind,    \* the type of the metric that is read: "duration" or "rate"
  histSeq,     \* per variant: the number that picks the next shard
  shardHist,   \* per variant and shard: value |-> count
  shardMu,     \* the holder of each shard's mutex
  rateWords,   \* per variant: numerator and denominator
  known,       \* the variants that have been created
  opc,         \* where each virtual user stands
  observing,   \* what it records: variant, shard, and value or denominator
  snap,        \* the reader: where it stands, and its locals
  given,       \* history: observations by sample, and attempts by word
  atStart      \* history: what the words and shards held when the read began

recording == <<snapKind, histSeq, shardHist, shardMu, rateWords, known, opc, observing, given>>
snapVars  == <<recording, snap, atStart>>

NoWork == [variant |-> "none", shard |-> 0, value |-> 0]
NoRead == [pc |-> "idle", order |-> <<>>, v |-> 0, i |-> 0, refs |-> <<>>, seen |-> Nothing,
          merged |-> Nothing, raced |-> FALSE, num |-> 0, den |-> 0]

SnapInit ==
  /\ snapKind \in {"duration", "rate"}
  /\ histSeq = [h \in Variants |-> 0]
  /\ shardHist = [h \in Variants |-> [i \in Shards |-> Nothing]]
  /\ shardMu = [h \in Variants |-> [i \in Shards |-> "unlocked"]]
  /\ rateWords = [h \in Variants |-> [num |-> 0, den |-> 0]]
  /\ known = {}
  /\ opc = [o \in Observers |-> "idle"]
  /\ observing = [o \in Observers |-> NoWork]
  /\ snap = NoRead
  /\ given = [samples |-> [d \in Samples |-> 0], num |-> 0, den |-> 0,
              by |-> [o \in Observers |-> 0]]
  /\ atStart = [hist |-> shardHist, words |-> rateWords]

-----------------------------------------------------------------------------
(* Recording. *)

\* Mutation: long durations are left to the HDR histogram, which refuses them.
InRangeBelow(d) == IF d < histMinValue THEN histMinValue ELSE d
InRange(d) ==
  IF d < histMinValue THEN histMinValue ELSE IF d > histMaxValue THEN histMaxValue ELSE d

Records(o, from, to) == opc[o] = from /\ opc' = [opc EXCEPT ![o] = to]
MayRecord(o, kind) == snapKind = kind /\ given.by[o] < MaxObserved[o]

\* Observe picks the next shard ...
Observe(o, h, d) ==
  LET n == histSeq[h] + 1
  IN  /\ MayRecord(o, "duration") /\ Records(o, "idle", "shard")
      /\ histSeq' = [histSeq EXCEPT ![h] = n]
      /\ observing' = [observing EXCEPT ![o] =
                         [variant |-> h, shard |-> n % histShards, value |-> InRange(d)]]
      /\ known' = known \cup {h}
      /\ given' = [given EXCEPT !.samples[d] = @ + 1, !.by[o] = @ + 1]
      /\ UNCHANGED <<snapKind, shardHist, shardMu, rateWords, snap, atStart>>

\* ... takes its mutex ...
LockShard(o) ==
  LET w == observing[o]
  IN  /\ Records(o, "shard", "record")
      /\ shardMu[w.variant][w.shard] = "unlocked"
      /\ shardMu' = [shardMu EXCEPT ![w.variant][w.shard] = o]
      /\ UNCHANGED <<snapKind, histSeq, shardHist, rateWords, known, observing, given, snap,
                     atStart>>

\* ... records, unless the value is out of range, an error that is ignored, and
\* unlocks.
RecordValue(o) ==
  LET w == observing[o]
  IN  /\ Records(o, "record", "idle")
      /\ shardHist' = IF w.value \in Values
                      THEN [shardHist EXCEPT ![w.variant][w.shard][w.value] = @ + 1]
                      ELSE shardHist
      /\ shardMu' = [shardMu EXCEPT ![w.variant][w.shard] = "unlocked"]
      /\ observing' = [observing EXCEPT ![o] = NoWork]
      /\ UNCHANGED <<snapKind, histSeq, rateWords, known, given, snap, atStart>>

\* Rate.Add ignores an attempt without a denominator; its numerator is not
\* negative, and is added first.
AddNumerator(o, h, a) ==
  LET num == IF a[1] < 0 THEN 0 ELSE a[1]
  IN  /\ a[2] > 0 /\ MayRecord(o, "rate") /\ Records(o, "idle", "den")
      /\ rateWords' = [rateWords EXCEPT ![h].num = @ + num]
      /\ observing' = [observing EXCEPT ![o] = [variant |-> h, shard |-> 0, value |-> a[2]]]
      /\ known' = known \cup {h}
      /\ given' = [given EXCEPT !.num = @ + num, !.den = @ + a[2], !.by[o] = @ + 1]
      /\ UNCHANGED <<snapKind, histSeq, shardHist, shardMu, snap, atStart>>

AddRateDenominator(o) ==
  /\ Records(o, "den", "idle")
  /\ rateWords' = [rateWords EXCEPT ![observing[o].variant].den = @ + observing[o].value]
  /\ observing' = [observing EXCEPT ![o] = NoWork]
  /\ UNCHANGED <<snapKind, histSeq, shardHist, shardMu, known, given, snap, atStart>>

-----------------------------------------------------------------------------
(* Reading: the variants that exist by now, in any order. *)

Place == <<snap.order[snap.v], snap.i>>
Reads(from) == snap.pc = from /\ UNCHANGED <<recording, atStart>>
Plus0(f, g) == [x \in Values |-> f[x] + g[x]]

\* The shard after this one, of the next variant after the last; past them all
\* the reader goes on elsewhere.
NextShard(then) ==
  CASE snap.i < histShards - 1            -> [snap EXCEPT !.i = @ + 1]
    [] snap.i = histShards - 1 /\ snap.v < Len(snap.order) -> [snap EXCEPT !.i = 0, !.v = @ + 1]
    [] OTHER                              -> [snap EXCEPT !.pc = then, !.i = 0, !.v = 1]

\* MergedHistogramSnapshot: no variant is a zero snapshot, one is merged under
\* its locks, several are collected first.  RateData has no such cases.
BeginRead ==
  /\ snap.pc = "idle"
  /\ \E order \in SetToSeqs(known) :
       snap' = [snap EXCEPT !.order = order, !.v = 1,
                  !.pc = CASE order = <<>>           -> "read"
                           [] order # <<>> /\ snapKind = "rate" -> "num"
                           [] OTHER -> IF Len(order) = 1 THEN "shards" ELSE "collect"]
  /\ atStart' = [hist |-> shardHist, words |-> rateWords]
  /\ UNCHANGED recording

\* Snapshot merges each shard while it holds its mutex.
MergeLocked ==
  LET at == Place
  IN  /\ Reads("shards") /\ shardMu[at[1]][at[2]] = "unlocked"
      /\ snap' = [NextShard("read") EXCEPT !.merged = Plus0(@, shardHist[at[1]][at[2]])]

\* With several variants, a shard that holds something is only referred to under
\* its mutex ...
CollectShard ==
  LET at == Place
  IN  /\ Reads("collect") /\ shardMu[at[1]][at[2]] = "unlocked"
      /\ snap' = [NextShard("merge") EXCEPT
                    !.refs = IF shardHist[at[1]][at[2]] = Nothing THEN @ ELSE Append(@, at)]

\* ... and merged without it: as it is, when nobody writes to it meanwhile,
\* or else in part.
MergeBegins ==
  LET at == Head(snap.refs)
  IN  /\ Reads("merge") /\ snap.refs # <<>>
      /\ snap' = [snap EXCEPT !.pc = "merging", !.seen = shardHist[at[1]][at[2]],
                              !.raced = @ \/ shardMu[at[1]][at[2]] # "unlocked"]

MergeEnds ==
  LET at    == Head(snap.refs)
      now   == shardHist[at[1]][at[2]]
      raced == snap.raced \/ now # snap.seen \/ shardMu[at[1]][at[2]] # "unlocked"
  IN  /\ Reads("merging")
      /\ \E taken \in [Values -> UNION {0..now[x] : x \in Values}] :
           /\ \A x \in Values : taken[x] <= now[x]
           /\ ~raced => taken = now
           /\ snap' = [snap EXCEPT !.pc = "merge", !.refs = Tail(@), !.seen = Nothing,
                                   !.merged = Plus0(@, taken), !.raced = raced]

MergeIsOver == Reads("merge") /\ snap.refs = <<>> /\ snap' = [snap EXCEPT !.pc = "read"]

\* RateData loads a variant's numerator, then its denominator.
LoadNumerator ==
  /\ Reads("num")
  /\ snap' = [snap EXCEPT !.pc = "den", !.num = @ + rateWords[snap.order[snap.v]].num]

LoadDenominator ==
  LET last == snap.v = Len(snap.order)
  IN  /\ Reads("den")
      /\ snap' = [snap EXCEPT !.pc = IF last THEN "read" ELSE "num",
                              !.v = IF last THEN 1 ELSE @ + 1,
                              !.den = @ + rateWords[snap.order[snap.v]].den]

SnapNext ==
  \/ \E o \in Observers :
       \/ \E h \in Variants : \/ \E d \in Samples : Observe(o, h, d)
                              \/ \E a \in Attempts : AddNumerator(o, h, a)
       \/ LockShard(o) \/ RecordValue(o) \/ AddRateDenominator(o)
  \/ BeginRead \/ MergeLocked \/ CollectShard \/ MergeBegins \/ MergeEnds \/ MergeIsOver
  \/ LoadNumerator \/ LoadDenominator

SnapSpec == SnapInit /\ [][SnapNext]_snapVars

-----------------------------------------------------------------------------
(* Properties. *)

SnapTypeOK ==
  /\ histSeq \in [Variants -> Nat] /\ shardHist \in [Variants -> [Shards -> [Values -> Nat]]]
  /\ shardMu \in [Variants -> [Shards -> Observers \cup {"unlocked"}]]
  /\ rateWords \in [Variants -> [num : Nat, den : Nat]] /\ known \subseteq Variants
  /\ opc \in [Observers -> {"idle", "shard", "record", "den"}]
  /\ snap.pc \in {"idle", "shards", "collect", "merge", "merging", "num", "den", "read"}
  /\ snap.merged \in [Values -> Nat] /\ snap.num \in Nat /\ snap.den \in Nat

\* The sum of a function to the naturals, as the number of its units.
TotalOf(f) == Cardinality(UNION {{x} \X (1..f[x]) : x \in DOMAIN f})

Places == Variants \X Shards
Recorded(hist, x) == TotalOf([p \in Places |-> hist[p[1]][p[2]][x]])
SumOfWord(words, w) == TotalOf([h \in Variants |-> words[h][w]])
Given(x) == TotalOf([d \in {d \in Samples : InRange(d) = x} |-> given.samples[d]])
InHand == {o \in Observers : opc[o] \in {"shard", "record"}}

\* Nothing that is observed is lost, whatever its value.  A reader never sees
\* what was not observed; with one variant, or when nobody wrote to what it
\* merged without locks, it sees all that was recorded when it began, value by
\* value, so that no percentile comes from a part of it.  A rate it reads is
\* short of at most the denominators being added: it exceeds one by no more than
\* an attempt for each virtual user and variant.
SnapshotsShowWhatWasObserved ==
  /\ TotalOf([x \in Values |-> Recorded(shardHist, x)]) + Cardinality(InHand) = TotalOf(given.samples)
  /\ snap.pc = "read" =>
       /\ \A x \in Values :
            /\ snap.merged[x] <= Given(x)
            /\ ~snap.raced => Recorded(atStart.hist, x) <= snap.merged[x]
       /\ Len(snap.order) = 1 => ~snap.raced
       /\ snap.num \in SumOfWord(atStart.words, "num") .. given.num
       /\ snap.den \in SumOfWord(atStart.words, "den") .. given.den
       /\ snap.num <= snap.den + Cardinality(Observers) * Len(snap.order)
=============================================================================
