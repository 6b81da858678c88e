------------------------------- MODULE MetricMap -------------------------------
(***************************************************************************)
(* What the metric store promises to concurrent recorders: a name has one  *)
(* kind for good, and the total of a metric, which is what a reader finds  *)
(* under its key, grows by exactly what is recorded and never shrinks.  A  *)
(* rate is two totals that are not updated together.                       *)
(***************************************************************************)
EXTENDS Integers

CONSTANTS Keys,     \* records [name, kind]
          Words     \* the words of a metric: numerator (or value), denominator

VARIABLES kindOf,   \* the kind of the names declared so far
          total     \* what a reader finds of each word of each key

MapInit == kindOf = <<>> /\ total = [k \in Keys |-> [w \in Words |-> 0]]

\* A name gets its kind.
Declare(k) ==
  /\ k.name \notin DOMAIN kindOf
  /\ kindOf' = [n \in DOMAIN kindOf \cup {k.name} |->
                  IF n = k.name THEN k.kind ELSE kindOf[n]]
  /\ UNCHANGED total

\* One more observation, in a metric of the name's kind.
Record(k, w) ==
  /\ k.name \in DOMAIN kindOf /\ kindOf[k.name] = k.kind
  /\ total' = [total EXCEPT ![k][w] = @ + 1]
  /\ UNCHANGED kindOf

MapNext == \E k \in Keys : Declare(k) \/ \E w \in Words : Record(k, w)
MapSpec == MapInit /\ [][MapNext]_<<kindOf, total>>
=============================================================================
