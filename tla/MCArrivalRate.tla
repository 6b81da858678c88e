---------------------------- MODULE MCArrivalRate ----------------------------
(* Instances of ArrivalRate for TLC. *)
EXTENDS ArrivalRate, TLC

\* The workers of the pool are interchangeable: no definition tells them apart.
Symmetry == Permutations(VUs)
=============================================================================
