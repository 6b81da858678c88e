----------------------------- MODULE MCExecutor -----------------------------
(* Instances of Executor for TLC. *)
EXTENDS Executor, TLC

\* The virtual users are interchangeable: no definition tells them apart.
Symmetry == Permutations(VUs)
=============================================================================
