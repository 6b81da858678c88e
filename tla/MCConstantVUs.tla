---------------------------- MODULE MCConstantVUs ----------------------------
(* Instances of ConstantVUs for TLC. *)
EXTENDS ConstantVUs, TLC

\* The virtual users are interchangeable: no definition tells them apart.
Symmetry == Permutations(VUs)
=============================================================================
