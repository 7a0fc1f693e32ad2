------------------------------ MODULE MCBuilds ------------------------------
(* Builds on small instances. *)
EXTENDS Builds, TLC

\* Interchangeable workers.
Symmetry == Permutations(Workers)
=============================================================================
