---------------------------- MODULE MCOperations ----------------------------
(* Operations with interchangeable workers and operations. *)
EXTENDS Operations, TLC

Symmetry == Permutations(Workers) \cup Permutations(Ops)
=============================================================================
