------------------------------ MODULE MCNotify ------------------------------
(* Notify on small instances. *)
EXTENDS Notify, TLC

\* Interchangeable replicas.
Symmetry == Permutations(Notifiers)
=============================================================================
