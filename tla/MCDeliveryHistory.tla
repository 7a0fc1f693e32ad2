-------------------------- MODULE MCDeliveryHistory --------------------------
(* DeliveryHistory on small instances. *)
EXTENDS DeliveryHistory, TLC

\* Interchangeable workers; the approvers of a run are too.
Symmetry == Permutations(Workers) \cup Permutations(Approvers)
=============================================================================
