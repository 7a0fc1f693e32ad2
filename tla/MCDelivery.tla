----------------------------- MODULE MCDelivery -----------------------------
(* Delivery on small instances: symmetric workers and approvers. *)
EXTENDS DeliveryFence, TLC

\* Two workers are interchangeable, and so are two approvers; only runs that
\* check no liveness property use this.
Symmetry == Permutations(Workers) \cup Permutations(Approvers)
=============================================================================
