------------------------------- MODULE MCAgent -------------------------------
(* AgentDelivery on a small instance. *)
EXTENDS AgentDelivery, TLC
=============================================================================
