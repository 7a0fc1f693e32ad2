--------------------------- MODULE GenerationFence ---------------------------
(***************************************************************************)
(* What the generation fence promises about a target's App object          *)
(* (ADR-027, fence.go), whatever happens to the workers that keep it: the  *)
(* object carries a generation SQL accepted, and no write replaces a newer *)
(* generation by an older one.  Only removing the object starts over.      *)
(***************************************************************************)
EXTENDS Naturals

VARIABLES
  accepted,  \* the newest generation SQL accepted (desired_generation)
  live       \* the generation of the live App object, 0 when there is none

Init == accepted = 0 /\ live = 0

Accept == accepted' = accepted + 1 /\ UNCHANGED live

Write == /\ \E g \in 1..accepted : g >= live /\ live' = g
         /\ UNCHANGED accepted

Remove == live' = 0 /\ UNCHANGED accepted

Next == Accept \/ Write \/ Remove

Spec == Init /\ [][Next]_<<accepted, live>>
=============================================================================
