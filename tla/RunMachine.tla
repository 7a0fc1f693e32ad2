----------------------------- MODULE RunMachine -----------------------------
(***************************************************************************)
(* One deployment run fed with any sequence of events: the whole table of  *)
(* core/ops/run and the columns store.AdvanceRun writes.                   *)
(*                                                                         *)
(* The product never emits some of these events yet (blocking,             *)
(* cancellation, recovery); Delivery covers the ones it does.              *)
(***************************************************************************)
EXTENDS RunPhase

VARIABLES
  phase,     \* deployment_runs.phase
  outcome,   \* deployment_runs.outcome
  recovery,  \* deployment_runs.recovery_outcome
  reached    \* history: the phases the run has been in

vars == <<phase, outcome, recovery, reached>>

Init == /\ phase = "planned"
        /\ outcome = NoOutcome
        /\ recovery = NoOutcome
        /\ reached = {"planned"}

\* store.AdvanceRun with an event the table allows.
Advance(e) ==
  \E q \in Apply(phase, e) :
    /\ phase' = q
    /\ outcome' = Coalesce(outcome, OutcomeOf(q))
    /\ recovery' = Coalesce(recovery, RecoveryOf(q))
    /\ reached' = reached \cup {q}

Next == \E e \in Event : Advance(e)

Spec == Init /\ [][Next]_vars
-----------------------------------------------------------------------------
TypeOK ==
  /\ phase \in Phase
  /\ outcome \in {NoOutcome, "succeeded", "failed", "cancelled"}
  /\ recovery \in {NoOutcome, "recovered", "recoveryFailed"}
  /\ reached \subseteq Phase /\ phase \in reached

\* A failed deploy is never renamed "succeeded" by a later recovery, and a
\* successful recovery never hides it: the three columns tell one story
\* (migration 0006, store.outcomes, run.transitions).
ColumnsAgree ==
  /\ outcome = "succeeded" <=> phase = "succeeded"
  /\ outcome = "cancelled" <=> phase = "cancelled"
  /\ outcome = "failed" <=> "failed" \in reached
  /\ recovery # NoOutcome => phase = recovery

\* A verdict of success is only reached by a run that was delivered, and a
\* run parked for approval only moves towards delivery once it was released
\* (the doc comment of package run).
DeliveredFirst ==
  /\ phase \in {"succeeded", "recovered"} => "acceptedByCluster" \in reached
                                             \/ "failed" \in reached
  /\ reached \cap Delivered # {} => "pendingDelivery" \in reached

\* A run that had to be cancelled after delivery is never silently
\* cancelled: it goes through a cancellation request (run.go: "Cancelling
\* before delivery is immediate; after delivery it is a request").
CancelIsRequested ==
  [][(phase' = "cancelled" /\ phase \in MayWrite) => phase = "cancelRequested"]_vars

\* A run that lost its right to write the target never gets it back, except
\* for the one compensation a failed run may ask for (run.MayWrite).
WriteRightIsLostForGood ==
  [][(phase \notin MayWrite /\ phase' \in MayWrite)
       => \/ phase = "pendingDelivery"
          \/ phase = "failed" /\ phase' = "recoveryRequested"]_vars
=============================================================================
