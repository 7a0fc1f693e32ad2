------------------------------ MODULE RunPhase ------------------------------
(***************************************************************************)
(* The phases of a deployment run (ADR-026), package core/ops/run.         *)
(*                                                                         *)
(* The state machine is a relation: <<p, e, q>> is in Transitions when     *)
(* event e moves a run from phase p to phase q.  Everything else is        *)
(* refused.  The module declares no variables; Delivery moves runs with    *)
(* it, and RunMachine explores the whole table.                            *)
(***************************************************************************)

BeforeDelivery == {"planned", "awaitingApproval", "pendingDelivery"}

\* After delivery, before a verdict.
Delivered ==
  {"acceptedByCluster", "preflight", "blocked", "applying", "verifying"}

\* Absorbing phases: no event changes them.  "failed" is not one of them.
Final == {"succeeded", "superseded", "cancelled",
          "recovered", "recoveryFailed", "manualActionRequired"}

Phase == BeforeDelivery \cup Delivered \cup Final
         \cup {"failed", "cancelRequested", "recoveryRequested", "recovering"}

Event == {"requireApproval", "readyForDelivery", "approved", "rejected",
          "acceptedByCluster", "preflightStarted", "preflightPassed",
          "blocked", "unblocked", "applied", "verified", "failed",
          "superseded", "cancelRequested", "stopped", "recoveryRequested",
          "recoveryStarted", "recovered", "recoveryFailed",
          "manualActionRequired"}

\* Phases in which the run may still change the target's resources.
MayWrite ==
  Delivered \cup {"cancelRequested", "recoveryRequested", "recovering"}

\* The phases a run moves through when nothing goes wrong.
Progress ==
  { <<"planned",           "requireApproval",   "awaitingApproval">>,
    <<"planned",           "readyForDelivery",  "pendingDelivery">>,
    <<"awaitingApproval",  "approved",          "pendingDelivery">>,
    <<"awaitingApproval",  "rejected",          "cancelled">>,
    <<"pendingDelivery",   "acceptedByCluster", "acceptedByCluster">>,
    <<"acceptedByCluster", "preflightStarted",  "preflight">>,
    <<"preflight",         "preflightPassed",   "applying">>,
    <<"applying",          "applied",           "verifying">>,
    <<"verifying",         "verified",          "succeeded">> }

\* Defect: a run can be blocked before it was delivered.
BlockingAnywhere ==
  ((BeforeDelivery \cup {"preflight", "blocked", "applying"})
     \X {"blocked"} \X {"blocked"})
  \cup {<<"blocked", "unblocked", "preflight">>}

\* A removable condition stops progress and is checked again later.
Blocking ==
  ({"preflight", "blocked", "applying"} \X {"blocked"} \X {"blocked"})
  \cup {<<"blocked", "unblocked", "preflight">>}

\* Defect: a cancellation is immediate at any time.
CancellingAtOnce ==
  ((BeforeDelivery \cup Delivered) \X {"cancelRequested"} \X {"cancelled"})

\* Before delivery a cancellation is immediate; after it, it is a request,
\* and late progress reports while stopping change nothing.
Cancelling ==
  (BeforeDelivery \X {"cancelRequested"} \X {"cancelled"})
  \cup ((Delivered \cup {"cancelRequested"})
          \X {"cancelRequested"} \X {"cancelRequested"})
  \cup ({"cancelRequested"}
          \X {"acceptedByCluster", "preflightStarted",
              "preflightPassed", "applied"}
          \X {"cancelRequested"})
  \cup { <<"cancelRequested", "verified", "succeeded">>,
         <<"cancelRequested", "stopped",  "cancelled">> }

\* Defect: a compensated run is renamed "succeeded".
RecoveryRenames ==
  {<<"failed", "recoveryRequested", "recoveryRequested">>,
   <<"recoveryRequested", "recoveryStarted", "recovering">>,
   <<"recovering", "recovered", "succeeded">>}

\* Defect: a compensation that failed may be asked for again.
RecoveryAgain ==
  {<<"failed", "recoveryRequested", "recoveryRequested">>,
   <<"recoveryRequested", "recoveryStarted", "recovering">>,
   <<"recovering", "recoveryFailed", "recoveryFailed">>,
   <<"recoveryFailed", "recoveryRequested", "recoveryRequested">>}

\* A failed or stopping run may ask for its one compensation.
Recovery ==
  ({"failed", "cancelRequested"}
     \X {"recoveryRequested"} \X {"recoveryRequested"})
  \cup ({"recoveryRequested", "recovering"}
          \X {"manualActionRequired"} \X {"manualActionRequired"})
  \cup { <<"recoveryRequested", "recoveryStarted", "recovering">>,
         <<"recovering",        "recovered",       "recovered">>,
         <<"recovering",        "recoveryFailed",  "recoveryFailed">> }

\* Every non-final phase accepts that a newer run owns the target.
Transitions ==
  Progress \cup Blocking \cup Cancelling \cup Recovery
  \cup ((BeforeDelivery \cup Delivered \cup {"cancelRequested"})
          \X {"failed"} \X {"failed"})
  \cup ((Phase \ Final) \X {"superseded"} \X {"superseded"})

\* Phase.Apply: the phases event e leads to from p, at most one.
Apply(p, e) == {q \in Phase : <<p, e, q>> \in Transitions}

NoOutcome == "none"

\* Defect: every final phase is recorded as the outcome.
OutcomeOfFinal(p) == IF p \in Final THEN p ELSE NoOutcome

\* What reaching phase p records as the run's outcome ...
OutcomeOf(p) ==
  IF p \in {"succeeded", "failed", "cancelled"} THEN p ELSE NoOutcome

\* ... and as its recovery outcome; both columns are written once.
RecoveryOf(p) ==
  IF p \in {"recovered", "recoveryFailed"} THEN p ELSE NoOutcome

\* COALESCE(old, new) of setRunPhase.
Coalesce(old, new) == IF old = NoOutcome THEN new ELSE old
=============================================================================
