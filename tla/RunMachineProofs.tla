-------------------------- MODULE RunMachineProofs --------------------------
(***************************************************************************)
(* Proofs about one deployment run, for any sequence of events: its        *)
(* columns never contradict its history.  What the proofs need of the      *)
(* table is which phases a phase is entered from.                          *)
(***************************************************************************)
EXTENDS RunMachine, TLAPS

\* A run in one of these phases never failed.
Unfailed ==
  BeforeDelivery \cup Delivered \cup {"cancelRequested", "succeeded", "cancelled"}

\* The phases from which phase q is entered.
From(q) ==
  CASE q \in BeforeDelivery     -> BeforeDelivery
    [] q = "acceptedByCluster"  -> {"pendingDelivery"}
    [] q \in Delivered \ {"acceptedByCluster"} -> Delivered
    [] q = "succeeded"          -> {"verifying", "cancelRequested"}
    [] q = "cancelRequested"    -> Delivered \cup {"cancelRequested"}
    [] q = "cancelled"          -> BeforeDelivery \cup {"cancelRequested"}
    [] q = "failed"             -> BeforeDelivery \cup Delivered
                                     \cup {"cancelRequested"}
    [] q = "recoveryRequested"  -> {"failed", "cancelRequested"}
    [] q = "recovering"         -> {"recoveryRequested"}
    [] q \in {"recovered", "recoveryFailed"} -> {"recovering"}
    [] OTHER                    -> Phase \ Final

LEMMA EnteredFrom ==
  ASSUME NEW p, NEW e, NEW q \in Apply(p, e)
  PROVE  q \in Phase /\ p \in From(q) /\ p \in Phase \ Final
<1> USE DEF From, Phase, BeforeDelivery, Delivered, Final
<1>1. q \in Phase /\ <<p, e, q>> \in Transitions
  BY DEF Apply
<1>2. CASE <<p, e, q>> \in Progress
  BY <1>1, <1>2 DEF Progress
<1>3. CASE <<p, e, q>> \in Blocking
  BY <1>1, <1>3 DEF Blocking
<1>4. CASE <<p, e, q>> \in Cancelling
  BY <1>1, <1>4 DEF Cancelling
<1>5. CASE <<p, e, q>> \in Recovery
  BY <1>1, <1>5 DEF Recovery
<1>6. CASE q = "failed" /\ p \in BeforeDelivery \cup Delivered
                                   \cup {"cancelRequested"}
  BY <1>1, <1>6
<1>7. CASE q = "superseded" /\ p \in Phase \ Final
  BY <1>1, <1>7
<1> QED
  BY <1>1, <1>2, <1>3, <1>4, <1>5, <1>6, <1>7 DEF Transitions
-----------------------------------------------------------------------------
\* What the history says of the phase.
History ==
  /\ phase \in Unfailed => "failed" \notin reached
  /\ phase \in Delivered \cup {"cancelRequested", "succeeded",
                               "recoveryRequested", "recovering"}
       => "acceptedByCluster" \in reached \/ "failed" \in reached

IInv == TypeOK /\ ColumnsAgree /\ DeliveredFirst /\ History

LEMMA AdvanceKeeps ==
  ASSUME IInv, NEW e, Advance(e)
  PROVE  IInv'
<1> USE DEF IInv
<1>1. PICK q \in Apply(phase, e) :
        /\ phase' = q
        /\ outcome' = Coalesce(outcome, OutcomeOf(q))
        /\ recovery' = Coalesce(recovery, RecoveryOf(q))
        /\ reached' = reached \cup {q}
  BY DEF Advance
<1>2. q \in Phase /\ phase \in From(q) /\ phase \in Phase \ Final
  BY <1>1, EnteredFrom
<1>3. TypeOK'
  BY <1>1, <1>2 DEF TypeOK, Coalesce, OutcomeOf, RecoveryOf, NoOutcome
<1>4. outcome \in {NoOutcome, "failed"} /\ recovery = NoOutcome
  BY <1>2 DEF TypeOK, ColumnsAgree, Final, NoOutcome
<1>5. /\ q \in Unfailed => phase \in Unfailed
      /\ q \in {"failed", "succeeded", "cancelled"} => phase \in Unfailed
  BY <1>2 DEF From, Unfailed, BeforeDelivery, Delivered
<1>6. ColumnsAgree'
  <2>1. CASE q = "failed"
    BY <1>1, <1>4, <1>5, <2>1
    DEF ColumnsAgree, History, Coalesce, OutcomeOf, RecoveryOf, NoOutcome
  <2>2. CASE q \in {"succeeded", "cancelled"}
    BY <1>1, <1>4, <1>5, <2>2
    DEF ColumnsAgree, History, Coalesce, OutcomeOf, RecoveryOf, NoOutcome
  <2>3. CASE q \notin {"failed", "succeeded", "cancelled"}
    BY <1>1, <1>4, <2>3
    DEF ColumnsAgree, Coalesce, OutcomeOf, RecoveryOf, NoOutcome
  <2> QED
    BY <2>1, <2>2, <2>3
<1>7. History'
  <2>1. q \in Unfailed => "failed" \notin reached'
    BY <1>1, <1>5 DEF History, Unfailed, BeforeDelivery, Delivered
  <2>2. q \in Delivered \cup {"cancelRequested", "succeeded",
                              "recoveryRequested", "recovering"}
          => "acceptedByCluster" \in reached' \/ "failed" \in reached'
    BY <1>1, <1>2 DEF From, History, TypeOK, BeforeDelivery, Delivered
  <2> QED
    BY <1>1, <2>1, <2>2 DEF History
<1>8. DeliveredFirst'
  <2>1. q \in {"succeeded", "recovered"} => "acceptedByCluster" \in reached'
                                            \/ "failed" \in reached'
    BY <1>1, <1>2 DEF From, History, BeforeDelivery, Delivered
  <2>2. reached' \cap Delivered # {} => "pendingDelivery" \in reached'
    <3>1. CASE q = "acceptedByCluster"
      BY <1>1, <1>2, <3>1 DEF From, TypeOK, BeforeDelivery
    <3>2. CASE q \in Delivered \ {"acceptedByCluster"}
      <4>1. phase \in Delivered
        BY <1>2, <3>2 DEF From, BeforeDelivery, Delivered
      <4> QED
        BY <1>1, <4>1 DEF DeliveredFirst, TypeOK
    <3>3. CASE q \notin Delivered
      BY <1>1, <3>3 DEF DeliveredFirst
    <3> QED
      BY <3>1, <3>2, <3>3
  <2> QED
    BY <1>1, <2>1, <2>2 DEF DeliveredFirst
<1> QED
  BY <1>3, <1>6, <1>7, <1>8

LEMMA AlwaysIInv == Spec => []IInv
<1>1. Init => IInv
  BY DEF Init, IInv, TypeOK, ColumnsAgree, DeliveredFirst, History, Unfailed,
         Phase, BeforeDelivery, Delivered, Final, NoOutcome
<1>2. IInv /\ [Next]_vars => IInv'
  <2>1. ASSUME IInv, Next PROVE IInv'
    BY <2>1, AdvanceKeeps DEF Next
  <2>2. ASSUME IInv, UNCHANGED vars PROVE IInv'
    BY <2>2 DEF IInv, TypeOK, ColumnsAgree, DeliveredFirst, History, vars
  <2> QED
    BY <2>1, <2>2
<1> QED
  BY <1>1, <1>2, PTL DEF Spec

\* The columns of a run keep their types (Phase.Apply, store.AdvanceRun).
THEOREM TypeCorrect == Spec => []TypeOK
<1>1. IInv => TypeOK
  BY DEF IInv
<1> QED
  BY <1>1, AlwaysIInv, PTL

\* A failed run is never renamed, and its recovery never hides that it
\* failed: the columns of migration 0006 tell one story.
THEOREM ColumnsTellOneStory == Spec => []ColumnsAgree
<1>1. IInv => ColumnsAgree
  BY DEF IInv
<1> QED
  BY <1>1, AlwaysIInv, PTL

\* Only a delivered run succeeds, and only a released one is delivered.
THEOREM SuccessWasDelivered == Spec => []DeliveredFirst
<1>1. IInv => DeliveredFirst
  BY DEF IInv
<1> QED
  BY <1>1, AlwaysIInv, PTL

\* After delivery a run is cancelled only through a request.
THEOREM CancelledByRequest == Spec => CancelIsRequested
<1>1. [Next]_vars =>
        [(phase' = "cancelled" /\ phase \in MayWrite)
           => phase = "cancelRequested"]_vars
  <2> SUFFICES ASSUME Next, phase' = "cancelled", phase \in MayWrite
               PROVE  phase = "cancelRequested"
    OBVIOUS
  <2>1. phase \in From("cancelled")
    BY EnteredFrom DEF Next, Advance
  <2>2. phase \in BeforeDelivery \cup {"cancelRequested"}
    BY <2>1 DEF From, BeforeDelivery, Delivered
  <2> QED
    BY <2>2 DEF MayWrite, BeforeDelivery, Delivered
<1> QED
  BY <1>1, PTL DEF Spec, CancelIsRequested

\* The right to write the target, once lost, does not come back, except for
\* the compensation of a failed run.
THEOREM WriteRightStaysLost == Spec => WriteRightIsLostForGood
<1>1. [Next]_vars =>
        [(phase \notin MayWrite /\ phase' \in MayWrite)
           => \/ phase = "pendingDelivery"
              \/ phase = "failed" /\ phase' = "recoveryRequested"]_vars
  <2> SUFFICES ASSUME Next, phase \notin MayWrite, phase' \in MayWrite
               PROVE  \/ phase = "pendingDelivery"
                      \/ phase = "failed" /\ phase' = "recoveryRequested"
    OBVIOUS
  <2>1. phase \in From(phase')
    BY EnteredFrom DEF Next, Advance
  <2> QED
    BY <2>1 DEF From, MayWrite, BeforeDelivery, Delivered
<1> QED
  BY <1>1, PTL DEF Spec, WriteRightIsLostForGood
=============================================================================
