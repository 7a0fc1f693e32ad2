--------------------------- MODULE DeliveryHistory ---------------------------
(***************************************************************************)
(* Delivery with what its code does not keep: which workers were past      *)
(* their last look at the pause when a target was paused, and how many     *)
(* claims of an operation ended in an error.                               *)
(***************************************************************************)
EXTENDS Delivery

VARIABLES
  late,    \* workers at their write when the target was last paused
  errors   \* errors so far, by generation

hvars == <<vars, late, errors>>

HInit == /\ Init
         /\ late = {}
         /\ errors = [g \in Generations |-> 0]

AtWrite == {w \in Workers : jobs[w].pc = "put"}

\* An error on a claim shows in the code its job stops with.
Erred(g) ==
  \E w \in Workers :
    /\ jobs[w].op = g
    /\ jobs[w].code \notin {"error", "RetriesExhausted"}
    /\ jobs'[w].code \in {"error", "RetriesExhausted"}

HNext ==
  /\ Next
  /\ late' = IF target'.paused /\ ~target.paused THEN AtWrite
             ELSE {w \in late : jobs'[w].pc = "put"}
  /\ errors' = [g \in Generations |->
       IF Erred(g) /\ errors[g] < MaxAttempts THEN errors[g] + 1 ELSE errors[g]]

HSpec == HInit /\ [][HNext]_hvars
-----------------------------------------------------------------------------
\* While a target is paused, only an emergency rollback and the workers that
\* were already past their last check write its App (Worker.holdIfPaused:
\* "Checked again at the write, so a pause observed before it stops the
\* write").
PauseHolds ==
  target.paused =>
    \A w \in AtWrite : w \in late \/ runs[jobs[w].op].emergency

\* stopWait: "waiting is not a failure".  A run that fails because its
\* retries are exhausted met as many errors as it may have attempts.
WaitingIsNotAFailure ==
  \A g \in Generations :
    ops[g].code = "RetriesExhausted" => errors[g] >= MaxAttempts
=============================================================================
