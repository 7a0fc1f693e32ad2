---------------------------- MODULE DeliveryFence ----------------------------
(***************************************************************************)
(* Why the generation fence of Delivery holds: the inductive invariant     *)
(* behind FencePromise.                                                    *)
(***************************************************************************)
EXTENDS Delivery

\* What a worker at this step works on.
WorksOn(j) ==
  /\ j.pc = "idle" <=> j.op = None
  /\ j.pc \in DeleteAt => j.op = DeleteOp
  /\ j.pc \in DeliverAt \cup VerifyAt \cup {"end"} => j.op \in Generations

\* A worker knows no generation that was not accepted.  Between reading the
\* App and writing it, and only then, it knows whether what it read is still
\* there; and past the fence, what is there is not newer than what it writes.
JobFenced(j) ==
  /\ WorksOn(j)
  /\ j.op # None => j.op <= target.generation
  /\ j.pc \in {"fence", "recheck", "put"} <=> j.seen # "none"
  /\ j.seen = "fresh" => app.live
  /\ (j.pc \in {"recheck", "put"} /\ j.seen = "fresh")
       => app.generation <= j.op

FenceInv ==
  /\ app.live => app.generation \in 1..target.generation
  /\ \A g \in Generations : ops[g].state # "absent" => g <= target.generation
  /\ \A w \in Workers : JobFenced(jobs[w])
=============================================================================
