--------------------------- MODULE DeliveryProofs ---------------------------
(***************************************************************************)
(* Proofs about Delivery, for any workers, approvers, bounds and faults.   *)
(*                                                                         *)
(* TypeOK /\ FenceInv is inductive.  Most steps only replace the job of    *)
(* one worker, so the lemmas on jobs carry most of the proof: what a stop  *)
(* makes of a job is a well-typed, fenced job again.                       *)
(***************************************************************************)
EXTENDS DeliveryFence, TLAPS

\* Numbers and the worker-less value are apart.
LEMMA OpsFacts ==
  /\ Generations \subseteq Nat \ {0}
  /\ DeleteOp = 0
  /\ Ops \subseteq Nat
  /\ None \notin Ops
  BY DeliveryAssumption DEF Ops, Generations, DeleteOp

\* A worker without a claim has a well-typed job ...
LEMMA IdleTyped == Idle \in Job
  BY DeliveryAssumption DEF Idle, Job, Pc, NoPhase, Code

\* Whatever way the work on a claim stops, a job is left.
LEMMA StopsTyped ==
  ASSUME NEW j \in Job
  PROVE  /\ \A pc \in Pc, c \in Code : Stop(j, pc, c) \in Job
         /\ \A p \in Phase \cup {NoPhase}, c \in Code : Settled(j, p, c) \in Job
         /\ Refused(j) \in Job /\ Superseded(j) \in Job
         /\ \A c \in Code : Wait(j, c) \in Job
         /\ Retry(j) \in Job
<1>1. ASSUME NEW pc \in Pc, NEW c \in Code
      PROVE  Stop(j, pc, c) \in Job
  BY IdleTyped DEF Stop, Idle, Job
<1>2. {"end", "finish", "giveback"} \subseteq Pc
  BY DEF Pc
<1>3. {"none", "refused", "error", "RetriesExhausted"} \subseteq Code
  BY DEF Code
<1>4. ASSUME NEW p \in Phase \cup {NoPhase}, NEW c \in Code
      PROVE  Settled(j, p, c) \in Job
  <2>1. Stop(j, "finish", c) \in Job
    BY <1>1, <1>2
  <2> QED
    BY <2>1 DEF Settled, Job
<1>5. Refused(j) \in Job
  <2>1. Stop(j, "end", "refused") \in Job
    BY <1>1, <1>2, <1>3
  <2> QED
    BY <2>1 DEF Refused, Job
<1>6. Superseded(j) \in Job
  <2>1. Stop(j, "end", "none") \in Job
    BY <1>1, <1>2, <1>3
  <2> QED
    BY <2>1 DEF Superseded, Job
<1>7. ASSUME NEW c \in Code PROVE Wait(j, c) \in Job
  BY <1>1, <1>2 DEF Wait
<1>8. Retry(j) \in Job
  <2>1. Stop(j, "end", "RetriesExhausted") \in Job
    BY <1>1, <1>2, <1>3
  <2>2. [Stop(j, "end", "RetriesExhausted") EXCEPT !.event = "failed"] \in Job
    BY <2>1 DEF Job
  <2>3. Wait(j, "error") \in Job
    BY <1>7, <1>3
  <2> QED
    BY <2>2, <2>3 DEF Retry
<1> QED
  BY <1>1, <1>4, <1>5, <1>6, <1>7, <1>8

\* A worker that stops works on what it worked on, has forgotten what it
\* read, and goes on with the end of the claim.
LEMMA StopsFenced ==
  ASSUME NEW j \in Job, JobFenced(j), j.op # None
  PROVE  /\ \A p \in Phase \cup {NoPhase}, c \in Code :
              JobFenced(Settled(j, p, c))
         /\ \A c \in Code : JobFenced(Wait(j, c))
         /\ j.op \in Generations => JobFenced(Refused(j))
         /\ j.op \in Generations => JobFenced(Superseded(j))
         /\ JobFenced(Retry(j))
<1> USE OpsFacts
<1>1. ASSUME NEW pc \in {"finish", "giveback"}, NEW c \in Code
      PROVE  JobFenced(Stop(j, pc, c))
  BY DEF Stop, Idle, JobFenced, WorksOn, DeleteAt, DeliverAt, VerifyAt
<1>2. ASSUME NEW c \in Code, j.op \in Generations
      PROVE  JobFenced(Stop(j, "end", c))
  BY <1>2 DEF Stop, Idle, JobFenced, WorksOn, DeleteAt, DeliverAt, VerifyAt
<1>3. \A p \in Phase \cup {NoPhase}, c \in Code : JobFenced(Settled(j, p, c))
  BY <1>1 DEF Settled, Stop, Idle, JobFenced, WorksOn
<1>4. \A c \in Code : JobFenced(Wait(j, c))
  BY <1>1 DEF Wait
<1>5. j.op \in Generations => JobFenced(Refused(j)) /\ JobFenced(Superseded(j))
  BY <1>2 DEF Refused, Superseded, Stop, Idle, JobFenced, WorksOn, Code
<1>6. JobFenced(Retry(j))
  <2>1. CASE j.op = DeleteOp
    BY <2>1, <1>4 DEF Retry, Code
  <2>2. CASE j.op \in Generations
    BY <2>2, <1>2, <1>4
    DEF Retry, Code, Stop, Idle, JobFenced, WorksOn
  <2> QED
    BY <2>1, <2>2 DEF Job, Ops
<1> QED
  BY <1>3, <1>4, <1>5, <1>6
-----------------------------------------------------------------------------
\* The two invariants together; the lemmas below show how steps keep them.
IInv == TypeOK /\ FenceInv

\* A job that is fenced stays fenced when time goes on around it.
LEMMA StillFenced ==
  ASSUME NEW j \in Job, JobFenced(j), UNCHANGED app,
         target.generation \in Nat, target'.generation \in Nat,
         target'.generation >= target.generation
  PROVE  JobFenced(j)'
<1> USE OpsFacts
<1>1. j.op # None => j.op \in Nat
  BY DEF Job
<1> QED
  BY <1>1 DEF JobFenced, WorksOn

\* Worker w's job becomes j.
LEMMA BecomesKeeps ==
  ASSUME IInv, NEW w \in Workers, NEW j \in Job, JobFenced(j), Becomes(w, j)
  PROVE  IInv'
<1>1. TypeOK'
  BY DEF IInv, TypeOK, Becomes
<1>2. \A v \in Workers : JobFenced(jobs'[v])
  BY DEF IInv, TypeOK, FenceInv, Becomes
<1>3. \A v \in Workers : JobFenced(jobs[v])'
  <2> TAKE v \in Workers
  <2>1. jobs'[v] \in Job
    BY <1>1 DEF TypeOK
  <2>2. UNCHANGED <<app, target>> /\ target.generation \in Nat
    BY DEF IInv, TypeOK, Becomes
  <2> QED
    BY <1>2, <2>1, <2>2 DEF JobFenced, WorksOn
<1>4. FenceInv'
  BY <1>3 DEF IInv, FenceInv, Becomes
<1> QED
  BY <1>1, <1>4 DEF IInv

\* A worker that has a claim works on one of the operations.
LEMMA BusyWorker ==
  ASSUME IInv, NEW w \in Workers, jobs[w].pc # "idle"
  PROVE  /\ jobs[w] \in Job /\ JobFenced(jobs[w])
         /\ jobs[w].op # None /\ jobs[w].op \in Ops
         /\ jobs[w].pc \notin DeleteAt \cup {"finish", "giveback"}
              => jobs[w].op \in Generations
<1>1. jobs[w] \in Job /\ JobFenced(jobs[w])
  BY DEF IInv, TypeOK, FenceInv
<1>2. jobs[w].op # None
  BY <1>1 DEF JobFenced, WorksOn
<1>3. jobs[w].op \in Ops
  BY <1>1, <1>2 DEF Job
<1>4. jobs[w].pc \in Pc
  BY <1>1 DEF Job
<1> QED
  BY <1>1, <1>2, <1>3, <1>4 DEF JobFenced, WorksOn, Pc

\* ... and a fenced one.
LEMMA IdleFenced == JobFenced(Idle)
  BY DEF JobFenced, WorksOn, Idle, DeleteAt, DeliverAt, VerifyAt

\* The step of an event on a run, when the worker goes on with a fenced job.
LEMMA AdvanceKeeps ==
  ASSUME IInv, NEW w \in Workers, NEW e, NEW moved \in Job,
         jobs[w].pc # "idle", JobFenced(moved), Advance(w, e, moved)
  PROVE  IInv'
<1> DEFINE j == jobs[w]
           p == runs[j.op].phase
<1>0. j \in Job /\ JobFenced(j) /\ j.op # None
  BY BusyWorker
<1>1. CASE \E q \in Apply(p, e) :
             /\ runs' = [runs EXCEPT ![j.op].phase = q,
                                     ![j.op].outcome = Coalesce(@, OutcomeOf(q))]
             /\ \/ /\ jobs' = [jobs EXCEPT ![w] = [moved EXCEPT !.phase = q]]
                   /\ UNCHANGED faults
                \/ /\ jobs' = [jobs EXCEPT ![w] = Retry(j)]
                   /\ Fault("error")
  <2>1. PICK q \in Apply(p, e) :
             /\ runs' = [runs EXCEPT ![j.op].phase = q,
                                     ![j.op].outcome = Coalesce(@, OutcomeOf(q))]
             /\ \/ /\ jobs' = [jobs EXCEPT ![w] = [moved EXCEPT !.phase = q]]
                   /\ UNCHANGED faults
                \/ /\ jobs' = [jobs EXCEPT ![w] = Retry(j)]
                   /\ Fault("error")
    BY <1>1
  <2>2. q \in Phase
    BY DEF Apply
  <2>3. PICK m \in Job : JobFenced(m) /\ jobs' = [jobs EXCEPT ![w] = m]
    <3>1. /\ [moved EXCEPT !.phase = q] \in Job
          /\ JobFenced([moved EXCEPT !.phase = q])
      BY <2>2 DEF Job, JobFenced, WorksOn
    <3>2. Retry(j) \in Job /\ JobFenced(Retry(j))
      BY <1>0, StopsTyped, StopsFenced
    <3> QED
      BY <2>1, <3>1, <3>2
  <2>4. runs' \in [Generations -> Run]
    <3>1. CASE j.op \in Generations
      <4>1. runs[j.op] \in Run
        BY <3>1 DEF IInv, TypeOK
      <4>2. Coalesce(runs[j.op].outcome, OutcomeOf(q))
              \in {NoOutcome, "succeeded", "failed", "cancelled"}
        BY <4>1 DEF Coalesce, OutcomeOf, NoOutcome, Run
      <4>3. [runs[j.op] EXCEPT !.phase = q,
               !.outcome = Coalesce(runs[j.op].outcome, OutcomeOf(q))] \in Run
        BY <4>1, <4>2, <2>2 DEF Run
      <4>4. runs' = [runs EXCEPT ![j.op] =
               [runs[j.op] EXCEPT !.phase = q,
                  !.outcome = Coalesce(runs[j.op].outcome, OutcomeOf(q))]]
        BY <2>1, <3>1 DEF IInv, TypeOK
      <4> QED
        BY <4>3, <4>4 DEF IInv, TypeOK
    <3>2. CASE j.op \notin Generations
      BY <2>1, <3>2 DEF IInv, TypeOK
    <3> QED
      BY <3>1, <3>2
  <2>5. UNCHANGED <<target, ops, written, app>>
    BY DEF Advance
  <2>6. faults' \in 0..MaxFaults
    BY <2>1, DeliveryAssumption DEF Fault, IInv, TypeOK
  <2>7. TypeOK'
    BY <2>3, <2>4, <2>5, <2>6 DEF IInv, TypeOK
  <2>8. \A v \in Workers : JobFenced(jobs[v])'
    <3> TAKE v \in Workers
    <3>1. JobFenced(jobs'[v])
      BY <2>3 DEF IInv, TypeOK, FenceInv
    <3> QED
      BY <3>1, <2>5 DEF JobFenced, WorksOn
  <2>9. FenceInv'
    BY <2>5, <2>8 DEF IInv, FenceInv
  <2> QED
    BY <2>7, <2>9 DEF IInv
<1>2. CASE /\ Apply(p, e) = {}
           /\ jobs' = [jobs EXCEPT ![w] = IF p \in Final
                                            THEN Settled(j, p, "none")
                                            ELSE Retry(j)]
           /\ UNCHANGED <<runs, faults>>
  <2> DEFINE m == IF p \in Final THEN Settled(j, p, "none") ELSE Retry(j)
  <2>1. p \in Final => p \in Phase
    BY DEF Phase
  <2>2. m \in Job /\ JobFenced(m)
    <3>1. "none" \in Code
      BY DEF Code
    <3> QED
      BY <1>0, <2>1, <3>1, StopsTyped, StopsFenced
  <2>3. Becomes(w, m)
    BY <1>2 DEF Becomes, Advance
  <2> QED
    BY <2>2, <2>3, BecomesKeeps
<1>3. CASE jobs' = [jobs EXCEPT ![w] = Idle] /\ UNCHANGED <<runs, faults>>
  <2>1. Becomes(w, Idle)
    BY <1>3 DEF Becomes, Advance
  <2> QED
    BY <2>1, BecomesKeeps, IdleTyped, IdleFenced
<1> QED
  BY <1>1, <1>2, <1>3 DEF Advance
-----------------------------------------------------------------------------
(* Steps that only replace a job. *)

\* A job of a run that goes on to another step, forgetting nothing.
LEMMA MovesOn ==
  ASSUME NEW j \in Job, JobFenced(j), j.op \in Generations,
         NEW pc \in DeliverAt \cup VerifyAt \cup {"end"},
         {pc, j.pc} \cap {"fence", "recheck", "put"} = {}
  PROVE  /\ [j EXCEPT !.pc = pc] \in Job
         /\ JobFenced([j EXCEPT !.pc = pc])
<1> DEFINE m == [j EXCEPT !.pc = pc]
<1>1. pc \in Pc
  BY DEF Pc
<1>2. m \in Job
  BY <1>1 DEF Job
<1>3. /\ m.pc = pc /\ m.op = j.op /\ m.seen = j.seen
  BY DEF Job
<1>4. pc \notin DeleteAt \cup {"idle"} /\ j.op # None
  BY OpsFacts DEF DeliverAt, VerifyAt, DeleteAt, Ops
<1>5. WorksOn(m)
  BY <1>3, <1>4 DEF WorksOn
<1> QED
  BY <1>2, <1>3, <1>5 DEF JobFenced

\* The same for the job of a worker.
LEMMA GoesOn ==
  ASSUME IInv, NEW w \in Workers, NEW pc \in DeliverAt \cup VerifyAt,
         jobs[w].pc \in DeliverAt \cup VerifyAt,
         {pc, jobs[w].pc} \cap {"fence", "recheck", "put"} = {}
  PROVE  /\ [jobs[w] EXCEPT !.pc = pc] \in Job
         /\ JobFenced([jobs[w] EXCEPT !.pc = pc])
<1>1. jobs[w].pc # "idle"
  BY DEF DeliverAt, VerifyAt
<1>2. jobs[w] \in Job /\ JobFenced(jobs[w]) /\ jobs[w].op \in Generations
  BY <1>1, BusyWorker DEF DeliverAt, VerifyAt, DeleteAt
<1> QED
  BY <1>2, MovesOn

\* What was read of the run decides where the worker goes on (drive).
LEMMA LoadKeeps == ASSUME IInv, NEW w \in Workers, Load(w) PROVE IInv'
<1> DEFINE r == runs[jobs[w].op]
           j == [jobs[w] EXCEPT !.phase = r.phase]
<1>1. jobs[w].pc = "load"
  BY DEF Load
<1>2. jobs[w] \in Job /\ JobFenced(jobs[w]) /\ jobs[w].op \in Generations
  BY <1>1, BusyWorker DEF DeleteAt
<1>3. r.phase \in Phase \cup {NoPhase}
  BY <1>2 DEF IInv, TypeOK, Run
<1>4. j \in Job /\ JobFenced(j) /\ j.op = jobs[w].op /\ j.pc = "load"
  BY <1>1, <1>2, <1>3 DEF Job, JobFenced, WorksOn
<1>5. ASSUME NEW pc \in {"expire", "hold", "resume", "ready", "prepare"}
      PROVE  [j EXCEPT !.pc = pc] \in Job /\ JobFenced([j EXCEPT !.pc = pc])
  BY <1>2, <1>4, MovesOn DEF DeliverAt, VerifyAt
<1>6. Deliver(j) \in Job /\ JobFenced(Deliver(j))
  BY <1>5 DEF Deliver
<1>7. j.op # None
  BY <1>2, <1>4, OpsFacts DEF Ops
<1>8. {"none", "AwaitingApproval"} \subseteq Code
  BY DEF Code
<1>9. /\ Settled(j, r.phase, "none") \in Job /\ Refused(j) \in Job
      /\ Wait(j, "AwaitingApproval") \in Job
      /\ Retry([j EXCEPT !.pc = "resume"]) \in Job
  BY <1>3, <1>4, <1>5, <1>8, StopsTyped
<1>10. /\ JobFenced(Settled(j, r.phase, "none")) /\ JobFenced(Refused(j))
       /\ JobFenced(Wait(j, "AwaitingApproval"))
       /\ JobFenced(Retry([j EXCEPT !.pc = "resume"]))
  <2>1. [j EXCEPT !.pc = "resume"].op # None
    BY <1>7
  <2> QED
    BY <1>2, <1>3, <1>4, <1>5, <1>7, <1>8, <2>1, StopsFenced
<1>11. \E m \in Job : JobFenced(m) /\ Becomes(w, m)
  BY <1>5, <1>6, <1>9, <1>10 DEF Load
<1> QED
  BY <1>11, BecomesKeeps

\* The two looks at the pause.
LEMMA HoldKeeps == ASSUME IInv, NEW w \in Workers, Hold(w) PROVE IInv'
<1> DEFINE j == jobs[w]
<1>1. j.pc \in {"hold", "recheck"}
  BY DEF Hold
<1>2. j \in Job /\ JobFenced(j) /\ j.op # None /\ j.op \in Generations
  BY <1>1, BusyWorker DEF DeleteAt
<1>3. Wait(j, "Paused") \in Job /\ JobFenced(Wait(j, "Paused"))
  BY <1>2, StopsTyped, StopsFenced DEF Code
<1>4. j.pc = "hold" => Deliver(j) \in Job /\ JobFenced(Deliver(j))
  BY <1>2, GoesOn DEF Deliver, DeliverAt
<1>5. ASSUME j.pc = "recheck"
      PROVE  /\ [j EXCEPT !.pc = "put"] \in Job
             /\ JobFenced([j EXCEPT !.pc = "put"])
  BY <1>2, <1>5, OpsFacts
  DEF Job, JobFenced, WorksOn, Pc, DeliverAt, VerifyAt, DeleteAt
<1>6. \E m \in Job : JobFenced(m) /\ Becomes(w, m)
  BY <1>1, <1>3, <1>4, <1>5 DEF Hold
<1> QED
  BY <1>6, BecomesKeeps

\* From here on the worker knows whether the App it read is still there.
LEMMA GetAppKeeps == ASSUME IInv, NEW w \in Workers, GetApp(w) PROVE IInv'
<1> DEFINE m == [jobs[w] EXCEPT !.pc = "fence",
                                !.seen = IF app.live THEN "fresh" ELSE "absent"]
<1>1. jobs[w].pc = "get" /\ Becomes(w, m)
  BY DEF GetApp
<1>2. jobs[w] \in Job /\ JobFenced(jobs[w]) /\ jobs[w].op \in Generations
  BY <1>1, BusyWorker DEF DeleteAt
<1>3. m \in Job
  BY <1>2 DEF Job, Pc, DeliverAt
<1>4. /\ m.pc = "fence" /\ m.op = jobs[w].op /\ m.seen # "none"
      /\ m.seen = "fresh" => app.live
  BY <1>2 DEF Job
<1>5. WorksOn(m)
  BY <1>2, <1>4, OpsFacts DEF WorksOn, DeleteAt, Ops
<1>6. JobFenced(m)
  BY <1>2, <1>4, <1>5 DEF JobFenced
<1> QED
  BY <1>1, <1>3, <1>6, BecomesKeeps

\* The heart of the fence: past the comparison with SQL, the worker's own
\* generation is the newest, so what it read and still finds is not newer.
LEMMA FenceKeeps == ASSUME IInv, NEW w \in Workers, Fence(w) PROVE IInv'
<1> DEFINE j == jobs[w]
           m == [j EXCEPT !.pc = "recheck"]
<1>1. j.pc = "fence"
  BY DEF Fence
<1>2. j \in Job /\ JobFenced(j) /\ j.op # None /\ j.op \in Generations
  BY <1>1, BusyWorker DEF DeleteAt
<1>3. CASE target.generation = j.op
  <2>1. j.seen = "fresh" => app.generation <= j.op
    BY <1>2, <1>3, OpsFacts DEF IInv, FenceInv, JobFenced
  <2>2. m \in Job /\ JobFenced(m)
    BY <1>1, <1>2, <2>1, OpsFacts
    DEF Job, JobFenced, WorksOn, Pc, DeliverAt, VerifyAt, DeleteAt
  <2> QED
    BY <1>3, <2>2, BecomesKeeps DEF Fence, Goto
<1>4. CASE target.generation # j.op
  <2>1. Superseded(j) \in Job /\ JobFenced(Superseded(j))
    BY <1>2, StopsTyped, StopsFenced
  <2> QED
    BY <1>4, <2>1, BecomesKeeps DEF Fence
<1> QED
  BY <1>3, <1>4

\* A run taken over after its delivery, with the record of its write.
LEMMA ResumeKeeps == ASSUME IInv, NEW w \in Workers, Resume(w) PROVE IInv'
<1> DEFINE j == jobs[w]
           m == [j EXCEPT !.pc = "renew", !.meta = written.meta]
<1>1. j.pc = "resume"
  BY DEF Resume
<1>2. j \in Job /\ JobFenced(j) /\ j.op # None /\ j.op \in Generations
  BY <1>1, BusyWorker DEF DeleteAt
<1>3. m \in Job /\ JobFenced(m)
  <2> DEFINE n == [j EXCEPT !.pc = "renew"]
  <2>1. n \in Job /\ JobFenced(n)
    BY <1>1, GoesOn DEF VerifyAt
  <2>2. written.meta \in Nat
    BY DEF IInv, TypeOK
  <2>3. m = [n EXCEPT !.meta = written.meta]
    BY <1>2 DEF Job
  <2> QED
    BY <2>1, <2>2, <2>3 DEF Job, JobFenced, WorksOn
<1>4. Refused(j) \in Job /\ JobFenced(Refused(j))
  BY <1>2, StopsTyped, StopsFenced
<1> QED
  BY <1>3, <1>4, BecomesKeeps DEF Resume

\* The App controller's verdict, as far as there is one.
LEMMA LookKeeps == ASSUME IInv, NEW w \in Workers, Look(w) PROVE IInv'
<1> DEFINE j == jobs[w]
<1>1. j.pc = "look"
  BY DEF Look
<1>2. j \in Job /\ JobFenced(j) /\ j.op # None /\ j.op \in Generations
  BY <1>1, BusyWorker DEF DeleteAt
<1>3. Refused(j) \in Job /\ JobFenced(Refused(j))
  BY <1>2, StopsTyped, StopsFenced
<1>4. \A pc \in {"wait", "verified", "applied"} :
        [j EXCEPT !.pc = pc] \in Job /\ JobFenced([j EXCEPT !.pc = pc])
  BY <1>1, GoesOn DEF VerifyAt
<1>5. \E m \in Job : JobFenced(m) /\ Becomes(w, m)
  BY <1>3, <1>4 DEF Look
<1> QED
  BY <1>5, BecomesKeeps

\* Both ends of a pause between two looks.
LEMMA WaitKeeps ==
  ASSUME IInv, NEW w \in Workers, Deadline(w) \/ Again(w) PROVE IInv'
<1>1. jobs[w].pc = "wait"
  BY DEF Deadline, Again
<1>2. jobs[w] \in Job /\ JobFenced(jobs[w]) /\ jobs[w].op # None
      /\ jobs[w].op \in Generations
  BY <1>1, BusyWorker DEF DeleteAt
<1>3. Refused(jobs[w]) \in Job /\ JobFenced(Refused(jobs[w]))
  BY <1>2, StopsTyped, StopsFenced
<1>4. /\ [jobs[w] EXCEPT !.pc = "renew"] \in Job
      /\ JobFenced([jobs[w] EXCEPT !.pc = "renew"])
  BY <1>1, GoesOn DEF VerifyAt
<1> QED
  BY <1>3, <1>4, BecomesKeeps DEF Deadline, Again, Goto

\* A deletion starts, or was carried out before.
LEMMA FindTargetKeeps ==
  ASSUME IInv, NEW w \in Workers, FindTarget(w) PROVE IInv'
<1> DEFINE j == jobs[w]
           m == [j EXCEPT !.pc = "remove"]
<1>1. j.pc = "find"
  BY DEF FindTarget
<1>2. j \in Job /\ JobFenced(j) /\ j.op # None
  BY <1>1, BusyWorker
<1>3. /\ Settled(j, "succeeded", "none") \in Job
      /\ JobFenced(Settled(j, "succeeded", "none"))
  BY <1>2, StopsTyped, StopsFenced DEF Phase, Final, Code
<1>4. m \in Job /\ JobFenced(m)
  BY <1>1, <1>2
  DEF Job, JobFenced, WorksOn, Pc, DeliverAt, VerifyAt, DeleteAt
<1> QED
  BY <1>3, <1>4, BecomesKeeps DEF FindTarget, Goto
-----------------------------------------------------------------------------
(* Steps that change the rows of the database. *)

\* Whatever a step does to the rows, the invariant stays when the App is
\* left alone, no run is forgotten and the jobs are fenced.
LEMMA StepKeeps ==
  ASSUME IInv, TypeOK', UNCHANGED app,
         target'.generation >= target.generation,
         \A g \in Generations : ops'[g].state # "absent" =>
            ops[g].state # "absent" \/ g <= target'.generation,
         \A v \in Workers : JobFenced(jobs'[v])
  PROVE  IInv'
<1>1. target.generation \in Nat /\ target'.generation \in Nat
  BY DEF IInv, TypeOK
<1>2. \A v \in Workers : JobFenced(jobs[v])'
  <2> TAKE v \in Workers
  <2>1. jobs'[v].op # None => jobs'[v].op \in Nat
    BY OpsFacts DEF TypeOK, Job
  <2>2. JobFenced(jobs'[v])
    OBVIOUS
  <2> QED
    BY <1>1, <2>1, <2>2 DEF JobFenced, WorksOn
<1>3. app.live => app.generation \in 1..target'.generation
  BY <1>1 DEF IInv, FenceInv
<1>4. \A g \in Generations : ops'[g].state # "absent" => g <= target'.generation
  BY <1>1, OpsFacts DEF IInv, FenceInv
<1> QED
  BY <1>2, <1>3, <1>4 DEF IInv, FenceInv

\* The jobs, when a step leaves them alone or replaces one of them.
LEMMA OneJob ==
  ASSUME IInv, NEW w \in Workers, NEW j \in Job, JobFenced(j),
         jobs' = jobs \/ jobs' = [jobs EXCEPT ![w] = j]
  PROVE  /\ jobs' \in [Workers -> Job]
         /\ \A v \in Workers : JobFenced(jobs'[v])
  BY DEF IInv, TypeOK, FenceInv

\* The columns of an operation's row that steps write.
LEMMA RowsTyped ==
  ASSUME NEW r \in Op
  PROVE  /\ \A b \in BOOLEAN : /\ [r EXCEPT !.leased = b] \in Op
                               /\ [r EXCEPT !.due = b] \in Op
         /\ \A f \in Workers \cup {None} : [r EXCEPT !.fence = f] \in Op
         /\ \A c \in Code : [r EXCEPT !.code = c] \in Op
         /\ \A p \in Phase \cup {NoPhase} : [r EXCEPT !.phase = p] \in Op
         /\ [r EXCEPT !.state = "done"] \in Op
         /\ \A n \in 0..MaxAttempts : [r EXCEPT !.attempt = n] \in Op
         /\ Awake(r) \in Op /\ Awake(r).state = r.state
         /\ \A b \in BOOLEAN : /\ [r EXCEPT !.leased = b].state = r.state
                               /\ [r EXCEPT !.due = b].state = r.state
<1>1. \A b \in BOOLEAN : [r EXCEPT !.leased = b] \in Op
  BY Zenon DEF Op
<1>2. \A b \in BOOLEAN : [r EXCEPT !.due = b] \in Op
  BY Zenon DEF Op
<1>3. \A f \in Workers \cup {None} : [r EXCEPT !.fence = f] \in Op
  BY Zenon DEF Op
<1>4. \A c \in Code : [r EXCEPT !.code = c] \in Op
  BY Zenon DEF Op
<1>5. \A p \in Phase \cup {NoPhase} : [r EXCEPT !.phase = p] \in Op
  BY Zenon DEF Op
<1>6. [r EXCEPT !.state = "done"] \in Op
  BY Zenon DEF Op
<1>7. \A n \in 0..MaxAttempts : [r EXCEPT !.attempt = n] \in Op
  BY Zenon DEF Op
<1>8. Awake(r) \in Op /\ Awake(r).state = r.state
  BY <1>2, Zenon DEF Awake, Op
<1>9. ASSUME NEW b \in BOOLEAN
      PROVE  /\ [r EXCEPT !.leased = b].state = r.state
             /\ [r EXCEPT !.due = b].state = r.state
  BY Zenon DEF Op
<1> QED
  BY <1>1, <1>2, <1>3, <1>4, <1>5, <1>6, <1>7, <1>8, <1>9

\* An operation that is just accepted, and one that is not.
LEMMA NewRowsTyped ==
  /\ NoOp \in Op
  /\ \A b \in BOOLEAN : OpenOp(b) \in Op
<1>1. 0 \in 0..MaxAttempts /\ "none" \in Code
  BY DeliveryAssumption DEF Code
<1>2. NoOp \in Op
  BY <1>1, Zenon DEF NoOp, Op
<1>3. ASSUME NEW b \in BOOLEAN PROVE OpenOp(b) \in Op
  <2> DEFINE r == [NoOp EXCEPT !.state = "open"]
  <2>1. r \in Op
    BY <1>2, Zenon DEF Op
  <2>2. [r EXCEPT !.due = b] \in Op
    BY <2>1, RowsTyped
  <2> QED
    BY <2>2, Zenon DEF OpenOp
<1> QED
  BY <1>2, <1>3

\* The columns of a run's row that steps write.
LEMMA RunsTyped ==
  ASSUME NEW r \in Run
  PROVE  /\ \A p \in Phase : [r EXCEPT !.phase = p] \in Run
         /\ [r EXCEPT !.planned = TRUE] \in Run
         /\ [r EXCEPT !.expired = TRUE] \in Run
         /\ \A s \in SUBSET Approvers : [r EXCEPT !.approvals = s] \in Run
         /\ \A p \in Phase :
              [r EXCEPT !.outcome = Coalesce(r.outcome, OutcomeOf(p))] \in Run
<1>1. \A p \in Phase : [r EXCEPT !.phase = p] \in Run
  BY Zenon DEF Run
<1>2. [r EXCEPT !.planned = TRUE] \in Run
  BY Zenon DEF Run
<1>3. [r EXCEPT !.expired = TRUE] \in Run
  BY Zenon DEF Run
<1>4. \A s \in SUBSET Approvers : [r EXCEPT !.approvals = s] \in Run
  BY Zenon DEF Run
<1>5. ASSUME NEW p \in Phase
      PROVE  [r EXCEPT !.outcome = Coalesce(r.outcome, OutcomeOf(p))] \in Run
  <2>1. Coalesce(r.outcome, OutcomeOf(p))
          \in {NoOutcome, "succeeded", "failed", "cancelled"}
    BY DEF Coalesce, OutcomeOf, Run
  <2> QED
    BY <2>1, Zenon DEF Run
<1> QED
  BY <1>1, <1>2, <1>3, <1>4, <1>5

\* No run, no approval.
LEMMA NoRunTyped ==
  ASSUME NEW p \in Phase \cup {NoPhase}, NEW n \in Required, NEW b \in BOOLEAN
  PROVE  [NoRun EXCEPT !.phase = p, !.required = n, !.emergency = b] \in Run
<1> DEFINE phased == [NoRun EXCEPT !.phase = p]
           asked == [phased EXCEPT !.required = n]
<1>1. NoRun \in Run
  BY DeliveryAssumption, Zenon DEF NoRun, Run
<1>2. phased \in Run
  BY <1>1, Zenon DEF Run
<1>3. asked \in Run
  BY <1>2, Zenon DEF Run
<1>4. [asked EXCEPT !.emergency = b] \in Run
  BY <1>3, Zenon DEF Run
<1> QED
  BY <1>4, Zenon
-----------------------------------------------------------------------------
(* The requests. *)

\* A new run is accepted under the next generation.
LEMMA StartRunKeeps ==
  ASSUME IInv, NEW emergency \in BOOLEAN, NEW required \in Required,
         StartRun(emergency, required)
  PROVE  IInv'
<1> DEFINE g == target.generation + 1
           parked == required > 0
           mine == [NoRun EXCEPT
                      !.phase = IF parked THEN "awaitingApproval" ELSE "planned",
                      !.required = required, !.emergency = emergency]
<1>1. /\ g \in Generations /\ target.generation \in Nat
      /\ target' = [target EXCEPT !.generation = g]
      /\ UNCHANGED <<written, app, jobs, faults>>
  BY DEF StartRun, IInv, TypeOK
<1>2. target'.generation = g
  BY <1>1 DEF IInv, TypeOK
<1>3. mine \in Run
  BY NoRunTyped DEF Phase, BeforeDelivery
<1>4. \A h \in Generations :
        runs[h] \in Run /\ [runs[h] EXCEPT !.phase = "superseded"] \in Run
  BY RunsTyped DEF IInv, TypeOK, Phase, Final
<1>5. runs' \in [Generations -> Run]
  <2>1. runs' = [h \in Generations |->
                   IF h = g THEN mine
                   ELSE IF h \in Older(g)
                     THEN [runs[h] EXCEPT !.phase = "superseded"]
                     ELSE runs[h]]
    BY DEF StartRun
  <2> QED
    BY <1>3, <1>4, <2>1
<1>6. \A o \in Ops :
        /\ ops[o] \in Op /\ Awake(ops[o]) \in Op
        /\ Awake(ops[o]).state = ops[o].state
  BY RowsTyped DEF IInv, TypeOK
<1>7. ops' = [o \in Ops |->
                IF o = g THEN OpenOp(~parked)
                ELSE IF o \in Older(g) THEN Awake(ops[o]) ELSE ops[o]]
  BY DEF StartRun
<1>8. ops' \in [Ops -> Op]
  BY <1>6, <1>7, NewRowsTyped
<1>9. \A o \in Generations :
        ops'[o].state # "absent" =>
          ops[o].state # "absent" \/ o <= target'.generation
  BY <1>1, <1>2, <1>6, <1>7 DEF Ops, Generations
<1>10. target' \in [generation : 0..MaxGeneration, paused : BOOLEAN,
                     deleting : BOOLEAN, deleted : BOOLEAN]
  <2>1. g \in 0..MaxGeneration
    BY <1>1 DEF Generations
  <2> QED
    BY <1>1, <2>1, Zenon DEF IInv, TypeOK
<1>11. TypeOK'
  BY <1>1, <1>5, <1>8, <1>10 DEF IInv, TypeOK
<1>12. \A v \in Workers : JobFenced(jobs'[v])
  BY <1>1 DEF IInv, FenceInv
<1> QED
  BY <1>1, <1>2, <1>9, <1>11, <1>12, StepKeeps

\* Steps of requests and clocks on the rows of runs and operations alone.
LEMMA RowsKeep ==
  ASSUME IInv, UNCHANGED <<written, app, jobs>>,
         target' \in [generation : 0..MaxGeneration, paused : BOOLEAN,
                      deleting : BOOLEAN, deleted : BOOLEAN],
         target'.generation = target.generation,
         runs' \in [Generations -> Run], ops' \in [Ops -> Op],
         faults' \in 0..MaxFaults,
         \A g \in Generations :
           ops'[g].state # "absent" => ops[g].state # "absent"
  PROVE  IInv'
<1>1. TypeOK'
  BY DEF IInv, TypeOK
<1>2. \A v \in Workers : JobFenced(jobs'[v])
  BY DEF IInv, FenceInv
<1>3. target'.generation >= target.generation
  BY DEF IInv, TypeOK
<1> QED
  BY <1>1, <1>2, <1>3, StepKeeps

\* An approval or a rejection; the run may move, and its operation is woken.
LEMMA DecideKeeps ==
  ASSUME IInv, NEW g \in Generations, NEW a \in Approvers,
         NEW approve \in BOOLEAN, Decide(g, a, approve)
  PROVE  IInv'
<1> DEFINE r == runs[g]
           approvals == IF approve THEN r.approvals \cup {a} ELSE r.approvals
           asked == [r EXCEPT !.approvals = approvals]
<1>1. r \in Run /\ asked \in Run
  <2>1. r \in Run
    BY DEF IInv, TypeOK
  <2>2. approvals \in SUBSET Approvers
    BY <2>1, Zenon DEF Run
  <2> QED
    BY <2>1, <2>2, RunsTyped
<1>2. g \in Ops
  BY DEF Ops
<1>3. UNCHANGED <<target, written, app, jobs, faults>>
  BY DEF Decide
<1>4. CASE /\ runs' = [runs EXCEPT ![g].approvals = approvals]
           /\ UNCHANGED ops
  <2>1. runs' = [runs EXCEPT ![g] = asked]
    BY <1>4
  <2>2. runs' \in [Generations -> Run]
    BY <1>1, <2>1 DEF IInv, TypeOK
  <2> QED
    BY <1>3, <1>4, <2>2, RowsKeep DEF IInv, TypeOK
<1>5. ASSUME NEW q \in Phase,
             runs' = [runs EXCEPT ![g].approvals = approvals,
                                  ![g].phase = q,
                                  ![g].outcome = Coalesce(@, OutcomeOf(q))],
             ops' = [ops EXCEPT ![g] = Awake(@)]
      PROVE  IInv'
  <2> DEFINE moved == [asked EXCEPT !.phase = q]
             told == [moved EXCEPT !.outcome = Coalesce(moved.outcome, OutcomeOf(q))]
  <2>1. moved \in Run
    BY <1>1, RunsTyped
  <2>2. told \in Run
    BY <2>1, RunsTyped
  <2>3. runs' = [runs EXCEPT ![g] = told]
    BY <1>1, <1>5 DEF IInv, TypeOK, Run
  <2>4. runs' \in [Generations -> Run]
    BY <2>2, <2>3 DEF IInv, TypeOK
  <2>5. Awake(ops[g]) \in Op /\ Awake(ops[g]).state = ops[g].state
    BY <1>2, RowsTyped DEF IInv, TypeOK
  <2>6. ops' \in [Ops -> Op]
    BY <1>5, <2>5 DEF IInv, TypeOK
  <2>7. \A h \in Generations :
          ops'[h].state # "absent" => ops[h].state # "absent"
    BY <1>5, <2>5 DEF IInv, TypeOK, Ops
  <2> QED
    BY <1>3, <2>4, <2>6, <2>7, RowsKeep DEF IInv, TypeOK
<1> QED
  BY <1>4, <1>5 DEF Decide, Apply

\* Pausing, resuming and deleting write the target's own columns, and wake or
\* accept operations.
LEMMA ControlsKeep ==
  ASSUME IInv, Pause \/ ResumeTarget \/ DeleteTarget PROVE IInv'
<1> DEFINE T == [generation : 0..MaxGeneration, paused : BOOLEAN,
                 deleting : BOOLEAN, deleted : BOOLEAN]
<1>1. /\ target \in T /\ runs \in [Generations -> Run]
      /\ ops \in [Ops -> Op] /\ faults \in 0..MaxFaults
  BY DEF IInv, TypeOK
<1>2. UNCHANGED <<runs, written, app, jobs, faults>>
  BY DEF Pause, ResumeTarget, DeleteTarget
<1>3. ASSUME NEW b \in BOOLEAN
      PROVE  [target EXCEPT !.paused = b] \in T
             /\ [target EXCEPT !.deleting = b] \in T
  BY <1>1, Zenon
<1>4. target' \in T /\ target'.generation = target.generation
  BY <1>1, <1>3 DEF Pause, ResumeTarget, DeleteTarget
<1>5. \A o \in Ops : /\ ops[o] \in Op /\ Awake(ops[o]) \in Op
                     /\ Awake(ops[o]).state = ops[o].state
  BY <1>1, RowsTyped
<1>6. /\ ops' \in [Ops -> Op]
      /\ \A g \in Generations :
           ops'[g].state # "absent" => ops[g].state # "absent"
  <2>1. CASE ops' = ops
    BY <1>1, <2>1
  <2>2. CASE ops' = [o \in Ops |-> Awake(ops[o])]
    BY <1>5, <2>2 DEF Ops
  <2>3. CASE ops' = [ops EXCEPT ![DeleteOp] = OpenOp(TRUE)]
    <3>1. OpenOp(TRUE) \in Op
      BY NewRowsTyped
    <3>2. \A g \in Generations : g # DeleteOp /\ g \in Ops
      BY OpsFacts DEF Ops
    <3> QED
      BY <1>1, <2>3, <3>1, <3>2
  <2> QED
    BY <2>1, <2>2, <2>3 DEF Pause, ResumeTarget, DeleteTarget
<1> QED
  BY <1>1, <1>2, <1>4, <1>6, RowsKeep

\* The clocks.
LEMMA ClocksKeep == ASSUME IInv, Clocks PROVE IInv'
<1>1. /\ runs \in [Generations -> Run] /\ ops \in [Ops -> Op]
      /\ faults \in 0..MaxFaults
      /\ target \in [generation : 0..MaxGeneration, paused : BOOLEAN,
                     deleting : BOOLEAN, deleted : BOOLEAN]
  BY DEF IInv, TypeOK
<1>2. ASSUME NEW o \in Ops, NEW row \in Op, row.state = ops[o].state,
             ops' = [ops EXCEPT ![o] = row]
      PROVE  /\ ops' \in [Ops -> Op]
             /\ \A g \in Generations :
                  ops'[g].state # "absent" => ops[g].state # "absent"
  BY <1>1, <1>2 DEF Ops
<1>3. ASSUME NEW o \in Ops, Due(o) PROVE IInv'
  <2> DEFINE row == [ops[o] EXCEPT !.due = TRUE]
  <2>1. row \in Op /\ row.state = ops[o].state
    BY <1>1, RowsTyped
  <2>2. ops' = [ops EXCEPT ![o] = row]
    BY <1>3 DEF Due
  <2>3. UNCHANGED <<target, runs, written, app, jobs, faults>>
    BY <1>3 DEF Due
  <2> QED
    BY <1>1, <1>2, <2>1, <2>2, <2>3, RowsKeep
<1>4. ASSUME NEW o \in Ops, LeaseExpires(o) PROVE IInv'
  <2> DEFINE row == [ops[o] EXCEPT !.leased = FALSE]
  <2>1. row \in Op /\ row.state = ops[o].state
    BY <1>1, RowsTyped
  <2>2. ops' = [ops EXCEPT ![o] = row]
    BY <1>4 DEF LeaseExpires
  <2>3. UNCHANGED <<target, runs, written, app, jobs>>
    BY <1>4 DEF LeaseExpires
  <2>4. faults' \in 0..MaxFaults
    BY <1>1, <1>4, DeliveryAssumption DEF LeaseExpires, Fault
  <2> QED
    BY <1>1, <1>2, <2>1, <2>2, <2>3, <2>4, RowsKeep
<1>5. ASSUME NEW g \in Generations, WindowCloses(g) PROVE IInv'
  <2> DEFINE r == [runs[g] EXCEPT !.expired = TRUE]
  <2>1. r \in Run
    BY <1>1, RunsTyped
  <2>2. runs' = [runs EXCEPT ![g] = r]
    BY <1>5 DEF WindowCloses
  <2>3. UNCHANGED <<target, ops, written, app, jobs, faults>>
    BY <1>5 DEF WindowCloses
  <2>4. runs' \in [Generations -> Run]
    BY <1>1, <2>1, <2>2
  <2> QED
    BY <1>1, <2>3, <2>4, RowsKeep
<1> QED
  BY <1>3, <1>4, <1>5 DEF Clocks
-----------------------------------------------------------------------------
(* Claims: how they begin, go on and end. *)

\* A claim only takes an operation that was accepted (FenceInv), so the
\* worker's generation is one that SQL knows.
LEMMA ClaimKeeps ==
  ASSUME IInv, NEW w \in Workers, NEW o \in Ops, Claim(w, o) PROVE IInv'
<1> DEFINE j == [Idle EXCEPT !.op = o,
                   !.pc = IF o = DeleteOp THEN "find" ELSE "load"]
           n == IF ops[o].attempt < MaxAttempts THEN ops[o].attempt + 1
                                                ELSE ops[o].attempt
           fenced == [ops[o] EXCEPT !.fence = w]
           leased == [fenced EXCEPT !.leased = TRUE]
           row == [leased EXCEPT !.attempt = n]
<1>1. j \in Job
  BY IdleTyped DEF Idle, Job, Pc, DeliverAt, DeleteAt
<1>2. WorksOn(j)
  BY OpsFacts DEF WorksOn, Idle, Ops, Pc, DeliverAt, VerifyAt, DeleteAt
<1>3. ops[o].state = "open" /\ ops[o] \in Op
  BY DEF Claim, IInv, TypeOK
<1>4. o <= target.generation
  BY <1>3, OpsFacts DEF IInv, FenceInv, TypeOK, Ops
<1>5. JobFenced(j)
  BY <1>2, <1>4 DEF JobFenced, Idle, DeleteOp
<1>6. n \in 0..MaxAttempts
  BY <1>3, DeliveryAssumption DEF Op
<1>7. row \in Op
  <2>1. fenced \in Op
    BY <1>3, RowsTyped
  <2>2. leased \in Op
    BY <2>1, RowsTyped
  <2> QED
    BY <1>6, <2>2, RowsTyped
<1>8. ops' = [ops EXCEPT ![o] = row]
  BY <1>3 DEF Claim, IInv, TypeOK, Op
<1>9. row.state = "open"
  BY <1>3 DEF Op
<1>10. ops' \in [Ops -> Op]
  BY <1>7, <1>8 DEF IInv, TypeOK
<1>11. \A g \in Generations :
         ops'[g].state # "absent" => ops[g].state # "absent"
  BY <1>3, <1>8 DEF IInv, TypeOK, Ops
<1>12. jobs' = [jobs EXCEPT ![w] = j]
       /\ UNCHANGED <<target, runs, written, app, faults>>
  BY DEF Claim
<1>13. /\ jobs' \in [Workers -> Job]
       /\ \A v \in Workers : JobFenced(jobs'[v])
  BY <1>1, <1>5, <1>12, OneJob
<1>14. TypeOK'
  BY <1>10, <1>12, <1>13 DEF IInv, TypeOK
<1>15. target'.generation >= target.generation
  BY <1>12 DEF IInv, TypeOK
<1> QED
  BY <1>11, <1>12, <1>13, <1>14, <1>15, StepKeeps

\* A claim ends: FinishOperation and RetryOperation.
LEMMA LetGoKeeps ==
  ASSUME IInv, NEW w \in Workers, NEW row \in Op, LetGo(w, row),
         jobs[w].pc # "idle"
  PROVE  IInv'
<1> DEFINE o == jobs[w].op
           free == [row EXCEPT !.leased = FALSE]
           last == [free EXCEPT !.fence = None]
<1>1. o \in Ops
  BY BusyWorker
<1>2. last \in Op
  <2>1. free \in Op
    BY RowsTyped
  <2> QED
    BY <2>1, RowsTyped
<1>3. ops' = ops \/ (ops' = [ops EXCEPT ![o] = last] /\ ops[o].state = "open")
  BY DEF LetGo, Holds
<1>4. /\ ops' \in [Ops -> Op]
      /\ \A g \in Generations :
           ops'[g].state # "absent" => ops[g].state # "absent"
  BY <1>1, <1>2, <1>3 DEF IInv, TypeOK, Ops
<1>5. jobs' = [jobs EXCEPT ![w] = Idle]
      /\ UNCHANGED <<target, runs, written, app, faults>>
  BY DEF LetGo
<1>6. /\ jobs' \in [Workers -> Job]
      /\ \A v \in Workers : JobFenced(jobs'[v])
  BY <1>5, IdleTyped, IdleFenced, OneJob
<1>7. TypeOK'
  BY <1>4, <1>5, <1>6 DEF IInv, TypeOK
<1>8. target'.generation >= target.generation
  BY <1>5 DEF IInv, TypeOK
<1> QED
  BY <1>4, <1>5, <1>6, <1>7, <1>8, StepKeeps

\* Both statements that end a claim.
LEMMA FinishKeeps ==
  ASSUME IInv, NEW w \in Workers, Finish(w) \/ GiveBack(w) PROVE IInv'
<1> DEFINE j == jobs[w]
<1>1. j.pc # "idle" /\ j \in Job /\ ops[j.op] \in Op
  <2>1. j.pc # "idle"
    BY DEF Finish, GiveBack
  <2> QED
    BY <2>1, BusyWorker DEF IInv, TypeOK
<1>2. j.code \in Code /\ j.phase \in Phase \cup {NoPhase}
  BY <1>1 DEF Job
<1>3. CASE Finish(w)
  <2> DEFINE done == [ops[j.op] EXCEPT !.state = "done"]
             told == [done EXCEPT !.phase = j.phase]
  <2>1. done \in Op
    BY <1>1, RowsTyped
  <2>2. told \in Op
    BY <1>2, <2>1, RowsTyped
  <2>3. [told EXCEPT !.code = j.code] \in Op
    BY <1>2, <2>2, RowsTyped
  <2>4. LetGo(w, [told EXCEPT !.code = j.code])
    BY <1>3 DEF Finish
  <2> QED
    BY <1>1, <2>3, <2>4, LetGoKeeps
<1>4. CASE GiveBack(w)
  <2> DEFINE later == [ops[j.op] EXCEPT !.due = FALSE]
  <2>1. later \in Op
    BY <1>1, RowsTyped
  <2>2. [later EXCEPT !.code = j.code] \in Op
    BY <1>2, <2>1, RowsTyped
  <2>3. LetGo(w, [later EXCEPT !.code = j.code])
    BY <1>4 DEF GiveBack
  <2> QED
    BY <1>1, <2>2, <2>3, LetGoKeeps
<1> QED
  BY <1>3, <1>4

\* RenewLease keeps the claim, or the worker drops it.
LEMMA RenewKeeps == ASSUME IInv, NEW w \in Workers, Renew(w) PROVE IInv'
<1> DEFINE j == jobs[w]
           m == [j EXCEPT !.pc = "look"]
           row == [ops[j.op] EXCEPT !.leased = TRUE]
<1>1. j.pc = "renew"
  BY DEF Renew
<1>2. j.op \in Ops
  BY <1>1, BusyWorker
<1>3. m \in Job /\ JobFenced(m)
  BY <1>1, GoesOn DEF VerifyAt
<1>4. CASE Holds(w)
  <2>1. /\ ops' = [ops EXCEPT ![j.op] = row]
        /\ jobs' = [jobs EXCEPT ![w] = m]
        /\ UNCHANGED <<target, runs, written, app, faults>>
    BY <1>4 DEF Renew
  <2>2. row \in Op /\ row.state = ops[j.op].state
    BY <1>2, RowsTyped DEF IInv, TypeOK
  <2>3. /\ ops' \in [Ops -> Op]
        /\ \A g \in Generations :
             ops'[g].state # "absent" => ops[g].state # "absent"
    BY <1>2, <2>1, <2>2 DEF IInv, TypeOK, Ops
  <2>4. /\ jobs' \in [Workers -> Job]
        /\ \A v \in Workers : JobFenced(jobs'[v])
    BY <1>3, <2>1, OneJob
  <2>5. TypeOK'
    BY <2>1, <2>3, <2>4 DEF IInv, TypeOK
  <2>6. target'.generation >= target.generation
    BY <2>1 DEF IInv, TypeOK
  <2> QED
    BY <2>1, <2>3, <2>4, <2>5, <2>6, StepKeeps
<1>5. CASE ~Holds(w)
  BY <1>5, IdleTyped, IdleFenced, BecomesKeeps DEF Renew
<1> QED
  BY <1>4, <1>5

\* The render plan is frozen, the run is refused, or the claim is lost.
LEMMA PrepareKeeps == ASSUME IInv, NEW w \in Workers, Prepare(w) PROVE IInv'
<1> DEFINE j == jobs[w]
           m == [j EXCEPT !.pc = "get"]
           r == [runs[j.op] EXCEPT !.planned = TRUE]
<1>1. j.pc = "prepare"
  BY DEF Prepare
<1>2. j \in Job /\ JobFenced(j) /\ j.op # None /\ j.op \in Generations
  BY <1>1, BusyWorker DEF DeleteAt
<1>3. m \in Job /\ JobFenced(m)
  BY <1>1, GoesOn DEF DeliverAt
<1>4. Refused(j) \in Job /\ JobFenced(Refused(j))
  BY <1>2, StopsTyped, StopsFenced
<1>5. ASSUME runs' = [runs EXCEPT ![j.op] = r],
             jobs' = [jobs EXCEPT ![w] = m],
             UNCHANGED <<target, ops, written, app, faults>>
      PROVE  IInv'
  <2>1. r \in Run
    BY <1>2, RunsTyped DEF IInv, TypeOK
  <2>2. runs' \in [Generations -> Run]
    BY <1>2, <1>5, <2>1 DEF IInv, TypeOK
  <2>3. /\ jobs' \in [Workers -> Job]
        /\ \A v \in Workers : JobFenced(jobs'[v])
    BY <1>3, <1>5, OneJob
  <2>4. TypeOK'
    BY <1>5, <2>2, <2>3 DEF IInv, TypeOK
  <2>5. target'.generation >= target.generation
    BY <1>5 DEF IInv, TypeOK
  <2> QED
    BY <1>5, <2>3, <2>4, <2>5, StepKeeps
<1>6. \/ Becomes(w, m) \/ Becomes(w, Idle) \/ Becomes(w, Refused(j))
      \/ /\ runs' = [runs EXCEPT ![j.op] = r]
         /\ jobs' = [jobs EXCEPT ![w] = m]
         /\ UNCHANGED <<target, ops, written, app, faults>>
  BY DEF Prepare, Goto
<1> QED
  BY <1>3, <1>4, <1>5, <1>6, IdleTyped, IdleFenced, BecomesKeeps

\* The write is recorded, or a newer one or a lost claim ends the run.
LEMMA RecordKeeps == ASSUME IInv, NEW w \in Workers, Record(w) PROVE IInv'
<1> DEFINE j == jobs[w]
           m == [j EXCEPT !.pc = "accept"]
<1>1. j.pc = "record"
  BY DEF Record
<1>2. j \in Job /\ JobFenced(j) /\ j.op # None /\ j.op \in Generations
  BY <1>1, BusyWorker DEF DeleteAt
<1>3. m \in Job /\ JobFenced(m)
  BY <1>1, GoesOn DEF DeliverAt
<1>4. Superseded(j) \in Job /\ JobFenced(Superseded(j))
  BY <1>2, StopsTyped, StopsFenced
<1>5. ASSUME written' = [generation |-> j.op, meta |-> j.meta],
             jobs' = [jobs EXCEPT ![w] = m],
             UNCHANGED <<target, runs, ops, app, faults>>
      PROVE  IInv'
  <2>1. written' \in [generation : 0..MaxGeneration, meta : Nat]
    BY <1>2, <1>5 DEF Job, Generations
  <2>2. /\ jobs' \in [Workers -> Job]
        /\ \A v \in Workers : JobFenced(jobs'[v])
    BY <1>3, <1>5, OneJob
  <2>3. TypeOK'
    BY <1>5, <2>1, <2>2 DEF IInv, TypeOK
  <2>4. target'.generation >= target.generation
    BY <1>5 DEF IInv, TypeOK
  <2> QED
    BY <1>5, <2>2, <2>3, <2>4, StepKeeps
<1> QED
  BY <1>4, <1>5, BecomesKeeps DEF Record

\* The steps that are one event on the run.
LEMMA EventsKeep ==
  ASSUME IInv, NEW w \in Workers,
         Expire(w) \/ Ready(w) \/ Accept(w) \/ ToVerifying(w) \/ End(w)
  PROVE  IInv'
<1> DEFINE j == jobs[w]
<1>1. j.pc \in {"expire", "ready", "accept", "applied", "verified", "end"}
  BY DEF Expire, Ready, Accept, ToVerifying, End
<1>2. j.pc # "idle" /\ j \in Job /\ JobFenced(j) /\ j.op # None
      /\ j.op \in Generations /\ j.code \in Code
  <2>1. j.pc # "idle"
    BY <1>1
  <2>2. j \in Job /\ JobFenced(j) /\ j.op # None /\ j.op \in Generations
    BY <1>1, BusyWorker DEF DeleteAt
  <2> QED
    BY <2>1, <2>2 DEF Job
<1>3. \A c \in Code : /\ Settled(j, NoPhase, c) \in Job
                      /\ JobFenced(Settled(j, NoPhase, c))
  BY <1>2, StopsTyped, StopsFenced
<1>4. CASE Expire(w)
  <2>1. "ApprovalExpired" \in Code
    BY DEF Code
  <2> QED
    BY <1>2, <1>3, <1>4, <2>1, AdvanceKeeps DEF Expire
<1>5. CASE Ready(w)
  <2>1. /\ [j EXCEPT !.pc = "prepare"] \in Job
        /\ JobFenced([j EXCEPT !.pc = "prepare"])
    BY <1>5, GoesOn DEF Ready, DeliverAt
  <2> QED
    BY <1>2, <1>5, <2>1, AdvanceKeeps DEF Ready
<1>6. CASE Accept(w)
  <2>1. /\ [j EXCEPT !.pc = "renew"] \in Job
        /\ JobFenced([j EXCEPT !.pc = "renew"])
    BY <1>6, GoesOn DEF Accept, DeliverAt, VerifyAt
  <2> QED
    BY <1>2, <1>6, <2>1, AdvanceKeeps DEF Accept
<1>7. CASE ToVerifying(w)
  <2>1. CASE Goto(w, "wait") /\ j.pc = "applied"
    <3>1. /\ [j EXCEPT !.pc = "wait"] \in Job
          /\ JobFenced([j EXCEPT !.pc = "wait"])
      BY <2>1, GoesOn DEF VerifyAt
    <3> QED
      BY <2>1, <3>1, BecomesKeeps DEF Goto
  <2>2. CASE Advance(w, Steps[j.phase], j)
    BY <1>2, <2>2, AdvanceKeeps
  <2>3. CASE Advance(w, "verified", Settled(j, NoPhase, "none"))
    <3>1. "none" \in Code
      BY DEF Code
    <3> QED
      BY <1>2, <1>3, <2>3, <3>1, AdvanceKeeps
  <2> QED
    BY <1>7, <2>1, <2>2, <2>3 DEF ToVerifying
<1>8. CASE End(w)
  BY <1>2, <1>3, <1>8, AdvanceKeeps DEF End
<1> QED
  BY <1>4, <1>5, <1>6, <1>7, <1>8

\* The target is marked deleted, and the claim goes on to its end.
LEMMA MarkDeletedKeeps ==
  ASSUME IInv, NEW w \in Workers, MarkDeleted(w) PROVE IInv'
<1> DEFINE j == jobs[w]
           m == Settled(j, "succeeded", "none")
<1>1. j.pc = "mark"
  BY DEF MarkDeleted
<1>2. j \in Job /\ JobFenced(j) /\ j.op # None
  BY <1>1, BusyWorker
<1>3. m \in Job /\ JobFenced(m)
  BY <1>2, StopsTyped, StopsFenced DEF Phase, Final, Code
<1>4. /\ target' = [target EXCEPT !.deleted = TRUE]
      /\ jobs' = [jobs EXCEPT ![w] = m]
      /\ UNCHANGED <<runs, ops, written, app, faults>>
  BY DEF MarkDeleted
<1>5. target' \in [generation : 0..MaxGeneration, paused : BOOLEAN,
                    deleting : BOOLEAN, deleted : BOOLEAN]
  BY <1>4, Zenon DEF IInv, TypeOK
<1>6. target'.generation >= target.generation
  BY <1>4 DEF IInv, TypeOK
<1>7. /\ jobs' \in [Workers -> Job]
      /\ \A v \in Workers : JobFenced(jobs'[v])
  BY <1>3, <1>4, OneJob
<1>8. TypeOK'
  BY <1>4, <1>5, <1>7 DEF IInv, TypeOK
<1> QED
  BY <1>4, <1>6, <1>7, <1>8, StepKeeps

\* A worker dies, or one of its calls fails.
LEMMA BreaksKeep ==
  ASSUME IInv, NEW w \in Workers, Crash(w) \/ Fail(w) PROVE IInv'
<1> DEFINE j == jobs[w]
           m == IF Fail(w) THEN Retry(j) ELSE Idle
<1>1. j \in Job /\ JobFenced(j) /\ j.op # None /\ j.op \in Ops
  BY BusyWorker DEF Crash, Fail
<1>2. faults' \in 0..MaxFaults
  BY DeliveryAssumption DEF Crash, Fail, Fault, IInv, TypeOK
<1>3. CASE Crash(w)
  <2> DEFINE row == [ops[j.op] EXCEPT !.fence = None]
  <2>1. /\ jobs' = [jobs EXCEPT ![w] = Idle]
        /\ \/ ops' = ops
           \/ ops' = [ops EXCEPT ![j.op] = row] /\ ops[j.op].state = "open"
        /\ UNCHANGED <<target, runs, written, app>>
    BY <1>3 DEF Crash, Holds
  <2>2. row \in Op
    BY <1>1, RowsTyped DEF IInv, TypeOK
  <2>3. /\ ops' \in [Ops -> Op]
        /\ \A g \in Generations :
             ops'[g].state # "absent" => ops[g].state # "absent"
    BY <1>1, <2>1, <2>2 DEF IInv, TypeOK, Ops
  <2>4. /\ jobs' \in [Workers -> Job]
        /\ \A v \in Workers : JobFenced(jobs'[v])
    BY <2>1, IdleTyped, IdleFenced, OneJob
  <2>5. TypeOK'
    BY <1>2, <2>1, <2>3, <2>4 DEF IInv, TypeOK
  <2>6. target'.generation >= target.generation
    BY <2>1 DEF IInv, TypeOK
  <2> QED
    BY <2>1, <2>3, <2>4, <2>5, <2>6, StepKeeps
<1>4. CASE Fail(w)
  <2>1. Retry(j) \in Job /\ JobFenced(Retry(j))
    BY <1>1, StopsTyped, StopsFenced
  <2>2. /\ jobs' = [jobs EXCEPT ![w] = Retry(j)]
        /\ UNCHANGED <<target, runs, ops, written, app>>
    BY <1>4 DEF Fail
  <2>3. /\ jobs' \in [Workers -> Job]
        /\ \A v \in Workers : JobFenced(jobs'[v])
    BY <2>1, <2>2, OneJob
  <2>4. TypeOK'
    BY <1>2, <2>2, <2>3 DEF IInv, TypeOK
  <2>5. target'.generation >= target.generation
    BY <2>2 DEF IInv, TypeOK
  <2> QED
    BY <2>2, <2>3, <2>4, <2>5, StepKeeps
<1> QED
  BY <1>3, <1>4
-----------------------------------------------------------------------------
(* Steps that change the App. *)

\* Somebody else changed the App: a worker that had read it now holds a
\* stale copy, and whatever it knew of it is void.
LEMMA Outdated ==
  ASSUME IInv, UNCHANGED target, NEW v \in Workers,
         jobs'[v] = IF jobs[v].seen = "fresh"
                      THEN [jobs[v] EXCEPT !.seen = "stale"] ELSE jobs[v]
  PROVE  jobs'[v] \in Job /\ JobFenced(jobs[v])'
<1>1. jobs[v] \in Job /\ JobFenced(jobs[v])
  BY DEF IInv, TypeOK, FenceInv
<1>2. jobs'[v] \in Job
  BY <1>1 DEF Job
<1>3. /\ jobs'[v].pc = jobs[v].pc /\ jobs'[v].op = jobs[v].op
      /\ jobs'[v].seen # "fresh"
      /\ jobs'[v].seen # "none" <=> jobs[v].seen # "none"
  BY <1>1 DEF Job
<1>4. WorksOn(jobs[v])'
  BY <1>1, <1>3 DEF JobFenced, WorksOn
<1> QED
  BY <1>1, <1>2, <1>3, <1>4 DEF JobFenced

\* A step that outdates what every worker but one knows of the App.
LEMMA AppStepKeeps ==
  ASSUME IInv, UNCHANGED <<target, runs, ops>>,
         written' = written, faults' \in 0..MaxFaults, app' \in App,
         app'.live => app'.generation \in 1..target.generation,
         NEW S \in SUBSET Workers, jobs' \in [Workers -> Job],
         \A v \in S : JobFenced(jobs[v])',
         \A v \in Workers \ S :
           jobs'[v] = IF jobs[v].seen = "fresh"
                        THEN [jobs[v] EXCEPT !.seen = "stale"] ELSE jobs[v]
  PROVE  IInv'
<1>1. \A v \in Workers : JobFenced(jobs[v])'
  BY Outdated
<1>2. TypeOK'
  BY DEF IInv, TypeOK
<1> QED
  BY <1>1, <1>2 DEF IInv, FenceInv

\* The App's own columns.
LEMMA AppsTyped ==
  /\ NoApp \in App /\ ~NoApp.live
  /\ \A a \in App, r \in {"unknown", "true", "failed"} :
       LET b == [a EXCEPT !.observed = a.meta, !.ready = r]
       IN b \in App /\ b.live = a.live /\ b.generation = a.generation
<1>1. 0 \in 0..MaxGeneration
  BY DeliveryAssumption
<1>2. NoApp \in App /\ ~NoApp.live
  BY <1>1 DEF NoApp, App
<1>3. ASSUME NEW a \in App, NEW r \in {"unknown", "true", "failed"}
      PROVE  LET b == [a EXCEPT !.observed = a.meta, !.ready = r]
             IN b \in App /\ b.live = a.live /\ b.generation = a.generation
  BY Zenon DEF App
<1> QED
  BY <1>2, <1>3

\* The controller's report and a removal by somebody else: every copy of
\* the App that a worker has read is stale.
LEMMA ReconcileKeeps == ASSUME IInv, Reconcile \/ LoseApp PROVE IInv'
<1>1. jobs' = Touched(jobs, None) /\ UNCHANGED <<target, runs, ops, written>>
  BY DEF Reconcile, LoseApp
<1>2. \A v \in Workers :
        /\ jobs'[v] = IF jobs[v].seen = "fresh"
                        THEN [jobs[v] EXCEPT !.seen = "stale"] ELSE jobs[v]
        /\ jobs'[v] \in Job
  <2> TAKE v \in Workers
  <2>1. v # None
    BY DeliveryAssumption
  <2>2. jobs'[v] = IF jobs[v].seen = "fresh"
                     THEN [jobs[v] EXCEPT !.seen = "stale"] ELSE jobs[v]
    BY <1>1, <2>1 DEF Touched
  <2> QED
    BY <1>1, <2>2, Outdated
<1>3. jobs' \in [Workers -> Job]
  BY <1>1, <1>2 DEF Touched
<1>4. faults' \in 0..MaxFaults
  BY DeliveryAssumption DEF Reconcile, LoseApp, Fault, IInv, TypeOK
<1>5. /\ app' \in App
      /\ app'.live => app'.generation \in 1..target.generation
  <2>1. CASE Reconcile
    <3>1. PICK r \in {"unknown", "true", "failed"} :
            app' = [app EXCEPT !.observed = app.meta, !.ready = r]
      BY <2>1 DEF Reconcile
    <3>2. app \in App
      BY DEF IInv, TypeOK
    <3>3. /\ app' \in App /\ app'.live = app.live
          /\ app'.generation = app.generation
      BY <3>1, <3>2, AppsTyped, Zenon
    <3> QED
      BY <3>3 DEF IInv, FenceInv
  <2>2. CASE LoseApp
    BY <2>2, AppsTyped DEF LoseApp
  <2> QED
    BY <2>1, <2>2
<1> QED
  <2> DEFINE S == {}
  <2>1. /\ S \in SUBSET Workers
        /\ \A v \in S : JobFenced(jobs[v])'
        /\ \A v \in Workers \ S :
             jobs'[v] = IF jobs[v].seen = "fresh"
                          THEN [jobs[v] EXCEPT !.seen = "stale"] ELSE jobs[v]
    BY <1>2
  <2> HIDE DEF S
  <2> QED
    BY <1>1, <1>3, <1>4, <1>5, <2>1, AppStepKeeps

\* The removal of a deletion; the other workers' copies are stale.
LEMMA RemoveAppKeeps ==
  ASSUME IInv, NEW w \in Workers, RemoveApp(w) PROVE IInv'
<1> DEFINE m == [jobs[w] EXCEPT !.pc = "mark"]
           js == [jobs EXCEPT ![w] = m]
<1>1. /\ jobs[w].pc = "remove" /\ app' = NoApp
      /\ jobs' = Touched(js, w)
      /\ UNCHANGED <<target, runs, ops, written, faults>>
  BY DEF RemoveApp
<1>2. jobs[w] \in Job /\ JobFenced(jobs[w])
  BY <1>1, BusyWorker
<1>3. m \in Job /\ m.seen = "none" /\ m.op = jobs[w].op /\ m.pc = "mark"
  BY <1>1, <1>2 DEF Job, Pc, DeleteAt, JobFenced
<1>4. jobs \in [Workers -> Job]
  BY DEF IInv, TypeOK
<1>5. jobs'[w] = m
  BY <1>1, <1>4 DEF Touched
<1>6. \A v \in Workers \ {w} :
        jobs'[v] = IF jobs[v].seen = "fresh"
                     THEN [jobs[v] EXCEPT !.seen = "stale"] ELSE jobs[v]
  BY <1>1, <1>4 DEF Touched
<1>7. jobs' \in [Workers -> Job]
  <2>1. \A v \in Workers : jobs'[v] \in Job
    BY <1>1, <1>3, <1>5, <1>6, Outdated
  <2> QED
    BY <1>1, <2>1 DEF Touched
<1>8. JobFenced(jobs[w])'
  <2>1. WorksOn(m)
    BY <1>1, <1>2, <1>3 DEF JobFenced, WorksOn, DeleteAt, DeliverAt, VerifyAt
  <2>2. m.op # None => m.op <= target.generation
    BY <1>2, <1>3 DEF JobFenced
  <2> QED
    BY <1>1, <1>3, <1>5, <2>1, <2>2 DEF JobFenced, WorksOn
<1>9. /\ app' \in App
      /\ app'.live => app'.generation \in 1..target.generation
  BY <1>1, AppsTyped
<1> QED
  <2> DEFINE S == {w}
  <2>1. /\ S \in SUBSET Workers
        /\ \A v \in S : JobFenced(jobs[v])'
        /\ \A v \in Workers \ S :
             jobs'[v] = IF jobs[v].seen = "fresh"
                          THEN [jobs[v] EXCEPT !.seen = "stale"] ELSE jobs[v]
    BY <1>6, <1>8
  <2>2. faults' \in 0..MaxFaults
    BY <1>1 DEF IInv, TypeOK
  <2> HIDE DEF S
  <2> QED
    BY <1>1, <1>7, <1>9, <2>1, <2>2, AppStepKeeps

\* A write that met no conflict: the App was read when nothing newer than
\* the worker's generation was in it, and it did not change since.
LEMMA PutKeeps == ASSUME IInv, NEW w \in Workers, Put(w) PROVE IInv'
<1> DEFINE j == jobs[w]
           new == Written(j.op)
           done == [Idle EXCEPT !.op = j.op, !.pc = "record",
                      !.phase = j.phase, !.meta = new.meta]
<1>1. j.pc = "put"
  BY DEF Put
<1>2. j \in Job /\ JobFenced(j) /\ j.op # None /\ j.op \in Generations
  BY <1>1, BusyWorker DEF DeleteAt
<1>3. CASE Conflict(j) /\ Becomes(w, IF LastConflict(j)
                                       THEN Retry(j)
                                       ELSE [j EXCEPT !.pc = "get",
                                               !.seen = "none", !.tries = @ + 1])
  <2> DEFINE m == [j EXCEPT !.pc = "get", !.seen = "none", !.tries = @ + 1]
  <2>1. Retry(j) \in Job /\ JobFenced(Retry(j))
    BY <1>2, StopsTyped, StopsFenced
  <2>2. ASSUME ~LastConflict(j) PROVE m \in Job /\ JobFenced(m)
    <3>1. j.tries + 1 \in 0..(MaxConflicts - 1)
      BY <1>2, <2>2, DeliveryAssumption DEF Job, LastConflict
    <3>2. m \in Job
      BY <1>2, <3>1 DEF Job, Pc, DeliverAt
    <3>3. m.pc = "get" /\ m.op = j.op /\ m.seen = "none"
      BY <1>2 DEF Job
    <3>4. WorksOn(m)
      BY <1>2, <3>3, OpsFacts DEF WorksOn, DeleteAt, Ops
    <3> QED
      BY <1>2, <3>2, <3>3, <3>4 DEF JobFenced
  <2> QED
    BY <1>3, <2>1, <2>2, BecomesKeeps
<1>4. CASE /\ ~Conflict(j) /\ app' = new
           /\ jobs' = LET js == [jobs EXCEPT ![w] = done]
                      IN IF new = app THEN js ELSE Touched(js, w)
           /\ UNCHANGED <<target, runs, ops, written, faults>>
  <2>1. app \in App /\ j.op \in 1..target.generation
    <3>1. app \in App /\ target.generation \in Nat
      BY DEF IInv, TypeOK
    <3>2. j.op \in Nat \ {0} /\ j.op <= target.generation
      BY <1>2, OpsFacts DEF JobFenced
    <3> QED
      BY <3>1, <3>2
  <2>2. j.op \in 0..MaxGeneration
    BY <1>2 DEF Generations
  <2>3. new \in App /\ new.live /\ new.generation = j.op /\ new.meta \in Nat
    <3>1. CASE ~app.live
      <4> DEFINE born == [NoApp EXCEPT !.live = TRUE]
                 a == [born EXCEPT !.generation = j.op]
      <4>1. born \in App /\ born.live
        BY AppsTyped, Zenon DEF App
      <4>2. a \in App /\ a.live /\ a.generation = j.op
        BY <2>2, <4>1, Zenon DEF App
      <4>3. 1 \in Nat
        OBVIOUS
      <4>4. new = [a EXCEPT !.meta = 1]
        BY <3>1, Zenon DEF Written
      <4> QED
        BY <4>2, <4>3, <4>4, Zenon DEF App
    <3>2. CASE app.live /\ app.generation = j.op
      BY <2>1, <3>2 DEF Written, App
    <3>3. CASE app.live /\ app.generation # j.op
      <4> DEFINE a == [app EXCEPT !.generation = j.op]
      <4>1. a \in App /\ a.live = app.live /\ a.generation = j.op
        BY <2>1, <2>2, Zenon DEF App
      <4>2. a.meta \in Nat
        BY <4>1 DEF App
      <4>3. a.meta + 1 \in Nat
        BY <4>2
      <4>4. new = [a EXCEPT !.meta = a.meta + 1]
        BY <2>1, <3>3 DEF Written, App
      <4> QED
        BY <3>3, <4>1, <4>3, <4>4, Zenon DEF App
    <3> QED
      BY <3>1, <3>2, <3>3
  <2>4. done \in Job
    BY <1>2, <2>3, IdleTyped DEF Idle, Job, Pc, DeliverAt
  <2>5. done.pc = "record" /\ done.op = j.op /\ done.seen = "none"
    BY DEF Idle
  <2>6. WorksOn(done)
    BY <1>2, <2>5, OpsFacts DEF WorksOn, DeleteAt, Ops
  <2>7. jobs \in [Workers -> Job]
    BY DEF IInv, TypeOK
  <2>8. CASE new = app
    <3>1. JobFenced(done)
      BY <1>2, <2>5, <2>6 DEF JobFenced
    <3>2. Becomes(w, done)
      BY <1>4, <2>8 DEF Becomes
    <3> QED
      BY <2>4, <3>1, <3>2, BecomesKeeps
  <2>9. CASE new # app
    <3>1. jobs' = Touched([jobs EXCEPT ![w] = done], w)
      BY <1>4, <2>9
    <3>2. jobs'[w] = done
      BY <2>7, <3>1 DEF Touched
    <3>3. \A v \in Workers \ {w} :
            jobs'[v] = IF jobs[v].seen = "fresh"
                         THEN [jobs[v] EXCEPT !.seen = "stale"] ELSE jobs[v]
      BY <2>7, <3>1 DEF Touched
    <3>4. jobs' \in [Workers -> Job]
      <4>1. \A v \in Workers : jobs'[v] \in Job
        BY <1>4, <2>4, <3>2, <3>3, Outdated
      <4> QED
        BY <3>1, <4>1 DEF Touched
    <3>5. JobFenced(jobs[w])'
      BY <1>2, <1>4, <2>5, <2>6, <3>2 DEF JobFenced, WorksOn
    <3>6. faults' \in 0..MaxFaults
      BY <1>4 DEF IInv, TypeOK
    <3>7. app' \in App /\ app'.generation \in 1..target.generation
      BY <1>4, <2>1, <2>3
    <3> DEFINE S == {w}
    <3>8. /\ S \in SUBSET Workers
          /\ \A v \in S : JobFenced(jobs[v])'
          /\ \A v \in Workers \ S :
               jobs'[v] = IF jobs[v].seen = "fresh"
                            THEN [jobs[v] EXCEPT !.seen = "stale"] ELSE jobs[v]
      BY <3>3, <3>5
    <3> HIDE DEF S
    <3> QED
      BY <1>4, <3>4, <3>6, <3>7, <3>8, AppStepKeeps
  <2> QED
    BY <2>8, <2>9
<1> QED
  BY <1>3, <1>4 DEF Put
-----------------------------------------------------------------------------
(* The invariant is inductive. *)

\* Nothing was accepted yet, and no worker has a claim.
LEMMA InitIInv == Init => IInv
<1> SUFFICES ASSUME Init PROVE IInv
  OBVIOUS
<1>1. target \in [generation : 0..MaxGeneration, paused : BOOLEAN,
                  deleting : BOOLEAN, deleted : BOOLEAN]
  <2>1. 0 \in 0..MaxGeneration
    BY DeliveryAssumption
  <2> QED
    BY <2>1, Zenon DEF Init
<1>2. runs \in [Generations -> Run]
  <2>1. NoRun \in Run
    BY DeliveryAssumption, Zenon DEF NoRun, Run
  <2> QED
    BY <2>1 DEF Init
<1>3. ops \in [Ops -> Op]
  BY NewRowsTyped DEF Init
<1>4. /\ written \in [generation : 0..MaxGeneration, meta : Nat]
      /\ app \in App /\ ~app.live /\ faults \in 0..MaxFaults
  <2>1. /\ 0 \in 0..MaxGeneration /\ 0 \in 0..MaxFaults
    BY DeliveryAssumption
  <2>2. written \in [generation : 0..MaxGeneration, meta : Nat]
    BY <2>1 DEF Init
  <2>3. app \in App /\ ~app.live
    BY AppsTyped DEF Init
  <2> QED
    BY <2>1, <2>2, <2>3 DEF Init
<1>5. jobs \in [Workers -> Job]
  BY IdleTyped DEF Init
<1>6. \A g \in Generations : ops[g].state = "absent"
  BY DEF Init, NoOp, Ops
<1>7. \A w \in Workers : JobFenced(jobs[w])
  BY IdleFenced DEF Init
<1> QED
  BY <1>1, <1>2, <1>3, <1>4, <1>5, <1>6, <1>7 DEF IInv, TypeOK, FenceInv

\* Every step keeps it.
LEMMA StepIInv == IInv /\ [Next]_vars => IInv'
<1> SUFFICES ASSUME IInv, [Next]_vars PROVE IInv'
  OBVIOUS
<1>1. CASE UNCHANGED vars
  BY <1>1 DEF vars, IInv, TypeOK, FenceInv, JobFenced, WorksOn
<1>2. CASE Requests
  BY <1>2, StartRunKeeps, DecideKeeps, ControlsKeep DEF Requests
<1>3. ASSUME NEW w \in Workers, NEW o \in Ops, Claim(w, o) PROVE IInv'
  BY <1>3, ClaimKeeps
<1>4. ASSUME NEW w \in Workers, Work(w) PROVE IInv'
  <2>1. CASE DeliverRun(w)
    BY <2>1, LoadKeeps, HoldKeeps, PrepareKeeps, GetAppKeeps, FenceKeeps,
       PutKeeps, RecordKeeps, EventsKeep DEF DeliverRun
  <2>2. CASE Verify(w)
    BY <2>2, ResumeKeeps, RenewKeeps, LookKeeps, EventsKeep, WaitKeeps
    DEF Verify
  <2>3. CASE Delete(w)
    BY <2>3, FindTargetKeeps, RemoveAppKeeps, MarkDeletedKeeps DEF Delete
  <2>4. CASE End(w) \/ Finish(w) \/ GiveBack(w)
    BY <2>4, EventsKeep, FinishKeeps
  <2> QED
    BY <1>4, <2>1, <2>2, <2>3, <2>4 DEF Work
<1>5. CASE Clocks
  BY <1>5, ClocksKeep
<1>6. CASE Environment
  BY <1>6, ReconcileKeeps, BreaksKeep DEF Environment
<1> QED
  BY <1>1, <1>2, <1>3, <1>4, <1>5, <1>6 DEF Next

\* So it holds in every reachable state.
LEMMA AlwaysIInv == Spec => []IInv
  BY InitIInv, StepIInv, PTL DEF Spec

\* Every reachable state of the delivery of a target is well-typed, for any
\* number of workers, runs, approvers and faults.
THEOREM TypeCorrect == Spec => []TypeOK
<1>1. IInv => TypeOK
  BY DEF IInv
<1> QED
  BY <1>1, AlwaysIInv, PTL

\* What every worker knows of the App at each of its steps (FenceInv).
THEOREM WorkersAreFenced == Spec => []FenceInv
<1>1. IInv => FenceInv
  BY DEF IInv
<1> QED
  BY <1>1, AlwaysIInv, PTL
-----------------------------------------------------------------------------
(* The generation fence: every step is one of GenerationFence, or none. *)

\* A write goes from the generation that was there to one that is not older
\* and that SQL accepted.
LEMMA PutIsAWrite ==
  ASSUME IInv, NEW w \in Workers, Put(w)
  PROVE  Fenced!Write \/ UNCHANGED <<target.generation, app>>
<1> DEFINE j == jobs[w]
           new == Written(j.op)
<1>1. j.pc = "put"
  BY DEF Put
<1>2. j \in Job /\ JobFenced(j) /\ j.op \in Generations
  BY <1>1, BusyWorker DEF DeleteAt
<1>3. CASE UNCHANGED <<target, app>>
  BY <1>3
<1>4. CASE ~Conflict(j) /\ app' = new /\ UNCHANGED target
  <2>1. j.op \in 1..target.generation
    <3>1. target.generation \in Nat
      BY DEF IInv, TypeOK
    <3>2. j.op \in Nat \ {0} /\ j.op <= target.generation
      BY <1>2, OpsFacts DEF JobFenced, Ops
    <3> QED
      BY <3>1, <3>2
  <2>2. app.live => app.generation <= j.op
    BY <1>1, <1>2, <1>4 DEF Conflict, JobFenced, Job
  <2>3. app'.live /\ app'.generation = j.op
    <3>1. app \in App
      BY DEF IInv, TypeOK
    <3> QED
      BY <1>4, <3>1 DEF Written, NoApp, App
  <2>4. (IF app.live THEN app.generation ELSE 0) <= j.op
    BY <2>1, <2>2
  <2>5. UNCHANGED target.generation
    BY <1>4
  <2> QED
    BY <2>1, <2>3, <2>4, <2>5 DEF Fenced!Write
<1> QED
  BY <1>3, <1>4 DEF Put, Becomes

\* Every other step of a worker leaves the App and the accepted generation
\* alone, or removes the App.
LEMMA WorkIsFenced ==
  ASSUME IInv, NEW w \in Workers, Work(w)
  PROVE  Fenced!Next \/ UNCHANGED <<target.generation, app>>
<1>1. CASE Put(w)
  BY <1>1, PutIsAWrite DEF Fenced!Next
<1>2. CASE RemoveApp(w)
  BY <1>2 DEF RemoveApp, NoApp, Fenced!Next, Fenced!Remove
<1>3. CASE MarkDeleted(w)
  BY <1>3 DEF MarkDeleted, IInv, TypeOK
<1>4. CASE \/ Load(w) \/ Expire(w) \/ Hold(w) \/ Ready(w) \/ Prepare(w)
           \/ GetApp(w) \/ Fence(w) \/ Record(w) \/ Accept(w)
           \/ Verify(w) \/ FindTarget(w) \/ End(w) \/ Finish(w) \/ GiveBack(w)
  <2>1. UNCHANGED <<target, app>>
    BY <1>4
    DEF Load, Expire, Hold, Ready, Prepare, GetApp, Fence, Record, Accept,
        Verify, Resume, Renew, Look, ToVerifying, Deadline, Again,
        FindTarget, End, Finish, GiveBack, LetGo, Advance, Becomes, Goto
  <2> QED
    BY <2>1
<1> QED
  BY <1>1, <1>2, <1>3, <1>4 DEF Work, DeliverRun, Delete

\* Whatever the workers, the people, the clocks and the faults do, the App of
\* a target carries an accepted generation, and no write replaces a newer
\* one by an older one: Delivery implements GenerationFence.
THEOREM FenceKept == Spec => FencePromise
<1>1. Init => Fenced!Init
  BY DEF Init, NoApp, Fenced!Init
<1>2. IInv /\ [Next]_vars
        => [Fenced!Next]_<<target.generation,
                           IF app.live THEN app.generation ELSE 0>>
  <2> SUFFICES ASSUME IInv, [Next]_vars
               PROVE  Fenced!Next \/ UNCHANGED <<target.generation, app.live,
                                                 app.generation>>
    OBVIOUS
  <2>1. CASE UNCHANGED vars
    BY <2>1 DEF vars
  <2>2. ASSUME NEW emergency \in BOOLEAN, NEW required \in Required,
               StartRun(emergency, required)
        PROVE  Fenced!Next
    <3>1. target'.generation = target.generation + 1 /\ UNCHANGED app
      BY <2>2 DEF StartRun, IInv, TypeOK
    <3> QED
      BY <3>1 DEF Fenced!Next, Fenced!Accept
  <2>3. CASE \/ \E g \in Generations, a \in Approvers, approve \in BOOLEAN :
                  Decide(g, a, approve)
             \/ Pause \/ ResumeTarget \/ DeleteTarget
    BY <2>3 DEF Decide, Pause, ResumeTarget, DeleteTarget, IInv, TypeOK
  <2>4. ASSUME NEW w \in Workers, NEW o \in Ops, Claim(w, o)
        PROVE  UNCHANGED <<target, app>>
    BY <2>4 DEF Claim
  <2>5. ASSUME NEW w \in Workers, Work(w)
        PROVE  Fenced!Next \/ UNCHANGED <<target.generation, app>>
    BY <2>5, WorkIsFenced
  <2>6. CASE Clocks
    BY <2>6 DEF Clocks, Due, LeaseExpires, WindowCloses
  <2>7. CASE Environment
    <3>1. CASE Reconcile
      BY <3>1 DEF Reconcile, IInv, TypeOK, App
    <3>2. CASE LoseApp
      BY <3>2 DEF LoseApp, NoApp, Fenced!Next, Fenced!Remove
    <3>3. ASSUME NEW w \in Workers, Crash(w) \/ Fail(w)
          PROVE  UNCHANGED <<target, app>>
      BY <3>3 DEF Crash, Fail
    <3> QED
      BY <2>7, <3>1, <3>2, <3>3 DEF Environment
  <2> QED
    BY <2>1, <2>2, <2>3, <2>4, <2>5, <2>6, <2>7 DEF Next, Requests
<1> QED
  BY <1>1, <1>2, AlwaysIInv, PTL DEF Spec, FencePromise, Fenced!Spec
-----------------------------------------------------------------------------
(***************************************************************************)
(* What Delivery settles and records: a settled run stays settled, so at   *)
(* most one run of a target is alive, and the record of the last write     *)
(* never goes back.  Both need only the types and that final phases absorb *)
(* every event.                                                            *)
(***************************************************************************)

\* No event leads out of a final phase (run.Phase.Apply).
LEMMA FinalAbsorbs ==
  ASSUME NEW p \in Final, NEW e PROVE Apply(p, e) = {}
<1>1. \A q : <<p, e, q>> \notin Progress
  BY DEF Progress, Final
<1>2. \A q : <<p, e, q>> \notin Blocking
  BY DEF Blocking, Final
<1>3. \A q : <<p, e, q>> \notin Cancelling
  BY DEF Cancelling, Final, BeforeDelivery, Delivered
<1>4. \A q : <<p, e, q>> \notin Recovery
  BY DEF Recovery, Final
<1>5. p \notin BeforeDelivery \cup Delivered \cup {"cancelRequested"}
  BY DEF Final, BeforeDelivery, Delivered
<1> QED
  BY <1>1, <1>2, <1>3, <1>4, <1>5 DEF Apply, Transitions

\* What becomes of the settled runs in a step that accepts no run: the
\* target keeps its generation, and no settled run changes its phase.
Keeps ==
  /\ target'.generation = target.generation
  /\ \A g \in Generations :
       runs[g].phase \in Final => runs'[g].phase = runs[g].phase

\* A worker's event moves no settled run.
LEMMA AdvanceSettles ==
  ASSUME IInv, NEW w \in Workers, NEW e, NEW moved, jobs[w].op \in Generations,
         Advance(w, e, moved)
  PROVE  Keeps
<1>1. /\ runs \in [Generations -> Run]
      /\ target' = target
  BY DEF IInv, TypeOK, Advance
<1>2. CASE UNCHANGED runs
  BY <1>1, <1>2 DEF Keeps
<1>3. CASE \E q \in Apply(runs[jobs[w].op].phase, e) :
             runs' = [runs EXCEPT ![jobs[w].op].phase = q,
                                  ![jobs[w].op].outcome = Coalesce(@, OutcomeOf(q))]
  <2>1. runs[jobs[w].op].phase \notin Final
    BY <1>3, FinalAbsorbs
  <2>2. ASSUME NEW g \in Generations, runs[g].phase \in Final
        PROVE  runs'[g].phase = runs[g].phase
    <3>1. g # jobs[w].op
      BY <2>1, <2>2
    <3> QED
      BY <1>1, <1>3, <3>1
  <2> QED
    BY <1>1, <2>2 DEF Keeps
<1> QED
  BY <1>2, <1>3 DEF Advance

\* Neither does a decision, nor the closing of an approval window.
LEMMA DecideSettles ==
  ASSUME IInv, NEW g \in Generations, NEW a \in Approvers,
         NEW approve \in BOOLEAN, Decide(g, a, approve)
  PROVE  Keeps
<1>1. /\ runs \in [Generations -> Run]
      /\ target' = target
      /\ runs[g].phase \notin Final
  BY DEF IInv, TypeOK, Decide, Final
<1>2. ASSUME NEW h \in Generations, runs[h].phase \in Final
      PROVE  runs'[h].phase = runs[h].phase
  <2>1. h # g
    BY <1>1, <1>2
  <2> QED
    BY <1>1, <2>1 DEF Decide
<1> QED
  BY <1>1, <1>2 DEF Keeps

LEMMA WindowSettles ==
  ASSUME IInv, NEW g \in Generations, WindowCloses(g) PROVE Keeps
<1>1. /\ runs \in [Generations -> Run]
      /\ target' = target
      /\ runs[g].phase \notin Final
  BY DEF IInv, TypeOK, WindowCloses, Final
<1>2. ASSUME NEW h \in Generations, runs[h].phase \in Final
      PROVE  runs'[h].phase = runs[h].phase
  <2>1. h # g
    BY <1>1, <1>2
  <2> QED
    BY <1>1, <2>1 DEF WindowCloses
<1> QED
  BY <1>1, <1>2 DEF Keeps

LEMMA PrepareSettles ==
  ASSUME IInv, NEW w \in Workers, Prepare(w) PROVE Keeps
<1>1. /\ runs \in [Generations -> Run]
      /\ target' = target
  BY DEF IInv, TypeOK, Prepare, Becomes, Goto
<1>2. CASE UNCHANGED runs
  BY <1>1, <1>2 DEF Keeps
<1>3. CASE runs' = [runs EXCEPT ![jobs[w].op].planned = TRUE]
  <2>1. ASSUME NEW h \in Generations PROVE runs'[h].phase = runs[h].phase
    BY <1>1, <1>3 DEF Run
  <2> QED
    BY <1>1, <2>1 DEF Keeps
<1> QED
  BY <1>2, <1>3 DEF Prepare, Becomes, Goto

\* Every step accepts a run or keeps the settled ones.
LEMMA StepSettles ==
  ASSUME IInv, [Next]_vars
  PROVE  \/ Keeps
         \/ \E emergency \in BOOLEAN, required \in Required :
              StartRun(emergency, required)
<1>1. CASE UNCHANGED <<target, runs>>
  BY <1>1 DEF Keeps
<1>2. CASE Requests
  <2>1. CASE Pause \/ ResumeTarget \/ DeleteTarget
    BY <2>1 DEF Pause, ResumeTarget, DeleteTarget, Keeps, IInv, TypeOK
  <2> QED
    BY <1>2, <2>1, DecideSettles DEF Requests
<1>3. ASSUME NEW w \in Workers, NEW o \in Ops, Claim(w, o) PROVE Keeps
  BY <1>3 DEF Claim, Keeps
<1>4. ASSUME NEW w \in Workers, Work(w) PROVE Keeps
  <2>1. /\ jobs[w].pc \in DeliverAt \cup VerifyAt \cup {"end"}
             => jobs[w].op \in Generations
    BY DEF IInv, FenceInv, JobFenced, WorksOn
  <2>2. CASE Expire(w) \/ Ready(w) \/ Accept(w) \/ ToVerifying(w) \/ End(w)
    <3>1. CASE \E e, moved : Advance(w, e, moved)
      <4>1. jobs[w].op \in Generations
        BY <2>1, <2>2 DEF Expire, Ready, Accept, ToVerifying, End,
                          DeliverAt, VerifyAt
      <4> QED
        BY <3>1, <4>1, AdvanceSettles
    <3>2. CASE UNCHANGED <<target, runs>>
      BY <3>2 DEF Keeps
    <3> QED
      BY <2>2, <3>1, <3>2
         DEF Expire, Ready, Accept, ToVerifying, End, Goto, Becomes
  <2>3. CASE Prepare(w)
    BY <2>3, PrepareSettles
  <2>4. CASE MarkDeleted(w)
    BY <2>4 DEF MarkDeleted, Keeps, IInv, TypeOK
  <2>5. CASE \/ Load(w) \/ Hold(w) \/ GetApp(w) \/ Fence(w) \/ Put(w) \/ Record(w)
             \/ Resume(w) \/ Renew(w) \/ Look(w) \/ Deadline(w) \/ Again(w)
             \/ FindTarget(w) \/ RemoveApp(w) \/ Finish(w) \/ GiveBack(w)
    <3>1. UNCHANGED <<target, runs>>
      BY <2>5 DEF Load, Hold, GetApp, Fence, Put, Record, Resume, Renew, Look,
                  Deadline, Again, FindTarget, RemoveApp, Finish, GiveBack,
                  LetGo, Goto, Becomes
    <3> QED
      BY <3>1 DEF Keeps
  <2> QED
    BY <1>4, <2>2, <2>3, <2>4, <2>5 DEF Work, DeliverRun, Verify, Delete
<1>5. CASE Clocks
  BY <1>5, <1>1, WindowSettles DEF Clocks, Due, LeaseExpires
<1>6. CASE Environment
  BY <1>6, <1>1 DEF Environment, Reconcile, LoseApp, Crash, Fail
<1>7. CASE UNCHANGED vars
  BY <1>7, <1>1 DEF vars
<1> QED
  BY <1>2, <1>3, <1>4, <1>5, <1>6, <1>7 DEF Next
-----------------------------------------------------------------------------
\* A newer run settles every older one when it is accepted.
LEMMA StartRunOwns ==
  ASSUME IInv, OneOwner, NEW emergency \in BOOLEAN, NEW required \in Required,
         StartRun(emergency, required)
  PROVE  OneOwner'
<1> DEFINE new == target.generation + 1
<1>1. /\ runs \in [Generations -> Run]
      /\ target \in [generation : 0..MaxGeneration, paused : BOOLEAN,
                     deleting : BOOLEAN, deleted : BOOLEAN]
  BY DEF IInv, TypeOK
<1>2. target'.generation = new
  BY <1>1 DEF StartRun
<1>3. ASSUME NEW h \in Generations, h < new
      PROVE  runs'[h].phase \in Final
  <2>1. h # new
    BY <1>3, OpsFacts
  <2>2. runs'[h] = IF h \in Older(new)
                     THEN [runs[h] EXCEPT !.phase = "superseded"] ELSE runs[h]
    BY <2>1 DEF StartRun
  <2>3. CASE h \in Older(new)
    <3>1. runs'[h].phase = "superseded"
      BY <1>1, <2>2, <2>3 DEF Run
    <3> QED
      BY <3>1 DEF Final
  <2>4. CASE h \notin Older(new)
    BY <1>3, <2>2, <2>4 DEF Older
  <2> QED
    BY <2>3, <2>4
<1> QED
  BY <1>2, <1>3 DEF OneOwner

\* I06: of all runs of a target, at most the one that owns its generation is
\* not settled for good, however many workers, requests and faults there are.
THEOREM OnlyOneRunIsAlive == Spec => []OneOwner
<1>1. Init => OneOwner
  BY OpsFacts DEF Init, OneOwner
<1>2. IInv /\ OneOwner /\ [Next]_vars => OneOwner'
  <2> SUFFICES ASSUME IInv, OneOwner, [Next]_vars PROVE OneOwner'
    OBVIOUS
  <2>1. CASE Keeps
    BY <2>1 DEF Keeps, OneOwner
  <2> QED
    BY <2>1, StepSettles, StartRunOwns
<1> QED
  BY <1>1, <1>2, AlwaysIInv, PTL DEF Spec
-----------------------------------------------------------------------------
\* Only RecordMaterialization writes the record.
LEMMA OnlyRecordRecords ==
  ASSUME [Next]_vars
  PROVE  \/ written' = written
         \/ \E w \in Workers : Record(w)
<1>1. CASE Requests
  BY <1>1 DEF Requests, StartRun, Decide, Pause, ResumeTarget, DeleteTarget
<1>2. ASSUME NEW w \in Workers, NEW o \in Ops, Claim(w, o)
      PROVE  written' = written
  BY <1>2 DEF Claim
<1>3. ASSUME NEW w \in Workers, Work(w)
      PROVE  written' = written \/ Record(w)
  <2>1. CASE Expire(w) \/ Ready(w) \/ Accept(w) \/ ToVerifying(w) \/ End(w)
    BY <2>1 DEF Expire, Ready, Accept, ToVerifying, End, Advance, Goto, Becomes
  <2>2. CASE \/ Load(w) \/ Hold(w) \/ Prepare(w) \/ GetApp(w) \/ Fence(w) \/ Put(w)
             \/ Resume(w) \/ Renew(w) \/ Look(w) \/ Deadline(w) \/ Again(w)
    BY <2>2 DEF Load, Hold, Prepare, GetApp, Fence, Put, Resume, Renew, Look,
                Deadline, Again, Goto, Becomes
  <2>3. CASE \/ FindTarget(w) \/ RemoveApp(w) \/ MarkDeleted(w)
             \/ Finish(w) \/ GiveBack(w)
    BY <2>3 DEF FindTarget, RemoveApp, MarkDeleted, Finish, GiveBack, LetGo,
                Goto, Becomes
  <2> QED
    BY <1>3, <2>1, <2>2, <2>3 DEF Work, DeliverRun, Verify, Delete
<1>4. CASE Clocks
  BY <1>4 DEF Clocks, Due, LeaseExpires, WindowCloses
<1>5. CASE Environment
  BY <1>5 DEF Environment, Reconcile, LoseApp, Crash, Fail
<1>6. CASE UNCHANGED vars
  BY <1>6 DEF vars
<1> QED
  BY <1>1, <1>2, <1>3, <1>4, <1>5, <1>6 DEF Next

\* The guard of RecordMaterialization keeps the newer record.
LEMMA RecordGrows ==
  ASSUME IInv, [Next]_vars
  PROVE  written'.generation >= written.generation
<1>1. written.generation \in Nat
  BY DeliveryAssumption DEF IInv, TypeOK
<1>2. ASSUME NEW w \in Workers, Record(w)
      PROVE  written'.generation >= written.generation
  <2>1. jobs[w].op \in Generations
    BY <1>2 DEF IInv, FenceInv, JobFenced, WorksOn, Record, DeliverAt
  <2>2. \/ written' = written
        \/ /\ written' = [generation |-> jobs[w].op, meta |-> jobs[w].meta]
           /\ written.generation <= jobs[w].op
    BY <1>2 DEF Record, Becomes
  <2> QED
    BY <1>1, <2>1, <2>2, OpsFacts
<1> QED
  BY <1>1, <1>2, OnlyRecordRecords
=============================================================================
