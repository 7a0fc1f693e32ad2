---------------------------- MODULE ReleaseProofs ----------------------------
(***************************************************************************)
(* Proofs about what of a run reaches the cluster, and its record: only    *)
(* what was approved and frozen does, and a run between delivery and       *)
(* verdict is the recorded one.  Whoever carries a run was once allowed    *)
(* to; what allowed it (its approvals, its plan) is never taken back.      *)
(***************************************************************************)
EXTENDS DeliveryProofs, FiniteSetTheorems

Cleared(r) == Cardinality(r.approvals) >= r.required

\* A run in one of these phases was never parked, or was released.
Released ==
  Delivered \cup {"planned", "pendingDelivery", "cancelRequested", "succeeded"}

\* Nothing but an approval releases a parked run (run.transitions).
LEMMA ReleasedFrom ==
  ASSUME NEW p, NEW e, e # "approved", NEW q \in Apply(p, e), q \in Released
  PROVE  p \in Released
<1> USE DEF Released, Delivered, BeforeDelivery, Final
<1>1. <<p, e, q>> \in Transitions
  BY DEF Apply
<1>2. CASE <<p, e, q>> \in Progress
  BY <1>2 DEF Progress
<1>3. CASE <<p, e, q>> \in Blocking
  BY <1>3 DEF Blocking
<1>4. CASE <<p, e, q>> \in Cancelling
  BY <1>4 DEF Cancelling
<1>5. CASE <<p, e, q>> \in Recovery
  BY <1>5 DEF Recovery
<1> QED
  BY <1>1, <1>2, <1>3, <1>4, <1>5 DEF Transitions

\* A run enters the delivered phases when its write is accepted.
LEMMA DeliveredFrom ==
  ASSUME NEW p, NEW e, NEW q \in Apply(p, e), q \in Delivered
  PROVE  p \in Delivered \/ e = "acceptedByCluster"
<1> USE DEF Delivered, BeforeDelivery, Final
<1>1. <<p, e, q>> \in Transitions
  BY DEF Apply
<1>2. CASE <<p, e, q>> \in Progress
  BY <1>2 DEF Progress
<1>3. CASE <<p, e, q>> \in Blocking
  BY <1>3 DEF Blocking
<1>4. CASE <<p, e, q>> \in Cancelling
  BY <1>4 DEF Cancelling
<1>5. CASE <<p, e, q>> \in Recovery
  BY <1>5 DEF Recovery
<1> QED
  BY <1>1, <1>2, <1>3, <1>4, <1>5 DEF Transitions

\* A failed run only goes on to a compensation, or is superseded.
LEMMA FailedTo ==
  ASSUME NEW e, e # "recoveryRequested", NEW q \in Apply("failed", e)
  PROVE  q = "superseded"
<1> USE DEF Delivered, BeforeDelivery, Final
<1>1. <<"failed", e, q>> \in Transitions
  BY DEF Apply
<1>2. <<"failed", e, q>> \notin Progress \cup Blocking
  BY DEF Progress, Blocking
<1>3. <<"failed", e, q>> \notin Cancelling \cup Recovery
  BY DEF Cancelling, Recovery
<1> QED
  BY <1>1, <1>2, <1>3 DEF Transitions
-----------------------------------------------------------------------------
(* What a step does to a run. *)

\* From row r to row s: nothing that allowed the run is taken back.
Grows(r, s) ==
  /\ s.required = r.required
  /\ r.approvals \subseteq s.approvals
  /\ r.planned => s.planned
  /\ s.phase \in Released => r.phase \in Released \/ Cleared(s)
  /\ r.phase \in Final \cup {"failed"} =>
       \/ s.phase = r.phase
       \/ r.phase = "failed" /\ s.phase = "superseded"

\* A run accepted in this step.
Begins(g) ==
  /\ g > target.generation
  /\ runs'[g].phase \in Released => Cleared(runs'[g])
  /\ runs'[g].phase \notin Delivered

LEMMA SameGrows == \A r : Grows(r, r)
  BY DEF Grows

LEMMA OneRunGrows ==
  ASSUME IInv, NEW g \in Ops, NEW r, runs' = [runs EXCEPT ![g] = r],
         g \in Generations => Grows(runs[g], r)
  PROVE  \A h \in Generations : Grows(runs[h], runs'[h])
  BY SameGrows DEF IInv, TypeOK

\* The events a worker sends.
LEMMA AdvanceGrows ==
  ASSUME IInv, NEW w \in Workers, NEW e, NEW moved, Advance(w, e, moved),
         e \notin {"approved", "recoveryRequested"}, jobs[w].op \in Generations
  PROVE  \A g \in Generations :
           /\ Grows(runs[g], runs'[g])
           /\ runs'[g].phase \in Delivered =>
                \/ runs[g].phase \in Delivered
                \/ g = jobs[w].op /\ e = "acceptedByCluster"
<1> DEFINE o == jobs[w].op
           p == runs[o].phase
<1>1. runs \in [Generations -> Run] /\ runs[o] \in Run
  BY DEF IInv, TypeOK
<1>2. CASE UNCHANGED runs
  BY <1>2, SameGrows
<1>3. ASSUME NEW q \in Apply(p, e),
             runs' = [runs EXCEPT ![o].phase = q,
                                  ![o].outcome = Coalesce(@, OutcomeOf(q))]
      PROVE  \A g \in Generations :
               /\ Grows(runs[g], runs'[g])
               /\ runs'[g].phase \in Delivered =>
                    \/ runs[g].phase \in Delivered
                    \/ g = o /\ e = "acceptedByCluster"
  <2>1. /\ runs'[o].phase = q
        /\ runs'[o].required = runs[o].required
        /\ runs'[o].approvals = runs[o].approvals
        /\ runs'[o].planned = runs[o].planned
    BY <1>1, <1>3 DEF Run
  <2>2. p \notin Final
    BY <1>3, FinalAbsorbs
  <2>3. p = "failed" => q = "superseded"
    BY <1>3, FailedTo
  <2>4. Grows(runs[o], runs'[o])
    BY <1>3, <2>1, <2>2, <2>3, ReleasedFrom DEF Grows
  <2>5. \A g \in Generations : g # o => runs'[g] = runs[g]
    BY <1>1, <1>3
  <2>6. q \in Delivered => p \in Delivered \/ e = "acceptedByCluster"
    BY <1>3, DeliveredFrom
  <2> QED
    BY <2>1, <2>4, <2>5, <2>6, SameGrows
<1> QED
  BY <1>2, <1>3 DEF Advance

\* A decision: enough approvals release the run, a rejection settles it.
LEMMA DecideGrows ==
  ASSUME IInv, NEW g \in Generations, NEW a \in Approvers,
         NEW approve \in BOOLEAN, Decide(g, a, approve)
  PROVE  \A h \in Generations : /\ Grows(runs[h], runs'[h])
                                /\ runs'[h].phase \in Delivered =>
                                     runs[h].phase \in Delivered
<1> DEFINE r == runs[g]
           approvals == IF approve THEN r.approvals \cup {a} ELSE r.approvals
           event == Decision(r, approve, approvals)
<1>1. runs \in [Generations -> Run] /\ r \in Run
  BY DEF IInv, TypeOK
<1>2. r.phase = "awaitingApproval"
  BY DEF Decide
<1>3. \A h \in Generations : h # g => runs'[h] = runs[h]
  BY <1>1 DEF Decide
<1>4. CASE runs' = [runs EXCEPT ![g].approvals = approvals]
  <2>1. /\ runs'[g].phase = r.phase /\ runs'[g].required = r.required
        /\ runs'[g].approvals = approvals /\ runs'[g].planned = r.planned
    BY <1>1, <1>4 DEF Run
  <2> QED
    BY <1>2, <1>3, <2>1, SameGrows DEF Grows, Released, Final, Delivered
<1>5. ASSUME NEW q \in Apply(r.phase, event),
             runs' = [runs EXCEPT ![g].approvals = approvals,
                                  ![g].phase = q,
                                  ![g].outcome = Coalesce(@, OutcomeOf(q))]
      PROVE  \A h \in Generations : /\ Grows(runs[h], runs'[h])
                                    /\ runs'[h].phase \in Delivered =>
                                         runs[h].phase \in Delivered
  <2>1. /\ runs'[g].phase = q /\ runs'[g].required = r.required
        /\ runs'[g].approvals = approvals /\ runs'[g].planned = r.planned
    BY <1>1, <1>5 DEF Run
  <2>2. event = "approved" => Cardinality(approvals) >= r.required
    BY DEF Decision
  <2>3. q \in Released => Cleared(runs'[g])
    BY <1>2, <1>5, <2>1, <2>2, ReleasedFrom DEF Cleared, Released, Delivered
  <2>4. q \notin Delivered
    BY <1>2, <1>5, DeliveredFrom DEF Decision, Delivered
  <2> QED
    BY <1>2, <1>3, <2>1, <2>3, <2>4, SameGrows DEF Grows, Final
<1> QED
  BY <1>4, <1>5 DEF Decide

\* A newer run starts with nothing to approve, or parked; the older ones are
\* superseded.
LEMMA StartRunBegins ==
  ASSUME IInv, NEW emergency \in BOOLEAN, NEW required \in Required,
         StartRun(emergency, required)
  PROVE  \A h \in Generations :
           \/ Begins(h)
           \/ Grows(runs[h], runs'[h]) /\ (runs'[h].phase \in Delivered =>
                                             runs[h].phase \in Delivered)
<1> DEFINE g == target.generation + 1
           parked == required > 0
           new == [NoRun EXCEPT
                     !.phase = IF parked THEN "awaitingApproval" ELSE "planned",
                     !.required = required, !.emergency = emergency]
<1>1. runs \in [Generations -> Run] /\ target.generation \in Nat
  BY DEF IInv, TypeOK
<1>2. /\ g \in Generations /\ runs'[g] = new
      /\ \A h \in Generations : h # g =>
           runs'[h] = IF h \in Older(g)
                        THEN [runs[h] EXCEPT !.phase = "superseded"]
                        ELSE runs[h]
  BY DEF StartRun
<1>3. Begins(g)
  <2>1. /\ new.phase = IF parked THEN "awaitingApproval" ELSE "planned"
        /\ new.required = required /\ new.approvals = {}
    BY DEF NoRun
  <2>2. required \in Nat /\ Cardinality({}) = 0
    BY DeliveryAssumption, FS_EmptySet
  <2> QED
    BY <1>1, <1>2, <2>1, <2>2 DEF Begins, Cleared, Released, Delivered
<1>4. ASSUME NEW h \in Older(g)
      PROVE  Grows(runs[h], [runs[h] EXCEPT !.phase = "superseded"])
  <2>1. runs[h] \in Run /\ runs[h].phase \notin Final
    BY <1>1, <1>4 DEF Older
  <2> QED
    BY <2>1 DEF Grows, Run, Released, Delivered
<1>5. ASSUME NEW h \in Older(g)
      PROVE  [runs[h] EXCEPT !.phase = "superseded"].phase \notin Delivered
  BY <1>1, <1>5 DEF Older, Run, Delivered
<1>6. ASSUME NEW h \in Generations, h # g
      PROVE  Grows(runs[h], runs'[h]) /\ (runs'[h].phase \in Delivered =>
                                             runs[h].phase \in Delivered)
  <2>1. CASE h \in Older(g)
    BY <1>2, <1>4, <1>5, <1>6, <2>1
  <2>2. CASE h \notin Older(g)
    BY <1>2, <1>6, <2>2, SameGrows
  <2> QED
    BY <2>1, <2>2
<1> QED
  BY <1>3, <1>6

\* A step of a worker: only Accept brings a run to its delivered phases.
LEMMA WorkGrows ==
  ASSUME IInv, NEW w \in Workers, Work(w)
  PROVE  \A g \in Generations :
           /\ Grows(runs[g], runs'[g])
           /\ runs'[g].phase \in Delivered =>
                \/ runs[g].phase \in Delivered
                \/ Accept(w) /\ g = jobs[w].op
<1>1. CASE UNCHANGED runs
  BY <1>1, SameGrows
<1>2. CASE Expire(w) \/ Ready(w) \/ ToVerifying(w) \/ End(w) \/ Accept(w)
  <2>1. jobs[w] \in Job /\ jobs[w].op \in Generations
    <3>1. jobs[w].pc \in {"expire", "ready", "applied", "verified", "end", "accept"}
      BY <1>2 DEF Expire, Ready, ToVerifying, End, Accept
    <3> QED
      BY <3>1, BusyWorker DEF DeleteAt
  <2>2. \A p \in DOMAIN Steps :
          Steps[p] \in {"preflightStarted", "preflightPassed", "applied"}
    BY DEF Steps
  <2>3. CASE \E e \in {"rejected", "readyForDelivery", "preflightStarted",
                        "preflightPassed", "applied", "verified", "none",
                        "failed", "superseded"} :
                   \E moved : Advance(w, e, moved)
    BY <2>1, <2>3, AdvanceGrows
  <2>4. CASE Accept(w)
    BY <2>1, <2>4, AdvanceGrows DEF Accept
  <2> QED
    BY <1>1, <1>2, <2>1, <2>2, <2>3, <2>4
       DEF Expire, Ready, ToVerifying, End, Goto, Becomes, Job
<1>3. CASE Prepare(w)
  <2>1. jobs[w].op \in Generations
    BY <1>3, BusyWorker DEF Prepare, DeleteAt
  <2>2. CASE runs' = [runs EXCEPT ![jobs[w].op].planned = TRUE]
    <3>1. /\ runs \in [Generations -> Run] /\ runs[jobs[w].op] \in Run
      BY <2>1 DEF IInv, TypeOK
    <3>2. /\ runs'[jobs[w].op].phase = runs[jobs[w].op].phase
          /\ Grows(runs[jobs[w].op], runs'[jobs[w].op])
      BY <2>1, <2>2, <3>1 DEF Run, Grows
    <3>3. \A g \in Generations : g # jobs[w].op => runs'[g] = runs[g]
      BY <2>2, <3>1
    <3> QED
      BY <3>2, <3>3, SameGrows
  <2> QED
    BY <1>1, <1>3, <2>2 DEF Prepare, Goto, Becomes
<1>4. CASE \/ Load(w) \/ Hold(w) \/ GetApp(w) \/ Fence(w) \/ Put(w) \/ Record(w)
           \/ Resume(w) \/ Renew(w) \/ Look(w) \/ Deadline(w) \/ Again(w)
           \/ FindTarget(w) \/ RemoveApp(w) \/ MarkDeleted(w)
           \/ Finish(w) \/ GiveBack(w)
  <2>1. UNCHANGED runs
    BY <1>4 DEF Load, Hold, GetApp, Fence, Put, Record, Resume, Renew, Look,
                Deadline, Again, FindTarget, RemoveApp, MarkDeleted, Finish,
                GiveBack, LetGo, Goto, Becomes
  <2> QED
    BY <2>1, <1>1
<1> QED
  BY <1>2, <1>3, <1>4 DEF Work, DeliverRun, Verify, Delete

\* The closing of a window changes nothing else.
LEMMA WindowGrows ==
  ASSUME IInv, NEW g \in Generations, WindowCloses(g)
  PROVE  \A h \in Generations : /\ Grows(runs[h], runs'[h])
                                /\ runs'[h].phase = runs[h].phase
<1>1. runs \in [Generations -> Run] /\ runs[g] \in Run
  BY DEF IInv, TypeOK
<1>2. runs' = [runs EXCEPT ![g].expired = TRUE]
  BY DEF WindowCloses
<1>3. runs'[g].phase = runs[g].phase /\ Grows(runs[g], runs'[g])
  BY <1>1, <1>2 DEF Run, Grows
<1>4. \A h \in Generations : h # g => runs'[h] = runs[h]
  BY <1>1, <1>2
<1> QED
  BY <1>3, <1>4, SameGrows

\* Every step of the system, run by run.
LEMMA StepGrows ==
  ASSUME IInv, [Next]_vars, NEW g \in Generations
  PROVE  \/ Begins(g)
         \/ /\ Grows(runs[g], runs'[g])
            /\ runs'[g].phase \in Delivered =>
                 \/ runs[g].phase \in Delivered
                 \/ \E w \in Workers : Accept(w) /\ g = jobs[w].op
<1>1. CASE UNCHANGED runs
  BY <1>1, SameGrows
<1>2. CASE Requests
  <2>1. CASE Pause \/ ResumeTarget \/ DeleteTarget
    BY <1>1, <2>1 DEF Pause, ResumeTarget, DeleteTarget
  <2> QED
    BY <1>2, <2>1, StartRunBegins, DecideGrows DEF Requests
<1>3. ASSUME NEW w \in Workers, NEW o \in Ops, Claim(w, o) PROVE UNCHANGED runs
  BY <1>3 DEF Claim
<1>4. CASE \E w \in Workers : Work(w)
  BY <1>4, WorkGrows
<1>5. CASE Clocks
  BY <1>5, <1>1, WindowGrows DEF Clocks, Due, LeaseExpires
<1>6. CASE Environment
  BY <1>6, <1>1 DEF Environment, Reconcile, LoseApp, Crash, Fail
<1>7. CASE UNCHANGED vars
  BY <1>7, <1>1 DEF vars
<1> QED
  BY <1>1, <1>2, <1>3, <1>4, <1>5, <1>6, <1>7 DEF Next
-----------------------------------------------------------------------------
(* What a step does to a worker. *)

\* Steps a worker only takes on the way of a released run to its write.
Delivering == {"hold", "ready", "prepare", "get", "fence", "recheck", "put"}

\* Steps after the plan was frozen, up to the record of the write.
Writing == {"get", "fence", "recheck", "put", "record"}

\* A worker comes to these steps by the ones before them.
Carries(w) ==
  LET j == jobs[w]
      k == jobs'[w]
  IN /\ k.pc \in Delivering =>
          /\ k.op = j.op
          /\ \/ j.pc \in Delivering
             \/ j.pc = "load" /\ runs[j.op].phase \in {"planned", "pendingDelivery"}
     /\ k.pc \in Writing =>
          /\ k.op = j.op
          /\ j.pc \in Writing \/ runs'[j.op].planned
     /\ k.pc = "accept" =>
          /\ k.op = j.op
          /\ \/ j.pc = "accept"
             \/ Record(w) /\ written'.generation = j.op

\* Where the work on a claim stops.
Away(j) == j.pc \notin Delivering \cup Writing \cup {"accept"}

LEMMA StopsAway ==
  /\ Away(Idle)
  /\ \A j, p, c : Away(Settled(j, p, c))
  /\ \A j : Away(Refused(j)) /\ Away(Superseded(j)) /\ Away(Retry(j))
  /\ \A j, c : Away(Wait(j, c))
  BY DEF Away, Delivering, Writing, Idle, Stop, Settled, Refused, Superseded,
         Retry, Wait

\* A worker that stands still, or stops, comes to none of them.
LEMMA StandsStill ==
  ASSUME NEW w, \/ jobs'[w].pc = jobs[w].pc /\ jobs'[w].op = jobs[w].op
                \/ Away(jobs'[w])
  PROVE  Carries(w)
  BY DEF Carries, Away

LEMMA OneMoves ==
  ASSUME IInv, NEW w \in Workers, NEW j, jobs' = [jobs EXCEPT ![w] = j]
  PROVE  jobs'[w] = j /\ \A v \in Workers \ {w} : Carries(v)
<1>1. jobs'[w] = j /\ \A v \in Workers \ {w} : jobs'[v] = jobs[v]
  BY DEF IInv, TypeOK
<1> QED
  BY <1>1, StandsStill

\* A change of the App moves no worker.
LEMMA TouchedCarry ==
  ASSUME NEW js, NEW w, jobs' = Touched(js, w), NEW v \in Workers,
         v = w \/ js[v] \in Job
  PROVE  jobs'[v].pc = js[v].pc /\ jobs'[v].op = js[v].op
  BY DEF Touched, Job

\* Events: a worker that goes on after one stands still, or is ready.
LEMMA AdvanceCarries ==
  ASSUME IInv, NEW w \in Workers, NEW e, NEW moved, Advance(w, e, moved)
  PROVE  /\ \A v \in Workers \ {w} : Carries(v)
         /\ \/ Carries(w)
            \/ \E q \in Phase : jobs'[w] = [moved EXCEPT !.phase = q]
<1> DEFINE j == jobs[w]
           p == runs[j.op].phase
<1>1. CASE jobs' = [jobs EXCEPT ![w] = Retry(j)]
  BY <1>1, OneMoves, StopsAway, StandsStill
<1>2. CASE jobs' = [jobs EXCEPT ![w] = Idle]
  BY <1>2, OneMoves, StopsAway, StandsStill
<1>3. CASE jobs' = [jobs EXCEPT ![w] = Settled(j, p, "none")]
  BY <1>3, OneMoves, StopsAway, StandsStill
<1>4. ASSUME NEW q \in Apply(p, e),
             jobs' = [jobs EXCEPT ![w] = [moved EXCEPT !.phase = q]]
      PROVE  /\ \A v \in Workers \ {w} : Carries(v)
             /\ \E x \in Phase : jobs'[w] = [moved EXCEPT !.phase = x]
  <2>1. q \in Phase
    BY <1>4 DEF Apply
  <2> QED
    BY <1>4, <2>1, OneMoves
<1> QED
  BY <1>1, <1>2, <1>3, <1>4 DEF Advance

\* A worker goes on to job k, which is on its way or away from it.
Onward(j, k) ==
  /\ k.op = j.op
  /\ \/ j.pc \in {"load", "hold"} /\ k.pc \in {"hold", "ready", "prepare"}
     \/ j.pc = "ready" /\ k.pc = "prepare"
     \/ j.pc \in Writing \ {"record"} /\ k.pc \in Writing
     \/ j.pc = k.pc
  /\ j.pc = "load" => runs[j.op].phase \in {"planned", "pendingDelivery"}

LEMMA MovesCarry ==
  ASSUME IInv, NEW w \in Workers, NEW k, jobs' = [jobs EXCEPT ![w] = k],
         Away(k) \/ Onward(jobs[w], k)
  PROVE  \A v \in Workers : Carries(v)
<1>1. jobs'[w] = k /\ \A v \in Workers \ {w} : Carries(v)
  BY OneMoves
<1>2. CASE Away(k)
  BY <1>1, <1>2, StandsStill
<1>3. CASE Onward(jobs[w], k)
  <2>1. Carries(w)
    BY <1>1, <1>3 DEF Onward, Carries, Delivering, Writing
  <2> QED
    BY <1>1, <2>1
<1> QED
  BY <1>2, <1>3

LEMMA EventsCarry ==
  ASSUME IInv, NEW w \in Workers,
         Expire(w) \/ Ready(w) \/ Accept(w) \/ ToVerifying(w) \/ End(w)
  PROVE  \A v \in Workers : Carries(v)
<1> DEFINE j == jobs[w]
<1>1. j \in Job
  BY DEF IInv, TypeOK
<1>2. ASSUME NEW c, NEW e, NEW x, Advance(w, e, Settled(j, x, c))
      PROVE  \A v \in Workers : Carries(v)
  <2>1. \A q : Away([Settled(j, x, c) EXCEPT !.phase = q])
    BY DEF Away, Delivering, Writing, Idle, Stop, Settled
  <2> DEFINE m == Settled(j, x, c)
  <2> HIDE DEF m
  <2>2. ASSUME NEW q, jobs'[w] = [m EXCEPT !.phase = q] PROVE Carries(w)
    <3>1. Away(jobs'[w])
      BY <2>1, <2>2 DEF m
    <3> QED
      BY <3>1, StandsStill
  <2>3. Advance(w, e, m)
    BY <1>2 DEF m
  <2> QED
    BY <2>2, <2>3, AdvanceCarries
<1>3. CASE Ready(w)
  <2> DEFINE m == [j EXCEPT !.pc = "prepare"]
  <2>1. j.pc = "ready" /\ Advance(w, "readyForDelivery", m)
    BY <1>3 DEF Ready
  <2>2. ASSUME NEW q, jobs'[w] = [m EXCEPT !.phase = q] PROVE Carries(w)
    <3>1. jobs'[w].pc = "prepare" /\ jobs'[w].op = j.op
      BY <1>1, <2>2 DEF Job
    <3> QED
      BY <2>1, <3>1 DEF Carries, Delivering, Writing
  <2> QED
    BY <2>1, <2>2, AdvanceCarries
<1>4. CASE Accept(w)
  <2> DEFINE m == [j EXCEPT !.pc = "renew"]
  <2>1. Advance(w, "acceptedByCluster", m)
    BY <1>4 DEF Accept
  <2>2. ASSUME NEW q, jobs'[w] = [m EXCEPT !.phase = q] PROVE Carries(w)
    <3>1. jobs'[w].pc = "renew"
      BY <1>1, <2>2 DEF Job
    <3> QED
      BY <3>1, StandsStill DEF Away, Delivering, Writing
  <2> QED
    BY <2>1, <2>2, AdvanceCarries
<1>5. ASSUME NEW e, Advance(w, e, j) PROVE \A v \in Workers : Carries(v)
  <2>1. \A q : [j EXCEPT !.phase = q].pc = j.pc /\ [j EXCEPT !.phase = q].op = j.op
    BY <1>1 DEF Job
  <2>2. ASSUME NEW q, jobs'[w] = [j EXCEPT !.phase = q] PROVE Carries(w)
    BY <2>1, <2>2, StandsStill
  <2> QED
    BY <1>5, <2>2, AdvanceCarries
<1>6. CASE Goto(w, "wait")
  <2>1. Away([j EXCEPT !.pc = "wait"])
    BY <1>1 DEF Away, Delivering, Writing, Job
  <2> QED
    BY <1>6, <2>1, MovesCarry DEF Goto, Becomes
<1> QED
  BY <1>2, <1>3, <1>4, <1>5, <1>6 DEF Expire, ToVerifying, End

LEMMA LoadCarries ==
  ASSUME IInv, NEW w \in Workers, Load(w) PROVE \A v \in Workers : Carries(v)
<1> DEFINE r == runs[jobs[w].op]
           j == [jobs[w] EXCEPT !.phase = r.phase]
           to(k) == Becomes(w, k)
<1>1. jobs[w] \in Job /\ jobs[w].pc = "load"
  BY DEF IInv, TypeOK, Load
<1>2. Away([j EXCEPT !.pc = "expire"]) /\ Away([j EXCEPT !.pc = "resume"])
  BY <1>1 DEF Away, Delivering, Writing, Job
<1>3. ASSUME NEW k, Becomes(w, k), Away(k)
      PROVE  \A v \in Workers : Carries(v)
  BY <1>3, MovesCarry DEF Becomes
<1>4. ASSUME NEW k \in {Deliver(j), [j EXCEPT !.pc = "hold"]}, Becomes(w, k),
             r.phase \in {"planned", "pendingDelivery"}
      PROVE  \A v \in Workers : Carries(v)
  <2>1. k.op = jobs[w].op /\ k.pc \in {"ready", "prepare", "hold"}
    BY <1>1, <1>4 DEF Deliver, Job
  <2> QED
    BY <1>1, <1>4, <2>1, MovesCarry DEF Becomes, Onward
<1> HIDE DEF j
<1>5. CASE r.phase \in {"planned", "pendingDelivery"}
  <2>1. Becomes(w, Refused(j)) \/ Becomes(w, Deliver(j))
        \/ Becomes(w, [j EXCEPT !.pc = "hold"])
    BY <1>5 DEF Load, j, Final
  <2> QED
    BY <1>3, <1>4, <1>5, <2>1, StopsAway
<1>6. CASE r.phase \notin {"planned", "pendingDelivery"}
  <2>1. \/ Becomes(w, Settled(j, r.phase, "none"))
        \/ Becomes(w, Refused(j))
        \/ Becomes(w, [j EXCEPT !.pc = "expire"])
        \/ Becomes(w, Wait(j, "AwaitingApproval"))
        \/ Becomes(w, [j EXCEPT !.pc = "resume"])
        \/ Becomes(w, Retry([j EXCEPT !.pc = "resume"]))
    BY <1>6 DEF Load, j
  <2> QED
    BY <1>2, <1>3, <2>1, StopsAway
<1> QED
  BY <1>5, <1>6

\* The steps up to the write.
LEMMA WriteCarries ==
  ASSUME IInv, NEW w \in Workers,
         Hold(w) \/ Prepare(w) \/ GetApp(w) \/ Fence(w)
  PROVE  \A v \in Workers : Carries(v)
<1> DEFINE j == jobs[w]
<1>1. j \in Job
  BY DEF IInv, TypeOK
<1>2. ASSUME NEW k, Becomes(w, k), Away(k) \/ Onward(j, k)
      PROVE  \A v \in Workers : Carries(v)
  BY <1>2, MovesCarry DEF Becomes
<1>3. CASE Hold(w)
  <2>1. j.pc = "hold" => Onward(j, Deliver(j))
    BY <1>1 DEF Deliver, Onward, Job
  <2>2. j.pc = "recheck" => Onward(j, [j EXCEPT !.pc = "put"])
    BY <1>1 DEF Onward, Job, Writing
  <2> QED
    BY <1>2, <1>3, <2>1, <2>2, StopsAway DEF Hold
<1>4. CASE GetApp(w) \/ Fence(w)
  <2>1. j.pc = "get" => \A x : Onward(j, [j EXCEPT !.pc = "fence", !.seen = x])
    BY <1>1 DEF Onward, Job, Writing
  <2>2. j.pc = "fence" => Onward(j, [j EXCEPT !.pc = "recheck"])
    BY <1>1 DEF Onward, Job, Writing
  <2> QED
    BY <1>2, <1>4, <2>1, <2>2, StopsAway DEF GetApp, Fence, Goto
<1>5. CASE Prepare(w)
  <2> DEFINE m == [j EXCEPT !.pc = "get"]
  <2>1. j.pc = "prepare" /\ j.op \in Generations
    BY <1>5, BusyWorker DEF Prepare, DeleteAt
  <2>2. runs \in [Generations -> Run] /\ runs[j.op] \in Run
    BY <2>1 DEF IInv, TypeOK
  <2>3. m.op = j.op /\ m.pc = "get"
    BY <1>1 DEF Job
  <2>4. CASE jobs' = [jobs EXCEPT ![w] = m] /\ runs'[j.op].planned
    <3>1. jobs'[w] = m /\ \A v \in Workers \ {w} : Carries(v)
      BY <2>4, OneMoves
    <3>2. Carries(w)
      BY <2>1, <2>3, <2>4, <3>1 DEF Carries, Delivering
    <3> QED
      BY <3>1, <3>2
  <2>5. CASE runs[j.op].planned /\ Goto(w, "get")
    BY <2>4, <2>5 DEF Goto, Becomes
  <2>6. CASE /\ runs' = [runs EXCEPT ![j.op].planned = TRUE]
             /\ jobs' = [jobs EXCEPT ![w].pc = "get"]
    <3>1. runs'[j.op].planned
      BY <2>1, <2>2, <2>6 DEF Run
    <3> QED
      BY <2>4, <2>6, <3>1
  <2> QED
    BY <1>2, <1>5, <2>5, <2>6, StopsAway DEF Prepare
<1> QED
  BY <1>3, <1>4, <1>5

\* The write itself, and the removal of the App.
LEMMA AppStepCarries ==
  ASSUME IInv, NEW w \in Workers, Put(w) \/ RemoveApp(w)
  PROVE  \A v \in Workers : Carries(v)
<1> DEFINE j == jobs[w]
<1>1. j \in Job /\ jobs \in [Workers -> Job]
  BY DEF IInv, TypeOK
<1>2. ASSUME NEW k, Away(k) \/ Onward(j, k),
             jobs' = [jobs EXCEPT ![w] = k]
             \/ jobs' = Touched([jobs EXCEPT ![w] = k], w)
      PROVE  \A v \in Workers : Carries(v)
  <2>1. CASE jobs' = [jobs EXCEPT ![w] = k]
    BY <1>2, <2>1, MovesCarry
  <2>2. CASE jobs' = Touched([jobs EXCEPT ![w] = k], w)
    <3>1. \A v \in Workers \ {w} : [jobs EXCEPT ![w] = k][v] \in Job
      BY <1>1
    <3>2. \A v \in Workers : LET js == [jobs EXCEPT ![w] = k]
                            IN jobs'[v].pc = js[v].pc /\ jobs'[v].op = js[v].op
      BY <2>2, <3>1, TouchedCarry
    <3>3. \A v \in Workers \ {w} :
             jobs'[v].pc = jobs[v].pc /\ jobs'[v].op = jobs[v].op
      BY <1>1, <3>2
    <3>4. jobs'[w].pc = k.pc /\ jobs'[w].op = k.op
      BY <1>1, <3>2
    <3>5. Carries(w)
      BY <1>2, <3>4 DEF Onward, Away, Carries, Delivering, Writing
    <3> QED
      BY <3>3, <3>5, StandsStill
  <2> QED
    BY <1>2, <2>1, <2>2
<1>3. CASE RemoveApp(w)
  <2> DEFINE m == [j EXCEPT !.pc = "mark"]
  <2>1. m \in Job /\ m.pc = "mark"
    BY <1>1 DEF Job, Pc, DeleteAt
  <2>2. Away(m)
    BY <2>1 DEF Away, Delivering, Writing
  <2> QED
    BY <1>2, <1>3, <2>1, <2>2 DEF RemoveApp
<1>4. CASE Put(w)
  <2> DEFINE done == [Idle EXCEPT !.op = j.op, !.pc = "record",
                        !.phase = j.phase, !.meta = Written(j.op).meta]
             m == [j EXCEPT !.pc = "get", !.seen = "none", !.tries = @ + 1]
  <2>1. j.pc = "put" /\ j.op \in Generations
    BY <1>4, BusyWorker DEF Put, DeleteAt
  <2>2. CASE Becomes(w, Retry(j))
    BY <2>2, MovesCarry, StopsAway DEF Becomes
  <2>3. CASE Becomes(w, m)
    <3>1. Onward(j, m)
      BY <1>1, <2>1 DEF Onward, Job, Writing
    <3> QED
      BY <2>3, <3>1, MovesCarry DEF Becomes
  <2>4. CASE \/ jobs' = [jobs EXCEPT ![w] = done]
             \/ jobs' = Touched([jobs EXCEPT ![w] = done], w)
    <3>1. Onward(j, done)
      BY <2>1 DEF Onward, Idle, Writing
    <3> HIDE DEF done
    <3> QED
      BY <1>2, <2>4, <3>1
  <2> QED
    BY <1>4, <2>2, <2>3, <2>4 DEF Put
<1> QED
  BY <1>3, <1>4

LEMMA RecordCarries ==
  ASSUME IInv, NEW w \in Workers, Record(w)
  PROVE  \A v \in Workers : Carries(v)
<1> DEFINE j == jobs[w]
           m == [j EXCEPT !.pc = "accept"]
<1>1. j \in Job /\ j.pc = "record"
  BY DEF IInv, TypeOK, Record
<1>2. CASE Becomes(w, Superseded(j))
  BY <1>2, MovesCarry, StopsAway DEF Becomes
<1>3. CASE /\ written' = [generation |-> j.op, meta |-> j.meta]
           /\ jobs' = [jobs EXCEPT ![w].pc = "accept"]
  <2>1. m.pc = "accept" /\ m.op = j.op
    BY <1>1 DEF Job
  <2>2. jobs'[w] = m /\ \A v \in Workers \ {w} : Carries(v)
    BY <1>3, OneMoves
  <2>3. Carries(w)
    BY <1>3, <2>1, <2>2 DEF Carries, Delivering, Writing
  <2> QED
    BY <2>2, <2>3
<1> QED
  BY <1>2, <1>3 DEF Record

\* The steps that lead nowhere near a write.
LEMMA RestCarries ==
  ASSUME IInv, NEW w \in Workers,
         \/ Resume(w) \/ Renew(w) \/ Look(w) \/ Deadline(w) \/ Again(w)
         \/ FindTarget(w) \/ MarkDeleted(w) \/ Finish(w) \/ GiveBack(w)
         \/ Crash(w) \/ Fail(w) \/ \E o \in Ops : Claim(w, o)
  PROVE  \A v \in Workers : Carries(v)
<1> DEFINE j == jobs[w]
<1>1. j \in Job
  BY DEF IInv, TypeOK
<1>2. ASSUME NEW k, Away(k), jobs' = [jobs EXCEPT ![w] = k]
      PROVE  \A v \in Workers : Carries(v)
  BY <1>2, MovesCarry
<1>3. \A pc : pc \notin Delivering \cup Writing \cup {"accept"}
               => Away([j EXCEPT !.pc = pc])
  BY <1>1 DEF Away, Job
<1>4. CASE Resume(w)
  <2>1. \A x : Away([j EXCEPT !.pc = "renew", !.meta = x])
    BY <1>1 DEF Away, Job, Delivering, Writing
  <2> QED
    BY <1>2, <1>4, <2>1, StopsAway DEF Resume, Becomes
<1>5. CASE Renew(w) \/ FindTarget(w) \/ Again(w)
  <2>1. /\ Away([j EXCEPT !.pc = "look"]) /\ Away([j EXCEPT !.pc = "remove"])
        /\ Away([j EXCEPT !.pc = "renew"])
    BY <1>3 DEF Delivering, Writing
  <2> QED
    BY <1>2, <1>5, <2>1, StopsAway DEF Renew, FindTarget, Again, Goto, Becomes
<1>6. CASE Look(w)
  <2>1. \A pc \in {"wait", "verified", "applied"} : Away([j EXCEPT !.pc = pc])
    BY <1>3 DEF Delivering, Writing
  <2>2. \/ Becomes(w, Refused(j))
        \/ \E pc \in {"wait", "verified", "applied"} :
             Becomes(w, [j EXCEPT !.pc = pc])
    BY <1>6 DEF Look
  <2> QED
    BY <1>2, <2>1, <2>2, StopsAway DEF Becomes
<1>7. CASE Deadline(w) \/ MarkDeleted(w) \/ Finish(w) \/ GiveBack(w)
           \/ Crash(w) \/ Fail(w)
  BY <1>2, <1>7, StopsAway
     DEF Deadline, MarkDeleted, Finish, GiveBack, LetGo, Crash, Fail, Becomes
<1>8. ASSUME NEW o \in Ops, Claim(w, o) PROVE \A v \in Workers : Carries(v)
  <2>1. \A pc \in {"find", "load"} : Away([Idle EXCEPT !.op = o, !.pc = pc])
    BY DEF Away, Idle, Delivering, Writing
  <2> QED
    BY <1>2, <1>8, <2>1 DEF Claim
<1> QED
  BY <1>4, <1>5, <1>6, <1>7, <1>8

\* Every step of the system, worker by worker.
LEMMA StepCarries ==
  ASSUME IInv, [Next]_vars PROVE \A w \in Workers : Carries(w)
<1>1. CASE UNCHANGED jobs
  BY <1>1, StandsStill
<1>2. CASE Requests
  BY <1>1, <1>2 DEF Requests, StartRun, Decide, Pause, ResumeTarget, DeleteTarget
<1>3. ASSUME NEW w \in Workers, Work(w)
      PROVE  \A v \in Workers : Carries(v)
  BY <1>3, LoadCarries, EventsCarry, WriteCarries, AppStepCarries, RecordCarries,
     RestCarries DEF Work, DeliverRun, Verify, Delete
<1>4. CASE Clocks
  BY <1>1, <1>4 DEF Clocks, Due, LeaseExpires, WindowCloses
<1>5. CASE Reconcile \/ LoseApp
  <2>1. jobs' = Touched(jobs, None) /\ \A v \in Workers : jobs[v] \in Job
    BY <1>5 DEF Reconcile, LoseApp, IInv, TypeOK
  <2> QED
    BY <2>1, TouchedCarry, StandsStill
<1>6. CASE UNCHANGED vars
  BY <1>1, <1>6 DEF vars
<1> QED
  BY <1>2, <1>3, <1>4, <1>5, <1>6, RestCarries DEF Next, Environment
-----------------------------------------------------------------------------
(* What is written of a run, and what is recorded of it. *)

\* Runs, the App, the record, and the workers on their way to a write.
ReleaseInv ==
  /\ \A g \in Generations :
       /\ runs[g].phase \in Released => Cleared(runs[g])
       /\ app.live /\ app.generation = g => Cleared(runs[g]) /\ runs[g].planned
       /\ written.generation = g => runs[g].planned
       /\ runs[g].phase \in Delivered => written.generation >= g
  /\ written.generation <= target.generation
  /\ \A w \in Workers :
       /\ jobs[w].pc \in Delivering => Cleared(runs[jobs[w].op])
       /\ jobs[w].pc \in Writing => runs[jobs[w].op].planned
       /\ jobs[w].pc = "accept" => written.generation >= jobs[w].op

\* An approved run stays approved.
LEMMA StaysCleared ==
  ASSUME IInv, IInv', NEW g \in Generations, Grows(runs[g], runs'[g]),
         Cleared(runs[g])
  PROVE  Cleared(runs'[g])
<1>1. /\ runs[g] \in Run /\ runs'[g] \in Run
  BY DEF IInv, TypeOK
<1>2. /\ IsFiniteSet(runs[g].approvals) /\ IsFiniteSet(runs'[g].approvals)
      /\ runs[g].required \in Nat
  BY <1>1, DeliveryAssumption, FS_Subset DEF Run
<1>3. /\ runs[g].approvals \in SUBSET runs'[g].approvals
      /\ runs'[g].required = runs[g].required
  BY DEF Grows
<1>4. /\ Cardinality(runs[g].approvals) \in Nat
      /\ Cardinality(runs'[g].approvals) \in Nat
      /\ Cardinality(runs[g].approvals) <= Cardinality(runs'[g].approvals)
  BY <1>2, <1>3, FS_Subset, FS_CardinalityType
<1> QED
  BY <1>2, <1>3, <1>4 DEF Cleared

\* The App is of the generation it was of, or a worker just wrote it.
LEMMA AppComesFrom ==
  ASSUME IInv, [Next]_vars, app'.live
  PROVE  \/ app.live /\ app'.generation = app.generation
         \/ \E w \in Workers : jobs[w].pc = "put" /\ app'.generation = jobs[w].op
<1>1. CASE UNCHANGED app
  BY <1>1
<1>2. ASSUME NEW w \in Workers, Put(w)
      PROVE  \/ UNCHANGED app
             \/ jobs[w].pc = "put" /\ app'.generation = jobs[w].op
  <2>1. Written(jobs[w].op).generation = jobs[w].op
    BY DEF Written, NoApp, IInv, TypeOK, App
  <2> QED
    BY <1>2, <2>1 DEF Put, Becomes
<1>3. CASE \E w \in Workers : RemoveApp(w)
  BY <1>3 DEF RemoveApp, NoApp
<1>4. ASSUME NEW w \in Workers, Work(w), ~Put(w), ~RemoveApp(w)
      PROVE  UNCHANGED app
  BY <1>4
  DEF Work, DeliverRun, Verify, Delete, Load, Expire, Hold, Ready, Prepare,
      GetApp, Fence, Record, Accept, Resume, Renew, Look, ToVerifying, Deadline,
      Again, FindTarget, MarkDeleted, End, Finish, GiveBack, LetGo, Advance,
      Becomes, Goto
<1>5. CASE Reconcile
  BY <1>5 DEF Reconcile, IInv, TypeOK, App
<1>6. CASE LoseApp
  BY <1>6 DEF LoseApp, NoApp
<1>7. CASE Requests \/ (\E w \in Workers, o \in Ops : Claim(w, o)) \/ Clocks
           \/ (\E w \in Workers : Crash(w) \/ Fail(w)) \/ UNCHANGED vars
  <2>1. UNCHANGED app
    BY <1>7 DEF Requests, StartRun, Decide, Pause, ResumeTarget, DeleteTarget,
                Claim, Clocks, Due, LeaseExpires, WindowCloses, Crash, Fail, vars
  <2> QED
    BY <2>1
<1> QED
  BY <1>1, <1>2, <1>3, <1>4, <1>5, <1>6, <1>7 DEF Next, Environment

LEMMA InitRelease == Init => ReleaseInv
<1> SUFFICES ASSUME Init PROVE ReleaseInv
  OBVIOUS
<1>1. \A g \in Generations : runs[g].phase = "absent"
  BY DEF Init, NoRun, NoPhase
<1>2. ~app.live /\ written.generation = 0 /\ target.generation = 0
  BY DEF Init, NoApp
<1>3. \A w \in Workers : jobs[w].pc = "idle"
  BY DEF Init, Idle
<1>4. 0 \notin Generations
  BY OpsFacts
<1> QED
  BY <1>1, <1>2, <1>3, <1>4
     DEF ReleaseInv, Released, Delivered, Delivering, Writing

LEMMA StepRelease == IInv /\ IInv' /\ ReleaseInv /\ [Next]_vars => ReleaseInv'
<1> SUFFICES ASSUME IInv, IInv', ReleaseInv, [Next]_vars PROVE ReleaseInv'
  OBVIOUS
<1>1. /\ written.generation \in Nat /\ written'.generation \in Nat
      /\ target.generation \in Nat /\ target'.generation \in Nat
      /\ target'.generation >= target.generation
  <2>1. target'.generation = target.generation
        \/ target'.generation = target.generation + 1
    BY StepSettles DEF Keeps, StartRun, IInv, TypeOK
  <2> QED
    BY <2>1, DeliveryAssumption DEF IInv, TypeOK
<1>2. \A g \in Generations : g <= target.generation => Grows(runs[g], runs'[g])
  BY <1>1, StepGrows, OpsFacts DEF Begins
<1>3. written'.generation >= written.generation
  BY RecordGrows
<1>4. \A g \in Generations : runs'[g].phase \in Released => Cleared(runs'[g])
  BY StepGrows, StaysCleared DEF Begins, Grows, ReleaseInv
<1>5. \A w \in Workers :
        jobs[w].pc \in Delivering \cup Writing \cup {"load", "accept"}
          => jobs[w].op \in Generations /\ jobs[w].op <= target.generation
  BY OpsFacts DEF IInv, FenceInv, JobFenced, WorksOn, Delivering, Writing,
                  DeliverAt
<1>6. ASSUME NEW g \in Generations, app'.live, app'.generation = g
      PROVE  Cleared(runs'[g]) /\ runs'[g].planned
  <2>1. g <= target.generation /\ Cleared(runs[g]) /\ runs[g].planned
    <3>1. CASE app.live /\ app.generation = g
      BY <3>1 DEF ReleaseInv, IInv, FenceInv
    <3>2. CASE \E w \in Workers : jobs[w].pc = "put" /\ g = jobs[w].op
      BY <1>5, <3>2 DEF ReleaseInv, Delivering, Writing
    <3> QED
      BY <1>6, <3>1, <3>2, AppComesFrom
  <2> QED
    BY <1>2, <2>1, StaysCleared DEF Grows
<1>7. ASSUME NEW g \in Generations, written'.generation = g
      PROVE  runs'[g].planned
  <2>1. g <= target.generation /\ runs[g].planned
    <3>1. CASE UNCHANGED written
      BY <1>7, <3>1 DEF ReleaseInv
    <3>2. ASSUME NEW w \in Workers, Record(w), g = jobs[w].op
          PROVE  g <= target.generation /\ runs[g].planned
      BY <1>5, <3>2 DEF Record, ReleaseInv, Writing
    <3> QED
      BY <1>7, <3>1, <3>2, OnlyRecordRecords DEF Record, Becomes
  <2> QED
    BY <1>2, <2>1 DEF Grows
<1>8. written'.generation <= target'.generation
  <2>1. ASSUME NEW w \in Workers, Record(w)
        PROVE  written'.generation <= target.generation
    <3>1. jobs[w].op \in Nat /\ jobs[w].op <= target.generation
      BY <1>5, <2>1, OpsFacts DEF Record, Writing
    <3> QED
      BY <2>1, <3>1 DEF Record, Becomes, ReleaseInv
  <2>2. written'.generation <= target.generation
    BY <2>1, OnlyRecordRecords DEF ReleaseInv
  <2> QED
    BY <1>1, <2>2
<1>9. ASSUME NEW g \in Generations, runs'[g].phase \in Delivered
      PROVE  written'.generation >= g
  <2>1. g \in Nat
    BY OpsFacts
  <2>2. written.generation >= g
    BY <1>9, StepGrows DEF Begins, ReleaseInv, Accept
  <2> QED
    BY <1>1, <1>3, <2>1, <2>2
<1>10. ASSUME NEW w \in Workers
       PROVE  /\ jobs'[w].pc \in Delivering => Cleared(runs'[jobs'[w].op])
              /\ jobs'[w].pc \in Writing => runs'[jobs'[w].op].planned
              /\ jobs'[w].pc = "accept" => written'.generation >= jobs'[w].op
  <2>1. Carries(w)
    BY StepCarries
  <2>2. ASSUME jobs'[w].pc \in Delivering PROVE Cleared(runs'[jobs'[w].op])
    <3>1. /\ jobs'[w].op = jobs[w].op
          /\ jobs[w].op \in Generations /\ jobs[w].op <= target.generation
      BY <1>5, <2>1, <2>2 DEF Carries
    <3>2. Cleared(runs[jobs[w].op])
      BY <2>1, <2>2, <3>1 DEF Carries, ReleaseInv, Released
    <3> QED
      BY <1>2, <3>1, <3>2, StaysCleared
  <2>3. ASSUME jobs'[w].pc \in Writing PROVE runs'[jobs'[w].op].planned
    <3>1. jobs'[w].op = jobs[w].op
      BY <2>1, <2>3 DEF Carries
    <3>2. CASE jobs[w].pc \in Writing
      <4>1. /\ jobs[w].op \in Generations /\ jobs[w].op <= target.generation
            /\ runs[jobs[w].op].planned
        BY <1>5, <3>2 DEF ReleaseInv
      <4> QED
        BY <1>2, <3>1, <4>1 DEF Grows
    <3> QED
      BY <2>1, <2>3, <3>1, <3>2 DEF Carries
  <2>4. ASSUME jobs'[w].pc = "accept" PROVE written'.generation >= jobs'[w].op
    <3>1. jobs'[w].op = jobs[w].op
      BY <2>1, <2>4 DEF Carries
    <3>2. CASE jobs[w].pc = "accept"
      <4>1. jobs[w].op \in Nat /\ written.generation >= jobs[w].op
        BY <1>5, <3>2, OpsFacts DEF ReleaseInv
      <4> QED
        BY <1>1, <1>3, <3>1, <4>1
    <3>3. CASE Record(w) /\ written'.generation = jobs[w].op
      BY <1>1, <3>1, <3>3
    <3> QED
      BY <2>1, <2>4, <3>2, <3>3 DEF Carries
  <2> QED
    BY <2>2, <2>3, <2>4
<1> QED
  BY <1>4, <1>6, <1>7, <1>8, <1>9, <1>10 DEF ReleaseInv

LEMMA AlwaysReleaseInv == Spec => []ReleaseInv
  BY InitRelease, StepRelease, AlwaysIInv, PTL DEF Spec

\* Nothing of a run reaches the cluster or the delivered phases before as
\* many people approved it as its environment asked for.
THEOREM OnlyApprovedIsDelivered == Spec => []ApprovedFirst
<1>1. ReleaseInv => ApprovedFirst
  BY DEF ReleaseInv, ApprovedFirst, Cleared, Released
<1> QED
  BY <1>1, AlwaysReleaseInv, PTL

\* A run between delivery and verdict is the recorded one, and neither the App
\* nor the record is of a run whose plan was not frozen.
THEOREM RecordIsOfTheRun == Spec => []RecordedRun
<1>1. IInv /\ OneOwner /\ ReleaseInv => RecordedRun
  <2> SUFFICES ASSUME IInv, OneOwner, ReleaseInv PROVE RecordedRun
    OBVIOUS
  <2>1. ASSUME NEW g \in Generations, runs[g].phase \in Delivered
        PROVE  written.generation = g
    <3>1. g \in Nat /\ written.generation \in Nat /\ target.generation \in Nat
      BY OpsFacts, DeliveryAssumption DEF IInv, TypeOK
    <3>2. g <= written.generation /\ written.generation <= target.generation
      BY <2>1 DEF ReleaseInv
    <3>3. ~(g < target.generation)
      BY <2>1 DEF OneOwner, Delivered, Final
    <3> QED
      BY <3>1, <3>2, <3>3
  <2> QED
    BY <2>1 DEF RecordedRun, ReleaseInv
<1> QED
  BY <1>1, AlwaysIInv, AlwaysReleaseInv, OnlyOneRunIsAlive, PTL
-----------------------------------------------------------------------------
(***************************************************************************)
(* A finished operation says what became of its run: a worker learns the   *)
(* verdict when it moves the run, or reads it settled, and it is still the *)
(* verdict when the operation is finished.                                 *)
(***************************************************************************)

\* Phase a was written down for a run that is now in phase b.
Fate(a, b) ==
  /\ b \in Final \cup {"failed"}
  /\ \/ a = b
     \/ a = "failed" /\ b = "superseded"

\* These events settle a run, or are refused.
LEMMA LastEvents ==
  ASSUME NEW p, NEW e \in {"rejected", "verified", "failed", "superseded", "none"},
         NEW q \in Apply(p, e)
  PROVE  q \in Final \cup {"failed"}
<1> USE DEF Final
<1>1. <<p, e, q>> \in Transitions
  BY DEF Apply
<1>2. CASE <<p, e, q>> \in Progress
  BY <1>2 DEF Progress
<1>3. <<p, e, q>> \notin Blocking
  BY DEF Blocking
<1>4. CASE <<p, e, q>> \in Cancelling
  BY <1>4 DEF Cancelling
<1>5. CASE <<p, e, q>> \in Recovery
  BY <1>5 DEF Recovery
<1> QED
  BY <1>1, <1>2, <1>3, <1>4, <1>5 DEF Transitions

\* A verdict holds, but a failed run may be superseded.
LEMMA FateStays ==
  ASSUME NEW a, NEW r, NEW s, Grows(r, s), Fate(a, r.phase)
  PROVE  Fate(a, s.phase)
  BY DEF Grows, Fate, Final
-----------------------------------------------------------------------------
(* Operations: from row r to row s. *)

Lives(r, s) ==
  /\ s.state = "absent" <=> r.state = "absent"
  /\ s.state = "done" => r.state = "done" /\ s.phase = r.phase

LEMMA SameLives == \A r : Lives(r, r)
  BY DEF Lives

LEMMA AwakeLives == \A r \in Op : Lives(r, Awake(r))
  BY DEF Lives, Awake, Op

LEMMA OneRowLives ==
  ASSUME IInv, NEW o \in Ops, NEW r, Lives(ops[o], r),
         ops' = [ops EXCEPT ![o] = r]
  PROVE  \A g \in Generations : Lives(ops[g], ops'[g])
  BY SameLives DEF IInv, TypeOK, Ops

\* The operation of a run that was not there is accepted.
Opens(g) ==
  /\ ops'[g].state = "open"
  /\ target'.generation = g /\ g = target.generation + 1

LEMMA StartRunLives ==
  ASSUME IInv, NEW emergency \in BOOLEAN, NEW required \in Required,
         StartRun(emergency, required)
  PROVE  \A g \in Generations : Opens(g) \/ (/\ g # target.generation + 1
                                             /\ target'.generation =
                                                  target.generation + 1
                                             /\ Lives(ops[g], ops'[g]))
<1> DEFINE n == target.generation + 1
<1>1. ops \in [Ops -> Op] /\ Generations \subseteq Ops
  BY DEF IInv, TypeOK, Ops
<1>2. target'.generation = n
  BY DEF StartRun, IInv, TypeOK
<1>3. Opens(n)
  <2>1. ops'[n] = OpenOp(~(required > 0))
    BY <1>1 DEF StartRun
  <2> QED
    BY <1>2, <2>1 DEF Opens, OpenOp, NoOp
<1>4. ASSUME NEW g \in Generations, g # n PROVE Lives(ops[g], ops'[g])
  <2>1. ops'[g] \in {ops[g], Awake(ops[g])} /\ ops[g] \in Op
    BY <1>1, <1>4 DEF StartRun
  <2> QED
    BY <2>1, SameLives, AwakeLives
<1> QED
  BY <1>2, <1>3, <1>4

\* Only FinishOperation finishes one, with the worker's verdict.
LEMMA WorkLives ==
  ASSUME IInv, NEW w \in Workers, Work(w), NEW g \in Generations
  PROVE  \/ Lives(ops[g], ops'[g])
         \/ /\ jobs[w].pc = "finish" /\ jobs[w].op = g
            /\ ops[g].state = "open"
            /\ ops'[g].state = "done" /\ ops'[g].phase = jobs[w].phase
<1> DEFINE j == jobs[w]
           o == j.op
<1>1. ops \in [Ops -> Op]
  BY DEF IInv, TypeOK
<1>2. CASE UNCHANGED ops
  BY <1>2, SameLives
<1>3. CASE Renew(w)
  <2>1. o \in Ops
    BY <1>3, BusyWorker DEF Renew
  <2>2. Lives(ops[o], [ops[o] EXCEPT !.leased = TRUE])
    BY <1>1, <2>1 DEF Lives, Op
  <2> QED
    BY <1>2, <1>3, <2>1, <2>2, OneRowLives DEF Renew, Becomes
<1>4. CASE GiveBack(w)
  <2> DEFINE row == [ops[o] EXCEPT !.due = FALSE, !.code = j.code]
             last == [row EXCEPT !.leased = FALSE, !.fence = None]
  <2>1. o \in Ops
    BY <1>4, BusyWorker DEF GiveBack
  <2>2. Lives(ops[o], last)
    BY <1>1, <2>1 DEF Lives, Op
  <2>3. UNCHANGED ops \/ ops' = [ops EXCEPT ![o] = last]
    BY <1>4 DEF GiveBack, LetGo
  <2> QED
    BY <1>2, <2>1, <2>2, <2>3, OneRowLives
<1>5. CASE Finish(w)
  <2> DEFINE row == [ops[o] EXCEPT !.state = "done", !.phase = j.phase,
                                   !.code = j.code]
             last == [row EXCEPT !.leased = FALSE, !.fence = None]
  <2>1. o \in Ops /\ j.pc = "finish"
    BY <1>5, BusyWorker DEF Finish
  <2>2. last.state = "done" /\ last.phase = j.phase
    BY <1>1, <2>1 DEF Op
  <2>3. CASE ops' = [ops EXCEPT ![o] = last] /\ ops[o].state = "open"
    BY <1>1, <2>1, <2>2, <2>3, SameLives DEF Ops
  <2>4. \/ UNCHANGED ops
        \/ ops' = [ops EXCEPT ![o] = last] /\ ops[o].state = "open"
    BY <1>5 DEF Finish, LetGo, Holds
  <2> QED
    BY <1>2, <2>3, <2>4
<1>6. CASE ~(Renew(w) \/ GiveBack(w) \/ Finish(w))
  <2>1. UNCHANGED ops
    BY <1>6
    DEF Work, DeliverRun, Verify, Delete, Load, Expire, Hold, Ready, Prepare,
        GetApp, Fence, Put, Record, Accept, Resume, Look, ToVerifying,
        Deadline, Again, FindTarget, RemoveApp, MarkDeleted, End, Advance,
        Becomes, Goto
  <2> QED
    BY <1>2, <2>1
<1> QED
  BY <1>3, <1>4, <1>5, <1>6

LEMMA ClaimLives ==
  ASSUME IInv, NEW w \in Workers, NEW o \in Ops, Claim(w, o)
  PROVE  \A g \in Generations : Lives(ops[g], ops'[g])
<1> DEFINE n == IF ops[o].attempt < MaxAttempts THEN ops[o].attempt + 1
                                                ELSE ops[o].attempt
           row == [ops[o] EXCEPT !.fence = w, !.leased = TRUE, !.attempt = n]
<1>1. ops[o] \in Op
  BY DEF IInv, TypeOK
<1>2. Lives(ops[o], row)
  BY <1>1 DEF Lives, Op
<1>3. ops' = [ops EXCEPT ![o] = row]
  BY <1>1 DEF Claim, Op
<1> QED
  BY <1>2, <1>3, OneRowLives

\* Clocks, and a process that stops.
LEMMA ClocksLive ==
  ASSUME IInv, Clocks \/ \E w \in Workers : Crash(w)
  PROVE  \A g \in Generations : Lives(ops[g], ops'[g])
<1>1. CASE UNCHANGED ops
  BY <1>1, SameLives
<1>2. ASSUME NEW o \in Ops, Due(o) \/ LeaseExpires(o)
      PROVE  \A g \in Generations : Lives(ops[g], ops'[g])
  <2>1. ops[o] \in Op
    BY DEF IInv, TypeOK
  <2>2. /\ Lives(ops[o], [ops[o] EXCEPT !.due = TRUE])
        /\ Lives(ops[o], [ops[o] EXCEPT !.leased = FALSE])
    BY <2>1 DEF Lives, Op
  <2> QED
    BY <1>2, <2>2, OneRowLives DEF Due, LeaseExpires
<1>3. ASSUME NEW w \in Workers, Crash(w)
      PROVE  \A g \in Generations : Lives(ops[g], ops'[g])
  <2> DEFINE o == jobs[w].op
  <2>1. o \in Ops /\ ops[o] \in Op
    BY <1>3, BusyWorker DEF Crash, IInv, TypeOK
  <2>2. Lives(ops[o], [ops[o] EXCEPT !.fence = None])
    BY <2>1 DEF Lives, Op
  <2>3. UNCHANGED ops \/ ops' = [ops EXCEPT ![o] = [ops[o] EXCEPT !.fence = None]]
    BY <1>3 DEF Crash
  <2> QED
    BY <1>1, <2>1, <2>2, <2>3, OneRowLives
<1> QED
  BY <1>1, <1>2, <1>3 DEF Clocks, WindowCloses

\* Decisions and controls wake operations, or accept the deletion.
LEMMA ControlsLive ==
  ASSUME IInv,
         \/ Pause \/ ResumeTarget \/ DeleteTarget
         \/ \E g \in Generations, a \in Approvers, approve \in BOOLEAN :
              Decide(g, a, approve)
  PROVE  \A g \in Generations : Lives(ops[g], ops'[g])
<1>1. ops \in [Ops -> Op] /\ Generations \subseteq Ops /\ DeleteOp \notin Generations
  BY OpsFacts DEF IInv, TypeOK, Ops
<1>2. CASE ResumeTarget
  BY <1>1, <1>2, AwakeLives DEF ResumeTarget
<1>3. CASE DeleteTarget
  BY <1>1, <1>3, SameLives DEF DeleteTarget
<1>4. CASE UNCHANGED ops
  BY <1>4, SameLives
<1>5. ASSUME NEW g \in Generations, ops' = [ops EXCEPT ![g] = Awake(@)]
      PROVE  \A h \in Generations : Lives(ops[h], ops'[h])
  BY <1>1, <1>5, SameLives, AwakeLives
<1> QED
  BY <1>2, <1>3, <1>4, <1>5 DEF Pause, Decide

\* Every step of the system, operation by operation.
LEMMA StepLives ==
  ASSUME IInv, [Next]_vars, NEW g \in Generations
  PROVE  \/ Opens(g)
         \/ /\ target'.generation # g \/ target.generation = g
            /\ target'.generation \in {target.generation, target.generation + 1}
            /\ \/ Lives(ops[g], ops'[g])
               \/ \E w \in Workers :
                    /\ jobs[w].pc = "finish" /\ jobs[w].op = g
                    /\ ops[g].state = "open"
                    /\ ops'[g].state = "done" /\ ops'[g].phase = jobs[w].phase
<1> DEFINE Finished ==
             \E w \in Workers :
               /\ jobs[w].pc = "finish" /\ jobs[w].op = g
               /\ ops[g].state = "open"
               /\ ops'[g].state = "done" /\ ops'[g].phase = jobs[w].phase
<1>1. CASE \E emergency \in BOOLEAN, required \in Required :
             StartRun(emergency, required)
  BY <1>1, StartRunLives
<1>2. Keeps => /\ target'.generation # g \/ target.generation = g
               /\ target'.generation \in {target.generation,
                                          target.generation + 1}
  BY DEF Keeps
<1>3. CASE ~\E emergency \in BOOLEAN, required \in Required :
              StartRun(emergency, required)
  <2>1. Keeps
    BY <1>3, StepSettles
  <2>2. Lives(ops[g], ops'[g]) \/ Finished
    <3>1. CASE Requests
      BY <1>3, <3>1, ControlsLive DEF Requests
    <3>2. CASE \E w \in Workers : Work(w)
      BY <3>2, WorkLives
    <3>3. CASE \E w \in Workers, o \in Ops : Claim(w, o)
      BY <3>3, ClaimLives
    <3>4. CASE Clocks \/ \E w \in Workers : Crash(w)
      BY <3>4, ClocksLive
    <3>5. CASE Reconcile \/ LoseApp \/ (\E w \in Workers : Fail(w)) \/ UNCHANGED vars
      BY <3>5, SameLives DEF Reconcile, LoseApp, Fail, vars
    <3> QED
      BY <3>1, <3>2, <3>3, <3>4, <3>5 DEF Next, Environment
  <2> QED
    BY <1>2, <2>1, <2>2
<1> QED
  BY <1>1, <1>3
-----------------------------------------------------------------------------
(* Workers: who is about to finish an operation has its run's verdict. *)

Ends(w) ==
  LET j == jobs[w]
      k == jobs'[w]
  IN k.pc = "finish" /\ k.op \in Generations =>
       /\ k.op = j.op
       /\ \/ j.pc = "finish" /\ k.phase = j.phase
          \/ Fate(k.phase, runs'[j.op].phase)

LEMMA StaysEnds ==
  ASSUME NEW w, \/ jobs'[w].pc # "finish"
                \/ /\ jobs'[w].pc = jobs[w].pc /\ jobs'[w].op = jobs[w].op
                   /\ jobs'[w].phase = jobs[w].phase
  PROVE  Ends(w)
  BY DEF Ends

LEMMA OneEnds ==
  ASSUME IInv, NEW w \in Workers, NEW k, jobs' = [jobs EXCEPT ![w] = k]
  PROVE  /\ jobs'[w] = k /\ \A v \in Workers \ {w} : Ends(v)
         /\ k.pc # "finish" => \A v \in Workers : Ends(v)
<1>1. jobs'[w] = k /\ \A v \in Workers \ {w} : jobs'[v] = jobs[v]
  BY DEF IInv, TypeOK
<1> QED
  BY <1>1, StaysEnds

LEMMA StopsShort ==
  /\ Idle.pc # "finish"
  /\ \A j : Refused(j).pc # "finish" /\ Superseded(j).pc # "finish"
            /\ Retry(j).pc # "finish"
  /\ \A j, c : Wait(j, c).pc # "finish"
  /\ \A j, p, c : /\ Settled(j, p, c).op = j.op
                  /\ Settled(j, p, c).phase = p
  BY DEF Idle, Stop, Settled, Refused, Superseded, Retry, Wait

\* A worker that moved its run goes on, or knows the phase it moved it to.
LEMMA AdvanceEnds ==
  ASSUME IInv, NEW w \in Workers, NEW e, NEW moved, Advance(w, e, moved),
         jobs[w].op \in Generations,
         \/ \A q : [moved EXCEPT !.phase = q].pc # "finish"
         \/ /\ e \in {"rejected", "verified", "failed", "superseded", "none"}
            /\ \A q : /\ [moved EXCEPT !.phase = q].op = jobs[w].op
                      /\ [moved EXCEPT !.phase = q].phase = q
  PROVE  \A v \in Workers : Ends(v)
<1> DEFINE j == jobs[w]
           p == runs[j.op].phase
<1>1. CASE jobs' = [jobs EXCEPT ![w] = Retry(j)] \/ jobs' = [jobs EXCEPT ![w] = Idle]
  BY <1>1, OneEnds, StopsShort
<1>2. CASE /\ jobs' = [jobs EXCEPT ![w] = Settled(j, p, "none")]
           /\ UNCHANGED runs /\ p \in Final
  <2>1. /\ jobs'[w] = Settled(j, p, "none")
        /\ \A v \in Workers \ {w} : Ends(v)
    BY <1>2, OneEnds
  <2>2. Fate(p, runs'[j.op].phase)
    BY <1>2 DEF Fate
  <2>3. Ends(w)
    BY <2>1, <2>2, StopsShort DEF Ends
  <2> QED
    BY <2>1, <2>3
<1>3. ASSUME NEW q \in Apply(p, e),
             jobs' = [jobs EXCEPT ![w] = [moved EXCEPT !.phase = q]],
             runs' = [runs EXCEPT ![j.op].phase = q,
                                  ![j.op].outcome = Coalesce(@, OutcomeOf(q))]
      PROVE  \A v \in Workers : Ends(v)
  <2>1. CASE [moved EXCEPT !.phase = q].pc # "finish"
    BY <1>3, <2>1, OneEnds
  <2>2. CASE /\ e \in {"rejected", "verified", "failed", "superseded", "none"}
             /\ [moved EXCEPT !.phase = q].op = j.op
             /\ [moved EXCEPT !.phase = q].phase = q
    <3>1. /\ jobs'[w] = [moved EXCEPT !.phase = q]
          /\ \A v \in Workers \ {w} : Ends(v)
      BY <1>3, OneEnds
    <3>2. runs'[j.op].phase = q
      <4>1. runs \in [Generations -> Run]
        BY DEF IInv, TypeOK
      <4> QED
        BY <1>3, <4>1 DEF Run
    <3>3. q \in Final \cup {"failed"}
      BY <1>3, <2>2, LastEvents
    <3>4. Ends(w)
      BY <2>2, <3>1, <3>2, <3>3 DEF Ends, Fate
    <3> QED
      BY <3>1, <3>4
  <2> QED
    BY <2>1, <2>2
<1> QED
  BY <1>1, <1>2, <1>3 DEF Advance

LEMMA EventsEnd ==
  ASSUME IInv, NEW w \in Workers,
         Expire(w) \/ Ready(w) \/ Accept(w) \/ ToVerifying(w) \/ End(w)
  PROVE  \A v \in Workers : Ends(v)
<1> DEFINE j == jobs[w]
<1>1. j \in Job /\ j.op \in Generations /\ j.pc # "finish"
  <2>1. j.pc \in {"expire", "ready", "accept", "applied", "verified", "end"}
    BY DEF Expire, Ready, Accept, ToVerifying, End
  <2> QED
    BY <2>1, BusyWorker DEF DeleteAt
<1>2. ASSUME NEW c, NEW x,
             NEW e \in {"rejected", "verified", "failed", "superseded", "none"},
             Advance(w, e, Settled(j, x, c))
      PROVE  \A v \in Workers : Ends(v)
  <2>1. \A q : /\ [Settled(j, x, c) EXCEPT !.phase = q].op = j.op
              /\ [Settled(j, x, c) EXCEPT !.phase = q].phase = q
    BY DEF Settled, Stop, Idle
  <2> HIDE DEF j
  <2> QED
    BY <1>1, <1>2, <2>1, AdvanceEnds DEF j
<1>3. ASSUME NEW e, NEW pc, pc # "finish", Advance(w, e, [j EXCEPT !.pc = pc])
      PROVE  \A v \in Workers : Ends(v)
  <2>1. \A q : [[j EXCEPT !.pc = pc] EXCEPT !.phase = q].pc # "finish"
    BY <1>1, <1>3 DEF Job
  <2> QED
    BY <1>1, <1>3, <2>1, AdvanceEnds
<1>4. ASSUME NEW e, Advance(w, e, j) PROVE \A v \in Workers : Ends(v)
  <2>1. \A q : [j EXCEPT !.phase = q].pc # "finish"
    BY <1>1 DEF Job
  <2> QED
    BY <1>1, <1>4, <2>1, AdvanceEnds
<1>5. CASE Expire(w)
  BY <1>2, <1>5 DEF Expire
<1>6. CASE Ready(w) \/ Accept(w)
  BY <1>3, <1>6 DEF Ready, Accept
<1>7. CASE ToVerifying(w)
  <2>1. CASE Goto(w, "wait")
    BY <1>1, <2>1, OneEnds DEF Goto, Becomes, Job
  <2> QED
    BY <1>2, <1>4, <1>7, <2>1 DEF ToVerifying
<1>8. CASE End(w)
  BY <1>1, <1>2, <1>8 DEF End, Job
<1> QED
  BY <1>5, <1>6, <1>7, <1>8

LEMMA LoadEnds ==
  ASSUME IInv, NEW w \in Workers, Load(w) PROVE \A v \in Workers : Ends(v)
<1> DEFINE r == runs[jobs[w].op]
           j == [jobs[w] EXCEPT !.phase = r.phase]
<1>1. jobs[w] \in Job /\ jobs[w].pc = "load"
  BY DEF IInv, TypeOK, Load
<1>2. /\ j.op = jobs[w].op
      /\ \A pc : [j EXCEPT !.pc = pc].pc = pc
      /\ Deliver(j).pc \in {"ready", "prepare"}
  BY <1>1 DEF Job, Deliver
<1>3. ASSUME NEW k, Becomes(w, k), k.pc # "finish"
      PROVE  \A v \in Workers : Ends(v)
  BY <1>3, OneEnds DEF Becomes
<1> HIDE DEF j
<1>4. CASE r.phase \in Final \cup {"failed"}
  <2>1. Becomes(w, Settled(j, r.phase, "none"))
    BY <1>4 DEF Load, j
  <2>2. /\ jobs'[w] = Settled(j, r.phase, "none") /\ UNCHANGED runs
        /\ \A v \in Workers \ {w} : Ends(v)
    BY <2>1, OneEnds DEF Becomes
  <2>3. Ends(w)
    BY <1>2, <1>4, <2>2, StopsShort DEF Ends, Fate
  <2> QED
    BY <2>2, <2>3
<1>5. CASE r.phase \notin Final \cup {"failed"}
  <2>1. \/ Becomes(w, Refused(j))
        \/ Becomes(w, Deliver(j))
        \/ \E pc \in {"expire", "hold", "resume"} : Becomes(w, [j EXCEPT !.pc = pc])
        \/ Becomes(w, Wait(j, "AwaitingApproval"))
        \/ Becomes(w, Retry([j EXCEPT !.pc = "resume"]))
    BY <1>5 DEF Load, j
  <2>2. /\ Deliver(j).pc # "finish"
        /\ \A pc \in {"expire", "hold", "resume"} :
             [j EXCEPT !.pc = pc].pc # "finish"
    BY <1>2
  <2> QED
    BY <1>3, <2>1, <2>2, StopsShort
<1> QED
  BY <1>4, <1>5

\* A deletion has no run.
LEMMA DeleteEnds ==
  ASSUME IInv, NEW w \in Workers, FindTarget(w) \/ RemoveApp(w) \/ MarkDeleted(w)
  PROVE  \A v \in Workers : Ends(v)
<1> DEFINE j == jobs[w]
<1>1. j \in Job /\ j.op = DeleteOp /\ DeleteOp \notin Generations
  BY BusyWorker, OpsFacts
     DEF FindTarget, RemoveApp, MarkDeleted, DeleteAt, JobFenced, WorksOn
<1>2. CASE jobs' = [jobs EXCEPT ![w] = Settled(j, "succeeded", "none")]
  <2>1. /\ jobs'[w] = Settled(j, "succeeded", "none")
        /\ \A v \in Workers \ {w} : Ends(v)
    BY <1>2, OneEnds
  <2>2. Ends(w)
    BY <1>1, <2>1, StopsShort DEF Ends
  <2> QED
    BY <2>1, <2>2
<1>3. CASE Goto(w, "remove")
  <2>1. [j EXCEPT !.pc = "remove"].pc # "finish"
    BY <1>1 DEF Job
  <2> QED
    BY <1>3, <2>1, OneEnds DEF Goto, Becomes
<1>4. CASE RemoveApp(w)
  <2> DEFINE m == [j EXCEPT !.pc = "mark"]
             js == [jobs EXCEPT ![w] = m]
  <2>1. jobs \in [Workers -> Job] /\ m.pc = "mark"
    BY <1>1 DEF IInv, TypeOK, Job
  <2>2. jobs' = Touched(js, w)
    BY <1>4 DEF RemoveApp
  <2>3. \A v \in Workers \ {w} : js[v] = jobs[v] /\ jobs[v] \in Job
    BY <2>1
  <2>4. \A v \in Workers \ {w} :
          /\ jobs'[v].pc = jobs[v].pc /\ jobs'[v].op = jobs[v].op
          /\ jobs'[v].phase = jobs[v].phase
    BY <2>2, <2>3 DEF Touched, Job
  <2>5. jobs'[w].pc # "finish"
    BY <2>1, <2>2 DEF Touched
  <2> QED
    BY <2>4, <2>5, StaysEnds
<1> QED
  BY <1>2, <1>3, <1>4 DEF FindTarget, MarkDeleted, Becomes

LEMMA PutEnds ==
  ASSUME IInv, NEW w \in Workers, Put(w) PROVE \A v \in Workers : Ends(v)
<1> DEFINE j == jobs[w]
           done == [Idle EXCEPT !.op = j.op, !.pc = "record",
                      !.phase = j.phase, !.meta = Written(j.op).meta]
           m == [j EXCEPT !.pc = "get", !.seen = "none", !.tries = @ + 1]
           js == [jobs EXCEPT ![w] = done]
<1>1. jobs \in [Workers -> Job] /\ j \in Job
  BY DEF IInv, TypeOK
<1>2. done.pc # "finish" /\ m.pc # "finish"
  BY <1>1 DEF Idle, Job
<1>3. ASSUME NEW k, jobs' = [jobs EXCEPT ![w] = k], k.pc # "finish"
      PROVE  \A v \in Workers : Ends(v)
  BY <1>3, OneEnds
<1> HIDE DEF done
<1>4. CASE jobs' = Touched(js, w)
  <2>1. \A v \in Workers \ {w} : js[v] = jobs[v] /\ jobs[v] \in Job
    BY <1>1
  <2>2. \A v \in Workers \ {w} :
          /\ jobs'[v].pc = jobs[v].pc /\ jobs'[v].op = jobs[v].op
          /\ jobs'[v].phase = jobs[v].phase
    BY <1>4, <2>1 DEF Touched, Job
  <2>3. jobs'[w].pc # "finish"
    BY <1>1, <1>2, <1>4 DEF Touched
  <2> QED
    BY <2>2, <2>3, StaysEnds
<1>5. \/ jobs' = Touched(js, w) \/ jobs' = js
      \/ jobs' = [jobs EXCEPT ![w] = Retry(j)]
      \/ jobs' = [jobs EXCEPT ![w] = m]
  BY DEF Put, Becomes, done
<1> QED
  BY <1>2, <1>3, <1>4, <1>5, StopsShort

\* The steps that stop short of a verdict.
LEMMA RestEnds ==
  ASSUME IInv, NEW w \in Workers,
         \/ Hold(w) \/ Prepare(w) \/ GetApp(w) \/ Fence(w) \/ Record(w)
         \/ Resume(w) \/ Renew(w) \/ Look(w) \/ Deadline(w) \/ Again(w)
         \/ Finish(w) \/ GiveBack(w) \/ Crash(w) \/ Fail(w)
         \/ \E o \in Ops : Claim(w, o)
  PROVE  \A v \in Workers : Ends(v)
<1> DEFINE j == jobs[w]
<1>1. j \in Job
  BY DEF IInv, TypeOK
<1>2. ASSUME NEW k, k.pc # "finish", jobs' = [jobs EXCEPT ![w] = k]
      PROVE  \A v \in Workers : Ends(v)
  BY <1>2, OneEnds
<1>3. \A pc : [j EXCEPT !.pc = pc].pc = pc
  BY <1>1 DEF Job
<1>4. CASE Hold(w)
  <2>1. Deliver(j).pc # "finish"
    BY <1>3 DEF Deliver
  <2> QED
    BY <1>2, <1>3, <1>4, <2>1, StopsShort DEF Hold, Becomes
<1>5. CASE Prepare(w) \/ Fence(w) \/ Record(w) \/ Renew(w) \/ Again(w)
  <2>1. \/ \E pc \in {"get", "recheck", "accept", "look", "renew"} :
             jobs' = [jobs EXCEPT ![w] = [j EXCEPT !.pc = pc]]
        \/ jobs' = [jobs EXCEPT ![w] = Refused(j)]
        \/ jobs' = [jobs EXCEPT ![w] = Superseded(j)]
        \/ jobs' = [jobs EXCEPT ![w] = Idle]
    BY <1>5 DEF Prepare, Fence, Record, Renew, Again, Goto, Becomes
  <2>2. \A pc \in {"get", "recheck", "accept", "look", "renew"} :
          [j EXCEPT !.pc = pc].pc # "finish"
    BY <1>3
  <2> QED
    BY <1>2, <2>1, <2>2, StopsShort
<1>6. CASE GetApp(w) \/ Resume(w)
  <2>1. \A x : /\ [j EXCEPT !.pc = "fence", !.seen = x].pc # "finish"
              /\ [j EXCEPT !.pc = "renew", !.meta = x].pc # "finish"
    BY <1>1 DEF Job
  <2>2. \E x : \/ jobs' = [jobs EXCEPT ![w] = [j EXCEPT !.pc = "fence", !.seen = x]]
              \/ jobs' = [jobs EXCEPT ![w] = [j EXCEPT !.pc = "renew", !.meta = x]]
              \/ jobs' = [jobs EXCEPT ![w] = Refused(j)]
    BY <1>6 DEF GetApp, Resume, Becomes
  <2> QED
    BY <1>2, <2>1, <2>2, StopsShort
<1>7. CASE Look(w)
  <2>1. \/ Becomes(w, Refused(j))
        \/ \E pc \in {"wait", "verified", "applied"} :
             Becomes(w, [j EXCEPT !.pc = pc])
    BY <1>7 DEF Look
  <2> QED
    BY <1>2, <1>3, <2>1, StopsShort DEF Becomes
<1>8. CASE Deadline(w) \/ Finish(w) \/ GiveBack(w) \/ Crash(w) \/ Fail(w)
  BY <1>2, <1>8, StopsShort
     DEF Deadline, Finish, GiveBack, LetGo, Crash, Fail, Becomes
<1>9. ASSUME NEW o \in Ops, Claim(w, o) PROVE \A v \in Workers : Ends(v)
  <2>1. \A pc \in {"find", "load"} : [Idle EXCEPT !.op = o, !.pc = pc].pc # "finish"
    BY DEF Idle
  <2> QED
    BY <1>2, <1>9, <2>1 DEF Claim
<1> QED
  BY <1>4, <1>5, <1>6, <1>7, <1>8, <1>9

LEMMA StepEnds ==
  ASSUME IInv, [Next]_vars PROVE \A w \in Workers : Ends(w)
<1>1. CASE UNCHANGED jobs
  BY <1>1, StaysEnds
<1>2. CASE Requests
  BY <1>1, <1>2 DEF Requests, StartRun, Decide, Pause, ResumeTarget, DeleteTarget
<1>3. CASE \E w \in Workers : Work(w)
  BY <1>3, LoadEnds, EventsEnd, PutEnds, DeleteEnds, RestEnds
     DEF Work, DeliverRun, Verify, Delete
<1>4. CASE Clocks
  BY <1>1, <1>4 DEF Clocks, Due, LeaseExpires, WindowCloses
<1>5. CASE Reconcile \/ LoseApp
  <2>1. jobs' = Touched(jobs, None) /\ \A v \in Workers : jobs[v] \in Job
    BY <1>5 DEF Reconcile, LoseApp, IInv, TypeOK
  <2>2. \A v \in Workers :
          /\ jobs'[v].pc = jobs[v].pc /\ jobs'[v].op = jobs[v].op
          /\ jobs'[v].phase = jobs[v].phase
    BY <2>1 DEF Touched, Job
  <2> QED
    BY <2>2, StaysEnds
<1>6. CASE UNCHANGED vars
  BY <1>1, <1>6 DEF vars
<1> QED
  BY <1>2, <1>3, <1>4, <1>5, <1>6, RestEnds DEF Next, Environment
-----------------------------------------------------------------------------
FateInv ==
  /\ \A g \in Generations :
       /\ ops[g].state = "absent" <=> g > target.generation
       /\ ops[g].state = "done" => Fate(ops[g].phase, runs[g].phase)
  /\ \A w \in Workers :
       jobs[w].pc = "finish" /\ jobs[w].op \in Generations
         => Fate(jobs[w].phase, runs[jobs[w].op].phase)

LEMMA InitFate == Init => FateInv
<1> SUFFICES ASSUME Init PROVE FateInv
  OBVIOUS
<1>1. \A g \in Generations : ops[g].state = "absent" /\ g > target.generation
  BY OpsFacts DEF Init, NoOp, Ops
<1>2. \A w \in Workers : jobs[w].pc = "idle"
  BY DEF Init, Idle
<1> QED
  BY <1>1, <1>2 DEF FateInv

LEMMA StepFate == IInv /\ FateInv /\ [Next]_vars => FateInv'
<1> SUFFICES ASSUME IInv, FateInv, [Next]_vars PROVE FateInv'
  OBVIOUS
<1>1. target.generation \in Nat /\ Generations \subseteq Nat
  BY OpsFacts DEF IInv, TypeOK
<1>2. ASSUME NEW g \in Generations, NEW a, g <= target.generation,
             Fate(a, runs[g].phase)
      PROVE  Fate(a, runs'[g].phase)
  <2>1. Grows(runs[g], runs'[g])
    BY <1>1, <1>2, StepGrows DEF Begins
  <2> QED
    BY <1>2, <2>1, FateStays
<1>3. ASSUME NEW g \in Generations
      PROVE  ops'[g].state = "absent" <=> g > target'.generation
  <2>1. CASE Opens(g)
    BY <1>1, <2>1 DEF Opens
  <2>2. CASE /\ target'.generation # g \/ target.generation = g
             /\ target'.generation \in {target.generation, target.generation + 1}
             /\ ops'[g].state = "absent" <=> ops[g].state = "absent"
    BY <1>1, <2>2 DEF FateInv
  <2> QED
    BY <2>1, <2>2, StepLives DEF Lives
<1>4. ASSUME NEW g \in Generations, ops'[g].state = "done"
      PROVE  Fate(ops'[g].phase, runs'[g].phase)
  <2>1. g <= target.generation /\ Fate(ops'[g].phase, runs[g].phase)
    <3>1. CASE Lives(ops[g], ops'[g])
      BY <1>1, <1>4, <3>1 DEF Lives, FateInv
    <3>2. CASE \E w \in Workers :
                 /\ jobs[w].pc = "finish" /\ jobs[w].op = g
                 /\ ops[g].state = "open" /\ ops'[g].phase = jobs[w].phase
      BY <1>1, <3>2 DEF FateInv
    <3> QED
      BY <1>4, <3>1, <3>2, StepLives DEF Opens
  <2> QED
    BY <1>2, <2>1
<1>5. ASSUME NEW w \in Workers, jobs'[w].pc = "finish", jobs'[w].op \in Generations
      PROVE  Fate(jobs'[w].phase, runs'[jobs'[w].op].phase)
  <2>1. Ends(w)
    BY StepEnds
  <2>2. jobs[w].op <= target.generation
    BY <1>5, <2>1, OpsFacts DEF Ends, IInv, FenceInv, JobFenced, Ops
  <2> QED
    BY <1>2, <1>5, <2>1, <2>2 DEF Ends, FateInv
<1> QED
  BY <1>3, <1>4, <1>5 DEF FateInv

\* A run that is not settled has an operation somebody will still claim, and a
\* finished operation says what became of its run, whatever was claimed
\* twice, cut short or superseded on the way.
THEOREM OperationsTellFates == Spec => []OperationTellsFate
<1>1. FateInv => OperationTellsFate
  BY DEF FateInv, OperationTellsFate, Fate
<1> QED
  BY <1>1, InitFate, StepFate, AlwaysIInv, PTL DEF Spec
=============================================================================
