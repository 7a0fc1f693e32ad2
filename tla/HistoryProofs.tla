---------------------------- MODULE HistoryProofs ----------------------------
(***************************************************************************)
(* Proofs about what the steps of several workers add up to: the verdict   *)
(* "succeeded" is about the App the run itself wrote, and a pause stops    *)
(* everything but what was already past its last check.                    *)
(***************************************************************************)
EXTENDS DeliveryHistory, ReleaseProofs

(* How a worker comes to its write, and to the steps after it.             *)

\* Between the write and the verdict.
Wrote == {"record", "accept", "renew", "look", "applied", "verified", "wait"}

\* From job j to job k of a worker, in one step.
Leads(j, k) ==
  /\ k.op = DeleteOp => j.op = DeleteOp \/ ops[DeleteOp].state = "open"
  /\ k.pc \in Wrote =>
       /\ k.op = j.op
       /\ \/ j.pc \in Wrote /\ k.meta = j.meta
          \/ j.pc = "resume" /\ j.op = written.generation /\ k.meta = written.meta
          \/ /\ j.pc = "put" /\ ~Conflict(j)
             /\ app' = Written(j.op) /\ k.meta = app'.meta
  /\ k.pc = "verified" =>
       \/ j.pc = "verified"
       \/ j.pc = "look" /\ j.meta <= app.observed /\ UNCHANGED app
  /\ k.pc = "put" =>
       \/ j.pc = "put"
       \/ j.pc = "recheck" /\ (target.paused => runs[j.op].emergency)

\* Where the work on a claim is neither at its write nor after it.
Gone(j, k) == k.op \in {None, j.op} /\ k.pc \notin Wrote \cup {"put"}

LEMMA GoneLeads ==
  ASSUME NEW j, NEW k, Gone(j, k) PROVE Leads(j, k)
<1>1. None # DeleteOp
  BY DeliveryAssumption DEF DeleteOp
<1> QED
  BY <1>1 DEF Gone, Leads, Wrote

LEMMA SameLeads == ASSUME NEW j PROVE Leads(j, j)
  BY DEF Leads

LEMMA StopsGone ==
  ASSUME NEW j
  PROVE  /\ Gone(j, Idle)
         /\ \A p, c : Gone(j, Settled(j, p, c))
         /\ Gone(j, Refused(j)) /\ Gone(j, Superseded(j)) /\ Gone(j, Retry(j))
         /\ \A c : Gone(j, Wait(j, c))
  BY DEF Gone, Wrote, Idle, Stop, Settled, Refused, Superseded, Retry, Wait

\* Whose job is replaced, and the others.
LEMMA OneLeads ==
  ASSUME IInv, NEW w \in Workers, NEW k, jobs' = [jobs EXCEPT ![w] = k],
         Gone(jobs[w], k) \/ Leads(jobs[w], k)
  PROVE  \A v \in Workers : Leads(jobs[v], jobs'[v])
<1>1. jobs'[w] = k /\ \A v \in Workers \ {w} : jobs'[v] = jobs[v]
  BY DEF IInv, TypeOK
<1> QED
  BY <1>1, SameLeads, GoneLeads

\* Only pc changes.
LEMMA GotoLeads ==
  ASSUME NEW j \in Job, NEW pc \in Pc,
         pc \in Wrote => j.pc \in Wrote, pc = "put" => j.pc = "put",
         pc = "verified" => \/ j.pc = "verified"
                            \/ /\ j.pc = "look" /\ j.meta <= app.observed
                               /\ UNCHANGED app
  PROVE  Leads(j, [j EXCEPT !.pc = pc])
  BY DEF Leads, Job

\* A change of the App moves no worker but w.
LEMMA TouchedLeads ==
  ASSUME IInv, NEW w \in Workers \cup {None}, NEW k,
         w # None => Leads(jobs[w], k),
         jobs' = IF w = None THEN Touched(jobs, None)
                 ELSE Touched([jobs EXCEPT ![w] = k], w)
  PROVE  \A v \in Workers : Leads(jobs[v], jobs'[v])
<1>1. jobs \in [Workers -> Job] /\ None \notin Workers
  BY DeliveryAssumption DEF IInv, TypeOK
<1>2. ASSUME NEW v \in Workers, v # w PROVE Leads(jobs[v], jobs'[v])
  <2>1. jobs'[v] \in {jobs[v], [jobs[v] EXCEPT !.seen = "stale"]}
    BY <1>1, <1>2 DEF Touched
  <2>2. LET k2 == [jobs[v] EXCEPT !.seen = "stale"]
        IN k2.op = jobs[v].op /\ k2.pc = jobs[v].pc /\ k2.meta = jobs[v].meta
    BY <1>1 DEF Job
  <2> QED
    BY <2>1, <2>2, SameLeads DEF Leads
<1>3. w # None => jobs'[w] = k
  BY <1>1 DEF Touched
<1> QED
  BY <1>1, <1>2, <1>3

\* An event leads a worker to its end, or to what follows the event.
LEMMA AdvanceLeads ==
  ASSUME IInv, NEW w \in Workers, NEW e, NEW moved, Advance(w, e, moved),
         \A q \in Phase : Gone(jobs[w], [moved EXCEPT !.phase = q])
                          \/ Leads(jobs[w], [moved EXCEPT !.phase = q])
  PROVE  \A v \in Workers : Leads(jobs[v], jobs'[v])
<1>1. ASSUME NEW q \in Apply(runs[jobs[w].op].phase, e),
             jobs' = [jobs EXCEPT ![w] = [moved EXCEPT !.phase = q]]
      PROVE  \A v \in Workers : Leads(jobs[v], jobs'[v])
  <2>1. q \in Phase
    BY DEF Apply
  <2> QED
    BY <1>1, <2>1, OneLeads
<1> QED
  BY <1>1, OneLeads, StopsGone DEF Advance

LEMMA EventsLead ==
  ASSUME IInv, NEW w \in Workers,
         Expire(w) \/ Ready(w) \/ Accept(w) \/ ToVerifying(w) \/ End(w)
  PROVE  \A v \in Workers : Leads(jobs[v], jobs'[v])
<1> DEFINE j == jobs[w]
<1>1. j \in Job
  BY DEF IInv, TypeOK
<1>2. ASSUME NEW c, NEW e, NEW x, Advance(w, e, Settled(j, x, c))
      PROVE  \A v \in Workers : Leads(jobs[v], jobs'[v])
  <2>1. \A q : Gone(j, [Settled(j, x, c) EXCEPT !.phase = q])
    BY DEF Gone, Wrote, Idle, Stop, Settled
  <2> QED
    BY <1>2, <2>1, AdvanceLeads
<1>3. ASSUME NEW e, NEW pc \in Pc, Advance(w, e, [j EXCEPT !.pc = pc]),
             pc \in Wrote => j.pc \in Wrote, pc = "put" => j.pc = "put",
             pc = "verified" => j.pc = "verified"
      PROVE  \A v \in Workers : Leads(jobs[v], jobs'[v])
  <2>1. ASSUME NEW q
        PROVE  Leads(j, [[j EXCEPT !.pc = pc] EXCEPT !.phase = q])
    BY <1>1, <1>3 DEF Leads, Job
  <2> QED
    BY <1>3, <2>1, AdvanceLeads
<1>4. CASE Ready(w)
  <2>1. "prepare" \in Pc \ Wrote
    BY DEF Pc, DeliverAt, Wrote
  <2> QED
    BY <1>3, <1>4, <2>1 DEF Ready
<1>5. CASE Accept(w)
  <2>1. "renew" \in Pc /\ j.pc \in Wrote
    BY <1>5 DEF Pc, VerifyAt, Wrote, Accept
  <2> QED
    BY <1>3, <1>5, <2>1 DEF Accept
<1>6. ASSUME NEW e, Advance(w, e, j)
      PROVE  \A v \in Workers : Leads(jobs[v], jobs'[v])
  <2>1. j = [j EXCEPT !.pc = j.pc] /\ j.pc \in Pc
    BY <1>1 DEF Job
  <2> QED
    BY <1>3, <1>6, <2>1
<1>7. CASE j.pc = "applied" /\ Goto(w, "wait")
  <2>1. "wait" \in Pc /\ j.pc \in Wrote
    BY <1>7 DEF Pc, VerifyAt, Wrote
  <2> QED
    BY <1>1, <1>7, <2>1, GotoLeads, OneLeads DEF Goto, Becomes
<1> QED
  BY <1>2, <1>4, <1>5, <1>6, <1>7 DEF Expire, ToVerifying, End

\* Before the write.
LEMMA BeforeLeads ==
  ASSUME IInv, NEW w \in Workers,
         \/ Load(w) \/ Hold(w) \/ Prepare(w) \/ GetApp(w) \/ Fence(w)
         \/ FindTarget(w) \/ MarkDeleted(w) \/ Finish(w) \/ GiveBack(w)
         \/ Crash(w) \/ Fail(w) \/ \E o \in Ops : Claim(w, o)
  PROVE  \A v \in Workers : Leads(jobs[v], jobs'[v])
<1> DEFINE j == jobs[w]
<1>1. j \in Job
  BY DEF IInv, TypeOK
<1>2. ASSUME NEW k, Gone(j, k) \/ Leads(j, k), jobs' = [jobs EXCEPT ![w] = k]
      PROVE  \A v \in Workers : Leads(jobs[v], jobs'[v])
  BY <1>2, OneLeads
<1>3. \A pc \in {"hold", "ready", "prepare", "expire", "resume", "get", "recheck",
                 "remove"} :
        Gone(j, [j EXCEPT !.pc = pc])
  BY <1>1 DEF Gone, Wrote, Job
<1>4. CASE Load(w)
  <2> DEFINE r == runs[j.op]
             k == [j EXCEPT !.phase = r.phase]
  <2>1. \A x : Gone(k, x) => Gone(j, x)
    BY <1>1 DEF Gone, Job
  <2>2. Gone(j, Deliver(k)) /\ Gone(j, [k EXCEPT !.pc = "hold"])
    BY <1>1 DEF Gone, Deliver, Wrote, Job
  <2>3. Gone(j, [k EXCEPT !.pc = "expire"]) /\ Gone(j, [k EXCEPT !.pc = "resume"])
    BY <1>1 DEF Gone, Wrote, Job
  <2>4. \A x : Gone([k EXCEPT !.pc = "resume"], x) => Gone(j, x)
    BY <1>1 DEF Gone, Job
  <2> HIDE DEF k
  <2>5. \/ \E c : Becomes(w, Wait(k, c)) \/ \E p : Becomes(w, Settled(k, p, c))
        \/ Becomes(w, Refused(k)) \/ Becomes(w, Deliver(k))
        \/ \E pc \in {"hold", "expire", "resume"} : Becomes(w, [k EXCEPT !.pc = pc])
        \/ Becomes(w, Retry([k EXCEPT !.pc = "resume"]))
    BY <1>4 DEF Load, k
  <2>6. /\ \A c : Gone(j, Wait(k, c)) /\ \A p : Gone(j, Settled(k, p, c))
        /\ Gone(j, Refused(k)) /\ Gone(j, Retry([k EXCEPT !.pc = "resume"]))
    BY <2>1, <2>4, StopsGone
  <2> QED
    BY <1>2, <2>2, <2>3, <2>5, <2>6 DEF Becomes
<1>5. CASE Hold(w)
  <2>1. Gone(j, Deliver(j))
    BY <1>1 DEF Gone, Deliver, Wrote, Job
  <2>2. j.pc = "recheck" /\ (target.paused => runs[j.op].emergency)
          => Leads(j, [j EXCEPT !.pc = "put"])
    BY <1>1 DEF Leads, Wrote, Job
  <2> QED
    BY <1>2, <1>5, <2>1, <2>2, StopsGone DEF Hold, Becomes
<1>6. CASE Prepare(w) \/ Fence(w) \/ FindTarget(w)
  BY <1>2, <1>3, <1>6, StopsGone DEF Prepare, Fence, FindTarget, Goto, Becomes
<1>7. CASE GetApp(w)
  <2>1. \A x : Gone(j, [j EXCEPT !.pc = "fence", !.seen = x])
    BY <1>1 DEF Gone, Wrote, Job
  <2> QED
    BY <1>2, <1>7, <2>1 DEF GetApp, Becomes
<1>8. CASE MarkDeleted(w) \/ Finish(w) \/ GiveBack(w) \/ Crash(w) \/ Fail(w)
  BY <1>2, <1>8, StopsGone DEF MarkDeleted, Finish, GiveBack, LetGo, Crash, Fail
<1>9. ASSUME NEW o \in Ops, Claim(w, o)
      PROVE  \A v \in Workers : Leads(jobs[v], jobs'[v])
  <2> DEFINE k == [Idle EXCEPT !.op = o, !.pc = IF o = DeleteOp THEN "find" ELSE "load"]
  <2>1. k.op = o /\ k.pc \notin Wrote \cup {"put"}
    BY DEF Idle, Wrote
  <2>2. Leads(j, k)
    BY <1>9, <2>1 DEF Leads, Claim, Wrote
  <2> QED
    BY <1>2, <1>9, <2>2 DEF Claim
<1> QED
  BY <1>4, <1>5, <1>6, <1>7, <1>8, <1>9

\* The write, and after it.
LEMMA AfterLeads ==
  ASSUME IInv, NEW w \in Workers,
         \/ Put(w) \/ Record(w) \/ Resume(w) \/ Renew(w) \/ Look(w)
         \/ Deadline(w) \/ Again(w) \/ RemoveApp(w)
  PROVE  \A v \in Workers : Leads(jobs[v], jobs'[v])
<1> DEFINE j == jobs[w]
<1>1. j \in Job
  BY DEF IInv, TypeOK
<1>2. ASSUME NEW k, Gone(j, k) \/ Leads(j, k), jobs' = [jobs EXCEPT ![w] = k]
      PROVE  \A v \in Workers : Leads(jobs[v], jobs'[v])
  BY <1>2, OneLeads
<1>3. ASSUME NEW pc \in {"accept", "look", "renew", "wait", "applied"},
             j.pc \in Wrote
      PROVE  Leads(j, [j EXCEPT !.pc = pc])
  BY <1>1, <1>3, GotoLeads DEF Pc, DeliverAt, VerifyAt
<1>4. CASE Record(w) \/ Renew(w) \/ Deadline(w) \/ Again(w)
  <2>1. j.pc \in Wrote
    BY <1>4 DEF Record, Renew, Deadline, Again, Wrote
  <2> QED
    BY <1>2, <1>3, <1>4, <2>1, StopsGone
       DEF Record, Renew, Deadline, Again, Goto, Becomes
<1>5. CASE Look(w)
  <2>1. j.pc \in Wrote /\ UNCHANGED app
    BY <1>5 DEF Look, Wrote, Becomes
  <2>2. app.observed \in Nat /\ j.meta \in Nat
    BY <1>1 DEF IInv, TypeOK, App, Job
  <2>3. j.pc = "look"
    BY <1>5 DEF Look
  <2>4. ~(app.observed < j.meta) => Leads(j, [j EXCEPT !.pc = "verified"])
    BY <1>1, <2>1, <2>2, <2>3, GotoLeads DEF Pc, VerifyAt
  <2> QED
    BY <1>2, <1>3, <1>5, <2>1, <2>4, StopsGone DEF Look, Becomes
<1>6. CASE Resume(w)
  <2> DEFINE k == [j EXCEPT !.pc = "renew", !.meta = written.meta]
  <2>1. k.op = j.op /\ k.pc = "renew" /\ k.meta = written.meta
    BY <1>1 DEF Job
  <2>2. j.pc = "resume" /\ j.op = written.generation => Leads(j, k)
    BY <1>1, <2>1 DEF Leads
  <2> HIDE DEF k
  <2>3. \/ j.pc = "resume" /\ j.op = written.generation /\ Becomes(w, k)
        \/ Becomes(w, Refused(j))
    BY <1>6 DEF Resume, k
  <2> QED
    BY <1>2, <2>2, <2>3, StopsGone DEF Becomes
<1>7. CASE RemoveApp(w)
  <2> DEFINE k == [j EXCEPT !.pc = "mark"]
  <2>1. Leads(j, k)
    BY <1>1 DEF Leads, Wrote, Job
  <2> QED
    BY <1>7, <2>1, TouchedLeads, DeliveryAssumption DEF RemoveApp
<1>8. CASE Put(w)
  <2> DEFINE done == [Idle EXCEPT !.op = j.op, !.pc = "record",
                        !.phase = j.phase, !.meta = Written(j.op).meta]
             m == [j EXCEPT !.pc = "get", !.seen = "none", !.tries = @ + 1]
  <2>1. CASE Becomes(w, Retry(j))
    BY <1>2, <2>1, StopsGone DEF Becomes
  <2>2. CASE Becomes(w, m)
    <3>1. Gone(j, m)
      BY <1>1 DEF Gone, Wrote, Job
    <3> QED
      BY <1>2, <2>2, <3>1 DEF Becomes
  <2>3. CASE /\ ~Conflict(j) /\ app' = Written(j.op)
             /\ \/ jobs' = [jobs EXCEPT ![w] = done]
                \/ jobs' = Touched([jobs EXCEPT ![w] = done], w)
    <3>1. done.op = j.op /\ done.pc = "record" /\ done.meta = Written(j.op).meta
      BY DEF Idle
    <3>2. j.pc = "put" /\ DeleteOp # None
      BY <1>8, DeliveryAssumption DEF Put, DeleteOp
    <3>3. Leads(j, done)
      BY <2>3, <3>1, <3>2 DEF Leads
    <3> HIDE DEF done
    <3> QED
      BY <1>2, <2>3, <3>3, TouchedLeads, DeliveryAssumption
  <2> QED
    BY <1>8, <2>1, <2>2, <2>3 DEF Put
<1> QED
  BY <1>4, <1>5, <1>6, <1>7, <1>8

\* Every step of the system, worker by worker.
LEMMA StepLeads ==
  ASSUME IInv, [Next]_vars PROVE \A v \in Workers : Leads(jobs[v], jobs'[v])
<1>1. CASE UNCHANGED jobs
  BY <1>1, SameLeads
<1>2. CASE Requests
  BY <1>1, <1>2 DEF Requests, StartRun, Decide, Pause, ResumeTarget, DeleteTarget
<1>3. ASSUME NEW w \in Workers, Work(w)
      PROVE  \A v \in Workers : Leads(jobs[v], jobs'[v])
  BY <1>3, EventsLead, BeforeLeads, AfterLeads DEF Work, DeliverRun, Verify, Delete
<1>4. CASE Clocks
  BY <1>1, <1>4 DEF Clocks, Due, LeaseExpires, WindowCloses
<1>5. CASE Reconcile \/ LoseApp
  BY <1>5, TouchedLeads DEF Reconcile, LoseApp
<1>6. CASE UNCHANGED vars
  BY <1>1, <1>6 DEF vars
<1> QED
  BY <1>2, <1>3, <1>4, <1>5, <1>6, BeforeLeads DEF Next, Environment
-----------------------------------------------------------------------------
(* What a step does to the App, when nobody but Kuben removes it.          *)

\* The deletion of the target is accepted.
Deletes == ops[DeleteOp].state # "absent" \/ \E w \in Workers : jobs[w].op = DeleteOp

\* The controller reported, a worker wrote, or a deletion removed it.
LEMMA StepApp ==
  ASSUME "removal" \notin Faults, IInv, [Next]_vars
  PROVE  \/ UNCHANGED app
         \/ /\ app'.live = app.live /\ app'.generation = app.generation
            /\ app'.meta = app.meta /\ app'.observed = app.meta
         \/ \E w \in Workers : /\ jobs[w].pc = "put" /\ ~Conflict(jobs[w])
                               /\ app' = Written(jobs[w].op)
         \/ app' = NoApp /\ Deletes
<1>1. CASE UNCHANGED app
  BY <1>1
<1>2. CASE \E w \in Workers : Put(w)
  BY <1>2 DEF Put, Becomes
<1>3. ASSUME NEW w \in Workers, RemoveApp(w) PROVE app' = NoApp /\ Deletes
  <2>1. jobs[w].op = DeleteOp
    BY <1>3, BusyWorker DEF RemoveApp, JobFenced, WorksOn, DeleteAt
  <2> QED
    BY <1>3, <2>1 DEF RemoveApp, Deletes
<1>4. ASSUME NEW w \in Workers, Work(w), ~Put(w), ~RemoveApp(w)
      PROVE  UNCHANGED app
  BY <1>4
  DEF Work, DeliverRun, Verify, Delete, Load, Expire, Hold, Ready, Prepare,
      GetApp, Fence, Record, Accept, Resume, Renew, Look, ToVerifying, Deadline,
      Again, FindTarget, MarkDeleted, End, Finish, GiveBack, LetGo, Advance,
      Becomes, Goto
<1>5. CASE Reconcile
  BY <1>5 DEF Reconcile, IInv, TypeOK, App
<1>6. CASE LoseApp
  BY <1>6 DEF LoseApp, Fault
<1>7. CASE Requests \/ (\E w \in Workers, o \in Ops : Claim(w, o)) \/ Clocks
           \/ (\E w \in Workers : Crash(w) \/ Fail(w)) \/ UNCHANGED vars
  <2>1. UNCHANGED app
    BY <1>7 DEF Requests, StartRun, Decide, Pause, ResumeTarget, DeleteTarget,
                Claim, Clocks, Due, LeaseExpires, WindowCloses, Crash, Fail, vars
  <2> QED
    BY <2>1
<1> QED
  BY <1>1, <1>2, <1>3, <1>4, <1>5, <1>6, <1>7 DEF Next, Environment

\* Only DeleteTarget accepts a deletion, and it is never taken back.
LEMMA StepDeletes ==
  ASSUME IInv, [Next]_vars, ~target'.deleting
  PROVE  /\ ~target.deleting
         /\ ops[DeleteOp].state = "absent" => ops'[DeleteOp].state = "absent"
<1>1. /\ target \in [generation : 0..MaxGeneration, paused : BOOLEAN,
                     deleting : BOOLEAN, deleted : BOOLEAN]
      /\ ops \in [Ops -> Op] /\ DeleteOp \in Ops /\ DeleteOp \notin Generations
  BY OpsFacts DEF IInv, TypeOK, Ops
<1> DEFINE Same == ~target.deleting /\ ops'[DeleteOp] = ops[DeleteOp]
           Goal == ~target.deleting /\ (ops[DeleteOp].state = "absent" =>
                                          ops'[DeleteOp].state = "absent")
<1>2. CASE target' = [target EXCEPT !.deleting = TRUE]
  BY <1>1, <1>2
<1>3. \/ ~target.deleting
      \/ target' = [target EXCEPT !.deleting = TRUE]
  <2>1. CASE UNCHANGED target
    BY <2>1
  <2>2. CASE Requests
    <3>1. CASE \/ target' = [target EXCEPT !.paused = TRUE]
               \/ target' = [target EXCEPT !.paused = FALSE]
               \/ target' = [target EXCEPT !.generation = target.generation + 1]
      BY <1>1, <3>1
    <3> QED
      BY <2>1, <2>2, <3>1
         DEF Requests, StartRun, Decide, Pause, ResumeTarget, DeleteTarget
  <2>3. ASSUME NEW w \in Workers, MarkDeleted(w) PROVE ~target.deleting
    BY <1>1, <2>3 DEF MarkDeleted
  <2>4. ASSUME NEW w \in Workers, Work(w), ~MarkDeleted(w)
        PROVE  UNCHANGED target
    BY <2>4
    DEF Work, DeliverRun, Verify, Delete, Load, Expire, Hold, Ready, Prepare,
        GetApp, Fence, Put, Record, Accept, Resume, Renew, Look, ToVerifying,
        Deadline, Again, FindTarget, RemoveApp, End, Finish, GiveBack, LetGo,
        Advance, Becomes, Goto
  <2>5. CASE (\E w \in Workers, o \in Ops : Claim(w, o)) \/ Clocks \/ Environment
             \/ UNCHANGED vars
    BY <2>5 DEF Claim, Clocks, Due, LeaseExpires, WindowCloses, Environment,
                Reconcile, LoseApp, Crash, Fail, vars
  <2> QED
    BY <2>1, <2>2, <2>3, <2>4, <2>5 DEF Next
<1>4. ASSUME ops[DeleteOp].state = "absent", ~target.deleting
      PROVE  ops'[DeleteOp].state = "absent"
  <2>1. ~DeleteTarget
    BY <1>1 DEF DeleteTarget
  <2>2. CASE UNCHANGED ops
    BY <1>4, <2>2
  <2>3. ASSUME NEW o \in Ops, NEW r, ops' = [ops EXCEPT ![o] = r],
               ops[o].state = "open" \/ o # DeleteOp \/ r.state = ops[o].state
        PROVE  ops'[DeleteOp].state = "absent"
    BY <1>1, <1>4, <2>3
  <2>4. Awake(ops[DeleteOp]).state = "absent"
    BY <1>1, <1>4 DEF Awake
  <2>5. CASE Requests
    <3>1. CASE \E e \in BOOLEAN, r \in Required : StartRun(e, r)
      <4>1. ops'[DeleteOp] \in {ops[DeleteOp], Awake(ops[DeleteOp])}
        BY <1>1, <3>1 DEF StartRun
      <4> QED
        BY <1>4, <2>4, <4>1
    <3>2. CASE ResumeTarget
      BY <1>1, <2>4, <3>2 DEF ResumeTarget
    <3>3. ASSUME NEW g \in Generations, NEW a \in Approvers,
                 NEW approve \in BOOLEAN, Decide(g, a, approve)
          PROVE  ops'[DeleteOp].state = "absent"
      BY <1>1, <1>4, <3>3 DEF Decide
    <3> QED
      BY <2>1, <2>2, <2>5, <3>1, <3>2, <3>3 DEF Requests, Pause
  <2>6. ASSUME NEW w \in Workers, Work(w) \/ Crash(w)
        PROVE  ops'[DeleteOp].state = "absent"
    <3>1. CASE \E row : LetGo(w, row)
      <4>1. CASE Holds(w)
        BY <1>1, <1>4, <3>1, <4>1 DEF LetGo, Holds
      <4> QED
        BY <1>4, <3>1, <4>1 DEF LetGo
    <3>2. CASE Renew(w) \/ Crash(w)
      <4>1. CASE Holds(w)
        BY <1>1, <1>4, <3>2, <4>1 DEF Renew, Crash, Holds
      <4> QED
        BY <1>4, <3>2, <4>1 DEF Renew, Crash, Becomes
    <3> QED
      BY <2>2, <2>6, <3>1, <3>2
      DEF Work, DeliverRun, Verify, Delete, Load, Expire, Hold, Ready, Prepare,
          GetApp, Fence, Put, Record, Accept, Resume, Look, ToVerifying,
          Deadline, Again, FindTarget, RemoveApp, MarkDeleted, End, Finish,
          GiveBack, Advance, Becomes, Goto
  <2>7. CASE (\E w \in Workers, o \in Ops : Claim(w, o)) \/ Clocks
    <3>1. ASSUME NEW o \in Ops, ops[o].state = "open" PROVE o # DeleteOp
      BY <1>4, <3>1
    <3> QED
      BY <1>1, <1>4, <2>2, <2>7, <3>1
         DEF Claim, Clocks, Due, LeaseExpires, WindowCloses
  <2>8. CASE Reconcile \/ LoseApp \/ (\E w \in Workers : Fail(w)) \/ UNCHANGED vars
    BY <2>2, <2>8 DEF Reconcile, LoseApp, Fail, vars
  <2> QED
    BY <2>5, <2>6, <2>7, <2>8 DEF Next, Environment
<1> QED
  BY <1>2, <1>3, <1>4
-----------------------------------------------------------------------------
(* The verdict is about the App the run wrote.                             *)

\* Until the target is deleted, the record and every worker after its write
\* know what stands; and what a worker saw reconciled still is.
VerifyInv ==
  /\ app.observed <= app.meta
  /\ ~target.deleting =>
       /\ ~Deletes
       /\ written.generation # 0 => Stands(app, written.generation, written.meta)
       /\ \A w \in Workers : jobs[w].pc \in Wrote =>
            /\ Stands(app, jobs[w].op, jobs[w].meta)
            /\ jobs[w].pc = "verified" /\ app.generation = jobs[w].op
                 => app.observed = app.meta

\* The App as a worker finds it at its write.
LEMMA WriteOver ==
  ASSUME IInv, NEW w \in Workers, jobs[w].pc = "put", ~Conflict(jobs[w])
  PROVE  /\ jobs[w].op \in Generations
         /\ app.live => app.generation <= jobs[w].op
<1>1. jobs[w].op \in Generations /\ jobs[w] \in Job /\ JobFenced(jobs[w])
  BY BusyWorker DEF DeleteAt
<1>2. app.live => jobs[w].seen = "fresh"
  BY <1>1 DEF Conflict, JobFenced, Job
<1> QED
  BY <1>1, <1>2 DEF JobFenced

\* What a write makes of the App.
LEMMA WrittenApp ==
  ASSUME IInv, NEW g \in Generations, app.live => app.generation <= g
  PROVE  LET new == Written(g)
         IN /\ new.live /\ new.generation = g
            /\ app.observed <= app.meta => new.observed <= new.meta
            /\ app.live /\ app.generation = g => new = app
<1>1. /\ app \in App /\ g \in 0..MaxGeneration
  BY DEF IInv, TypeOK, Generations
<1>2. CASE ~app.live
  BY <1>2 DEF Written, NoApp
<1>3. CASE app.live /\ app.generation = g
  BY <1>3 DEF Written
<1>4. CASE app.live /\ app.generation # g
  <2>1. Written(g) = [app EXCEPT !.generation = g, !.meta = app.meta + 1]
    BY <1>4 DEF Written
  <2> QED
    BY <1>1, <1>4, <2>1 DEF App
<1> QED
  BY <1>2, <1>3, <1>4

\* What stands keeps standing.
LEMMA StillStands ==
  ASSUME "removal" \notin Faults, IInv, [Next]_vars, ~Deletes,
         NEW g \in Nat, NEW m, Stands(app, g, m)
  PROVE  Stands(app', g, m)
<1>1. app \in App /\ app.generation \in Nat
  BY DEF IInv, TypeOK, App
<1>2. CASE UNCHANGED app
  BY <1>2 DEF Stands
<1>3. CASE /\ app'.live = app.live /\ app'.generation = app.generation
           /\ app'.meta = app.meta
  BY <1>3 DEF Stands
<1>4. ASSUME NEW w \in Workers, jobs[w].pc = "put", ~Conflict(jobs[w]),
             app' = Written(jobs[w].op)
      PROVE  Stands(app', g, m)
  <2> DEFINE h == jobs[w].op
  <2>1. h \in Generations /\ app.generation <= h
    BY <1>4, WriteOver DEF Stands
  <2>2. app'.live /\ app'.generation = h /\ (app.generation = h => app' = app)
    BY <1>4, <2>1, WrittenApp DEF Stands
  <2>3. h \in Nat
    BY <2>1, OpsFacts
  <2> QED
    BY <1>1, <2>1, <2>2, <2>3 DEF Stands
<1> QED
  BY <1>2, <1>3, <1>4, StepApp

LEMMA InitVerify == Init => VerifyInv
<1> SUFFICES ASSUME Init PROVE VerifyInv
  OBVIOUS
<1>1. app.observed = 0 /\ app.meta = 0 /\ written.generation = 0
  BY DEF Init, NoApp
<1>2. \A w \in Workers : jobs[w].op = None /\ jobs[w].pc = "idle"
  BY DEF Init, Idle
<1>3. None # DeleteOp /\ ops[DeleteOp].state = "absent"
  BY OpsFacts DEF Init, NoOp, Ops
<1> QED
  BY <1>1, <1>2, <1>3 DEF VerifyInv, Deletes, Wrote

LEMMA StepVerify ==
  ASSUME "removal" \notin Faults
  PROVE  IInv /\ VerifyInv /\ [Next]_vars => VerifyInv'
<1> SUFFICES ASSUME IInv, VerifyInv, [Next]_vars PROVE VerifyInv'
  OBVIOUS
<1>1. app \in App
  BY DEF IInv, TypeOK
<1>2. app'.observed <= app'.meta
  <2>1. CASE app'.meta = app.meta /\ app'.observed = app.meta
    BY <1>1, <2>1 DEF App
  <2>2. ASSUME NEW w \in Workers, jobs[w].pc = "put", ~Conflict(jobs[w]),
               app' = Written(jobs[w].op)
        PROVE  app'.observed <= app'.meta
    BY <2>2, WriteOver, WrittenApp DEF VerifyInv
  <2> QED
    BY <2>1, <2>2, StepApp DEF VerifyInv, NoApp
<1>3. ASSUME ~target'.deleting
      PROVE  /\ ~Deletes'
             /\ written'.generation # 0
                  => Stands(app', written'.generation, written'.meta)
             /\ \A w \in Workers : jobs'[w].pc \in Wrote =>
                  /\ Stands(app', jobs'[w].op, jobs'[w].meta)
                  /\ jobs'[w].pc = "verified" /\ app'.generation = jobs'[w].op
                       => app'.observed = app'.meta
  <2>1. ~target.deleting /\ ~Deletes
    BY <1>3, StepDeletes DEF VerifyInv
  <2>2. ops'[DeleteOp].state = "absent"
    BY <1>3, <2>1, StepDeletes DEF Deletes
  <2>3. \A w \in Workers : jobs'[w].op # DeleteOp
    BY <2>1, StepLeads DEF Leads, Deletes
  <2>4. ASSUME NEW w \in Workers, jobs[w].pc \in Wrote \cup {"resume", "put"}
        PROVE  jobs[w].op \in Nat /\ jobs[w].op # 0
    <3>1. jobs[w].op \in Generations
      BY <2>4, BusyWorker DEF Wrote, DeleteAt
    <3> QED
      BY <3>1, OpsFacts
  <2>5. written'.generation # 0 => Stands(app', written'.generation, written'.meta)
    <3>1. CASE UNCHANGED written
      <4>1. written.generation \in Nat
        BY DEF IInv, TypeOK
      <4> QED
        BY <2>1, <3>1, <4>1, StillStands DEF VerifyInv
    <3>2. ASSUME NEW w \in Workers, Record(w), ~UNCHANGED written
          PROVE  Stands(app', written'.generation, written'.meta)
      <4>1. /\ jobs[w].pc = "record"
            /\ written'.generation = jobs[w].op /\ written'.meta = jobs[w].meta
        BY <3>2 DEF Record, Becomes
      <4>2. jobs[w].op \in Nat /\ Stands(app, jobs[w].op, jobs[w].meta)
        BY <2>1, <2>4, <4>1 DEF VerifyInv, Wrote
      <4> QED
        BY <2>1, <4>1, <4>2, StillStands
    <3> QED
      BY <3>1, <3>2, OnlyRecordRecords
  <2>6. ASSUME NEW w \in Workers, jobs'[w].pc \in Wrote
        PROVE  Stands(app', jobs'[w].op, jobs'[w].meta)
    <3> DEFINE j == jobs[w]
               k == jobs'[w]
    <3>1. CASE j.pc \in Wrote /\ k.op = j.op /\ k.meta = j.meta
      BY <2>1, <2>4, <3>1, StillStands DEF VerifyInv
    <3>2. CASE /\ j.pc = "resume" /\ j.op = written.generation
               /\ k.op = j.op /\ k.meta = written.meta
      BY <2>1, <2>4, <3>2, StillStands DEF VerifyInv
    <3>3. CASE /\ j.pc = "put" /\ ~Conflict(j)
               /\ app' = Written(j.op) /\ k.op = j.op /\ k.meta = app'.meta
      <4>1. app'.live /\ app'.generation = j.op
        BY <3>3, WriteOver, WrittenApp
      <4> QED
        BY <2>4, <3>3, <4>1 DEF Stands
    <3> QED
      BY <2>6, <3>1, <3>2, <3>3, StepLeads DEF Leads
  <2>7. ASSUME NEW w \in Workers, jobs'[w].pc = "verified",
               app'.generation = jobs'[w].op
        PROVE  app'.observed = app'.meta
    <3> DEFINE j == jobs[w]
    <3>1. jobs'[w].op = j.op
      BY <2>7, StepLeads DEF Leads, Wrote
    <3>2. CASE j.pc = "look" /\ j.meta <= app.observed /\ UNCHANGED app
      <4>1. app.meta = j.meta
        BY <2>1, <2>7, <3>1, <3>2 DEF VerifyInv, Stands, Wrote
      <4> QED
        BY <1>1, <3>2, <4>1 DEF VerifyInv, App
    <3>3. CASE j.pc = "verified"
      <4>1. Stands(app, j.op, j.meta) /\ j.op \in Nat
        BY <2>1, <2>4, <3>3 DEF VerifyInv, Wrote
      <4>2. app.generation = j.op => app.observed = app.meta
        BY <2>1, <3>3 DEF VerifyInv, Wrote
      <4>3. CASE \E v \in Workers : /\ jobs[v].pc = "put" /\ ~Conflict(jobs[v])
                                    /\ app' = Written(jobs[v].op)
        <5>1. PICK v \in Workers : /\ jobs[v].pc = "put" /\ ~Conflict(jobs[v])
                                   /\ app' = Written(jobs[v].op)
          BY <4>3
        <5>2. app'.generation = jobs[v].op /\ app.generation <= jobs[v].op
              /\ (app.generation = jobs[v].op => app' = app)
          BY <4>1, <5>1, WriteOver, WrittenApp DEF Stands
        <5>3. app.generation >= j.op /\ app.generation \in Nat
          BY <1>1, <4>1 DEF Stands, App
        <5> QED
          BY <2>7, <3>1, <4>1, <4>2, <5>2, <5>3
      <4>4. CASE UNCHANGED app
        BY <2>7, <3>1, <4>2, <4>4
      <4> QED
        BY <2>1, <4>3, <4>4, StepApp
    <3> QED
      BY <2>7, <3>2, <3>3, StepLeads DEF Leads
  <2> QED
    BY <2>2, <2>3, <2>5, <2>6, <2>7 DEF Deletes
<1> QED
  BY <1>2, <1>3 DEF VerifyInv

\* Only a worker that verified a run makes it succeed, while it is unsettled.
LEMMA SucceedsBy ==
  ASSUME IInv, [Next]_vars, NEW g \in Generations,
         runs'[g].phase = "succeeded", runs[g].phase # "succeeded"
  PROVE  /\ runs[g].phase \notin Final
         /\ \E w \in Workers : jobs[w].pc = "verified" /\ jobs[w].op = g
<1>1. \A p, e : "succeeded" \in Apply(p, e) => p \notin Final /\ e = "verified"
  <2> SUFFICES ASSUME NEW p, NEW e, "succeeded" \in Apply(p, e)
               PROVE  p \notin Final /\ e = "verified"
    OBVIOUS
  <2>1. p \notin Final
    BY FinalAbsorbs
  <2>2. <<p, e, "succeeded">> \in Progress \cup Cancelling => e = "verified"
    BY DEF Progress, Cancelling
  <2>3. <<p, e, "succeeded">> \notin Blocking \cup Recovery
    BY DEF Blocking, Recovery
  <2> QED
    BY <2>1, <2>2, <2>3 DEF Apply, Transitions
<1>2. runs \in [Generations -> Run] /\ runs[g] \in Run
  BY DEF IInv, TypeOK
<1>3. ~UNCHANGED runs
  OBVIOUS
<1>4. ASSUME NEW w \in Workers, NEW e, NEW moved, Advance(w, e, moved)
      PROVE  /\ runs[g].phase \notin Final /\ jobs[w].op = g /\ e = "verified"
  <2>1. PICK q \in Apply(runs[jobs[w].op].phase, e) :
          runs' = [runs EXCEPT ![jobs[w].op].phase = q,
                               ![jobs[w].op].outcome = Coalesce(@, OutcomeOf(q))]
    BY <1>3, <1>4 DEF Advance
  <2>2. jobs[w].op = g /\ q = "succeeded"
    BY <1>2, <2>1 DEF Run
  <2> QED
    BY <1>1, <2>1, <2>2
<1>5. ASSUME NEW w \in Workers, Work(w)
      PROVE  runs[g].phase \notin Final /\ jobs[w].pc = "verified" /\ jobs[w].op = g
  <2>1. CASE Expire(w) \/ Ready(w) \/ Accept(w)
    BY <1>4, <2>1 DEF Expire, Ready, Accept
  <2>2. CASE End(w)
    <3>1. jobs[w].event # "verified"
      BY DEF IInv, TypeOK, Job
    <3> QED
      BY <1>4, <2>2, <3>1 DEF End
  <2>3. CASE ToVerifying(w)
    <3>1. \A p \in DOMAIN Steps : Steps[p] # "verified"
      BY DEF Steps
    <3> QED
      BY <1>3, <1>4, <2>3, <3>1 DEF ToVerifying, Goto, Becomes
  <2>4. CASE Prepare(w)
    <3>1. CASE runs' = [runs EXCEPT ![jobs[w].op].planned = TRUE]
      BY <1>2, <3>1 DEF Run
    <3> QED
      BY <1>3, <2>4, <3>1 DEF Prepare, Goto, Becomes
  <2>5. CASE ~(Expire(w) \/ Ready(w) \/ Accept(w) \/ End(w) \/ ToVerifying(w)
               \/ Prepare(w))
    BY <1>3, <1>5, <2>5
    DEF Work, DeliverRun, Verify, Delete, Load, Hold, GetApp, Fence, Put, Record,
        Resume, Renew, Look, Deadline, Again, FindTarget, RemoveApp, MarkDeleted,
        Finish, GiveBack, LetGo, Goto, Becomes
  <2> QED
    BY <2>1, <2>2, <2>3, <2>4, <2>5
<1>6. CASE Requests
  <2>1. ASSUME NEW h \in Generations, NEW a \in Approvers, NEW approve \in BOOLEAN,
               Decide(h, a, approve)
        PROVE  FALSE
    <3> DEFINE r == runs[h]
               s == IF approve THEN r.approvals \cup {a} ELSE r.approvals
               e == Decision(r, approve, s)
    <3>1. e # "verified"
      BY DEF Decision
    <3>2. CASE runs' = [runs EXCEPT ![h].approvals = s]
      BY <1>2, <3>2 DEF Run
    <3>3. ASSUME NEW q \in Apply(r.phase, e),
                 runs' = [runs EXCEPT ![h].approvals = s, ![h].phase = q,
                                      ![h].outcome = Coalesce(@, OutcomeOf(q))]
          PROVE  FALSE
      <4>1. h = g /\ q = "succeeded"
        BY <1>2, <3>3 DEF Run
      <4> QED
        BY <1>1, <3>1, <3>3, <4>1
    <3> QED
      BY <2>1, <3>2, <3>3 DEF Decide
  <2>2. ASSUME NEW x \in BOOLEAN, NEW n \in Required, StartRun(x, n) PROVE FALSE
    <3>1. \/ runs'[g] = [NoRun EXCEPT
                           !.phase = IF n > 0 THEN "awaitingApproval" ELSE "planned",
                           !.required = n, !.emergency = x]
          \/ runs'[g] = [runs[g] EXCEPT !.phase = "superseded"]
          \/ runs'[g] = runs[g]
      BY <2>2 DEF StartRun
    <3> QED
      BY <1>2, <3>1 DEF NoRun, Run
  <2> QED
    BY <1>3, <1>6, <2>1, <2>2
       DEF Requests, Pause, ResumeTarget, DeleteTarget
<1>7. ASSUME NEW h \in Generations, WindowCloses(h) PROVE FALSE
  BY <1>2, <1>7, WindowGrows
<1>8. CASE (\E w \in Workers, o \in Ops : Claim(w, o)) \/ Clocks \/ Environment
           \/ UNCHANGED vars
  BY <1>3, <1>7, <1>8 DEF Claim, Clocks, Due, LeaseExpires, Environment, Reconcile,
                          LoseApp, Crash, Fail, vars
<1> QED
  BY <1>5, <1>6, <1>8 DEF Next

\* A run becomes "succeeded" only while the App in the cluster is the one
\* written for it and its controller has reconciled it, for any number of
\* workers that crash, stall and fail, as long as neither the deletion of the
\* target nor anybody else removes the App.
THEOREM SuccessIsItsOwn ==
  ASSUME "removal" \notin Faults PROVE Spec => VerifiedItsOwn
<1> DEFINE Own(g) ==
             (/\ runs'[g].phase = "succeeded" /\ runs[g].phase # "succeeded"
              /\ ~target.deleting)
             => app.live /\ app.generation = g /\ app.observed = app.meta
<1>1. IInv /\ OneOwner /\ VerifyInv /\ [Next]_vars
        => [\A g \in Generations : Own(g)]_vars
  <2> SUFFICES ASSUME IInv, OneOwner, VerifyInv, [Next]_vars, NEW g \in Generations,
                      runs'[g].phase = "succeeded", runs[g].phase # "succeeded",
                      ~target.deleting
               PROVE  app.live /\ app.generation = g /\ app.observed = app.meta
    OBVIOUS
  <2>1. PICK w \in Workers : jobs[w].pc = "verified" /\ jobs[w].op = g
    BY SucceedsBy
  <2>2. g \in Nat /\ target.generation \in Nat /\ app.generation \in Nat
    BY OpsFacts, DeliveryAssumption DEF IInv, TypeOK, App
  <2>3. g <= target.generation
    <3>1. JobFenced(jobs[w]) /\ jobs[w].op # None
      BY <2>1, BusyWorker
    <3> QED
      BY <2>1, <3>1 DEF JobFenced
  <2>4. g = target.generation
    BY <2>2, <2>3, SucceedsBy DEF OneOwner
  <2>5. Stands(app, g, jobs[w].meta)
    BY <2>1 DEF VerifyInv, Wrote
  <2>6. app.generation = g
    BY <2>2, <2>4, <2>5 DEF Stands, IInv, FenceInv
  <2> QED
    BY <2>1, <2>5, <2>6 DEF VerifyInv, Stands, Wrote
<1>2. IInv /\ VerifyInv /\ [Next]_vars => VerifyInv'
  BY StepVerify
<1>3. Spec => [][\A g \in Generations : Own(g)]_vars
  BY <1>1, <1>2, InitVerify, AlwaysIInv, OnlyOneRunIsAlive, PTL DEF Spec
<1> QED
  BY <1>3 DEF VerifiedItsOwn

\* The record never outruns the App: what a resumed verification and the
\* drift watch rest on is there, or a newer generation is, for any number of
\* workers that crash, stall and fail between writing and recording, as long
\* as neither the deletion of the target nor anybody else removes the App.
THEOREM RecordIsOfTheApp ==
  ASSUME "removal" \notin Faults PROVE Spec => []RecordStands
<1>1. IInv /\ VerifyInv /\ [Next]_vars => VerifyInv'
  BY StepVerify
<1>2. VerifyInv => RecordStands
  BY DEF VerifyInv, RecordStands
<1> QED
  BY <1>1, <1>2, InitVerify, AlwaysIInv, PTL DEF Spec
-----------------------------------------------------------------------------
(* The pause.  DeliveryHistory adds to Delivery what is remembered of it.  *)

LEMMA HistoryOfDelivery == /\ HInit => Init
                           /\ [HNext]_hvars => [Next]_vars
  BY DEF HInit, HNext, hvars, vars

LEMMA AlwaysHIInv == HSpec => []IInv
  BY HistoryOfDelivery, InitIInv, StepIInv, PTL DEF HSpec

\* The reason of an accepted run never changes.
LEMMA EmergencyStays ==
  ASSUME IInv, [Next]_vars, NEW g \in Generations, g <= target.generation
  PROVE  runs'[g].emergency = runs[g].emergency
<1>1. runs \in [Generations -> Run] /\ runs[g] \in Run
      /\ g \in Nat /\ target.generation \in Nat
  BY OpsFacts, DeliveryAssumption DEF IInv, TypeOK
<1>2. CASE UNCHANGED runs
  BY <1>2
<1>3. ASSUME NEW w \in Workers, NEW e, NEW moved, Advance(w, e, moved)
      PROVE  runs'[g].emergency = runs[g].emergency
  <2>1. ASSUME NEW q,
               runs' = [runs EXCEPT
                          ![jobs[w].op].phase = q,
                          ![jobs[w].op].outcome = Coalesce(@, OutcomeOf(q))]
        PROVE  runs'[g].emergency = runs[g].emergency
    BY <1>1, <2>1 DEF Run
  <2> QED
    BY <1>2, <1>3, <2>1 DEF Advance
<1>4. ASSUME NEW w \in Workers, Work(w)
      PROVE  runs'[g].emergency = runs[g].emergency
  <2>1. CASE Expire(w) \/ Ready(w) \/ Accept(w) \/ End(w) \/ ToVerifying(w)
    BY <1>2, <1>3, <2>1
       DEF Expire, Ready, Accept, End, ToVerifying, Goto, Becomes
  <2>2. CASE Prepare(w)
    <3>1. CASE runs' = [runs EXCEPT ![jobs[w].op].planned = TRUE]
      BY <1>1, <3>1 DEF Run
    <3> QED
      BY <1>2, <2>2, <3>1 DEF Prepare, Goto, Becomes
  <2>3. CASE ~(Expire(w) \/ Ready(w) \/ Accept(w) \/ End(w) \/ ToVerifying(w)
               \/ Prepare(w))
    BY <1>2, <1>4, <2>3
    DEF Work, DeliverRun, Verify, Delete, Load, Hold, GetApp, Fence, Put, Record,
        Resume, Renew, Look, Deadline, Again, FindTarget, RemoveApp, MarkDeleted,
        Finish, GiveBack, LetGo, Goto, Becomes
  <2> QED
    BY <2>1, <2>2, <2>3
<1>5. CASE Requests
  <2>1. ASSUME NEW h \in Generations, NEW a \in Approvers, NEW approve \in BOOLEAN,
               Decide(h, a, approve)
        PROVE  runs'[g].emergency = runs[g].emergency
    <3>1. ASSUME NEW s, NEW q,
                 \/ runs' = [runs EXCEPT ![h].approvals = s]
                 \/ runs' = [runs EXCEPT ![h].approvals = s, ![h].phase = q,
                                         ![h].outcome = Coalesce(@, OutcomeOf(q))]
          PROVE  runs'[g].emergency = runs[g].emergency
      BY <1>1, <3>1 DEF Run
    <3> QED
      BY <2>1, <3>1 DEF Decide
  <2>2. ASSUME NEW x \in BOOLEAN, NEW n \in Required, StartRun(x, n)
        PROVE  runs'[g].emergency = runs[g].emergency
    <3>1. \/ runs'[g] = [runs[g] EXCEPT !.phase = "superseded"]
          \/ runs'[g] = runs[g]
      BY <1>1, <2>2 DEF StartRun
    <3> QED
      BY <1>1, <3>1 DEF Run
  <2> QED
    BY <1>2, <1>5, <2>1, <2>2 DEF Requests, Pause, ResumeTarget, DeleteTarget
<1>6. ASSUME NEW h \in Generations, WindowCloses(h)
      PROVE  runs'[g].emergency = runs[g].emergency
  <2>1. runs' = [runs EXCEPT ![h].expired = TRUE]
    BY <1>6 DEF WindowCloses
  <2> QED
    BY <1>1, <2>1 DEF Run
<1>7. CASE (\E w \in Workers, o \in Ops : Claim(w, o)) \/ Clocks \/ Environment
           \/ UNCHANGED vars
  BY <1>2, <1>6, <1>7 DEF Claim, Clocks, Due, LeaseExpires, Environment, Reconcile,
                          LoseApp, Crash, Fail, vars
<1> QED
  BY <1>4, <1>5, <1>7 DEF Next

\* A pause begins with a request, and no worker moves in it.
LEMMA PauseBegins ==
  ASSUME IInv, [Next]_vars, target'.paused, ~target.paused
  PROVE  UNCHANGED jobs
<1>1. target \in [generation : 0..MaxGeneration, paused : BOOLEAN,
                  deleting : BOOLEAN, deleted : BOOLEAN]
  BY DEF IInv, TypeOK
<1>2. CASE Requests
  BY <1>2 DEF Requests, StartRun, Decide, Pause, ResumeTarget, DeleteTarget
<1>3. ASSUME NEW w \in Workers, MarkDeleted(w) PROVE FALSE
  BY <1>1, <1>3 DEF MarkDeleted
<1>4. ASSUME NEW w \in Workers, Work(w), ~MarkDeleted(w) PROVE UNCHANGED target
  BY <1>4
  DEF Work, DeliverRun, Verify, Delete, Load, Expire, Hold, Ready, Prepare,
      GetApp, Fence, Put, Record, Accept, Resume, Renew, Look, ToVerifying,
      Deadline, Again, FindTarget, RemoveApp, End, Finish, GiveBack, LetGo,
      Advance, Becomes, Goto
<1>5. CASE (\E w \in Workers, o \in Ops : Claim(w, o)) \/ Clocks \/ Environment
           \/ UNCHANGED vars
  BY <1>5 DEF Claim, Clocks, Due, LeaseExpires, WindowCloses, Environment,
              Reconcile, LoseApp, Crash, Fail, vars
<1> QED
  BY <1>2, <1>3, <1>4, <1>5 DEF Next

\* While a target is paused, only an emergency rollback and the workers that
\* were already past their last check write its App.
THEOREM PauseStopsWrites == HSpec => []PauseHolds
<1>1. HInit => PauseHolds
  BY DEF HInit, Init, PauseHolds
<1>2. IInv /\ PauseHolds /\ [HNext]_hvars => PauseHolds'
  <2> SUFFICES ASSUME IInv, PauseHolds, [HNext]_hvars, target'.paused,
                      NEW w \in Workers, jobs'[w].pc = "put"
               PROVE  w \in late' \/ runs'[jobs'[w].op].emergency
    BY DEF PauseHolds, AtWrite
  <2>1. [Next]_vars
    BY HistoryOfDelivery
  <2>2. CASE UNCHANGED hvars
    BY <2>2 DEF hvars, vars, PauseHolds, AtWrite
  <2>3. CASE HNext /\ ~target.paused
    <3>1. late' = AtWrite /\ UNCHANGED jobs
      BY <2>1, <2>3, PauseBegins DEF HNext
    <3> QED
      BY <3>1 DEF AtWrite
  <2>4. CASE HNext /\ target.paused
    <3> DEFINE g == jobs[w].op
    <3>1. jobs'[w].op = g /\ jobs[w].pc \in {"put", "recheck"}
      BY <2>1, StepLeads, StepCarries DEF Leads, Carries, Delivering
    <3>2. g \in Generations /\ g <= target.generation
      BY <3>1, BusyWorker DEF DeleteAt, JobFenced
    <3>3. runs'[g].emergency = runs[g].emergency
      BY <2>1, <3>2, EmergencyStays
    <3>4. CASE jobs[w].pc = "put" /\ w \in late
      BY <2>4, <3>4 DEF HNext
    <3>5. CASE runs[g].emergency
      BY <3>1, <3>3, <3>5
    <3>6. CASE jobs[w].pc = "recheck"
      BY <2>1, <2>4, <3>5, <3>6, StepLeads DEF Leads
    <3> QED
      BY <2>4, <3>1, <3>4, <3>5, <3>6 DEF PauseHolds, AtWrite
  <2> QED
    BY <2>2, <2>3, <2>4
<1> QED
  BY <1>1, <1>2, AlwaysHIInv, PTL DEF HSpec
=============================================================================
