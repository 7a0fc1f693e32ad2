------------------------------ MODULE Delivery ------------------------------
(***************************************************************************)
(* Delivery of one application target by the materializer (ADR-032).       *)
(*                                                                         *)
(* Requests accept deployment runs in SQL; any number of workers claim the *)
(* operations of these runs under a lease and a fence and carry each run   *)
(* from "planned" to a verdict, writing the target's App object under the  *)
(* generation fence of ADR-027.  A pause, an approval, a newer run or the  *)
(* deletion of the target may come between any two steps of a worker.      *)
(*                                                                         *)
(* One step of the model is one SQL transaction, one Kubernetes API call,  *)
(* or one tick of a clock.  A target's runs are numbered by the generation *)
(* they own, and a run and its operation share that number.                *)
(***************************************************************************)
EXTENDS RunPhase, Naturals, FiniteSets

CONSTANTS
  Workers,         \* materializer processes (store.Claim is per process)
  None,            \* no worker, no operation
  MaxGeneration,   \* bound: runs accepted
  MaxAttempts,     \* maxAttempts: claims before an error fails the run
  MaxConflicts,    \* maxConflicts: 409s before the attempt is retried
  MaxFaults,       \* bound: how often something goes wrong
  Faults,          \* which of "crash", "stall", "error", "removal" do
  Approvers,       \* people who may decide on a parked run
  Required,        \* approvals the environment's policy may ask for
  Controls         \* which of "pause", "emergency", "delete" are used

ASSUME DeliveryAssumption ==
  /\ None \notin Workers /\ None \notin Nat
  /\ MaxGeneration \in Nat /\ MaxAttempts \in Nat \ {0}
  /\ MaxConflicts \in Nat \ {0} /\ MaxFaults \in Nat
  /\ Required \subseteq Nat /\ 0 \in Required
  /\ IsFiniteSet(Approvers)
  /\ Faults \subseteq {"crash", "stall", "error", "removal"}
  /\ Controls \subseteq {"pause", "emergency", "delete"}

Generations == 1..MaxGeneration

\* The operation of kind "target.delete"; the others are runs.
DeleteOp == 0
Ops == Generations \cup {DeleteOp}

VARIABLES
  target,   \* application_targets: desired generation and its controls
  runs,     \* deployment_runs, by generation
  ops,      \* operations, by the generation of their run
  written,  \* target_materializations: the last recorded write
  app,      \* the App object in the cluster, and its status
  jobs,     \* the claim each worker holds and where it is with it
  faults    \* faults so far, for the bound

vars == <<target, runs, ops, written, app, jobs, faults>>

NoPhase == "absent"     \* a run that was not accepted yet

\* error_code of an operation: why a claim was given back ("Paused",
\* "AwaitingApproval", "error") or how its run ended ("refused" stands for
\* every refusal code, "ApprovalExpired", "RetriesExhausted").
Code == {"none", "Paused", "AwaitingApproval", "error", "refused",
         "ApprovalExpired", "RetriesExhausted"}

Run == [phase : Phase \cup {NoPhase},
        outcome : {NoOutcome, "succeeded", "failed", "cancelled"},
        required : Required,          \* approvals_required
        approvals : SUBSET Approvers, \* run_approvals, decision 'approved'
        expired : BOOLEAN,            \* the approval window has closed
        emergency : BOOLEAN,          \* reason = 'emergency'
        planned : BOOLEAN]            \* render_plan_id is set

\* fence: the worker whose claim raised the fence last, while it still
\* works under that claim; fences are only compared with a claim's own.
\* leased: lease_until is in the future.  due: next_attempt_at has passed.
Op == [state : {"absent", "open", "done"},
       phase : Phase \cup {NoPhase},
       code : Code,
       fence : Workers \cup {None},
       leased : BOOLEAN,
       due : BOOLEAN,
       attempt : 0..MaxAttempts]

\* The App as written for a generation (its annotation), its
\* metadata.generation (meta) and what its controller reports.  The specs of
\* two runs differ, so a write for another generation raises meta.
App == [live : BOOLEAN,
        generation : 0..MaxGeneration,
        meta : Nat,
        observed : Nat,
        ready : {"unknown", "true", "failed"}]

NoApp == [live |-> FALSE, generation |-> 0, meta |-> 0, observed |-> 0,
          ready |-> "unknown"]

\* Where a worker is: the steps of a run's delivery, of its verification, of
\* a deletion, and of the end of a claim.
DeliverAt == {"load", "hold", "ready", "expire", "prepare", "get", "fence",
              "recheck", "put", "record", "accept"}
VerifyAt == {"resume", "renew", "look", "applied", "verified", "wait"}
DeleteAt == {"find", "remove", "mark"}
Pc == {"idle", "end", "finish", "giveback"}
      \cup DeliverAt \cup VerifyAt \cup DeleteAt

\* seen: the App as the worker last read it for a write, against the App
\* now: "absent" (there was none), "fresh" (same resourceVersion), "stale".
Job == [op : Ops \cup {None},
        pc : Pc,
        phase : Phase \cup {NoPhase},
        seen : {"none", "absent", "fresh", "stale"},
        tries : 0..(MaxConflicts - 1),
        meta : Nat,
        event : {"none", "failed", "superseded"},
        code : Code]

Idle == [op |-> None, pc |-> "idle", phase |-> NoPhase, seen |-> "none",
         tries |-> 0, meta |-> 0, event |-> "none", code |-> "none"]

NoRun == [phase |-> NoPhase, outcome |-> NoOutcome,
          required |-> 0, approvals |-> {}, expired |-> FALSE,
          emergency |-> FALSE, planned |-> FALSE]

NoOp == [state |-> "absent", phase |-> NoPhase, code |-> "none",
         fence |-> None, leased |-> FALSE, due |-> FALSE, attempt |-> 0]

Init ==
  /\ target = [generation |-> 0, paused |-> FALSE,
               deleting |-> FALSE, deleted |-> FALSE]
  /\ runs = [g \in Generations |-> NoRun]
  /\ ops = [o \in Ops |-> NoOp]
  /\ written = [generation |-> 0, meta |-> 0]
  /\ app = NoApp
  /\ jobs = [w \in Workers |-> Idle]
  /\ faults = 0
-----------------------------------------------------------------------------
(***************************************************************************)
(* Requests: one SQL transaction each, the target row locked.              *)
(***************************************************************************)

Awake(op) == IF op.state = "open" THEN [op EXCEPT !.due = TRUE] ELSE op

OpenOp(due) == [NoOp EXCEPT !.state = "open", !.due = due]

\* Defect: a failed run counts as settled for good.
OlderButFailed(g) ==
  {h \in Generations : h < g /\ runs[h].phase \notin Final \cup {"failed"}}

\* Older runs that are not settled for good; a failed run is among them.
Older(g) == {h \in Generations : h < g /\ runs[h].phase \notin Final}

\* store.startWith with the generation the caller expected still current:
\* the run is accepted with its operation, older runs are superseded and
\* their operations woken, and a run that needs approvals is parked.
StartRun(emergency, required) ==
  LET g == target.generation + 1
      parked == required > 0
  IN /\ g \in Generations
     /\ ~target.deleting
     /\ emergency => required = 0 /\ "emergency" \in Controls
     /\ target' = [target EXCEPT !.generation = g]
     /\ runs' = [h \in Generations |->
          IF h = g
            THEN [NoRun EXCEPT
                    !.phase = IF parked THEN "awaitingApproval" ELSE "planned",
                    !.required = required, !.emergency = emergency]
            ELSE IF h \in Older(g)
              THEN [runs[h] EXCEPT !.phase = "superseded"]
              ELSE runs[h]]
     /\ ops' = [o \in Ops |->
          IF o = g THEN OpenOp(~parked)
          ELSE IF o \in Older(g) THEN Awake(ops[o]) ELSE ops[o]]
     /\ UNCHANGED <<written, app, jobs, faults>>

\* Defect: the new approval is counted twice.
DecisionCountsTwice(r, approve, approvals) ==
  IF ~approve THEN "rejected"
  ELSE IF Cardinality(approvals) + 1 >= r.required THEN "approved"
  ELSE "waiting"

\* policy.Decide: one rejection settles the run, and so do enough approvals.
Decision(r, approve, approvals) ==
  IF ~approve THEN "rejected"
  ELSE IF Cardinality(approvals) >= r.required THEN "approved"
  ELSE "waiting"

\* store.DecideRun, for someone other than the requester who has not decided
\* yet; a decision that settles the run moves it and wakes its operation.
Decide(g, a, approve) ==
  LET r == runs[g]
      approvals == IF approve THEN r.approvals \cup {a} ELSE r.approvals
      event == Decision(r, approve, approvals)
  IN /\ r.phase = "awaitingApproval" /\ ~r.expired
     /\ a \notin r.approvals
     /\ \/ /\ event = "waiting"
           /\ runs' = [runs EXCEPT ![g].approvals = approvals]
           /\ UNCHANGED ops
        \/ /\ \E q \in Apply(r.phase, event) :
                runs' = [runs EXCEPT ![g].approvals = approvals,
                                     ![g].phase = q,
                                     ![g].outcome = Coalesce(@, OutcomeOf(q))]
           /\ ops' = [ops EXCEPT ![g] = Awake(@)]
     /\ UNCHANGED <<target, written, app, jobs, faults>>

\* store.PauseTarget and store.ResumeTarget; resuming wakes the target's
\* operations.
Pause ==
  /\ "pause" \in Controls
  /\ ~target.paused /\ ~target.deleting
  /\ target' = [target EXCEPT !.paused = TRUE]
  /\ UNCHANGED <<runs, ops, written, app, jobs, faults>>

ResumeTarget ==
  /\ target.paused
  /\ target' = [target EXCEPT !.paused = FALSE]
  /\ ops' = [o \in Ops |-> Awake(ops[o])]
  /\ UNCHANGED <<runs, written, app, jobs, faults>>

\* httpapi.DeleteApp: the target is marked deleting and the operation that
\* removes its objects is accepted, in one transaction.
DeleteTarget ==
  /\ "delete" \in Controls
  /\ ~target.deleting
  /\ target' = [target EXCEPT !.deleting = TRUE]
  /\ ops' = [ops EXCEPT ![DeleteOp] = OpenOp(TRUE)]
  /\ UNCHANGED <<runs, written, app, jobs, faults>>
-----------------------------------------------------------------------------
(***************************************************************************)
(* How the work on a claim stops (the stop types of materializer.go): the  *)
(* job a worker goes on with.                                              *)
(***************************************************************************)

\* The claim's fence is the operation's, and the operation is not settled.
Holds(w) == LET o == jobs[w].op
            IN ops[o].fence = w /\ ops[o].state = "open"

Stop(j, pc, code) == [Idle EXCEPT !.op = j.op, !.pc = pc, !.code = code]

\* stopSettled: finish the operation in this phase.
Settled(j, phase, code) == [Stop(j, "finish", code) EXCEPT !.phase = phase]

\* stopRefused and stopSuperseded become the run's last event.
Refused(j) == [Stop(j, "end", "refused") EXCEPT !.event = "failed"]
Superseded(j) == [Stop(j, "end", "none") EXCEPT !.event = "superseded"]

\* stopWait: give the claim back.
Wait(j, code) == Stop(j, "giveback", code)

\* Defect: the attempts are not counted.
RetryForEver(j) == Wait(j, "error")

\* stopRetry: give the claim back; the last attempt ends the run (carry),
\* unless it could not be read or is ending already.  Lifecycle operations
\* never give up.
Retry(j) ==
  IF /\ j.op # DeleteOp /\ j.pc \notin {"load", "end"}
     /\ ops[j.op].attempt >= MaxAttempts
  THEN [Stop(j, "end", "RetriesExhausted") EXCEPT !.event = "failed"]
  ELSE Wait(j, "error")

\* Worker w's job at step pc becomes j; nothing else changes.
Becomes(w, j) ==
  /\ jobs' = [jobs EXCEPT ![w] = j]
  /\ UNCHANGED <<target, runs, ops, written, app, faults>>

\* Something goes wrong.
Fault(kind) ==
  /\ kind \in Faults /\ faults < MaxFaults
  /\ faults' = faults + 1

Goto(w, pc) == Becomes(w, [jobs[w] EXCEPT !.pc = pc])

\* Worker.advance: event e on the run of w's claim.  Under the fence a legal
\* event moves the run and the worker goes on with `moved`, unless the reply
\* to its commit is lost; an illegal one means the run was settled meanwhile,
\* or is an error; without the fence the worker drops everything.
Advance(w, e, moved) ==
  LET j == jobs[w]
      p == runs[j.op].phase
  IN /\ \/ /\ Holds(w)
           /\ \E q \in Apply(p, e) :
                /\ runs' = [runs EXCEPT
                              ![j.op].phase = q,
                              ![j.op].outcome = Coalesce(@, OutcomeOf(q))]
                /\ \/ /\ jobs' = [jobs EXCEPT ![w] = [moved EXCEPT !.phase = q]]
                      /\ UNCHANGED faults
                   \/ /\ jobs' = [jobs EXCEPT ![w] = Retry(j)]
                      /\ Fault("error")
        \/ /\ Holds(w)
           /\ Apply(p, e) = {}
           /\ jobs' = [jobs EXCEPT ![w] = IF p \in Final
                                            THEN Settled(j, p, "none")
                                            ELSE Retry(j)]
           /\ UNCHANGED <<runs, faults>>
        \/ /\ ~Holds(w)
           /\ jobs' = [jobs EXCEPT ![w] = Idle]
           /\ UNCHANGED <<runs, faults>>
     /\ UNCHANGED <<target, ops, written, app>>
-----------------------------------------------------------------------------
(***************************************************************************)
(* The worker: claim, then carry the run as far as it goes.                *)
(***************************************************************************)

\* store.ClaimOperation: a due operation that is not leased; the claim
\* raises the fence and counts as an attempt, whatever comes of it.
Claim(w, o) ==
  /\ jobs[w].pc = "idle"
  /\ ops[o].state = "open" /\ ops[o].due /\ ~ops[o].leased
  /\ ops' = [ops EXCEPT ![o].fence = w, ![o].leased = TRUE,
                        ![o].attempt = IF @ < MaxAttempts THEN @ + 1 ELSE @]
  /\ jobs' = [jobs EXCEPT ![w] =
                [Idle EXCEPT !.op = o,
                             !.pc = IF o = DeleteOp THEN "find" ELSE "load"]]
  /\ UNCHANGED <<target, runs, written, app, faults>>

\* The step after the first pause check (Worker.drive): a planned run is
\* made ready, one pending delivery is delivered.
Deliver(j) ==
  [j EXCEPT !.pc = IF j.phase = "planned" THEN "ready" ELSE "prepare"]

\* Worker.carry and the head of Worker.drive: the run and its target are
\* read in one transaction, and what was read decides.
Load(w) ==
  LET r == runs[jobs[w].op]
      j == [jobs[w] EXCEPT !.phase = r.phase]
  IN /\ jobs[w].pc = "load"
     /\ Becomes(w,
          IF r.phase \in Final \cup {"failed"} THEN Settled(j, r.phase, "none")
          ELSE IF target.deleting THEN Refused(j)
          ELSE IF r.phase = "awaitingApproval"
            THEN IF r.expired THEN [j EXCEPT !.pc = "expire"]
                 ELSE Wait(j, "AwaitingApproval")
          ELSE IF r.phase \in {"planned", "pendingDelivery"}
            THEN IF r.emergency THEN Deliver(j) ELSE [j EXCEPT !.pc = "hold"]
          ELSE IF r.phase \in Delivered \ {"blocked"}
            THEN [j EXCEPT !.pc = "resume"]
          ELSE Retry([j EXCEPT !.pc = "resume"]))

\* Defect: a closed window is waited for as an open one is.
ExpireWaits(w) ==
  /\ jobs[w].pc = "expire"
  /\ Becomes(w, Wait(jobs[w], "AwaitingApproval"))

\* Defect: the operation is finished, but the run is not told.
ExpireQuietly(w) ==
  /\ jobs[w].pc = "expire"
  /\ Becomes(w, Settled(jobs[w], "cancelled", "ApprovalExpired"))

\* Worker.awaitApproval after the window closed.
Expire(w) ==
  /\ jobs[w].pc = "expire"
  /\ Advance(w, "rejected", Settled(jobs[w], NoPhase, "ApprovalExpired"))

\* Defect: the pause is only looked at before delivery.
HoldOnce(w) ==
  LET j == jobs[w]
  IN \/ /\ j.pc = "hold"
        /\ Becomes(w, IF target.paused /\ ~runs[j.op].emergency
                        THEN Wait(j, "Paused") ELSE Deliver(j))
     \/ /\ j.pc = "recheck"
        /\ Goto(w, "put")

\* Worker.holdIfPaused, before delivery and again before the write.
Hold(w) ==
  LET j == jobs[w]
  IN /\ j.pc \in {"hold", "recheck"}
     /\ Becomes(w,
          IF target.paused /\ ~runs[j.op].emergency THEN Wait(j, "Paused")
          ELSE IF j.pc = "hold" THEN Deliver(j)
          ELSE [j EXCEPT !.pc = "put"])

Ready(w) ==
  /\ jobs[w].pc = "ready"
  /\ Advance(w, "readyForDelivery", [jobs[w] EXCEPT !.pc = "prepare"])

\* Defect: the render plan is not stored before the write.
PrepareUnfrozen(w) ==
  /\ jobs[w].pc = "prepare"
  /\ Goto(w, "get")

\* Worker.prepare: the render plan is frozen once, under the fence, before
\* the first write; a run that cannot be rendered is refused.
Prepare(w) ==
  LET j == jobs[w]
  IN /\ j.pc = "prepare"
     /\ \/ /\ runs[j.op].planned
           /\ Goto(w, "get")
        \/ /\ ~runs[j.op].planned /\ Holds(w)
           /\ runs' = [runs EXCEPT ![j.op].planned = TRUE]
           /\ jobs' = [jobs EXCEPT ![w].pc = "get"]
           /\ UNCHANGED <<target, ops, written, app, faults>>
        \/ /\ ~runs[j.op].planned /\ ~Holds(w)
           /\ Becomes(w, Idle)
        \/ Becomes(w, Refused(j))

(***************************************************************************)
(* Worker.writeApp: read the object, then SQL, then write with the         *)
(* resourceVersion that was read (fence.go).                               *)
(***************************************************************************)

\* A change of the App outdates what the workers other than w have read.
Touched(js, w) ==
  [v \in Workers |-> IF v # w /\ js[v].seen = "fresh"
                       THEN [js[v] EXCEPT !.seen = "stale"] ELSE js[v]]

GetApp(w) ==
  /\ jobs[w].pc = "get"
  /\ Becomes(w, [jobs[w] EXCEPT !.pc = "fence",
                                !.seen = IF app.live THEN "fresh" ELSE "absent"])

\* Defect: an older generation passes the fence.
FenceLenient(w) ==
  /\ jobs[w].pc = "fence"
  /\ IF target.generation >= jobs[w].op THEN Goto(w, "recheck")
                                        ELSE Becomes(w, Superseded(jobs[w]))

\* Worker.currentGeneration and FenceFor.
Fence(w) ==
  /\ jobs[w].pc = "fence"
  /\ IF target.generation = jobs[w].op THEN Goto(w, "recheck")
                                       ELSE Becomes(w, Superseded(jobs[w]))

\* Defect: an update does not carry the resourceVersion that was read.
ConflictOfCreate(j) == j.seen = "absent" /\ app.live

\* The API server refuses a create of what exists and an update of what
\* changed since it was read.
Conflict(j) == j.seen = "stale" \/ (j.seen = "absent" /\ app.live)

\* Defect: one conflict too many.
LastConflictLate(j) == j.tries = MaxConflicts

\* The conflict that makes writeApp give up for this attempt.
LastConflict(j) == j.tries + 1 = MaxConflicts

\* The App after generation g is written over it.
Written(g) ==
  IF ~app.live THEN [NoApp EXCEPT !.live = TRUE, !.generation = g, !.meta = 1]
  ELSE IF app.generation = g THEN app
  ELSE [app EXCEPT !.generation = g, !.meta = @ + 1]

\* kube.put, and the conflict loop around it.
Put(w) ==
  LET j == jobs[w]
      new == Written(j.op)
      done == [Idle EXCEPT !.op = j.op, !.pc = "record", !.phase = j.phase,
                           !.meta = new.meta]
  IN /\ j.pc = "put"
     /\ \/ /\ Conflict(j)
           /\ Becomes(w, IF LastConflict(j) THEN Retry(j)
                         ELSE [j EXCEPT !.pc = "get", !.seen = "none",
                                        !.tries = @ + 1])
        \/ /\ ~Conflict(j)
           /\ app' = new
           /\ jobs' = LET js == [jobs EXCEPT ![w] = done]
                      IN IF new = app THEN js ELSE Touched(js, w)
           /\ UNCHANGED <<target, runs, ops, written, faults>>

\* store.RecordMaterialization: under the fence, and never over the record
\* of a newer generation.
Record(w) ==
  LET j == jobs[w]
  IN /\ j.pc = "record"
     /\ IF Holds(w) /\ written.generation <= j.op
        THEN /\ written' = [generation |-> j.op, meta |-> j.meta]
             /\ jobs' = [jobs EXCEPT ![w].pc = "accept"]
             /\ UNCHANGED <<target, runs, ops, app, faults>>
        ELSE Becomes(w, Superseded(j))

Accept(w) ==
  /\ jobs[w].pc = "accept"
  /\ Advance(w, "acceptedByCluster", [jobs[w] EXCEPT !.pc = "renew"])
-----------------------------------------------------------------------------
(***************************************************************************)
(* Verification: follow the App controller's status to a verdict.          *)
(***************************************************************************)

\* Worker.writtenGeneration, when a run resumes after its delivery.
Resume(w) ==
  LET j == jobs[w]
  IN /\ j.pc = "resume"
     /\ Becomes(w, IF written.generation = j.op
                     THEN [j EXCEPT !.pc = "renew", !.meta = written.meta]
                     ELSE Refused(j))

\* store.RenewLease.
Renew(w) ==
  LET j == jobs[w]
  IN /\ j.pc = "renew"
     /\ IF Holds(w)
        THEN /\ ops' = [ops EXCEPT ![j.op].leased = TRUE]
             /\ jobs' = [jobs EXCEPT ![w].pc = "look"]
             /\ UNCHANGED <<target, runs, written, app, faults>>
        ELSE Becomes(w, Idle)

\* Defect: the status of an older metadata.generation is believed.
LookAtOnce(w) ==
  LET j == jobs[w]
  IN /\ j.pc = "look"
     /\ Becomes(w,
          IF ~app.live \/ app.ready = "failed" THEN Refused(j)
          ELSE [j EXCEPT !.pc = IF app.ready = "true" THEN "verified"
                                                      ELSE "applied"])

\* ProgressOf the App that has the target's name now.
Look(w) ==
  LET j == jobs[w]
  IN /\ j.pc = "look"
     /\ Becomes(w,
          IF ~app.live THEN Refused(j)
          ELSE IF app.observed < j.meta THEN [j EXCEPT !.pc = "wait"]
          ELSE IF app.ready = "failed" THEN Refused(j)
          ELSE [j EXCEPT !.pc = IF app.ready = "true" THEN "verified"
                                                      ELSE "applied"])

\* The events Worker.toVerifying walks a run through.
Steps == [acceptedByCluster |-> "preflightStarted",
          preflight |-> "preflightPassed", applying |-> "applied"]

\* Worker.toVerifying, one event at a time, and what follows it.
ToVerifying(w) ==
  LET j == jobs[w]
  IN \/ /\ j.pc \in {"applied", "verified"} /\ j.phase \in DOMAIN Steps
        /\ Advance(w, Steps[j.phase], j)
     \/ /\ j.pc = "applied" /\ j.phase \notin DOMAIN Steps
        /\ Goto(w, "wait")
     \/ /\ j.pc = "verified" /\ j.phase \notin DOMAIN Steps
        /\ Advance(w, "verified", Settled(j, NoPhase, "none"))

\* The deadline is looked at before each pause.
Deadline(w) ==
  /\ jobs[w].pc = "wait"
  /\ Becomes(w, Refused(jobs[w]))

Again(w) ==
  /\ jobs[w].pc = "wait"
  /\ Goto(w, "renew")
-----------------------------------------------------------------------------
(***************************************************************************)
(* The end of a claim.                                                     *)
(***************************************************************************)

\* Defect: the operation is finished without the run's last event.
EndQuietly(w) ==
  /\ jobs[w].pc = "end"
  /\ Becomes(w, Settled(jobs[w], "failed", jobs[w].code))

\* Worker.end.
End(w) ==
  LET j == jobs[w]
  IN /\ j.pc = "end"
     /\ Advance(w, j.event, Settled(j, NoPhase, j.code))

\* The claim of w ends; under its fence the operation's row is written too.
LetGo(w, row) ==
  LET o == jobs[w].op
  IN /\ ops' = IF Holds(w)
                 THEN [ops EXCEPT ![o] = [row EXCEPT !.leased = FALSE,
                                                     !.fence = None]]
                 ELSE ops
     /\ jobs' = [jobs EXCEPT ![w] = Idle]
     /\ UNCHANGED <<target, runs, written, app, faults>>

\* store.FinishOperation.
Finish(w) ==
  LET j == jobs[w]
  IN /\ j.pc = "finish"
     /\ LetGo(w, [ops[j.op] EXCEPT !.state = "done", !.phase = j.phase,
                                   !.code = j.code])

\* store.RetryOperation.
GiveBack(w) ==
  LET j == jobs[w]
  IN /\ j.pc = "giveback"
     /\ LetGo(w, [ops[j.op] EXCEPT !.due = FALSE, !.code = j.code])
-----------------------------------------------------------------------------
(***************************************************************************)
(* Worker.deleteTarget: remove the App by its name, then mark the target   *)
(* deleted (store.FinishTargetDeletion, which asks for no fence).          *)
(***************************************************************************)

\* Defect: a target without an App counts as deleted.
FindNoApp(w) ==
  /\ jobs[w].pc = "find"
  /\ IF target.deleted \/ ~app.live
     THEN Becomes(w, Settled(jobs[w], "succeeded", "none"))
     ELSE Goto(w, "remove")

FindTarget(w) ==
  /\ jobs[w].pc = "find"
  /\ IF target.deleted
     THEN Becomes(w, Settled(jobs[w], "succeeded", "none"))
     ELSE Goto(w, "remove")

RemoveApp(w) ==
  /\ jobs[w].pc = "remove"
  /\ app' = NoApp
  /\ jobs' = Touched([jobs EXCEPT ![w].pc = "mark"], w)
  /\ UNCHANGED <<target, runs, ops, written, faults>>

MarkDeleted(w) ==
  /\ jobs[w].pc = "mark"
  /\ target' = [target EXCEPT !.deleted = TRUE]
  /\ jobs' = [jobs EXCEPT ![w] = Settled(@, "succeeded", "none")]
  /\ UNCHANGED <<runs, ops, written, app, faults>>
-----------------------------------------------------------------------------
(***************************************************************************)
(* Clocks, the App controller, and what goes wrong.                        *)
(***************************************************************************)

\* next_attempt_at passes.  A run parked by startWith sleeps until its
\* approval window closes, later waits are shorter (ApprovalWait).
Due(o) ==
  /\ ops[o].state = "open" /\ ~ops[o].due
  /\ (o # DeleteOp /\ ops[o].attempt = 0) => runs[o].expired
  /\ ops' = [ops EXCEPT ![o].due = TRUE]
  /\ UNCHANGED <<target, runs, written, app, jobs, faults>>

\* approval_expires_at passes.
WindowCloses(g) ==
  /\ runs[g].phase = "awaitingApproval" /\ ~runs[g].expired
  /\ runs' = [runs EXCEPT ![g].expired = TRUE]
  /\ UNCHANGED <<target, ops, written, app, jobs, faults>>

\* The App controller reconciles the App and reports.
Reconcile ==
  /\ app.live
  /\ \E r \in {"unknown", "true", "failed"} :
       /\ <<app.meta, r>> # <<app.observed, app.ready>>
       /\ app' = [app EXCEPT !.observed = app.meta, !.ready = r]
  /\ jobs' = Touched(jobs, None)
  /\ UNCHANGED <<target, runs, ops, written, faults>>

\* lease_until passes: nobody works under the claim any more, or its worker
\* stalls for longer than the lease and goes on afterwards.
LeaseExpires(o) ==
  /\ ops[o].state = "open" /\ ops[o].leased
  /\ IF ops[o].fence = None THEN UNCHANGED faults ELSE Fault("stall")
  /\ ops' = [ops EXCEPT ![o].leased = FALSE]
  /\ UNCHANGED <<target, runs, written, app, jobs>>

\* The process of w stops, or a database error ends its loop while it
\* settles a claim (Run, settle); the lease stays.
Crash(w) ==
  /\ Fault("crash")
  /\ jobs[w].pc # "idle"
  /\ jobs' = [jobs EXCEPT ![w] = Idle]
  /\ ops' = IF Holds(w) THEN [ops EXCEPT ![jobs[w].op].fence = None] ELSE ops
  /\ UNCHANGED <<target, runs, written, app>>

\* A call to the database or to Kubernetes fails, or the reply to the last one
\* is lost: the worker then stands at the step after it.  FinishOperation and
\* RetryOperation are not retried, their failure is a Crash.
Fail(w) ==
  /\ Fault("error")
  /\ jobs[w].pc \notin {"idle", "finish", "giveback"}
  /\ jobs' = [jobs EXCEPT ![w] = Retry(@)]
  /\ UNCHANGED <<target, runs, ops, written, app>>

\* Somebody other than Kuben deletes the App object.
LoseApp ==
  /\ Fault("removal")
  /\ app.live
  /\ app' = NoApp
  /\ jobs' = Touched(jobs, None)
  /\ UNCHANGED <<target, runs, ops, written>>
-----------------------------------------------------------------------------
Requests ==
  \/ \E emergency \in BOOLEAN, required \in Required :
       StartRun(emergency, required)
  \/ \E g \in Generations, a \in Approvers, approve \in BOOLEAN :
       Decide(g, a, approve)
  \/ Pause
  \/ ResumeTarget
  \/ DeleteTarget

DeliverRun(w) ==
  \/ Load(w) \/ Expire(w) \/ Hold(w) \/ Ready(w) \/ Prepare(w)
  \/ GetApp(w) \/ Fence(w) \/ Put(w) \/ Record(w) \/ Accept(w)

Verify(w) ==
  \/ Resume(w) \/ Renew(w) \/ Look(w) \/ ToVerifying(w)
  \/ Deadline(w) \/ Again(w)

Delete(w) == FindTarget(w) \/ RemoveApp(w) \/ MarkDeleted(w)

\* What worker w does with the claim it holds.
Work(w) ==
  \/ DeliverRun(w) \/ Verify(w) \/ Delete(w)
  \/ End(w) \/ Finish(w) \/ GiveBack(w)

Clocks ==
  \/ \E o \in Ops : Due(o) \/ LeaseExpires(o)
  \/ \E g \in Generations : WindowCloses(g)

Environment ==
  \/ Reconcile
  \/ LoseApp
  \/ \E w \in Workers : Crash(w) \/ Fail(w)

Next ==
  \/ Requests
  \/ \E w \in Workers, o \in Ops : Claim(w, o)
  \/ \E w \in Workers : Work(w)
  \/ Clocks
  \/ Environment

Spec == Init /\ [][Next]_vars

\* A worker that has a claim goes on with it; an operation that is claimable
\* again and again is claimed (claims go by next_attempt_at); clocks run, and
\* a wait that is looked at again and again passes its deadline.
Fairness ==
  /\ \A w \in Workers : WF_vars(Work(w)) /\ SF_vars(Deadline(w))
  /\ \A o \in Ops : /\ SF_vars(\E w \in Workers : Claim(w, o))
                    /\ WF_vars(Due(o))
                    /\ WF_vars(ops[o].fence = None /\ LeaseExpires(o))
  /\ \A g \in Generations : WF_vars(WindowCloses(g))

FairSpec == Spec /\ Fairness
-----------------------------------------------------------------------------
TypeOK ==
  /\ target \in [generation : 0..MaxGeneration, paused : BOOLEAN,
                 deleting : BOOLEAN, deleted : BOOLEAN]
  /\ runs \in [Generations -> Run]
  /\ ops \in [Ops -> Op]
  /\ written \in [generation : 0..MaxGeneration, meta : Nat]
  /\ app \in App
  /\ jobs \in [Workers -> Job]
  /\ faults \in 0..MaxFaults

\* A run that is not settled has an operation somebody will still claim, and
\* a finished operation says what became of its run: the phase it was
\* settled in, which for a failed run a newer one may have superseded since
\* (Worker.settle, store.FinishOperation).
OperationTellsFate ==
  \A g \in Generations :
    /\ ops[g].state = "absent" <=> g > target.generation
    /\ ops[g].state = "done" =>
         /\ runs[g].phase \in Final \cup {"failed"}
         /\ \/ ops[g].phase = runs[g].phase
            \/ ops[g].phase = "failed" /\ runs[g].phase = "superseded"

\* At most one run of a target is alive, the one that owns its generation
\* (I06; store.supersedeOlder): every older run is settled for good, so no
\* two runs can both move on, whatever their workers do.
OneOwner ==
  \A g \in Generations : g < target.generation => runs[g].phase \in Final

\* Nothing of a run reaches the cluster or the delivered phases before as
\* many people approved it as its environment asked for (store.DecideRun,
\* Worker.awaitApproval).
ApprovedFirst ==
  \A g \in Generations :
    (\/ runs[g].phase \in Delivered \cup {"pendingDelivery", "succeeded"}
     \/ app.live /\ app.generation = g)
    => Cardinality(runs[g].approvals) >= runs[g].required

\* The record of the last write agrees with the run it belongs to: a run
\* between delivery and verdict is the one recorded, so a worker that takes
\* it over finds its metadata.generation, and no record is of a generation
\* that was never accepted or whose plan was not frozen
\* (store.RecordMaterialization, Worker.writtenGeneration).
RecordedRun ==
  /\ \A g \in Generations : runs[g].phase \in Delivered =>
       written.generation = g
  /\ written.generation <= target.generation
  /\ \A g \in Generations :
       (app.live /\ app.generation = g) \/ written.generation = g
         => runs[g].planned

\* App a: what generation g wrote as metadata.generation m is there, or was
\* written over by a newer generation.
Stands(a, g, m) ==
  /\ a.live /\ a.generation >= g
  /\ a.generation = g => a.meta = m

\* The record never outruns the App: until the target is deleted, the App is
\* of the recorded generation, with the recorded metadata.generation, or of a
\* newer one, whichever workers wrote and recorded, and in which order.  A
\* worker that resumes a verification (Worker.writtenGeneration) and the drift
\* watch rest on it.  Somebody who removes the App breaks it (fault "removal").
RecordStands ==
  ~target.deleting /\ written.generation # 0
    => Stands(app, written.generation, written.meta)

\* A run becomes "succeeded" only while the App in the cluster is the one
\* written for it and its controller has reconciled it, as long as nobody
\* deletes the target (progress.go: "ProgressReady means every workload of
\* the written generation is available").
VerifiedItsOwn ==
  [][\A g \in Generations :
       (/\ runs'[g].phase = "succeeded" /\ runs[g].phase # "succeeded"
        /\ ~target.deleting)
         => app.live /\ app.generation = g /\ app.observed = app.meta]_vars

\* Whatever the workers do, the App keeps the promise of the generation fence.
Fenced == INSTANCE GenerationFence
            WITH accepted <- target.generation,
                 live <- IF app.live THEN app.generation ELSE 0
FencePromise == Fenced!Spec

\* store.DecideRun wakes the operation of the run it settles "so the
\* materializer acts at once": a released run never sleeps on the wait for
\* its approval.
DecisionActsAtOnce ==
  \A g \in Generations :
    /\ runs[g].phase = "pendingDelivery"
    /\ ops[g].state = "open" /\ ~ops[g].leased
    /\ ops[g].code = "AwaitingApproval"
    => ops[g].due

\* "The row gets deleted_at once its resources are gone" (store/lifecycle.go):
\* a deleted target has no App object.
DeletedTargetHasNoApp == target.deleted => ~app.live

\* Every accepted run reaches a verdict and its operation is finished, unless
\* its target is paused again and again; nothing else can hold it for ever:
\* not an approval nobody gives, a conflict that comes back, an App that
\* never becomes ready, or a worker that died.
EveryRunSettles ==
  <>[]~target.paused =>
    \A g \in Generations : ops[g].state = "open" ~> ops[g].state = "done"

\* A deletion that was accepted is carried out, and its operation finished.
DeletionFinishes ==
  target.deleting ~> (target.deleted /\ ops[DeleteOp].state = "done")
=============================================================================
