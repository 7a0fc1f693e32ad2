------------------------------- MODULE Builds -------------------------------
(***************************************************************************)
(* Builds of one target from Git (ADR-028): the build worker               *)
(* (internal/build) on its tables (store/builds.go), the branch heads of   *)
(* the provider, the Jobs of the build cluster and the requests that       *)
(* arrive meanwhile: pushes, a changed binding, cancellations, deploys.    *)
(*                                                                         *)
(* A step of a worker is one transaction or one call to the outside.  The  *)
(* fence of a claim (Operations) is the worker that holds it: a worker has *)
(* one claim at a time, so a claim that was taken over is never its again. *)
(***************************************************************************)
EXTENDS BuildPhase, FiniteSets

CONSTANTS
  Workers,      \* build workers
  None,         \* no worker, no attempt, no commit
  Branches,     \* branches of the repository
  MaxAttempts,  \* bound: build attempts of the target
  MaxTries,     \* MaxBuildAttempts: attempts of one head
  Limit,        \* SlotLimits: build slots
  MaxPushes,    \* bound: pushes to one branch
  MaxRevision,  \* bound: changes of the binding
  MaxFaults,    \* bound: faults and requests of people
  Faults        \* which of them happen

Attempts == 1..MaxAttempts

\* The operation of kind source.sync; attempt a stands for its own operation.
Sync == 0

Commits == Branches \X (0..MaxPushes)

ASSUME BuildsAssumption ==
  /\ None \notin Workers \cup Branches \cup Commits \cup Nat
  /\ {MaxAttempts, MaxTries, Limit, MaxPushes, MaxRevision, MaxFaults}
       \subseteq Nat
  /\ IsFiniteSet(Workers)

VARIABLES
  heads,     \* the provider: commits pushed to each branch
  hooks,     \* branches with a push webhook on its way
  target,    \* application_targets: epoch, revision, policy, deleting
  binding,   \* source_bindings: branch, recorded head and its epoch
  syncing,   \* a source.sync operation is not done
  attempts,  \* build_attempts, with the phase of the attempt's operation
  holder,    \* operations: who holds the claim
  slots,     \* build_slots
  jobs,      \* what the Job of each attempt shows
  late,      \* attempts past their deadline and an hour
  desired,   \* the attempt the target runs, or None: chosen by a person
  work,      \* what each worker does
  faults     \* faults and requests so far

vars == <<heads, hooks, target, binding, syncing, attempts, holder, slots,
          jobs, late, desired, work, faults>>

outside == <<heads, hooks, target, binding, syncing, desired>>

Target == [epoch : Nat, revision : Nat, policy : {"auto", "pinned"},
           deleting : BOOLEAN]

Binding == [branch : Branches, head : Commits \cup {None}, epoch : Nat]

\* made: the attempt exists; done: the phase its operation was settled in.
Attempt == [made : BOOLEAN, phase : Phase, cancel : BOOLEAN,
            reported : Digest, epoch : Nat, revision : Nat, no : Nat,
            commit : Commits \cup {None},
            done : Terminal \cup {"open"}]

\* at: the next step; then: the step after "record"; op: the operation.
\* phase, cancel and reported are the attempt as it was read; reported is
\* then the digest to verify.
Steps == {"idle", "claimed", "slot", "create", "look", "stop", "record",
          "verify", "complete", "failing", "cleanup", "settle", "giveBack",
          "ask", "observe", "synced"}

Work == [at : Steps, op : Attempts \cup {Sync, None}, phase : Phase,
         cancel : BOOLEAN, reported : Digest, then : Steps,
         events : Seq(Event), code : {"none", "build", "rejected",
                                      "lostWorker", "exhausted"},
         branch : Branches \cup {None}, head : Commits \cup {None}]

NoAttempt == [made |-> FALSE, phase |-> "queued", cancel |-> FALSE,
              reported |-> "none", epoch |-> 0, revision |-> 0, no |-> 0,
              commit |-> None, done |-> "open"]

Idle == [at |-> "idle", op |-> None, phase |-> "queued", cancel |-> FALSE,
         reported |-> "none", then |-> "idle", events |-> <<>>,
         code |-> "none", branch |-> None, head |-> None]

\* A target with a new binding; its first sync was requested with it.
Init ==
  /\ heads = [b \in Branches |-> 0]
  /\ hooks = {}
  /\ target = [epoch |-> 0, revision |-> 0, policy |-> "auto",
               deleting |-> FALSE]
  /\ \E b \in Branches :
       binding = [branch |-> b, head |-> None, epoch |-> 0]
  /\ syncing = TRUE
  /\ attempts = [a \in Attempts |-> NoAttempt]
  /\ holder = [o \in Attempts \cup {Sync} |-> None]
  /\ slots = {}
  /\ jobs = [a \in Attempts |-> "gone"]
  /\ late = {}
  /\ desired = None
  /\ work = [w \in Workers |-> Idle]
  /\ faults = 0

Made == {a \in Attempts : attempts[a].made}
Unfinished == {a \in Made : attempts[a].phase \notin Terminal}

\* Defect: the fence is not asked for.
HoldsAlways(w) == TRUE

\* WHERE fence = $2 AND NOT done: w still holds the claim it works under.
Holds(w) == holder[work[w].op] = w

At(w, step) == work[w].at = step

\* w goes on with another step of the same claim.
GoTo(w, step) == work' = [work EXCEPT ![w].at = step]

Drop(w) == work' = [work EXCEPT ![w] = Idle]

Faulty(kind) ==
  /\ kind \in Faults /\ faults < MaxFaults
  /\ faults' = faults + 1

-----------------------------------------------------------------------------
(* Requests.                                                               *)

\* The developer's side: a commit, and the webhook that tells of it.
Push(b) ==
  /\ heads[b] < MaxPushes
  /\ heads' = [heads EXCEPT ![b] = @ + 1]
  /\ hooks' = hooks \cup {b}
  /\ UNCHANGED <<target, binding, syncing, attempts, holder, slots, jobs,
                 late, desired, work, faults>>

\* RequestSync: a sync that is still pending answers instead of a second one.
RequestSync == syncing' = TRUE

\* pushEvent: bindings of the branch are asked for a sync.
Webhook(b) ==
  /\ b \in hooks
  /\ hooks' = hooks \ {b}
  /\ IF binding.branch = b THEN RequestSync ELSE UNCHANGED syncing
  /\ UNCHANGED <<heads, target, binding, attempts, holder, slots, jobs, late,
                 desired, work, faults>>

\* bindAndSync of a changed binding (another branch, another recipe).
Rebind(b) ==
  /\ ~target.deleting /\ target.revision < MaxRevision
  /\ binding' = [binding EXCEPT !.branch = b, !.head = None]
  /\ target' = [target EXCEPT !.revision = @ + 1]
  /\ RequestSync
  /\ UNCHANGED <<heads, hooks, attempts, holder, slots, jobs, late, desired,
                 work, faults>>

\* RequestBuildCancel
RequestCancel(a) ==
  /\ a \in Unfinished
  /\ Faulty("cancel")
  /\ attempts' = [attempts EXCEPT ![a].cancel = TRUE]
  /\ UNCHANGED <<outside, holder, slots, jobs, late, work>>

\* A person chooses what runs: a rollback pins, a deploy leaves the policy.
Choose(policy) ==
  /\ ~target.deleting
  /\ policy \in {target.policy, "pinned"}
  /\ Faulty("choose")
  /\ desired' = None
  /\ target' = [target EXCEPT !.policy = policy]
  /\ UNCHANGED <<heads, hooks, binding, syncing, attempts, holder, slots,
                 jobs, late, work>>

ResumeAuto ==
  /\ Faulty("choose")
  /\ target' = [target EXCEPT !.policy = "auto"]
  /\ UNCHANGED <<heads, hooks, binding, syncing, attempts, holder, slots,
                 jobs, late, desired, work>>

BeginDeletion ==
  /\ Faulty("delete")
  /\ target' = [target EXCEPT !.deleting = TRUE]
  /\ UNCHANGED <<heads, hooks, binding, syncing, attempts, holder, slots,
                 jobs, late, desired, work>>

Requests ==
  \/ \E b \in Branches : Push(b) \/ Webhook(b) \/ Rebind(b)
  \/ \E a \in Attempts : RequestCancel(a)
  \/ \E p \in {"auto", "pinned"} : Choose(p)
  \/ ResumeAuto \/ BeginDeletion

-----------------------------------------------------------------------------
(* Claims.                                                                 *)

\* ClaimOperation
Claim(w, o) ==
  /\ At(w, "idle") /\ holder[o] = None
  /\ IF o = Sync THEN syncing
     ELSE attempts[o].made /\ attempts[o].done = "open"
  /\ holder' = [holder EXCEPT ![o] = w]
  /\ work' = [work EXCEPT ![w].at = "claimed", ![w].op = o]
  /\ UNCHANGED <<outside, attempts, slots, jobs, late, faults>>

\* RetryOperation: the claim is given back, for wait and for retry alike.
GiveBack(w) ==
  /\ At(w, "giveBack")
  /\ holder' = IF Holds(w) THEN [holder EXCEPT ![work[w].op] = None]
               ELSE holder
  /\ Drop(w)
  /\ UNCHANGED <<outside, attempts, slots, jobs, late, faults>>

\* FinishOperation of a build: the phase the claim ended with.
Settle(w) ==
  LET a == work[w].op
  IN /\ At(w, "settle")
     /\ IF Holds(w)
        THEN /\ attempts' = [attempts EXCEPT ![a].done = work[w].phase]
             /\ holder' = [holder EXCEPT ![a] = None]
        ELSE UNCHANGED <<attempts, holder>>
     /\ Drop(w)
     /\ UNCHANGED <<outside, slots, jobs, late, faults>>

\* The lease of a claim ends, its worker gone or merely slow.
LeaseEnds(o) ==
  /\ holder[o] # None
  /\ Faulty("stall")
  /\ holder' = [holder EXCEPT ![o] = None]
  /\ UNCHANGED <<outside, attempts, slots, jobs, late, work>>

\* The process ends; its leases end later.
Crash(w) ==
  /\ ~At(w, "idle")
  /\ Faulty("crash")
  /\ Drop(w)
  /\ holder' = [o \in DOMAIN holder |-> IF holder[o] = w THEN None
                                        ELSE holder[o]]
  /\ UNCHANGED <<outside, attempts, slots, jobs, late>>

-----------------------------------------------------------------------------
(* source.sync                                                             *)

\* SyncBinding reads the binding under the fence; without one it fails.
ReadBinding(w) ==
  /\ At(w, "claimed") /\ work[w].op = Sync
  /\ work' = IF Holds(w)
             THEN [work EXCEPT ![w].at = "ask", ![w].branch = binding.branch]
             ELSE [work EXCEPT ![w] = Idle]
  /\ UNCHANGED <<outside, attempts, holder, slots, jobs, late, faults>>

\* readHead: the provider answers with the branch's head.
ReadHead(w) ==
  /\ At(w, "ask")
  /\ work' = [work EXCEPT ![w].at = "observe",
                          ![w].head = <<work[w].branch, heads[work[w].branch]>>]
  /\ UNCHANGED <<outside, attempts, holder, slots, jobs, late, faults>>

\* syncFailed: refused, or unavailable for the last time, or to be retried.
ReadHeadFails(w) ==
  /\ At(w, "ask")
  /\ Faulty("provider")
  /\ \E next \in {"synced", "giveBack"} : GoTo(w, next)
  /\ UNCHANGED <<outside, attempts, holder, slots, jobs, late>>

\* queueAttempt with a new id.
Queue(rows, commit, epoch, revision, no) ==
  LET id == CHOOSE a \in Attempts : ~rows[a].made
  IN [rows EXCEPT ![id] = [NoAttempt EXCEPT !.made = TRUE, !.commit = commit,
                             !.epoch = epoch, !.revision = revision,
                             !.no = no]]

Room == Made # Attempts

\* Defect: older builds go on.
StopNone(rows) == rows

\* askOlderToStop: every unfinished attempt of the binding.
StopOlder(rows) ==
  [a \in Attempts |-> IF a \in Unfinished
                      THEN [rows[a] EXCEPT !.cancel = TRUE] ELSE rows[a]]

SameHead(head) == binding.head = head /\ binding.epoch = target.epoch

\* ObserveHead, on the locked rows of the binding and the target.
ObserveHead(w) ==
  LET head == work[w].head
      epoch == target.epoch + 1
  IN /\ At(w, "observe")
     /\ IF ~Holds(w)
        THEN /\ Drop(w)
             /\ UNCHANGED <<target, binding, attempts>>
        ELSE /\ GoTo(w, "synced")
             /\ IF target.deleting \/ SameHead(head)
                THEN UNCHANGED <<target, binding, attempts>>
                ELSE /\ Room
                     /\ target' = [target EXCEPT !.epoch = epoch]
                     /\ binding' = [binding EXCEPT !.head = head,
                                                   !.epoch = epoch]
                     /\ attempts' = Queue(StopOlder(attempts), head, epoch,
                                          target.revision, 1)
     /\ UNCHANGED <<heads, hooks, syncing, holder, slots, jobs, late, desired,
                    faults>>

\* FinishOperation of the sync.
FinishSync(w) ==
  /\ At(w, "synced")
  /\ IF Holds(w)
     THEN syncing' = FALSE /\ holder' = [holder EXCEPT ![Sync] = None]
     ELSE UNCHANGED <<syncing, holder>>
  /\ Drop(w)
  /\ UNCHANGED <<heads, hooks, target, binding, attempts, slots, jobs, late,
                 desired, faults>>

SyncStep(w) ==
  \/ ReadBinding(w) \/ ReadHead(w) \/ ReadHeadFails(w) \/ ObserveHead(w)
  \/ FinishSync(w)

-----------------------------------------------------------------------------
(* build: one claim carries its attempt as far as it goes now.             *)

\* build: an error outside is a retry, and the end of an attempt that has
\* been failing past its deadline (RetriesExhausted).
Retried(w) ==
  IF work[w].op \in late /\ work[w].code # "exhausted"
  THEN [Idle EXCEPT !.at = "failing", !.op = work[w].op,
                    !.code = "exhausted"]
  ELSE [Idle EXCEPT !.at = "giveBack", !.op = work[w].op]

Retry(w) == work' = [work EXCEPT ![w] = Retried(w)]

\* record these events, then go on; what was read has served.
Recording(r, events, then) ==
  [r EXCEPT !.at = "record", !.events = events, !.then = then,
            !.phase = "queued", !.cancel = FALSE, !.reported = "none"]

\* attemptOf: the attempt as it is read, and the kind of work it needs.
ReadAttempt(w) ==
  LET a == attempts[work[w].op]
      read == [work[w] EXCEPT !.phase = a.phase, !.cancel = a.cancel,
                              !.reported = a.reported]
      next == NextFor(a.phase, a.cancel)
  IN /\ At(w, "claimed") /\ work[w].op \in Attempts
     /\ work' = [work EXCEPT ![w] =
          CASE next = "settle"       -> [read EXCEPT !.at = "cleanup"]
            [] next = "cancelQueued" ->
                 Recording(read, <<"cancelRequested">>, "cleanup")
            [] next = "admit"        -> [read EXCEPT !.at = "slot"]
            [] next = "observe"      -> [read EXCEPT !.at = "look"]]
     /\ UNCHANGED <<outside, attempts, holder, slots, jobs, late, faults>>

\* Defect: the slots are counted without the advisory lock, one too many.
RoomForOneMore == Cardinality(slots) <= Limit

FreeSlot == Cardinality(slots) < Limit

\* ClaimBuildSlot; idempotent for an attempt that holds one.
ClaimSlot(w) ==
  LET a == work[w].op
  IN /\ At(w, "slot")
     /\ IF ~Holds(w) THEN Drop(w) /\ UNCHANGED slots
        ELSE IF a \in slots \/ FreeSlot
        THEN slots' = slots \cup {a} /\ GoTo(w, "create")
        ELSE /\ work' = [work EXCEPT ![w] =
                  Recording(@, IF @.phase = "blocked" THEN <<>>
                               ELSE <<"blocked">>, "giveBack")]
             /\ UNCHANGED slots
     /\ UNCHANGED <<outside, attempts, holder, jobs, late, faults>>

\* createObjects, whichever are missing; or the provider refuses the source.
CreateObjects(w) ==
  LET a == work[w].op
  IN /\ At(w, "create")
     /\ \/ /\ jobs' = [jobs EXCEPT ![a] = IF @ = "gone" THEN "pending" ELSE @]
           /\ work' = [work EXCEPT ![w] =
                Recording(@, IF @.phase = "blocked"
                             THEN <<"unblocked", "started">>
                             ELSE <<"started">>, "giveBack")]
        \/ /\ jobs[a] = "gone"
           /\ work' = [work EXCEPT ![w].at = "failing", ![w].code = "build"]
           /\ UNCHANGED jobs
     /\ UNCHANGED <<outside, attempts, holder, slots, late, faults>>

\* observeJob, and the plan for what it shows.
Observe(w) ==
  LET r == work[w]
      plan == PlanFor(r.phase, r.cancel, jobs[r.op], r.reported)
      next == CASE plan.kind = "verify"    -> "verify"
                [] plan.kind = "cancelled" -> "cleanup"
                [] OTHER                   -> "giveBack"
      recording == [Recording(r, plan.events, next)
                      EXCEPT !.reported = plan.digest]
  IN /\ At(w, "look")
     /\ work' = [work EXCEPT ![w] =
          CASE plan.kind = "fail" -> [Idle EXCEPT !.at = "failing",
                                         !.op = r.op, !.code = plan.code]
            [] plan.kind = "stop" -> [recording EXCEPT !.at = "stop"]
            [] OTHER              -> recording]
     /\ UNCHANGED <<outside, attempts, holder, slots, jobs, late, faults>>

\* PlanStop deletes the Job before it records the events.
DeleteJob(w) ==
  /\ At(w, "stop")
  /\ jobs' = [jobs EXCEPT ![work[w].op] = "gone"]
  /\ GoTo(w, "record")
  /\ UNCHANGED <<outside, attempts, holder, slots, late, faults>>

\* Defect: only a build that succeeds gives its slot back.
ReleaseOnSuccess(a, phase) == IF phase = "succeeded" THEN slots \ {a} ELSE slots

\* A final phase gives the slot back in the same transaction (moveAttempt).
Release(a, phase) == IF phase \in Terminal THEN slots \ {a} ELSE slots

\* record: the events, in one transaction under the fence; without events
\* there is nothing to lock.  The reported digest is kept once.
Record(w) ==
  LET r == work[w]
      a == r.op
      phase == After(attempts[a].phase, r.events)
  IN /\ At(w, "record")
     /\ IF r.events # <<>> /\ ~Holds(w)
        THEN Drop(w) /\ UNCHANGED <<attempts, slots>>
        ELSE IF phase = Illegal
        THEN Retry(w) /\ UNCHANGED <<attempts, slots>>
        ELSE /\ attempts' = [attempts EXCEPT ![a].phase = phase,
                  ![a].reported = IF @ = "none" /\ r.events # <<>>
                                  THEN r.reported ELSE @]
             /\ slots' = Release(a, phase)
             /\ work' = [work EXCEPT ![w].at = r.then, ![w].events = <<>>,
                  ![w].then = "idle",
                  ![w].phase = IF r.then = "cleanup" THEN "cancelled" ELSE @]
     /\ UNCHANGED <<outside, holder, jobs, late, faults>>

\* The registry holds the digest, lacks it, or does not answer.
Verify(w) ==
  /\ At(w, "verify")
  /\ \/ /\ work[w].reported = "good"
        /\ GoTo(w, "complete")
        /\ UNCHANGED faults
     \/ /\ work[w].reported = "bad"
        /\ work' = [work EXCEPT ![w].at = "failing", ![w].code = "rejected"]
        /\ UNCHANGED faults
     \/ /\ Faulty("registry")
        /\ Retry(w)
  /\ UNCHANGED <<outside, attempts, holder, slots, jobs, late>>

\* Defect: the epoch alone is compared.
DeploysEpoch(a) ==
  /\ ~target.deleting /\ target.policy = "auto"
  /\ attempts[a].epoch = target.epoch

\* TryAutodeploy
Autodeploys(a) ==
  /\ ~target.deleting /\ target.policy = "auto"
  /\ attempts[a].epoch = target.epoch
  /\ attempts[a].revision = target.revision

\* CompleteBuild: the phase, the slot and the deployment, in one transaction.
\* A verified build is also kept: a freeze, a scan, a missing configuration.
Complete(w) ==
  LET a == work[w].op
      phase == Apply(attempts[a].phase, "verified")
  IN /\ At(w, "complete")
     /\ IF ~Holds(w)
        THEN Drop(w) /\ UNCHANGED <<attempts, slots, desired>>
        ELSE IF phase = Illegal
        THEN Retry(w) /\ UNCHANGED <<attempts, slots, desired>>
        ELSE /\ attempts' = [attempts EXCEPT ![a].phase = phase]
             /\ slots' = Release(a, phase)
             /\ work' = [work EXCEPT ![w].at = "cleanup", ![w].phase = phase]
             /\ \/ Autodeploys(a) /\ desired' = a
                \/ UNCHANGED desired
     /\ UNCHANGED <<heads, hooks, target, binding, syncing, holder, jobs, late,
                    faults>>

\* The next number of an attempt with the inputs of a.
NextNo(a) ==
  1 + Cardinality({b \in Made : /\ attempts[b].epoch = attempts[a].epoch
                                /\ attempts[b].revision = attempts[a].revision})

\* RetryBuild: only while the target still asks for these inputs.
Retries(a) ==
  /\ ~target.deleting
  /\ attempts[a].epoch = target.epoch
  /\ attempts[a].revision = target.revision
  /\ NextNo(a) <= MaxTries

\* fail: the event, the slot and the retry of a lost worker, in one
\* transaction.  Whatever phase the event led to, the claim ends as failed.
Fail(w) ==
  LET a == work[w].op
      phase == Apply(attempts[a].phase, "failed")
      failed == [attempts EXCEPT ![a].phase = phase]
  IN /\ At(w, "failing")
     /\ IF ~Holds(w)
        THEN Drop(w) /\ UNCHANGED <<attempts, slots>>
        ELSE IF phase = Illegal
        THEN Retry(w) /\ UNCHANGED <<attempts, slots>>
        ELSE /\ IF work[w].code = "lostWorker" /\ Retries(a)
                THEN /\ Room
                     /\ attempts' = Queue(failed, attempts[a].commit,
                          attempts[a].epoch, attempts[a].revision, NextNo(a))
                ELSE attempts' = failed
             /\ slots' = Release(a, phase)
             /\ work' = [work EXCEPT ![w].at = "cleanup",
                                     ![w].phase = "failed"]
     /\ UNCHANGED <<outside, holder, jobs, late, faults>>

\* finish: the Job and the token are deleted before the operation settles.
Cleanup(w) ==
  /\ At(w, "cleanup")
  /\ jobs' = [jobs EXCEPT ![work[w].op] = "gone"]
  /\ GoTo(w, "settle")
  /\ UNCHANGED <<outside, attempts, holder, slots, late, faults>>

\* The cluster or the database does not answer this step.
Unanswered(w) ==
  /\ work[w].op \in Attempts
  /\ work[w].at \in {"slot", "create", "look", "stop", "record", "complete",
                     "failing", "cleanup"}
  /\ Faulty("error")
  /\ Retry(w)
  /\ UNCHANGED <<outside, attempts, holder, slots, jobs, late>>

BuildStep(w) ==
  \/ ReadAttempt(w) \/ ClaimSlot(w) \/ CreateObjects(w) \/ Observe(w)
  \/ DeleteJob(w) \/ Record(w) \/ Verify(w) \/ Complete(w) \/ Fail(w)
  \/ Cleanup(w) \/ Settle(w) \/ GiveBack(w)

-----------------------------------------------------------------------------
(* The build cluster.                                                      *)

\* A Job runs and ends, within its activeDeadlineSeconds.
JobRuns(a) ==
  /\ \E step \in {<<"pending", "building">>, <<"pending", "failed">>,
                  <<"building", "finished">>, <<"building", "forged">>,
                  <<"building", "failed">>} :
       jobs[a] = step[1] /\ jobs' = [jobs EXCEPT ![a] = step[2]]
  /\ UNCHANGED <<outside, attempts, holder, slots, late, work, faults>>

\* A node is lost, or the Job is removed.
JobIsLost(a) ==
  /\ jobs[a] # "gone"
  /\ \/ jobs[a] \in {"pending", "building"} /\ Faulty("lost")
        /\ jobs' = [jobs EXCEPT ![a] = "lost"]
     \/ Faulty("vanish") /\ jobs' = [jobs EXCEPT ![a] = "gone"]
  /\ UNCHANGED <<outside, attempts, holder, slots, late, work>>

\* The deadline of an attempt passes, and an hour.
GrowsOld(a) ==
  /\ "age" \in Faults
  /\ a \in Made \ late
  /\ late' = late \cup {a}
  /\ UNCHANGED <<outside, attempts, holder, slots, jobs, work, faults>>

Cluster == \E a \in Attempts : JobRuns(a) \/ JobIsLost(a) \/ GrowsOld(a)

Next ==
  \/ Requests
  \/ \E w \in Workers :
       \/ \E o \in Attempts \cup {Sync} : Claim(w, o)
       \/ SyncStep(w) \/ BuildStep(w) \/ Unanswered(w) \/ Crash(w)
  \/ \E o \in Attempts \cup {Sync} : LeaseEnds(o)
  \/ Cluster

Spec == Init /\ [][Next]_vars

\* Workers go on while they run, claims are taken in the order they are due,
\* Jobs end and time passes; requests and faults need not happen.
Fairness ==
  /\ \A w \in Workers : WF_vars(SyncStep(w) \/ BuildStep(w))
  /\ \A o \in Attempts \cup {Sync} : SF_vars(\E w \in Workers : Claim(w, o))
  /\ \A a \in Attempts : WF_vars(JobRuns(a)) /\ WF_vars(GrowsOld(a))

FairSpec == Spec /\ Fairness

-----------------------------------------------------------------------------
(* Properties.                                                             *)

TypeOK ==
  /\ heads \in [Branches -> 0..MaxPushes]
  /\ hooks \subseteq Branches
  /\ target \in Target
  /\ binding \in Binding
  /\ syncing \in BOOLEAN
  /\ attempts \in [Attempts -> Attempt]
  /\ holder \in [Attempts \cup {Sync} -> Workers \cup {None}]
  /\ slots \subseteq Attempts
  /\ jobs \in [Attempts -> Verdict]
  /\ late \subseteq Attempts
  /\ desired \in Attempts \cup {None}
  /\ work \in [Workers -> Work]
  /\ faults \in 0..MaxFaults

\* Admission is never exceeded, an attempt that may hold a Job has its slot,
\* and a final attempt has given it back, whichever worker took it.
SlotsHold ==
  /\ Cardinality(slots) <= Limit
  /\ \A a \in Made : attempts[a].phase \in HoldsSlot => a \in slots
  /\ slots \subseteq Unfinished

\* A newer head supersedes every unfinished build of an older one, also of a
\* retry, so that at most one attempt is left to go on.
OlderBuildsStop ==
  /\ \A a \in Unfinished : attempts[a].epoch # target.epoch
                             => attempts[a].cancel
  /\ \A a, b \in Unfinished :
       ~attempts[a].cancel /\ ~attempts[b].cancel => a = b

\* A build is cancelled only when somebody asked, a person or a newer head.
CancelledWhenAsked ==
  \A a \in Made : attempts[a].phase = "cancelled" => attempts[a].cancel

\* The operation of a build succeeds exactly when its attempt did, and is
\* open while the attempt is.
OperationTellsBuild ==
  \A a \in Made : attempts[a].done # "open" =>
     /\ attempts[a].phase \in Terminal
     /\ attempts[a].done = "succeeded" <=> attempts[a].phase = "succeeded"

\* A build that deploys on its own is of the head the binding has recorded,
\* and made from the binding as it is now.
DeploysTheHead ==
  [][\A a \in Attempts : desired' = a /\ desired # a =>
       /\ attempts[a].commit = binding.head
       /\ binding.epoch = target.epoch]_vars

\* Every build ends, and its slot is free again: no lost node, no failing
\* registry or cluster keeps one forever.
BuildsEnd ==
  \A a \in Attempts :
    attempts[a].made ~> attempts[a].done # "open" /\ a \notin slots

-----------------------------------------------------------------------------
(* What the repository says of builds, and the code does not keep.         *)

\* builds.go: "Read under the lock: a concurrent rebinding cannot slip
\* between".  A build of the current configuration is of the bound branch.
BuildsItsBranch ==
  \A a \in Made : attempts[a].revision = target.revision
                  => attempts[a].commit[1] = binding.branch

\* steps.go: "An output that was already finished is still verified".
PushedOutputKept ==
  \A a \in Made : attempts[a].phase = "cancelled"
                  => attempts[a].reported # "good"

\* 0018_git_builds.sql: "a slot row exists exactly while its attempt may hold
\* a Job".
JobsWithinSlots ==
  \A a \in Attempts : jobs[a] \in {"pending", "building"} => a \in slots
=============================================================================
