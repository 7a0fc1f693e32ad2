# Kuben in TLA+

Kuben is a small platform on Kubernetes: people ask for deployments over an API
or a CLI, PostgreSQL holds what they asked for, and workers inside `kuben serve`
carry every request into the cluster. This directory models the part of Kuben
that decides *what reaches a cluster and when, and who is told*: durable
operations, deployment runs, the materializer that delivers them to its own
cluster or through an agent to another one, the builds that produce releases,
and the notifier that tells of the outcome. TLC checks the models on small
instances; TLAPS proves the central invariants for every size.

All paths below are relative to `src/apps/kuben/internal/` unless they say
otherwise. `PROJECT.json` maps every definition that stands for code to the
lines it translates.

## 1. The system

### Modelled, wholly or in part

**Run state machine** (`core/ops/run`). *State:* the phase of a deployment run
and its two outcome columns. *Operations:* `Phase.Apply(event)`, a table.
*Hard:* cancellation, compensation and late progress reports meet in any order,
and three columns must keep telling one story. *Correct when:* final phases
absorb, a success was delivered, a failed run is never renamed, and a run that
lost its right to write the cluster does not get it back.

**Durable operations** (`store/operations.go`, migration 0005). *State:* one row
per operation (`done`, `fence`, `lease_until`, `next_attempt_at`, `attempt`,
`error_code`), its event history, the outbox, receipts, the inbox. *Operations:*
accept, `ClaimOperation`, `FinishOperation`, `RetryOperation`, `RenewLease`,
`RecordEvent`. *Interacts:* every request that needs work done later accepts an
operation in its own transaction; the workers of the materializer and of builds
claim them. *Hard:* nothing takes a claim back from a worker whose lease ran
out, so two workers go on with one operation; only the fence tells them apart,
and a transaction that compared the fence may commit after the next claim.
*Correct when:* at most one claim can write, an operation is settled once, and
no move of a run is lost.

**Deployment runs and target control state** (`store/deployments.go`,
`core/ops/target`). *State:* `application_targets` (desired generation, source
epoch, pause, deletion mark) and `deployment_runs`. *Operations:* start a run
(supersede the older ones, wake their operations), move a run under the fence.
*Hard:* a newer run supersedes one whose worker is anywhere between its claim
and its verdict. *Correct when:* at most one run of a target is alive.

**Approvals and policies** (`store/policies.go`, `core/policy`). *State:* a
policy per environment, `run_approvals`, the approval window of a run.
*Operations:* `DecideRun`, expiry. *Hard:* a decision races the window, another
decision, a newer run, and the worker that waits for it. *Correct when:* nothing
is delivered before as many people approved it as were asked for, and a decided
run moves at once.

**Pause and resume** (`store/controls.go`). *State:* `paused_at`. *Operations:*
pause, resume (wakes the target's operations). *Hard:* a pause between a
worker's read of the App and its write. *Correct when:* a paused target is only
written by an emergency rollback, or by a worker already past its last look.

**Materializer** (`kube/materializer`, `store/materialize.go`). *State:* the
claims of its workers, the frozen render plan of a run, the record of the last
write (`target_materializations`), and the App object in the cluster.
*Operations:* claim; read the run; wait for an approval or a pause; freeze the
plan; read the App, ask SQL which generation is current, write under the
resourceVersion that was read; record the write; move the run; follow the App
controller's status to a verdict; end the claim. *Hard:* each of these is a
separate transaction or API call; a worker may crash, stall, lose the reply of a
commit or find its claim taken over between any two. *Correct when:* no write
replaces a newer generation by an older one, the record matches the run between
delivery and verdict, the finished operation tells what became of its run, a
success is the run's own, and every run reaches a verdict.

**Lifecycle** (`store/lifecycle.go`, `kube/materializer/lifecycle.go`,
`detach.go`). *State:* deletion marks, `deleted_at`, the objects of
environments and projects. *Operations:* apply and delete an environment or a
project, delete a target, detach an app. *Hard:* deleting a target a worker is
about to write. *Correct when:* a deletion is carried out, and what was deleted
stays deleted. Only the deletion of a target is modelled.

**App controller** (`kube/controller`). *State:* the App's status. Only what it
reports (`observedGeneration`, a verdict) is modelled; the objects it applies
are rendering. The environment and gateway controllers are not modelled.

**Agent delivery** (`kube/materializer/agent.go`, `agentlink/hub.go`,
`store/agents.go`, `src/apps/kuben-agent/internal/link` and `.../runtime`). For
a remote cluster the run's plan travels as an envelope over a link the agent
dials. *State:* the hub's links and their outboxes, the agent's task per target,
the ApplicationRuntime of the remote cluster (which refuses a lower generation),
the newest observation per target. *Operations:* prepare, send and resend an
envelope, follow the observations, link and lose the link, apply, prune, verify,
report. *Hard:* an envelope accepted by a link that ends, a link whose frames
are still read when the next one serves, a newer envelope that overtakes the
older one's task while a request of that task is under way. *Correct when:* what
SQL says of a run is so in its cluster, and every envelope arrives or its run
ends.

**Builds** (`build`, `core/ops/build`, `core/ops/outcome`, `store/builds.go`).
*State:* source bindings and their heads, build attempts and their phases, build
slots, the Job in the cluster, the epoch and build configuration of the target.
*Operations:* observe a head, queue and admit an attempt, follow its Job, verify
the output, complete (release and run), cancel, retry. *Hard:* a cancellation
races a verified output; a push, a changed binding or a person's choice comes
between any two steps of a build; a worker that was taken over still creates and
deletes Jobs; slots are counted by a separate table. *Correct when:* no late
build deploys, slots are never exceeded and come back, only what was asked to
stop is cancelled, every attempt ends and its operation says how.

**Outbox, incidents and webhooks** (`notify`, `store/notify.go`, the outbox of
`store/operations.go`). *State:* messages, incidents, silences, endpoints and
deliveries. *Operations:* take a message (hidden for a while), open or resolve
an incident, queue events, mark; take, send, retry and give up deliveries;
disable an endpoint. *Hard:* every replica runs one; a slow one handles what
another has taken meanwhile. *Correct when:* nothing is marked that was not
queued, no event is queued twice for an endpoint, and everything ends.

### Not modelled

**Drift** (`kube/materializer/drift.go`). A watch compares each App object with
the rendering of its last materialized run, records what differs, and writes the
App again under the generation fence. It has no claim and no fence in SQL, and
it shares the App and the record with deliveries (`RecordDrift`). *Correct
when:* it never undoes a delivery and leaves the object to a run in flight.

**Enrollment and certificates** (`agentlink/enroll.go`, `ca.go`, the agent's
`state`). One-time tokens bound to a cluster, redeemed again only by the same
device key; revocation; renewal over the link. *Correct when:* a token admits
one device, and a revoked device has no link.

**Previews** (`previews`). Pull request events, late and out of order, create,
sync and delete environments. *Correct when:* no late event brings a closed
preview back.

**Image watcher** (`imagewatch`). Leases on followed images and the runs they
start. *Correct when:* one check and one deployment per moved tag.

**Leader election and supervision** (`kube/leader`, `supervise`). A thin layer
over client-go's elector, and a restart loop with backoff.

**Backup, restore and upgrade** (`store/backups.go`, `core/upgrade`). A restore
raises every generation beyond any the clusters may have seen and delivers every
target again; upgrades go step by step. *Correct when:* nothing written in the
lost interval outranks what is delivered after it.

**Keyring and sealed secrets** (`keyring`, `store/secrets_*.go`,
`kube/materializer/secrets.go`). Rotation, revocation, and collection of
revisions no run uses. *Correct when:* a revision a run needs is never
collected.

**Installation journal** (`install/journal`). Which step of a setup ran, and
who owns what it touched. *Correct when:* an uninstall removes only what the
setup made.

**Left out for good.** Rendering (`kube/render`): pure functions; the models use
only that two renderings of one plan agree. Integrations (git providers,
registries, OIDC) and the HTTP API, CLI and console: input, output and
validation around the store transactions above. Projections (`kube/projection`):
read models, rebuilt from watches.

## 2. Plan

Done: the core (`RunPhase`, `RunMachine`, `Operations`, `Delivery` against its
abstract specification `GenerationFence`), builds with the target's
compare-and-set (`BuildPhase`, `Builds`), delivery through an agent
(`AgentDelivery`), and the outbox with incidents and webhooks (`Notify`), with
the proofs of section 5.

Left, in this order:

1. `Drift`, as a further actor of `Delivery`: the fence must hold with it.
2. `AgentDelivery` under the claims of `Operations`, the handover of a target
   from the controller to an agent, and `Enrollment`.
3. `Lifecycle` (environments, projects, detaching), `Previews`, `ImageWatch`.
4. `Restore` (the generation jump), `SecretRevisions` (rotation, collection),
   `Journal`, idempotency receipts.

Every safety property of a passing run is proved (section 5); a module added
here comes with its proofs.

## 3. The modules

| Module | Stands for |
| --- | --- |
| `RunPhase` | the transition table of a run, no variables |
| `RunMachine` | one run fed with any events, and its outcome columns |
| `Operations` | claims, leases, fences, and the transaction that moves a run |
| `Delivery` | one target: its runs, operations, workers, App and record |
| `GenerationFence` | abstract: what the fence promises of a target's App |
| `DeliveryFence` | the inductive invariant behind that promise |
| `DeliveryHistory` | `Delivery` with two history variables for two properties |
| `AgentDelivery` | one target delivered through an agent: runs, hub, link, agent |
| `BuildPhase` | the transition table and the plan of a build, no variables |
| `Builds` | one target built from Git: heads, attempts, slots, Jobs, workers |
| `Notify` | the notifiers of all replicas on the messages of one target |
| `MC...` | instances for TLC |
| `RunMachineProofs`, `OperationsProofs`, `AgentProofs`, `BuildsProofs`, `NotifyProofs` | the theorems of one module each |
| `DeliveryProofs`, then `ReleaseProofs`, `HistoryProofs` | the theorems of `Delivery` and `DeliveryHistory`, each module resting on those before it |

`Delivery` and `AgentDelivery` share `RunPhase`: both move runs by its table.
`Operations` justifies how `Delivery` and `Builds` treat a claim (below).

A definition whose comment begins "Defect:" is not part of a specification. It
is a plausible bug of the definition that follows it; put in its place, it must
make TLC report the property named for it in `PROJECT.json`.

### Operations and Delivery: two grains of the same rows

`Operations` keeps the numbers: a fence counts up, a claim remembers the one it
was given, `AdvanceRun` is a transaction of three steps. It shows that of all
workers ever given an operation, at most one `Holds` it (`OneHolder`).

`Delivery` uses that result. There `ops[o].fence` is the *worker* whose claim
raised the fence last, or `None` when that worker no longer works under it;
fences are only ever compared for equality with a claim's own, so nothing else
of the number matters. One `AdvanceRun` is one step. What this hides, a
claim between the comparison of the fence and the commit, is what `Operations`
has as steps of its own, and `NoMoveIsLost` shows why it loses nothing: whoever writes
a phase has locked the row it was computed from, so it is one legal event
applied to the current phase.

### Delivery and the code

Variables: `target` is the row of `application_targets` (its generation, pause
and deletion marks); `runs` the rows of `deployment_runs`, numbered by their
generation, each sharing that number with its operation in `ops`; operation 0 is
the deletion of the target; `written` is `target_materializations`; `app` the
App object and its status; `jobs[w]` the claim worker `w` holds and the step it
is about to take.

| Code | Actions |
| --- | --- |
| `startWith`, `supersedeOlder` | `StartRun` |
| `DecideRun`, `policy.Decide` | `Decide` |
| `PauseTarget`, `ResumeTarget`, `DeleteApp` | `Pause`, `ResumeTarget`, `DeleteTarget` |
| `ClaimOperation` | `Claim` |
| `carry`, the head of `drive`, `awaitApproval` | `Load`, `Expire` |
| `holdIfPaused` (both calls) | `Hold` |
| `prepare`, `StoreRunPlan` | `Ready`, `Prepare` |
| `writeApp`, `currentGeneration`, `FenceFor`, `put` | `GetApp`, `Fence`, `Put` |
| `RecordMaterialization`, `advance` | `Record`, `Accept` |
| `writtenGeneration`, `verify`, `ProgressOf`, `toVerifying` | `Resume`, `Renew`, `Look`, `ToVerifying`, `Deadline`, `Again` |
| `end`, `settle` | `End`, `Finish`, `GiveBack` |
| `deleteTarget` | `FindTarget`, `RemoveApp`, `MarkDeleted` |
| clocks | `Due`, `WindowCloses`, `LeaseExpires` |
| the App controller, other people | `Reconcile`, `LoseApp` |
| failures | `Crash`, `Fail`, and the lost reply in `Advance` |

`holdIfPaused` reads the pause as of its own statement, so `Hold` is one step
and the write is another; the same holds for `Fence` and `Put`. A conflict is
what the API server makes of the resourceVersion (`Conflict`): `seen` remembers
whether the App the worker read is still the App there.

### AgentDelivery and the code

Variables: `target` and `runs` as in `Delivery`; `workers[g]` the worker that
follows run `g` and when it last sent the envelope; `linked`, `outbox` the hub's
link of the cluster and the envelopes it has accepted; `task` what the agent
carries out; `cancelled` tasks whose context ended while a request of theirs was
under way; `cluster` the generation of the ApplicationRuntime and the plans
applied; `reports` what the agent said on this link, `late` what it said on
earlier ones and the hub has still to read; `observation` the row of
`runtime_observations`.

| Code | Actions |
| --- | --- |
| `startWith`, `PauseTarget`, `ResumeTarget` | `StartRun`, `Pause`, `Resume` |
| `driveAgent`, `prepareEnvelope` | `Claim`, `RefuseEnvelope` |
| `followAgent`, `HeardOf`, `heard` | `Look`, `Move` |
| `send`, the tail of the loop, its deadline | `Send`, `Again`, `Deadline`, `ResendDue` |
| `link.Run`, `KeepAlive`, `work.stop` | `Link`, `Cut` |
| `Hub.handle`, `recordObservation` | `Hear` |
| `work.start` | `Take` |
| `Carry`: `writeRuntime`, `applyResources`, `prune`, `verify` | `WriteRuntime`, `ApplyResources`, `Verify`, `CancelledEnds` |
| failures | `Restart`, `Cut`, and the faults of `Hear`, `WriteRuntime`, `ApplyResources`, `Verify` |

A cancelled task is not waited for (`keepalive.go:46`), so `CancelledEnds` lets
its last request land, or not, at any later time, and may report its failure. A
link that ends loses any suffix of what it carried (`Cut`).

### Builds and the code

Variables: `heads`, `hooks` the provider; `target`, `binding`, `syncing` and
`attempts` the rows of the target, its binding, its sync operation and its build
attempts, each with the verdict of its own operation (`done`); `holder[o]` the
worker whose claim raised the fence of operation `o` last; `slots` the rows of
`build_slots`; `jobs` what each Job shows; `late` the attempts past their
deadline; `desired` the attempt the target runs; `work[w]` the step of worker
`w` and what it read.

| Code | Actions |
| --- | --- |
| a push, `pushEvent`, `RequestSync` | `Push`, `Webhook` |
| `BindSource`, `RequestBuildCancel`, `RetryBuild` | `Rebind`, `RequestCancel`, `Retries` |
| `Rollback`, `ResumeAuto`, `BeginDeletion` | `Choose`, `ResumeAuto`, `BeginDeletion` |
| `WorkOnce`, `ClaimOperation`, `settle` | `Claim`, `Settle`, `GiveBack` |
| `sync`, `SyncBinding`, `readHead`, `ObserveHead` | `ReadBinding`, `ReadHead`, `ObserveHead`, `FinishSync` |
| `build`, `PlanFor`, `NextFor` | `ReadAttempt` |
| `admit`, `ClaimBuildSlot`, `createObjects` | `ClaimSlot`, `CreateObjects` |
| `observe`, `Classify`, `deleteJob` | `Observe`, `DeleteJob` |
| `record`, `AdvanceBuild`, `moveAttempt` | `Record` |
| `verify`, `CompleteBuild`, `autodeploy`, `TryAutodeploy` | `Verify`, `Complete` |
| `fail`, `cleanup` | `Fail`, `Cleanup` |
| the Job controller, lost nodes, clocks | `JobRuns`, `JobIsLost`, `GrowsOld` |
| leases and failures | `LeaseEnds`, `Crash`, `Retry`, and the lost replies of `CreateObjects`, `DeleteJob`, `Record` |

A claim that was taken over keeps its worker going: its writes compare the fence
(`Holds`) where the code does, and its calls to the cluster compare nothing.

### Notify and the code

Variables: `outbox`, `incidents`, `endpoints`, `deliveries` are the tables;
`silenced` an operator's silence; `notifier[n]` the step of replica `n`, the
messages and deliveries it took and the number of attempts each had then.
`Enqueue(m)` is the set of rows that the transaction of `handle` inserts; their
order in `deliveries` is arbitrary and nothing depends on it.

| Code | Actions |
| --- | --- |
| `finishOperation` and the other writers of the outbox | `Post` |
| `TakeOutbox`, `Consume`, `PlanOf`, `handle`, `incident`, `EnqueueEvent`, `MarkOutbox` | `TakeOutbox`, `Handle`, `HandleFails`, `Mark` |
| `TakeDeliveries`, `send`, `DeliverySucceeded`, `DeliveryFailed` | `TakeDeliveries`, `Send`, `DeliverySucceeded`, `DeliveryRetried`, `DeliveryGivenUp` |
| `RetryDelivery`, `ResolveIncident`, `DisableEndpoint`, silences | `RetryDelivery`, `ResolveIncident`, `DisableEndpoint`, `Silence` |
| clocks, failures | `MessageDue`, `DeliveryDue`, `MessageGrowsOld`, `Crash` |

### What is abstracted

- The stop codes of a refusal (`NameTaken`, `InvalidConfig` and the like) are
  one code, `refused`; a rendering either succeeds or is refused.
- The App's spec is identified with the generation annotation it is written
  under. Specs of two runs differ, so a write for another generation raises
  `metadata.generation`, and a write for the same one changes nothing.
- Backoff times are the facts that `next_attempt_at` and `lease_until` have
  passed or not.
- `FenceFor` also logs an annotation newer than ours (`FenceForged`) and writes
  over it. `FenceInv` shows that Kuben never writes one: SQL is read after the
  object and generations only grow, so `Fence` has no such case. A run whose
  row is gone (`RunMissing`) is left out for the same reason: nothing deletes it.
- Not in `Delivery`: the wait for the namespace and the ensured project and
  environment objects, secret objects and their collection, the reaction to a
  target handed to an agent, and drift.
- `AgentDelivery` gives each run the one worker that holds its claim; what a
  claim loses and regains is `Delivery`'s subject. The envelope is its
  generation, a plan is applied as a whole or not at all, and pruning is left
  out. When a link is dead is not computed from heartbeats: it may end any time.
- `Builds` has one target and one repository, and one limit of slots in place of
  three (organization, project, all). A commit is a branch and a number. The
  wait times of a claim are left out: a claim given back may be taken again at
  once. Fetch tokens, logs, scans and the mirrored BuildRun are left out: no
  decision is taken from them.
- `Notify` has one target, so an incident's dedupe key is the target's, and every
  endpoint subscribes to every event. Commit statuses are left out: they are
  posted best-effort and repeated with each handling.

## 4. The runs

Every passing run explores its instance exhaustively.

| Run | Asks |
| --- | --- |
| `RunMachine` | Do a run's columns contradict its history, for any sequence of events? |
| `Operations` | Three workers, two operations, up to three claims of each: can two of them write, is anything settled twice, is a move lost, are events out of order? |
| `DeliveryFaults` | Two workers, two runs, two faults of any kind: do the generation fence, the record's run and the operations stay right? |
| `DeliveryControls` | Two runs that may need two approvals, while the target is paused, rolled back in an emergency or deleted between any two steps: does the pause hold, was it approved first, is the verdict the run's own, is its operation honest, does the record stay behind the App? |
| `DeliveryWaits` | Does a run reach its verdict, with an approval, a pause, a deletion and one fault of any kind? Is a deletion carried out? |
| `Builds` | Two workers, a push and two faults of any kind, a cancellation among them: slots, superseding, cancellation and the operations' verdicts? |
| `BuildsEnd` | Three attempts, a changed binding and one fault of any kind: does every build end with its slot free, and does only the recorded head deploy by itself? |
| `BuildsItsBranch` | Expected to fail: is a build of the current binding always of its branch? (section 6) |
| `Notify` | Two notifiers, two messages and one fault: is anything marked that was not queued, is an event queued twice for an endpoint, or a resolution of an incident that is open? |
| `NotifyEnds` | One message, two faults or requests of any kind: is it handled, and does every delivery end? |
| `Agent` | Two runs over a link of one envelope and one observation, one fault of any kind: is what SQL says of a run so in its cluster? |
| `AgentArrives` | One run and three faults of any kind: is its envelope heard of, or the run settled? |

**Bounds.** Two runs are enough for "a newer run supersedes one in flight", and
two workers for "the claim was taken over"; what a third would add is another
worker of the same kind, and the theorems cover any number.
`MaxAttempts = 2` lets one attempt fail and the next be the last.
`MaxConflicts = 2` has a conflict that is tried again and one that gives up.
Faults are counted together, up to two in `DeliveryFaults`: a stall whose
taken-over worker then meets a second fault. Approvers and required approvals
are two where counting is the question. `MaxFence = 3` claims of each operation
let an old claim outlive two others. In `Builds` one slot for two attempts makes
the second wait; `MaxTries = 2` has a lost worker retried once and given up
once; in `BuildsEnd` the third attempt is that of a new binding beside a retry.
`Capacity = 1` and `Window = 1` in the agent runs are the smallest buffers, where
a full outbox and a full report channel happen at once; `late` is bounded by
them and by the faults. In `Notify` one fault is enough for two notifiers to hold
the same message, which is the case in question; `NotifyEnds` adds a second.

**Symmetry** of workers, approvers and notifiers is used where no liveness
property is checked. **Deadlock** is not checked (`CHECK_DEADLOCK FALSE`): every
instance really stops, when the runs, claims, pushes, messages and faults it
allows are used up, and a final phase of `RunMachine` takes no event. Nothing
waits on anything else in a cycle: the liveness properties say that the waits
end.

**Fairness.** A process that has work takes its next step: it is a sequential
program whose calls return or time out, so each is weakly fair.

- `Delivery`: `WF` of a worker's step; the loops of all workers claim in order
  of `next_attempt_at`, so an operation claimable again and again is claimed by
  somebody (`SF` of `Claim` for each operation); clocks run (`WF` of `Due`,
  `WindowCloses`, and of `LeaseExpires` for a lease nobody works under); `verify`
  compares the time with its deadline each time round, so a wait looked at again
  and again ends (`SF` of `Deadline`).
- `Builds`: `WF` of a worker's step, `SF` of `Claim` for each operation as above,
  `WF` of `JobRuns` (a Job has `activeDeadlineSeconds`) and `GrowsOld` (a clock).
- `Notify`: `WF` of each notifier's step and of the two clocks.
- `AgentDelivery`: `WF` of workers, the agent's dialing (`Link`), the hub's
  reader (`Hear`) and the agent's task; `SF` of `ResendDue`, `Send` and
  `WriteRuntime`, which other steps interrupt again and again but which the loops
  return to: `followAgent` looks once a second and resends once a minute. No
  fairness on `Deadline`: the property holds without the timeout.

Nothing is assumed of people, of the App controller, of receivers, or of a
worker that stalls; no fault is ever required. `EveryRunSettles` excludes only a
target that is paused again and again, or for good, and so does
`EnvelopesArrive`, which also leaves aside an envelope that the agent's `Check`
refuses (section 6).

## 5. The proofs

`RunMachineProofs`: all five properties of `RunMachine`, for any sequence of
events. What they need of the table is which phases a phase is entered from
(`EnteredFrom`); the invariant adds what the phase says of the history: a run in
a phase before, during or just after delivery never failed, and one that is
delivered, or asked to recover, was accepted by the cluster or failed.

`OperationsProofs`: `TypeOK`, `OneHolder`, `SettledOnce`, `NoMoveIsLost` and
`EventsInOrder` of `Operations` for any workers, operations and claims, from
`OperationsAssumption` (`None` is neither a worker nor an operation, the bounds
are numbers). `OneHolder` needs the invariant that no claim is newer than the
fence of its row and that two claims of one operation never share a fence;
`NoMoveIsLost` that the row lock has one holder.

`DeliveryProofs`: from `DeliveryAssumption`, `TypeOK /\ FenceInv` is inductive.
`FencePromise` alone is not: a worker past the fence may write at any later
time, so the invariant says what every worker knows at each step. Between its
read and its write, a worker past `Fence` whose object is still the one it read
knows that this object is not newer than what it writes; and a worker works on
accepted generations only. Then every step of `Delivery` is a step of
`GenerationFence` or leaves it alone (`FenceKept`): whatever the crashes, stalls
and lost claims, the App carries an accepted generation and no write replaces a
newer one by an older one.

The same module has `OneOwner`, for any number of runs. A settled run stays
settled because the final phases of `RunPhase` absorb every event
(`FinalAbsorbs`), and a new run settles all older ones when it is accepted.

`ReleaseProofs`: `ApprovedFirst` and `RecordedRun`. A worker that writes looked at
the run's phase long ago; the run may have been superseded since, the worker may
have lost its claim. So the invariant (`ReleaseInv`) says of every worker on its
way to a write (`Delivering`) that its run is approved, and of every worker past
`Prepare` (`Writing`) that its plan is frozen. Both are kept because no step takes
back what allowed a run (`Grows`): approvals are only added, a plan is frozen
once, only an approval releases a parked run. That the run between delivery and
verdict is the recorded one follows from three facts: it was recorded before it
was moved and the record never goes back (`RecordGrows`), no record is newer than the target's
generation, and every older run is settled.

The same module has `OperationTellsFate`. Between a run's last event and the
`FinishOperation` that tells of it, the worker may be taken over and the run
superseded. The invariant (`FateInv`) says of a worker about to finish that the
phase it carries is the run's verdict, or "failed" of a run superseded since; a
verdict stays one because final phases absorb every event, and a failed run, for
which no worker asks a compensation, can only be superseded (`FailedTo`).

`HistoryProofs`: `VerifiedItsOwn`, `RecordStands` and `PauseHolds`. All are about
what a worker saw or did some steps ago, so they rest on one lemma, `StepLeads`: by which step, and
from which state of the App and the target, a worker comes to its write, to its
look at the result and to its verdict.

- `VerifiedItsOwn`. A verdict is given steps after the look it rests on, and
  other workers may write in between. The invariant (`VerifyInv`) says that
  what was written stands (`Stands`): the App is still there, of that generation
  or a newer one, and while it is of that generation its `metadata.generation` is
  the one the worker waits for, so what was seen reconciled still is. A worker
  that succeeds moves its run by an event, which is legal only while the run is
  not settled; by `OneOwner` it is then the target's newest, so the App that
  stands is its own. The theorem assumes that nobody deletes the App from outside
  (`"removal" \notin Faults`) and the property leaves out a target that is being
  deleted. Both are needed: an App that is created anew counts its generations
  from one (section 6).
- `RecordStands`. The write and its record are two steps, and a newer run may
  write between them, or before them and record after. `VerifyInv` says of every
  worker past its write, as it says of the record, that what it wrote stands, so
  whichever of them records leaves a record that stands; a worker whose write
  another one overtook is fenced off or records an older generation than the
  App's. A resumed verification rests on it (`Worker.writtenGeneration`). The
  assumption is that of `VerifiedItsOwn`. The run of this property has no faults
  and two live workers; crashes and taken-over workers are covered by the
  theorem. The second writer of the record, `RecordDrift`, is not modelled.
- `PauseHolds`, of `DeliveryHistory`, is inductive on top of the invariant of the
  release: a pause begins in a step in which no worker moves (`PauseBegins`), after
  it the write is entered only through the second look at the target, and the
  reason of an accepted run never changes (`EmergencyStays`).

`AgentProofs`, from `AgentAssumption` (the bounds are numbers): `TypeOK` and
`RunsTellTheCluster` for any number of runs and any size of the buffers. A move
of a run is far from the fact it tells of: the agent writes, reports, the hub
records, a worker reads, and moves the run. So the invariant says that every
observation on its way, late, recorded or remembered by a worker tells what the
cluster already did (`Holding`), and that a task past a step did that step; the
cluster only moves on (`StaysTrue`), so what was true stays true.

`BuildsProofs`, from `BuildsAssumption`: `TypeOK`, `SlotsHold`, `OlderBuildsStop`,
`CancelledWhenAsked`, `OperationTellsBuild` and `DeploysTheHead` for any workers,
branches, attempts, slots and faults. The invariant
`TypeOK /\ RowsOK /\ SlotsOK /\ EpochsOK /\ JobsOK` says what a worker's
memory is worth: while it holds the claim, the attempt it read has changed only
in what other requests may change (`cancel` is raised, never lowered), and the
events it is about to record are legal in the phase the attempt has; once it has
lost the claim, none of its writes has an effect.

`NotifyProofs`, from `NotifyAssumption` (there are finitely many endpoints, the
bounds are numbers): `TypeOK`, `MarkedIsQueued` and `ToldOnce` for any number of
replicas, endpoints and messages.

- A transaction queues a *set* of rows, appended in any order: `SetAsSequence`
  says that the sequence of a finite set has each element once and nothing
  else, and `RowsAreFinite` that the rows of a message are such a set.
- Handling a message and marking it are two transactions, and the notifier may be
  slow, or die, between them while another one takes the message. `MarkInv`
  therefore says of a notifier that is about to mark that the queue has the event
  for every endpoint that still listens. Nothing takes that back: rows keep their
  event and endpoint, an endpoint once disabled stays so, a message that grew old
  stays old (`RowsAreKept`, `RestIsKept`).
- `ToldOnce` needs to know why a repeated message tells nothing new. `ToldInv`
  adds that every row about an incident is of one that exists, and of a
  resolved one if it says so. Then a new row differs from all earlier ones
  (`NewRowsAreNew`): a message's row is looked for first, an incident that is
  opened did not exist, and one that is told resolved was open until this
  transaction.

*Only model-checked:* liveness (`EveryRunSettles`, `DeletionFinishes`,
`BuildsEnd`, `MessagesAreHandled`, `DeliveriesEnd`, `EnvelopesArrive`), which the
prover does not reach, nor `ENABLED`. No proof needs an induction over data, and
no module declares a recursive function or operator. The claims of section 6 that
the code does not keep have no theorem, of course: each has a counterexample.

## 6. What the models show of the code

One run is expected to fail:

- **BuildsItsBranch** (`store/builds.go:1073`). `ObserveHead` reads the binding
  again "under the lock: a concurrent rebinding cannot slip between". The head
  it records was read from the provider before, of the branch the binding had
  then: a binding changed in between is built from a commit of the old branch,
  under the new configuration revision, and deploys.

### Claims stated beside the models

These sentences of the repository are stated as operators in the modules, each
with its source in the comment, and the code does not keep them. They are not
among the runs; a cfg with the operator as its INVARIANT (or PROPERTY) and the
constants of the run named shows the counterexample.

| Claim | Run to take the constants from | What happens |
| --- | --- | --- |
| `Delivery!DecisionActsAtOnce` | `DeliveryControls` | a worker that read the run as waiting gives its claim back with a later `next_attempt_at` and overwrites the wake-up of the decision (`policies.go:8-10`) |
| `DeliveryHistory!WaitingIsNotAFailure` | `DeliveryControls` | `stopWait` is "not a failure", but each claim counts as an attempt, and the count decides whether the first error ends the run |
| `DeliveryHistory!VerifiedItsOwn` | `DeliveryControls` with the fault `"removal"` | an App deleted by somebody and created again by a newer run starts over at generation 1, and its readiness becomes the older run's verdict |
| `Delivery!DeletedTargetHasNoApp` | `DeliveryControls` | the last look of a delivery at SQL is not at the deletion mark, and a create does not depend on what was there: the App of a deleted target is there again |
| `Operations!MovesAreCurrent` | `Operations` | migration 0005 makes "every write by a worker conditional on the fence it claimed with"; `lockRunUnderFence` locks the run only, so a claim fits in before the commit (`NoMoveIsLost` shows that this loses nothing) |
| `Builds!PushedOutputKept` | `Builds` | "an output that was already finished is still verified": a registry that is down when a stop is asked for makes `planStop` forget the reported digest |
| `Builds!JobsWithinSlots` | `Builds` | `createObjects` asks for no fence: a worker that was taken over creates the Job of an attempt that has ended meanwhile and given its slot back |
| `Notify!SuccessResolves` | `Notify` | a "failed" message that was retried is handled after the later "succeeded": its incident stays open |
| `Notify!DisabledAfterFailures` | `Notify` | two notifiers give up one delivery; both count |

### Further facts, which no run checks

- *Delivery.* `deleteTarget` writes its last row without asking for the fence
  (the write is idempotent). A run superseded between `currentGeneration` and
  `put` may still write the App, which the newer run replaces under the fence.
- *Builds.* `RequestSync` answers a push with a sync that is pending although its
  head may already be read: the push is built only with the next one
  (`builds.go:976`), and two concurrent calls take no lock. `fail` settles the
  operation as failed also where a stop that came in between made the attempt
  cancelled, so `OperationTellsBuild` speaks of success only. `overdue` with a
  cleanup that has to be retried finds a final attempt: `IllegalTransition`.
  `recordHead` keeps the repository's id with `COALESCE`, also that of a
  repository the binding has left.
- *Agent.* What `Check` refuses is reported with generation 0, so the run does
  not hear of it and ends by `VerifyTimeout`, not with the agent's reason
  (`agent.go:14-17`). A link lost during a rollout is not made good: nothing is
  resent once the envelope was accepted. A request of an older task may land
  after the newer task's (`keepalive.go:46`): `ready` then says less than "every
  workload of the envelope's generation is available"
  (`src/packages/api/agentlink/protocol.go:98`), and `RunsTellTheCluster` states
  what remains true. A task cancelled by a resent envelope of the same generation
  may report a failure that ends the run. A resent envelope is not checked
  against a pause. A handover while a controller's worker is about to write
  creates the App again after it was orphaned.

## 7. Not modelled, and why

The parts listed under "Not modelled" in section 1, and of the modelled parts
what section 3 lists as abstracted. The larger gaps are drift, previews, the
image watcher and the restore: they are state machines like those above and the
plan's next modules. The HTTP API, its generated encoders and decoders (most of
the repository's lines), the CLI, the console, the integrations and rendering
keep no state of their own that outlives a call, so there is nothing for a state
machine to say of them; that is also why the share of the repository's lines
that `PROJECT.json` maps is small.
