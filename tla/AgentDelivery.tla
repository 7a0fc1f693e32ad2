--------------------------- MODULE AgentDelivery ---------------------------
(***************************************************************************)
(* Delivery of one target through the agent of its cluster (ADR-027): the  *)
(* materializer's worker (materializer/agent.go), the hub of AgentLink     *)
(* (agentlink/hub.go), the agent's link and executor (kuben-agent), the    *)
(* generation rule of the ApplicationRuntime, and the observations that    *)
(* come back into SQL (store/agents.go).                                   *)
(*                                                                         *)
(* Delivery models claims, leases and fences; here every run has the one   *)
(* worker that holds its claim.                                            *)
(***************************************************************************)
EXTENDS RunPhase, Naturals, Sequences

CONSTANTS
  MaxGeneration,  \* bound: runs accepted
  Capacity,       \* envelopes the outbox of a link holds
  Window,         \* observations a link holds
  MaxFaults,      \* bound: faults
  Faults          \* which of them happen

ASSUME AgentAssumption ==
  /\ {MaxGeneration, MaxFaults} \subseteq Nat
  /\ Capacity \in Nat \ {0} /\ Window \in Nat \ {0}

Generations == 1..MaxGeneration

VARIABLES
  target,       \* application_targets: desired generation, paused
  runs,         \* deployment_runs, by generation
  workers,      \* the worker that holds the claim of each run
  linked,       \* the agent's link is up
  outbox,       \* envelopes on their way to the agent, by generation
  task,         \* the envelope the agent carries out
  cancelled,    \* tasks cancelled with a request of theirs still under way
  cluster,      \* generation of the ApplicationRuntime, plans applied
  reports,      \* observations on their way to the hub
  late,         \* observations of earlier links, still to be read
  observation,  \* runtime_observations
  faults        \* faults so far

vars == <<target, runs, workers, linked, outbox, task, cancelled, cluster,
          reports, late, observation, faults>>

agent == <<linked, outbox, task, cancelled, cluster, reports, late>>

NoPhase == "absent"

\* bad: an envelope the agent's Check refuses.  by: who failed the run.
Run == [phase : Phase \cup {NoPhase}, bad : BOOLEAN,
        by : {"none", "agent", "kuben"}]

Heard == {"nothing", "accepted", "applying", "ready", "failed", "newer"}

\* sent: not yet, within the last minute, or longer ago.
Worker == [at : {"idle", "look", "move", "wait"},
           heard : Heard, sent : {"no", "recent", "old"}]

Idle == [at |-> "idle", heard |-> "nothing", sent |-> "no"]

Observation ==
  [generation : Nat,
   phase : {"none", "accepted", "applying", "ready", "failed", "rejected"}]

\* mute: the link the task reports to is gone.
Task == [generation : Nat, at : {"none", "write", "apply", "verify"},
         mute : BOOLEAN]

NoTask == [generation |-> 0, at |-> "none", mute |-> FALSE]

Init ==
  /\ target = [generation |-> 0, paused |-> FALSE]
  /\ runs = [g \in Generations |->
               [phase |-> NoPhase, bad |-> FALSE, by |-> "none"]]
  /\ workers = [g \in Generations |-> Idle]
  /\ linked = FALSE
  /\ outbox = <<>>
  /\ task = NoTask
  /\ cancelled = {}
  /\ cluster = [runtime |-> 0, applied |-> {}]
  /\ reports = <<>>
  /\ late = <<>>
  /\ observation = [generation |-> 0, phase |-> "none"]
  /\ faults = 0

Faulty(kind) ==
  /\ kind \in Faults /\ faults < MaxFaults
  /\ faults' = faults + 1

Settled(g) == runs[g].phase \in Final \cup {"failed", NoPhase}

-----------------------------------------------------------------------------
(* Requests.                                                               *)

\* startWith: a run is accepted, and the older ones are superseded.
StartRun(bad) ==
  LET g == target.generation + 1
  IN /\ g \in Generations
     /\ IF bad THEN Faulty("bad") ELSE UNCHANGED faults
     /\ target' = [target EXCEPT !.generation = g]
     /\ runs' = [h \in Generations |->
          IF h = g THEN [runs[h] EXCEPT !.phase = "planned", !.bad = bad]
          ELSE IF h < g /\ runs[h].phase \notin Final
          THEN [runs[h] EXCEPT !.phase = "superseded"]
          ELSE runs[h]]
     /\ UNCHANGED <<workers, agent, observation>>

Pause ==
  /\ ~target.paused /\ Faulty("pause")
  /\ target' = [target EXCEPT !.paused = TRUE]
  /\ UNCHANGED <<runs, workers, agent, observation>>

Resume ==
  /\ target.paused
  /\ target' = [target EXCEPT !.paused = FALSE]
  /\ UNCHANGED <<runs, workers, agent, observation, faults>>

-----------------------------------------------------------------------------
(* The worker.                                                             *)

At(g, step) == workers[g].at = step

GoTo(g, step) == workers' = [workers EXCEPT ![g].at = step]

Drop(g) == workers' = [workers EXCEPT ![g] = Idle]

\* Worker.advance; a run that was settled meanwhile is left as it is.
Advance(g, event, by, step) ==
  /\ UNCHANGED <<target, agent, observation>>
  /\ IF Apply(runs[g].phase, event) = {}
     THEN Drop(g) /\ UNCHANGED runs
     ELSE \E q \in Apply(runs[g].phase, event) :
            /\ runs' = [runs EXCEPT ![g].phase = q, ![g].by = by]
            /\ IF step = "idle" THEN Drop(g) ELSE GoTo(g, step)

\* drive: the run of a paused target waits, before it is delivered.
Held(g) ==
  runs[g].phase \in {"planned", "pendingDelivery"} /\ target.paused

\* driveAgent
Ready(g) ==
  /\ At(g, "idle") /\ runs[g].phase = "planned" /\ ~Held(g)
  /\ Advance(g, "readyForDelivery", "none", "idle")
  /\ UNCHANGED faults

\* The claim, and prepareEnvelope, which leaves nothing here: an error, or an
\* App that is still to be orphaned, is claimed again.
Claim(g) ==
  /\ At(g, "idle") /\ ~Settled(g)
  /\ runs[g].phase # "planned" /\ ~Held(g)
  /\ GoTo(g, "look")
  /\ UNCHANGED <<target, runs, agent, observation, faults>>

\* The envelope cannot be made.
RefuseEnvelope(g) ==
  /\ At(g, "idle") /\ ~Settled(g)
  /\ runs[g].phase # "planned" /\ ~Held(g)
  /\ Faulty("refuse")
  /\ Advance(g, "failed", "kuben", "idle")

\* Defect: a rejection is passed on as it came.
HeardRaw(g) ==
  CASE observation.generation < g -> "nothing"
    [] observation.generation > g -> "newer"
    [] OTHER -> observation.phase

\* Defect: the observation may be of an older generation.
HeardOlder(g) ==
  CASE observation.phase = "none" -> "nothing"
    [] observation.generation > g -> "newer"
    [] observation.phase = "rejected" -> "failed"
    [] OTHER -> observation.phase

\* What the latest observation says of generation g.
HeardOf(g) ==
  CASE observation.generation < g -> "nothing"
    [] observation.generation > g -> "newer"
    [] observation.phase = "rejected" -> "failed"
    [] OTHER -> observation.phase

\* followAgent: the observation is read in a transaction of its own.
Look(g) ==
  /\ At(g, "look")
  /\ workers' = [workers EXCEPT ![g].at = "move", ![g].heard = HeardOf(g)]
  /\ UNCHANGED <<target, runs, agent, observation, faults>>

\* The events of accepted and toVerifying, by the phase they leave.
Steps == [acceptedByCluster |-> "preflightStarted",
          preflight |-> "preflightPassed", applying |-> "applied"]

\* heard, one event at a time.
Move(g) ==
  LET heard == workers[g].heard
      phase == runs[g].phase
  IN /\ At(g, "move") /\ heard # "nothing"
     /\ UNCHANGED faults
     /\ CASE heard = "newer"  -> Advance(g, "superseded", "none", "idle")
          [] heard = "failed" -> Advance(g, "failed", "agent", "idle")
          [] heard \in {"accepted", "applying", "ready"}
               /\ phase = "pendingDelivery" ->
               Advance(g, "acceptedByCluster", "none", "move")
          [] heard \in {"applying", "ready"} /\ phase \in DOMAIN Steps ->
               Advance(g, Steps[phase], "none", "move")
          [] heard = "ready"
               /\ phase \notin DOMAIN Steps \cup {"pendingDelivery"} ->
               Advance(g, "verified", "none", "idle")
          [] OTHER ->
               /\ workers' = [workers EXCEPT ![g].at = "wait",
                                             ![g].heard = "nothing"]
               /\ UNCHANGED <<target, runs, agent, observation>>

\* Defect: what was sent once is not sent again.
SendsOnce(g) == workers[g].sent = "no"

\* Never sent, or longer ago than resend.
Sends(g) == workers[g].sent # "recent"

\* send, and Hub.Send: over the link, if there is one; a pause holds what
\* was never sent.
Send(g) ==
  /\ At(g, "move") /\ workers[g].heard = "nothing"
  /\ IF ~Sends(g) THEN GoTo(g, "wait") /\ UNCHANGED outbox
     ELSE IF ~linked \/ (workers[g].sent = "no" /\ target.paused)
     THEN Drop(g) /\ UNCHANGED outbox
     ELSE /\ Len(outbox) < Capacity
          /\ outbox' = Append(outbox, g)
          /\ workers' = [workers EXCEPT ![g].at = "wait", ![g].sent = "recent"]
  /\ UNCHANGED <<target, runs, linked, task, cancelled, cluster, reports,
                 late, observation, faults>>

\* pause
Again(g) ==
  /\ At(g, "wait")
  /\ GoTo(g, "look")
  /\ UNCHANGED <<target, runs, agent, observation, faults>>

\* VerifyDeadline
Deadline(g) ==
  /\ At(g, "wait") /\ Faulty("timeout")
  /\ Advance(g, "failed", "kuben", "idle")

WorkerStep(g) ==
  \/ Claim(g) \/ Ready(g) \/ Look(g) \/ Move(g) \/ Send(g) \/ Again(g)

\* A minute passes since the envelope was sent.
ResendDue(g) ==
  /\ At(g, "wait") /\ workers[g].sent = "recent"
  /\ workers' = [workers EXCEPT ![g].sent = "old"]
  /\ UNCHANGED <<target, runs, agent, observation, faults>>

\* The worker's process ends, or its claim does.
Restart(g) ==
  /\ ~At(g, "idle") /\ Faulty("restart")
  /\ Drop(g)
  /\ UNCHANGED <<target, runs, agent, observation>>

-----------------------------------------------------------------------------
(* The link.                                                               *)

Link ==
  /\ ~linked
  /\ linked' = TRUE
  /\ UNCHANGED <<target, runs, workers, outbox, task, cancelled, cluster,
                 reports, late, observation, faults>>

\* The task under way is cancelled with a request of it still on its way; one
\* that only looks at the rollout has none.
Cancelled(mute) ==
  IF task.at \in {"none", "verify"} THEN cancelled
  ELSE cancelled \cup {[task EXCEPT !.mute = mute]}

\* The link ends, or the agent does: what is on its way to the agent is lost,
\* what it sent may still be read by the hub, its tasks are cancelled.
Cut ==
  /\ linked /\ Faulty("cut")
  /\ linked' = FALSE
  /\ outbox' = <<>>
  /\ reports' = <<>>
  /\ \E n \in 0..Len(reports) : late' = late \o SubSeq(reports, 1, n)
  /\ \E lingers \in {cancelled, Cancelled(TRUE)} :
       cancelled' = {[t EXCEPT !.mute = TRUE] : t \in lingers}
  /\ task' = NoTask
  /\ UNCHANGED <<target, runs, workers, cluster, observation>>

\* recordObservation: never over that of a newer generation.
RecordObservation(o) ==
  observation' = IF observation.generation <= o.generation THEN o
                 ELSE observation

\* Hub.handle, on this link or on an earlier one; or the store refuses, and
\* the observation is gone.
Hear ==
  /\ \/ /\ reports # <<>>
        /\ reports' = Tail(reports)
        /\ \/ RecordObservation(Head(reports)) /\ UNCHANGED faults
           \/ Faulty("record") /\ UNCHANGED observation
        /\ UNCHANGED late
     \/ /\ late # <<>>
        /\ late' = Tail(late)
        /\ \/ RecordObservation(Head(late)) /\ UNCHANGED faults
           \/ Faulty("record") /\ UNCHANGED observation
        /\ UNCHANGED reports
  /\ UNCHANGED <<target, runs, workers, linked, outbox, task, cancelled,
                 cluster>>

-----------------------------------------------------------------------------
(* The agent.                                                              *)

\* Report, once the link has room for it.
Says(g, phases) ==
  /\ Len(reports) + Len(phases) <= Window
  /\ reports' = reports \o [k \in DOMAIN phases |->
                  [generation |-> g, phase |-> phases[k]]]

elsewhere == <<target, runs, workers, linked, late, observation>>

\* work.start and Check: the older task is cancelled, not waited for, and a
\* request of it may still be under way; what Check refuses is reported
\* without its generation.
Take ==
  /\ linked /\ outbox # <<>>
  /\ outbox' = Tail(outbox)
  /\ \/ cancelled' = cancelled /\ UNCHANGED faults
     \/ cancelled' = Cancelled(FALSE) /\ Faulty("linger")
  /\ IF runs[Head(outbox)].bad
     THEN task' = NoTask /\ Says(0, <<"rejected">>)
     ELSE /\ task' = [generation |-> Head(outbox), at |-> "write",
                      mute |-> FALSE]
          /\ UNCHANGED reports
  /\ UNCHANGED <<elsewhere, cluster>>

\* The CEL rule "a lower generation is rejected".
Allows(g) == cluster.runtime <= g

Written(g) == [cluster EXCEPT !.runtime = IF Allows(g) THEN g ELSE @]

Applied(g) == [cluster EXCEPT !.applied = @ \cup {g}]

TaskAt(step) == task.at = step

\* writeRuntime; when it fails the write may still have been made.
WriteRuntime ==
  LET g == task.generation
  IN /\ TaskAt("write")
     /\ \/ /\ Allows(g)
           /\ cluster' = Written(g)
           /\ Says(g, <<"accepted">>)
           /\ task' = [task EXCEPT !.at = "apply"]
           /\ UNCHANGED faults
        \/ /\ ~Allows(g)
           /\ Says(g, <<"rejected">>)
           /\ task' = NoTask
           /\ UNCHANGED <<cluster, faults>>
        \/ /\ Faulty("api")
           /\ cluster' \in {cluster, Written(g)}
           /\ Says(g, <<"failed">>)
           /\ task' = NoTask
     /\ UNCHANGED <<elsewhere, outbox, cancelled>>

\* applyResources and prune
ApplyResources ==
  LET g == task.generation
  IN /\ TaskAt("apply")
     /\ \/ /\ cluster' = Applied(g)
           /\ Says(g, <<"applying">>)
           /\ task' = [task EXCEPT !.at = "verify"]
           /\ UNCHANGED faults
        \/ /\ Faulty("api")
           /\ UNCHANGED cluster
           /\ Says(g, <<"failed">>)
           /\ task' = NoTask
     /\ UNCHANGED <<elsewhere, outbox, cancelled>>

\* verify: the rollout is ready, or it failed or took too long.
Verify ==
  /\ TaskAt("verify")
  /\ \/ Says(task.generation, <<"ready">>)
        /\ UNCHANGED faults
     \/ Says(task.generation, <<"failed">>) /\ Faulty("rollout")
  /\ task' = NoTask
  /\ UNCHANGED <<elsewhere, outbox, cancelled, cluster>>

\* A cancelled task ends: its request was made or not, and Report sends what
\* came of it or sees that the task is cancelled, either of the two.
CancelledEnds(t) ==
  /\ cancelled' = cancelled \ {t}
  /\ \E landed \in BOOLEAN, said \in {<<>>, <<"failed">>} :
       /\ cluster' = IF landed /\ t.at = "write" THEN Written(t.generation)
                     ELSE IF landed THEN Applied(t.generation)
                     ELSE cluster
       /\ IF t.mute THEN UNCHANGED reports
          ELSE Says(t.generation, said)
  /\ UNCHANGED <<elsewhere, outbox, task, faults>>

AgentStep ==
  \/ Take \/ WriteRuntime \/ ApplyResources \/ Verify
  \/ \E t \in cancelled : CancelledEnds(t)

Next ==
  \/ \E bad \in BOOLEAN : StartRun(bad)
  \/ Pause \/ Resume
  \/ \E g \in Generations : \/ WorkerStep(g) \/ RefuseEnvelope(g)
                            \/ Deadline(g) \/ ResendDue(g) \/ Restart(g)
  \/ Link \/ Cut \/ Hear
  \/ AgentStep

Spec == Init /\ [][Next]_vars

\* Workers, the hub and the agent go on, the agent dials again, time passes;
\* people and faults need do nothing.  An envelope sent again cancels the task
\* of the one before: a write of the ApplicationRuntime is not always slower
\* than the minute between them.
Fairness ==
  /\ \A g \in Generations : WF_vars(WorkerStep(g)) /\ SF_vars(ResendDue(g))
                          /\ SF_vars(Send(g))
  /\ WF_vars(Link) /\ WF_vars(Hear) /\ WF_vars(AgentStep)
  /\ SF_vars(WriteRuntime)

FairSpec == Spec /\ Fairness

-----------------------------------------------------------------------------
(* Properties.                                                             *)

TypeOK ==
  /\ target \in [generation : 0..MaxGeneration, paused : BOOLEAN]
  /\ runs \in [Generations -> Run]
  /\ workers \in [Generations -> Worker]
  /\ linked \in BOOLEAN
  /\ outbox \in Seq(Generations)
  /\ task \in Task
  /\ cancelled \subseteq Task
  /\ cluster \in [runtime : 0..MaxGeneration, applied : SUBSET Generations]
  /\ reports \in Seq(Observation)
  /\ late \in Seq(Observation)
  /\ observation \in Observation
  /\ faults \in 0..MaxFaults

\* What SQL says of a run is so in its cluster, whatever was lost, late or
\* told twice on the way: a delivered run is on the ApplicationRuntime or
\* behind a newer one, and one that succeeded had its plan applied.
RunsTellTheCluster ==
  \A g \in Generations :
    /\ runs[g].phase \in Delivered \cup {"succeeded"} => cluster.runtime >= g
    /\ runs[g].phase = "succeeded" => g \in cluster.applied

\* "An envelope that brings no observation is sent again": links that end,
\* observations that are lost and workers that restart only delay it, until
\* the agent is heard of or the run is settled.  A pause may hold it, and
\* an envelope that the agent's Check refuses is never heard of.
EnvelopesArrive ==
  <>[]~target.paused =>
    \A g \in Generations :
      runs[g].phase = "pendingDelivery" /\ ~runs[g].bad
        ~> observation.generation >= g \/ Settled(g)
=============================================================================
