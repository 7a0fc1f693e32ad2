---------------------------- MODULE AgentProofs ----------------------------
(***************************************************************************)
(* Proofs about AgentDelivery, for any number of runs, any room on the     *)
(* link and any faults.                                                    *)
(*                                                                         *)
(* What SQL says of a run was first said by the agent, and what the agent  *)
(* said was true of the cluster when it said so and stays true: the        *)
(* ApplicationRuntime never goes back and an applied plan stays applied.   *)
(* The invariant follows a statement from the task that may make it over   *)
(* the link and the recorded observation to the worker that repeats it.    *)
(***************************************************************************)
EXTENDS AgentDelivery, TLAPS

\* What the state machine makes of the events a worker sends.
LEMMA ApplyFacts ==
  ASSUME NEW p, NEW e, NEW q \in Apply(p, e)
  PROVE  /\ q \in Phase /\ p \in Phase
         /\ e \in {"readyForDelivery", "failed", "superseded"}
              => q \notin Delivered \cup {"succeeded"}
         /\ e \in {"acceptedByCluster", "preflightStarted",
                   "preflightPassed", "applied"} => q # "succeeded"
  BY DEF Apply, Transitions, Progress, Blocking, Cancelling, Recovery,
         Phase, BeforeDelivery, Delivered, Final

-----------------------------------------------------------------------------
\* Words of the agent that say something of its cluster.
Heartening == {"accepted", "applying", "ready"}

\* What is true of a cluster in state c, and stays so as c moves on.
Holding(g, phase, c) ==
  /\ phase \in Heartening => g <= c.runtime
  /\ phase = "ready" => g \in c.applied

TrueOf(c) ==
  {o \in Observation : /\ Holding(o.generation, o.phase, c)
                       /\ o.phase = "none" => o.generation = 0}

\* What was told is true, wherever it is on its way.
TellsTrue ==
  /\ observation \in TrueOf(cluster)
  /\ reports \in Seq(TrueOf(cluster))
  /\ late \in Seq(TrueOf(cluster))

\* The task has done the steps it has left behind.
TaskDid ==
  /\ task # NoTask => task.generation \in Generations
  /\ task.at \in {"apply", "verify"} => task.generation <= cluster.runtime
  /\ task.at = "verify" => task.generation \in cluster.applied
  /\ cancelled \subseteq [generation : Generations, at : {"write", "apply"},
                          mute : BOOLEAN]

\* What a worker repeats is true.
WorkersRepeat ==
  \A g \in Generations : Holding(g, workers[g].heard, cluster)

IInv == TypeOK /\ TellsTrue /\ TaskDid /\ WorkersRepeat /\ RunsTellTheCluster
-----------------------------------------------------------------------------
\* What was true stays true as the cluster moves on.
LEMMA StaysTrue ==
  ASSUME NEW c, NEW d, c.runtime \in Nat, d.runtime \in Nat,
         c.runtime <= d.runtime, c.applied \subseteq d.applied
  PROVE  /\ \A g \in Nat :
              \A phase : Holding(g, phase, c) => Holding(g, phase, d)
         /\ TrueOf(c) \subseteq TrueOf(d)
         /\ Seq(TrueOf(c)) \subseteq Seq(TrueOf(d))
<1>1. \A g \in Nat : \A phase : Holding(g, phase, c) => Holding(g, phase, d)
  BY DEF Holding
<1>2. TrueOf(c) \subseteq TrueOf(d)
  BY <1>1 DEF TrueOf, Observation
<1>3. Seq(TrueOf(c)) \subseteq Seq(TrueOf(d))
  BY <1>2
<1> QED
  BY <1>1, <1>2, <1>3

\* The agent reports at most one thing in a step.
LEMMA ReportsStay ==
  ASSUME NEW S, reports \in Seq(S), NEW g, NEW phases,
         Says(g, phases),
         \/ phases = <<>>
         \/ \E p : phases = <<p>> /\ [generation |-> g, phase |-> p] \in S
  PROVE  reports' \in Seq(S)
<1> DEFINE new == [k \in DOMAIN phases |->
                    [generation |-> g, phase |-> phases[k]]]
<1>1. reports' = reports \o new
  BY DEF Says
<1>2. new \in Seq(S)
  <2>1. CASE phases = <<>>
    BY <2>1
  <2>2. ASSUME NEW p, phases = <<p>>, [generation |-> g, phase |-> p] \in S
        PROVE  new \in Seq(S)
    <3>1. DOMAIN phases = 1..1 /\ phases[1] = p
      BY <2>2
    <3>2. new \in [1..1 -> S]
      BY <2>2, <3>1
    <3> QED
      BY <3>2
  <2> QED
    BY <2>1, <2>2
<1> QED
  BY <1>1, <1>2

\* A worker goes on or lets go, and has heard no more than before.
LEMMA StepsTyped ==
  ASSUME TypeOK, NEW g \in Generations,
         \/ Drop(g)
         \/ \E step \in {"idle", "look", "move", "wait"} : GoTo(g, step)
         \/ UNCHANGED workers
  PROVE  /\ workers' \in [Generations -> Worker]
         /\ \A h \in Generations :
              workers'[h].heard \in {workers[h].heard, "nothing"}
<1>1. CASE Drop(g)
  BY <1>1 DEF Drop, TypeOK, Idle, Worker, Heard
<1>2. ASSUME NEW step \in {"idle", "look", "move", "wait"}, GoTo(g, step)
      PROVE  /\ workers' \in [Generations -> Worker]
             /\ \A h \in Generations : workers'[h].heard = workers[h].heard
  <2>1. [workers[g] EXCEPT !.at = step] \in Worker
    BY DEF TypeOK, Worker
  <2>2. [workers[g] EXCEPT !.at = step].heard = workers[g].heard
    BY DEF TypeOK, Worker
  <2> QED
    BY <1>2, <2>1, <2>2 DEF GoTo, TypeOK
<1>3. CASE UNCHANGED workers
  BY <1>3 DEF TypeOK
<1> QED
  BY <1>1, <1>2, <1>3

\* A worker moves its run to where the cluster is.
LEMMA AdvanceKeeps ==
  ASSUME IInv, faults' \in 0..MaxFaults, NEW g \in Generations, NEW event,
         NEW by \in {"none", "agent", "kuben"}, NEW step \in {"idle", "move"},
         Advance(g, event, by, step),
         \/ event \in {"readyForDelivery", "failed", "superseded"}
         \/ /\ event \in {"acceptedByCluster", "preflightStarted",
                          "preflightPassed", "applied"}
            /\ g <= cluster.runtime
         \/ g <= cluster.runtime /\ g \in cluster.applied
  PROVE  IInv'
<1> USE DEF IInv
<1>1. workers' \in [Generations -> Worker]
      /\ \A h \in Generations : workers'[h].heard \in {workers[h].heard, "nothing"}
  BY StepsTyped DEF Advance
<1>2. UNCHANGED <<target, linked, outbox, task, cancelled, cluster, reports,
                  late, observation>>
  BY DEF Advance, agent
<1>3. \/ UNCHANGED runs
      \/ \E q \in Apply(runs[g].phase, event) :
           runs' = [runs EXCEPT ![g].phase = q, ![g].by = by]
  BY DEF Advance
<1>4. runs' \in [Generations -> Run] /\ RunsTellTheCluster'
  <2>1. CASE UNCHANGED runs
    BY <2>1, <1>2 DEF TypeOK, RunsTellTheCluster
  <2>2. ASSUME NEW q \in Apply(runs[g].phase, event),
               runs' = [runs EXCEPT ![g].phase = q, ![g].by = by]
        PROVE  runs' \in [Generations -> Run] /\ RunsTellTheCluster'
    <3>1. /\ q \in Phase
          /\ q \in Delivered \cup {"succeeded"} => g <= cluster.runtime
          /\ q = "succeeded" => g \in cluster.applied
      BY <2>2, ApplyFacts
    <3>2. runs' \in [Generations -> Run]
      <4> DEFINE r == [runs[g] EXCEPT !.phase = q, !.by = by]
      <4>1. runs[g] \in Run
        BY DEF TypeOK
      <4>2. r \in Run
        BY <3>1, <4>1 DEF Run
      <4>3. runs' = [runs EXCEPT ![g] = r]
        BY <2>2
      <4> HIDE DEF r
      <4> QED
        BY <4>2, <4>3 DEF TypeOK
    <3>3. \A h \in Generations :
            runs'[h].phase = IF h = g THEN q ELSE runs[h].phase
      BY <2>2 DEF TypeOK, Run
    <3> QED
      BY <3>1, <3>2, <3>3, <1>2 DEF RunsTellTheCluster, TypeOK, Generations
  <2> QED
    BY <1>3, <2>1, <2>2
<1>5. TypeOK'
  BY <1>1, <1>2, <1>4 DEF TypeOK
<1>6. TellsTrue' /\ TaskDid'
  BY <1>2 DEF TellsTrue, TaskDid
<1>7. WorkersRepeat'
  BY <1>1, <1>2 DEF WorkersRepeat, Holding, Heartening
<1> QED
  BY <1>4, <1>5, <1>6, <1>7
-----------------------------------------------------------------------------
(* Requests and workers.                                                   *)

LEMMA TargetTyped ==
  ASSUME NEW t \in [generation : 0..MaxGeneration, paused : BOOLEAN]
  PROVE  /\ \A n \in 0..MaxGeneration : [t EXCEPT !.generation = n]
              \in [generation : 0..MaxGeneration, paused : BOOLEAN]
         /\ [t EXCEPT !.paused = TRUE]
              \in [generation : 0..MaxGeneration, paused : BOOLEAN]
         /\ [t EXCEPT !.paused = FALSE]
              \in [generation : 0..MaxGeneration, paused : BOOLEAN]
  OBVIOUS

\* A request changes the target, or supersedes runs.
LEMMA RequestsKeep ==
  ASSUME IInv, (\E bad \in BOOLEAN : StartRun(bad)) \/ Pause \/ Resume
  PROVE  IInv'
<1> USE AgentAssumption DEF IInv
<1>1. UNCHANGED <<workers, agent, observation>>
  BY DEF StartRun, Pause, Resume
<1>2. TellsTrue' /\ TaskDid' /\ WorkersRepeat'
  BY <1>1 DEF TellsTrue, TaskDid, WorkersRepeat, agent
<1>3. ASSUME NEW bad \in BOOLEAN, StartRun(bad)
      PROVE  TypeOK' /\ RunsTellTheCluster'
  <2> DEFINE n == target.generation + 1
  <2>1. /\ n \in Generations
        /\ target' = [target EXCEPT !.generation = n]
        /\ Faulty("bad") \/ UNCHANGED faults
    BY <1>3, Zenon DEF StartRun
  <2>a. faults' \in 0..MaxFaults
    BY <2>1 DEF Faulty, TypeOK
  <2>2. target' \in [generation : 0..MaxGeneration, paused : BOOLEAN]
    <3>1. n \in 0..MaxGeneration
      BY <2>1 DEF Generations
    <3> HIDE DEF n
    <3> QED
      BY <2>1, <3>1, TargetTyped DEF TypeOK
  <2>3. runs' \in [Generations -> Run]
    <3> DEFINE r(h) == IF h = n
                       THEN [runs[h] EXCEPT !.phase = "planned", !.bad = bad]
                       ELSE IF h < n /\ runs[h].phase \notin Final
                       THEN [runs[h] EXCEPT !.phase = "superseded"]
                       ELSE runs[h]
    <3>1. runs' = [h \in Generations |-> r(h)]
      BY <1>3, Zenon DEF StartRun
    <3>2. ASSUME NEW h \in Generations
          PROVE  r(h) \in Run
      <4>1. {"planned", "superseded"} \subseteq Phase
        BY DEF Phase, BeforeDelivery, Final
      <4>2. runs[h] \in Run
        BY DEF TypeOK
      <4> QED
        BY <4>1, <4>2 DEF Run
    <3> HIDE DEF r
    <3> QED
      BY <3>1, <3>2
  <2>4. \A h \in Generations :
          runs'[h].phase \in {"planned", "superseded", runs[h].phase}
    BY <1>3 DEF StartRun, TypeOK, Run
  <2>5. TypeOK'
    BY <1>1, <2>a, <2>2, <2>3 DEF TypeOK, agent
  <2> QED
    BY <1>1, <2>4, <2>5 DEF RunsTellTheCluster, Delivered, agent
<1>4. CASE Pause \/ Resume
  <2>1. target' \in [generation : 0..MaxGeneration, paused : BOOLEAN]
    BY <1>4, TargetTyped DEF Pause, Resume, TypeOK
  <2>2. faults' \in 0..MaxFaults /\ UNCHANGED runs
    BY <1>4 DEF Pause, Resume, Faulty, TypeOK
  <2> QED
    BY <1>1, <1>2, <2>1, <2>2 DEF TypeOK, RunsTellTheCluster, agent
<1> QED
  BY <1>2, <1>3, <1>4

\* Steps of a worker that change nothing but the worker.
LEMMA WorkerKeeps ==
  ASSUME IInv, NEW g \in Generations,
         Claim(g) \/ Again(g) \/ ResendDue(g) \/ Restart(g) \/ Look(g)
  PROVE  IInv'
<1> USE AgentAssumption DEF IInv
<1>1. UNCHANGED <<target, runs, agent, observation>>
  BY DEF Claim, Again, ResendDue, Restart, Look
<1>2. faults' \in 0..MaxFaults
  BY DEF Claim, Again, ResendDue, Restart, Look, Faulty, TypeOK
<1>3. workers' \in [Generations -> Worker] /\ WorkersRepeat'
  <2>1. CASE Claim(g) \/ Again(g) \/ Restart(g)
    <3>1. Drop(g) \/ GoTo(g, "look")
      BY <2>1 DEF Claim, Again, Restart
    <3> QED
      BY <3>1, <1>1, StepsTyped
      DEF WorkersRepeat, Holding, Heartening, agent
  <2>2. CASE ResendDue(g)
    <3>1. [workers[g] EXCEPT !.sent = "old"] \in Worker
          /\ [workers[g] EXCEPT !.sent = "old"].heard = workers[g].heard
      BY DEF TypeOK, Worker
    <3> QED
      BY <1>1, <2>2, <3>1 DEF ResendDue, TypeOK, WorkersRepeat, agent
  <2>3. CASE Look(g)
    <3> DEFINE w == [workers[g] EXCEPT !.at = "move", !.heard = HeardOf(g)]
    <3>0. /\ observation \in Observation /\ g \in Nat \ {0}
          /\ observation.phase = "none" => observation.generation = 0
          /\ Holding(observation.generation, observation.phase, cluster)
      BY DEF TellsTrue, TrueOf, Generations
    <3>1. HeardOf(g) \in Heard /\ Holding(g, HeardOf(g), cluster)
      <4>1. CASE observation.generation < g
        BY <4>1 DEF HeardOf, Heard, Holding, Heartening
      <4>2. CASE observation.generation > g
        BY <3>0, <4>2 DEF HeardOf, Observation, Heard, Holding, Heartening
      <4>3. CASE observation.generation = g
        <5>1. HeardOf(g) = IF observation.phase = "rejected" THEN "failed"
                           ELSE observation.phase
          BY <3>0, <4>3 DEF HeardOf
        <5> QED
          BY <3>0, <4>3, <5>1 DEF Observation, Heard, Holding, Heartening
      <4> QED
        BY <3>0, <4>1, <4>2, <4>3 DEF Observation
    <3>2. w \in Worker /\ w.heard = HeardOf(g)
      BY <3>1 DEF TypeOK, Worker
    <3>3. workers' = [workers EXCEPT ![g] = w]
      BY <2>3 DEF Look
    <3> QED
      BY <1>1, <3>1, <3>2, <3>3 DEF TypeOK, WorkersRepeat, agent
  <2> QED
    BY <2>1, <2>2, <2>3
<1>4. TypeOK'
  BY <1>1, <1>2, <1>3 DEF TypeOK, agent
<1> QED
  BY <1>1, <1>3, <1>4 DEF TellsTrue, TaskDid, RunsTellTheCluster, agent

\* Steps of a worker that move its run.
LEMMA RunMoves ==
  ASSUME IInv, NEW g \in Generations,
         Ready(g) \/ RefuseEnvelope(g) \/ Deadline(g) \/ Move(g)
  PROVE  IInv'
<1>1. faults' \in 0..MaxFaults
  BY AgentAssumption
  DEF Ready, RefuseEnvelope, Deadline, Move, Faulty, IInv, TypeOK
<1>2. CASE Ready(g)
  BY <1>1, <1>2, AdvanceKeeps DEF Ready
<1>3. CASE RefuseEnvelope(g)
  BY <1>1, <1>3, AdvanceKeeps DEF RefuseEnvelope
<1>4. CASE Deadline(g)
  BY <1>1, <1>4, AdvanceKeeps DEF Deadline
<1>5. CASE Move(g)
  <2> DEFINE heard == workers[g].heard
             phase == runs[g].phase
  <2>1. Holding(g, heard, cluster)
    BY DEF IInv, WorkersRepeat
  <2>2. CASE heard = "newer"
    BY <1>1, <1>5, <2>2, AdvanceKeeps DEF Move
  <2>3. CASE heard = "failed"
    BY <1>1, <1>5, <2>3, AdvanceKeeps DEF Move
  <2>4. CASE heard \in {"accepted", "applying", "ready"}
             /\ phase = "pendingDelivery"
    <3>1. g <= cluster.runtime
      BY <2>1, <2>4 DEF Holding, Heartening
    <3>2. Advance(g, "acceptedByCluster", "none", "move")
      BY <1>5, <2>4 DEF Move, Steps
    <3> QED
      BY <1>1, <3>1, <3>2, AdvanceKeeps
  <2>5. CASE heard \in {"applying", "ready"} /\ phase \in DOMAIN Steps
    <3>1. g <= cluster.runtime
      BY <2>1, <2>5 DEF Holding, Heartening
    <3>2. Advance(g, Steps[phase], "none", "move")
      BY <1>5, <2>5 DEF Move, Steps
    <3>3. Steps[phase] \in {"preflightStarted", "preflightPassed", "applied"}
      BY <2>5 DEF Steps
    <3> QED
      BY <1>1, <3>1, <3>2, <3>3, AdvanceKeeps
  <2>6. CASE heard = "ready"
             /\ phase \notin DOMAIN Steps \cup {"pendingDelivery"}
    <3>1. g <= cluster.runtime /\ g \in cluster.applied
      BY <2>1, <2>6 DEF Holding, Heartening
    <3>2. Advance(g, "verified", "none", "idle")
      BY <1>5, <2>6 DEF Move
    <3> QED
      BY <1>1, <3>1, <3>2, AdvanceKeeps
  <2>7. CASE heard = "accepted" /\ phase # "pendingDelivery"
    <3> DEFINE w == [workers[g] EXCEPT !.at = "wait", !.heard = "nothing"]
    <3>1. workers' = [workers EXCEPT ![g] = w]
          /\ UNCHANGED <<target, runs, agent, observation, faults>>
      BY <1>5, <2>7 DEF Move
    <3>2. w \in Worker /\ w.heard = "nothing"
      BY DEF IInv, TypeOK, Worker, Heard
    <3>3. TypeOK' /\ WorkersRepeat'
      BY <3>1, <3>2
      DEF IInv, TypeOK, WorkersRepeat, Holding, Heartening, agent
    <3> QED
      BY <3>1, <3>3 DEF IInv, TellsTrue, TaskDid, RunsTellTheCluster, agent
  <2> QED
    BY <1>5, <2>2, <2>3, <2>4, <2>5, <2>6, <2>7
    DEF Move, IInv, TypeOK, Worker, Heard
<1> QED
  BY <1>2, <1>3, <1>4, <1>5

\* A worker sends, or finds that it cannot.
LEMMA SendKeeps == ASSUME IInv, NEW g \in Generations, Send(g) PROVE IInv'
<1> USE DEF IInv
<1>1. UNCHANGED <<target, runs, linked, task, cancelled, cluster, reports,
                  late, observation, faults>>
  BY DEF Send
<1>2. outbox' \in Seq(Generations)
  <2>1. outbox \in Seq(Generations) /\ Append(outbox, g) \in Seq(Generations)
    BY DEF TypeOK
  <2> QED
    BY <2>1 DEF Send
<1>3. /\ workers' \in [Generations -> Worker]
      /\ \A h \in Generations :
           workers'[h].heard \in {workers[h].heard, "nothing"}
  <2>1. CASE Drop(g) \/ GoTo(g, "wait")
    BY <2>1, StepsTyped
  <2>2. CASE workers' = [workers EXCEPT ![g].at = "wait", ![g].sent = "recent"]
    <3> DEFINE w == [workers[g] EXCEPT !.at = "wait", !.sent = "recent"]
    <3>1. w \in Worker /\ w.heard = workers[g].heard
      BY DEF TypeOK, Worker
    <3> QED
      BY <2>2, <3>1 DEF TypeOK
  <2> QED
    BY <2>1, <2>2 DEF Send
<1>4. TypeOK'
  BY <1>1, <1>2, <1>3 DEF TypeOK
<1>5. WorkersRepeat'
  BY <1>1, <1>3 DEF WorkersRepeat, Holding, Heartening
<1> QED
  BY <1>1, <1>4, <1>5 DEF TellsTrue, TaskDid, RunsTellTheCluster
-----------------------------------------------------------------------------
(* The link.                                                               *)

\* What lingers of the task under way is a write or an apply.
LEMMA CancelledTyped ==
  ASSUME IInv, NEW mute \in BOOLEAN
  PROVE  Cancelled(mute) \subseteq
           [generation : Generations, at : {"write", "apply"}, mute : BOOLEAN]
<1>1. CASE task.at \in {"none", "verify"}
  BY <1>1 DEF Cancelled, IInv, TaskDid
<1>2. CASE task.at \notin {"none", "verify"}
  <2>1. task # NoTask
    BY <1>2 DEF NoTask
  <2>2. task.generation \in Generations /\ task.at \in {"write", "apply"}
    BY <1>2, <2>1 DEF IInv, TaskDid, TypeOK, Task
  <2>3. [task EXCEPT !.mute = mute] \in
          [generation : Generations, at : {"write", "apply"}, mute : BOOLEAN]
    <3>1. task \in [generation : Generations, at : {"write", "apply"},
                    mute : BOOLEAN]
      BY <2>2 DEF IInv, TypeOK, Task
    <3> QED
      BY <3>1
  <2> QED
    BY <1>2, <2>3 DEF Cancelled, IInv, TaskDid
<1> QED
  BY <1>1, <1>2

LEMMA NoTaskTyped == NoTask \in Task /\ NoTask.at = "none"
  BY DEF NoTask, Task

\* Tasks are typed as soon as TaskDid holds of those that linger.
LEMMA LingeringTyped ==
  ASSUME NEW S, S \subseteq [generation : Generations, at : {"write", "apply"},
                            mute : BOOLEAN]
  PROVE  S \subseteq Task
  BY DEF Task, Generations

LEMMA CutKeeps == ASSUME IInv, Cut PROVE IInv'
<1> USE AgentAssumption DEF IInv
<1>1. UNCHANGED <<target, runs, workers, cluster, observation>>
      /\ task' = NoTask /\ outbox' = <<>> /\ reports' = <<>> /\ linked' = FALSE
  BY DEF Cut
<1>2. faults' \in 0..MaxFaults
  BY DEF Cut, Faulty, TypeOK
<1>3. \A S : reports \in Seq(S) /\ late \in Seq(S) => late' \in Seq(S)
  <2>1. PICK n \in 0..Len(reports) : late' = late \o SubSeq(reports, 1, n)
    BY DEF Cut
  <2>2. ASSUME NEW S, reports \in Seq(S), late \in Seq(S)
        PROVE  late' \in Seq(S)
    <3>1. SubSeq(reports, 1, n) \in Seq(S)
      BY <2>2
    <3> QED
      BY <2>1, <2>2, <3>1
  <2> QED
    BY <2>2
<1>4. cancelled' \subseteq [generation : Generations, at : {"write", "apply"},
                           mute : BOOLEAN]
  <2>1. PICK lingers \in {cancelled, Cancelled(TRUE)} :
          cancelled' = {[t EXCEPT !.mute = TRUE] : t \in lingers}
    BY DEF Cut
  <2>2. lingers \subseteq [generation : Generations, at : {"write", "apply"},
                          mute : BOOLEAN]
    BY <2>1, CancelledTyped DEF TaskDid
  <2>3. \A t \in lingers : [t EXCEPT !.mute = TRUE] \in
          [generation : Generations, at : {"write", "apply"}, mute : BOOLEAN]
    BY <2>2
  <2> QED
    BY <2>1, <2>3
<1>5. TypeOK'
  <2>1. reports' \in Seq(Observation) /\ late' \in Seq(Observation)
    BY <1>1, <1>3 DEF TypeOK
  <2>2. cancelled' \subseteq Task
    BY <1>4, LingeringTyped
  <2> QED
    <3>0. <<>> \in Seq(Generations)
      OBVIOUS
    <3>1. linked' \in BOOLEAN /\ outbox' \in Seq(Generations)
      BY <1>1, <3>0, Zenon
    <3>2. task' \in Task
      BY <1>1, NoTaskTyped
    <3> QED
      BY <1>1, <1>2, <2>1, <2>2, <3>1, <3>2, Zenon DEF TypeOK
<1>6. TellsTrue'
  BY <1>1, <1>3 DEF TellsTrue
<1>7. TaskDid'
  BY <1>1, <1>4, NoTaskTyped DEF TaskDid
<1> QED
  BY <1>1, <1>5, <1>6, <1>7 DEF WorkersRepeat, RunsTellTheCluster

LEMMA HearKeeps == ASSUME IInv, Hear PROVE IInv'
<1> USE AgentAssumption DEF IInv
<1>1. UNCHANGED <<target, runs, workers, linked, outbox, task, cancelled,
                  cluster>>
  BY DEF Hear
<1>2. faults' \in 0..MaxFaults
  BY DEF Hear, Faulty, TypeOK
<1>3. \A S : /\ reports \in Seq(S) => reports' \in Seq(S)
             /\ late \in Seq(S) => late' \in Seq(S)
  <2>1. /\ \/ reports' = reports
           \/ reports # <<>> /\ reports' = Tail(reports)
        /\ \/ late' = late
           \/ late # <<>> /\ late' = Tail(late)
    BY DEF Hear
  <2>2. ASSUME NEW S
        PROVE  /\ reports \in Seq(S) => reports' \in Seq(S)
               /\ late \in Seq(S) => late' \in Seq(S)
    <3>1. ASSUME reports \in Seq(S) PROVE reports' \in Seq(S)
      BY <2>1, <3>1
    <3>2. ASSUME late \in Seq(S) PROVE late' \in Seq(S)
      BY <2>1, <3>2
    <3> QED
      BY <3>1, <3>2
  <2> QED
    BY <2>2
<1>4. observation' \in TrueOf(cluster)
  <2>1. CASE UNCHANGED observation
    BY <2>1 DEF TellsTrue
  <2>2. CASE reports # <<>> /\ RecordObservation(Head(reports))
    <3>1. Head(reports) \in TrueOf(cluster)
      BY <2>2 DEF TellsTrue
    <3> QED
      BY <2>2, <3>1 DEF RecordObservation, TellsTrue
  <2>3. CASE late # <<>> /\ RecordObservation(Head(late))
    <3>1. Head(late) \in TrueOf(cluster)
      BY <2>3 DEF TellsTrue
    <3> QED
      BY <2>3, <3>1 DEF RecordObservation, TellsTrue
  <2> QED
    BY <2>1, <2>2, <2>3 DEF Hear
<1>5. TypeOK'
  BY <1>1, <1>2, <1>3, <1>4 DEF TypeOK, TrueOf
<1>6. TellsTrue'
  BY <1>1, <1>3, <1>4 DEF TellsTrue
<1> QED
  BY <1>1, <1>5, <1>6 DEF TaskDid, WorkersRepeat, RunsTellTheCluster

LEMMA LinkKeeps == ASSUME IInv, Link PROVE IInv'
<1>1. /\ UNCHANGED <<target, runs, workers, outbox, task, cancelled, cluster,
                     reports, late, observation, faults>>
      /\ linked' \in BOOLEAN
  BY DEF Link
<1>2. TypeOK'
  BY <1>1, Zenon DEF IInv, TypeOK
<1> QED
  BY <1>1, <1>2
  DEF IInv, TellsTrue, TaskDid, WorkersRepeat, RunsTellTheCluster
-----------------------------------------------------------------------------
(* The agent.                                                              *)

\* The cluster is where it was or further.
Onward == /\ cluster' \in [runtime : 0..MaxGeneration,
                            applied : SUBSET Generations]
          /\ cluster.runtime <= cluster'.runtime
          /\ cluster.applied \subseteq cluster'.applied

\* Writing and applying only move the cluster on.
LEMMA WritesMoveOn ==
  ASSUME TypeOK, NEW g \in Generations
  PROVE  /\ cluster' = cluster => Onward
         /\ cluster' = Written(g) => Onward
         /\ cluster' = Written(g) /\ Allows(g) => cluster'.runtime = g
         /\ cluster' = Applied(g) =>
              /\ Onward
              /\ g \in cluster'.applied
              /\ cluster'.runtime = cluster.runtime
<1> USE AgentAssumption DEF Onward
<1>0. /\ cluster.runtime \in 0..MaxGeneration
      /\ cluster.applied \subseteq Generations
      /\ cluster \in [runtime : 0..MaxGeneration, applied : SUBSET Generations]
  BY DEF TypeOK
<1>1. ASSUME cluster' = cluster PROVE Onward
  BY <1>0, <1>1
<1>2. ASSUME cluster' = Written(g)
      PROVE  Onward /\ (Allows(g) => cluster'.runtime = g)
  <2>1. CASE Allows(g)
    <3>1. cluster' = [cluster EXCEPT !.runtime = g]
      BY <1>2, <2>1 DEF Written
    <3> QED
      BY <1>0, <2>1, <3>1 DEF Allows, Generations
  <2>2. CASE ~Allows(g)
    <3>1. cluster' = [cluster EXCEPT !.runtime = cluster.runtime]
      BY <1>2, <2>2 DEF Written
    <3> QED
      BY <1>0, <2>2, <3>1
  <2> QED
    BY <2>1, <2>2
<1>3. ASSUME cluster' = Applied(g)
      PROVE  /\ Onward
             /\ g \in cluster'.applied
             /\ cluster'.runtime = cluster.runtime
  BY <1>0, <1>3 DEF Applied
<1> QED
  BY <1>1, <1>2, <1>3

\* What was said of the cluster holds of it wherever it went.
LEMMA OnwardKeeps ==
  ASSUME IInv, Onward, UNCHANGED <<runs, workers, late, observation>>
  PROVE  /\ WorkersRepeat' /\ RunsTellTheCluster'
         /\ observation' \in TrueOf(cluster')
         /\ late' \in Seq(TrueOf(cluster'))
         /\ reports \in Seq(TrueOf(cluster'))
<1> USE DEF IInv
<1>1. /\ cluster.runtime \in Nat /\ cluster'.runtime \in Nat
      /\ Generations \subseteq Nat
  BY AgentAssumption DEF TypeOK, Onward, Generations
<1>2. /\ \A g \in Nat : \A phase :
           Holding(g, phase, cluster) => Holding(g, phase, cluster')
      /\ TrueOf(cluster) \subseteq TrueOf(cluster')
      /\ Seq(TrueOf(cluster)) \subseteq Seq(TrueOf(cluster'))
  BY <1>1, StaysTrue DEF Onward
<1>3. WorkersRepeat'
  BY <1>1, <1>2 DEF WorkersRepeat, Holding
<1>4. RunsTellTheCluster'
  BY <1>1 DEF RunsTellTheCluster, Onward
<1> QED
  BY <1>2, <1>3, <1>4 DEF TellsTrue

\* A step of the agent is sound when its task did what it says it did.
LEMMA AgentKeeps ==
  ASSUME IInv, Onward, UNCHANGED elsewhere, faults' \in 0..MaxFaults,
         outbox' \in Seq(Generations), task' \in Task, TaskDid',
         reports' \in Seq(TrueOf(cluster'))
  PROVE  IInv'
<1>1. UNCHANGED <<target, runs, workers, linked, late, observation>>
  BY DEF elsewhere
<1>2. /\ WorkersRepeat' /\ RunsTellTheCluster'
      /\ observation' \in TrueOf(cluster')
      /\ late' \in Seq(TrueOf(cluster'))
  BY <1>1, OnwardKeeps
<1>3. TellsTrue'
  BY <1>2 DEF TellsTrue
<1>4. cancelled' \subseteq Task
  BY LingeringTyped DEF TaskDid
<1>5. reports' \in Seq(Observation)
  BY DEF TrueOf
<1>6. TypeOK'
  BY <1>1, <1>4, <1>5, Zenon DEF IInv, TypeOK, Onward
<1> QED
  BY <1>2, <1>3, <1>6 DEF IInv

LEMMA FailureIsTrue ==
  ASSUME NEW g \in Nat, NEW c
  PROVE  /\ [generation |-> g, phase |-> "failed"] \in TrueOf(c)
         /\ [generation |-> g, phase |-> "rejected"] \in TrueOf(c)
  BY DEF TrueOf, Observation, Holding, Heartening

LEMMA FaultsTyped ==
  ASSUME TypeOK, UNCHANGED faults \/ \E kind : Faulty(kind)
  PROVE  faults' \in 0..MaxFaults
  BY AgentAssumption DEF Faulty, TypeOK

LEMMA TakeKeeps == ASSUME IInv, Take PROVE IInv'
<1> DEFINE g == Head(outbox)
           bad == runs[g].bad
<1> USE AgentAssumption DEF IInv
<1>1. /\ UNCHANGED elsewhere /\ cluster' = cluster
      /\ outbox # <<>> /\ outbox' = Tail(outbox)
  BY DEF Take
<1>2. g \in Generations /\ outbox' \in Seq(Generations)
  BY <1>1 DEF TypeOK
<1>3. faults' \in 0..MaxFaults
  <2>1. UNCHANGED faults \/ Faulty("linger")
    BY DEF Take
  <2> QED
    BY <2>1, FaultsTyped
<1>4. cancelled' \subseteq [generation : Generations, at : {"write", "apply"},
                           mute : BOOLEAN]
  BY CancelledTyped DEF Take, TaskDid
<1>5. Onward
  BY <1>1, <1>2, WritesMoveOn
<1>6. /\ task' \in Task
      /\ task'.at \in {"none", "write"}
      /\ task' # NoTask => task'.generation \in Generations
  <2>1. CASE bad
    BY <2>1, NoTaskTyped DEF Take
  <2>2. CASE ~bad
    <3>1. task' = [generation |-> g, at |-> "write", mute |-> FALSE]
      BY <2>2 DEF Take
    <3> QED
      BY <1>2, <3>1 DEF Task, Generations
  <2> QED
    BY <2>1, <2>2
<1>7. reports' \in Seq(TrueOf(cluster'))
  <2>1. reports \in Seq(TrueOf(cluster'))
    BY <1>1 DEF TellsTrue
  <2>2. CASE bad
    <3>1. Says(0, <<"rejected">>)
      BY <2>2 DEF Take
    <3>2. [generation |-> 0, phase |-> "rejected"] \in TrueOf(cluster')
      BY FailureIsTrue
    <3> QED
      BY <2>1, <3>1, <3>2, ReportsStay
  <2>3. CASE ~bad
    BY <2>1, <2>3 DEF Take
  <2> QED
    BY <2>2, <2>3
<1>8. TaskDid'
  BY <1>4, <1>6 DEF TaskDid
<1> QED
  BY <1>1, <1>2, <1>3, <1>5, <1>6, <1>7, <1>8, AgentKeeps

LEMMA WriteKeeps == ASSUME IInv, WriteRuntime PROVE IInv'
<1> DEFINE g == task.generation
<1> USE AgentAssumption DEF IInv
<1>1. /\ UNCHANGED elsewhere /\ UNCHANGED outbox /\ UNCHANGED cancelled
      /\ task.at = "write"
  BY DEF WriteRuntime, TaskAt
<1>2. g \in Generations /\ g \in Nat
  BY <1>1 DEF TaskDid, NoTask, Generations
<1>3. UNCHANGED faults \/ Faulty("api")
  BY DEF WriteRuntime
<1>4. faults' \in 0..MaxFaults
  BY <1>3, FaultsTyped
<1>5. outbox' \in Seq(Generations)
  BY <1>1 DEF TypeOK
<1>6. CASE /\ Allows(g) /\ cluster' = Written(g)
           /\ Says(g, <<"accepted">>)
           /\ task' = [task EXCEPT !.at = "apply"]
  <2>1. Onward /\ cluster'.runtime = g
    BY <1>2, <1>6, WritesMoveOn
  <2>2. /\ task' \in Task
        /\ task'.generation = g /\ task'.at = "apply"
    BY <1>6 DEF TypeOK, Task
  <2>3. [generation |-> g, phase |-> "accepted"] \in TrueOf(cluster')
    BY <1>2, <2>1 DEF TrueOf, Observation, Holding, Heartening
  <2>4. reports \in Seq(TrueOf(cluster'))
    BY <1>1, <2>1, OnwardKeeps DEF elsewhere
  <2>5. reports' \in Seq(TrueOf(cluster'))
    BY <1>6, <2>3, <2>4, ReportsStay
  <2>6. TaskDid'
    BY <1>1, <1>2, <2>1, <2>2 DEF TaskDid
  <2> QED
    BY <1>1, <1>4, <1>5, <2>1, <2>2, <2>5, <2>6, AgentKeeps
<1>7. CASE /\ cluster' \in {cluster, Written(g)} /\ task' = NoTask
           /\ Says(g, <<"failed">>) \/ Says(g, <<"rejected">>)
  <2>1. Onward
    BY <1>2, <1>7, WritesMoveOn
  <2>2. reports \in Seq(TrueOf(cluster'))
    BY <1>1, <2>1, OnwardKeeps DEF elsewhere
  <2>3. reports' \in Seq(TrueOf(cluster'))
    BY <1>2, <1>7, <2>2, FailureIsTrue, ReportsStay
  <2>4. TaskDid'
    BY <1>1, <1>7, NoTaskTyped DEF TaskDid
  <2> QED
    BY <1>1, <1>4, <1>5, <1>7, <2>1, <2>3, <2>4, NoTaskTyped, AgentKeeps
<1> QED
  BY <1>6, <1>7 DEF WriteRuntime

LEMMA ApplyKeeps == ASSUME IInv, ApplyResources PROVE IInv'
<1> DEFINE g == task.generation
<1> USE AgentAssumption DEF IInv
<1>1. /\ UNCHANGED elsewhere /\ UNCHANGED outbox /\ UNCHANGED cancelled
      /\ task.at = "apply"
  BY DEF ApplyResources, TaskAt
<1>2. g \in Generations /\ g \in Nat /\ g <= cluster.runtime
  BY <1>1 DEF TaskDid, NoTask, Generations
<1>3. UNCHANGED faults \/ Faulty("api")
  BY DEF ApplyResources
<1>4. faults' \in 0..MaxFaults
  BY <1>3, FaultsTyped
<1>5. outbox' \in Seq(Generations)
  BY <1>1 DEF TypeOK
<1>6. CASE /\ cluster' = Applied(g) /\ Says(g, <<"applying">>)
           /\ task' = [task EXCEPT !.at = "verify"]
  <2>1. Onward /\ g \in cluster'.applied /\ g <= cluster'.runtime
    BY <1>2, <1>6, WritesMoveOn
  <2>2. /\ task' \in Task
        /\ task'.generation = g /\ task'.at = "verify"
    BY <1>6 DEF TypeOK, Task
  <2>3. [generation |-> g, phase |-> "applying"] \in TrueOf(cluster')
    BY <1>2, <2>1 DEF TrueOf, Observation, Holding, Heartening
  <2>4. reports \in Seq(TrueOf(cluster'))
    BY <1>1, <2>1, OnwardKeeps DEF elsewhere
  <2>5. reports' \in Seq(TrueOf(cluster'))
    BY <1>6, <2>3, <2>4, ReportsStay
  <2>6. TaskDid'
    BY <1>1, <1>2, <2>1, <2>2 DEF TaskDid
  <2> QED
    BY <1>1, <1>4, <1>5, <2>1, <2>2, <2>5, <2>6, AgentKeeps
<1>7. CASE /\ cluster' = cluster /\ task' = NoTask
           /\ Says(g, <<"failed">>)
  <2>1. Onward
    BY <1>2, <1>7, WritesMoveOn
  <2>2. reports \in Seq(TrueOf(cluster'))
    BY <1>1, <2>1, OnwardKeeps DEF elsewhere
  <2>3. reports' \in Seq(TrueOf(cluster'))
    BY <1>2, <1>7, <2>2, FailureIsTrue, ReportsStay
  <2>4. TaskDid'
    BY <1>1, <1>7, NoTaskTyped DEF TaskDid
  <2> QED
    BY <1>1, <1>4, <1>5, <1>7, <2>1, <2>3, <2>4, NoTaskTyped, AgentKeeps
<1> QED
  BY <1>6, <1>7 DEF ApplyResources

LEMMA VerifyKeeps == ASSUME IInv, Verify PROVE IInv'
<1> DEFINE g == task.generation
<1> USE AgentAssumption DEF IInv
<1>1. /\ UNCHANGED elsewhere /\ UNCHANGED outbox /\ UNCHANGED cancelled
      /\ cluster' = cluster /\ task.at = "verify" /\ task' = NoTask
  BY DEF Verify, TaskAt
<1>2. /\ g \in Generations /\ g \in Nat
      /\ g <= cluster.runtime /\ g \in cluster.applied
  BY <1>1 DEF TaskDid, NoTask, Generations
<1>3. UNCHANGED faults \/ Faulty("rollout")
  BY DEF Verify
<1>4. faults' \in 0..MaxFaults
  BY <1>3, FaultsTyped
<1>5. Onward /\ outbox' \in Seq(Generations)
  BY <1>1, <1>2, WritesMoveOn DEF TypeOK
<1>6. reports' \in Seq(TrueOf(cluster'))
  <2>1. [generation |-> g, phase |-> "ready"] \in TrueOf(cluster')
    BY <1>1, <1>2 DEF TrueOf, Observation, Holding, Heartening
  <2>2. reports \in Seq(TrueOf(cluster'))
    BY <1>1 DEF TellsTrue
  <2>3. Says(g, <<"ready">>) \/ Says(g, <<"failed">>)
    BY DEF Verify
  <2> QED
    BY <1>2, <2>1, <2>2, <2>3, FailureIsTrue, ReportsStay
<1>7. TaskDid'
  BY <1>1, NoTaskTyped DEF TaskDid
<1> QED
  BY <1>1, <1>4, <1>5, <1>6, <1>7, NoTaskTyped, AgentKeeps

LEMMA CancelledKeeps ==
  ASSUME IInv, NEW t \in cancelled, CancelledEnds(t)
  PROVE  IInv'
<1> USE AgentAssumption DEF IInv
<1>1. /\ UNCHANGED elsewhere /\ UNCHANGED outbox /\ UNCHANGED task
      /\ UNCHANGED faults /\ cancelled' = cancelled \ {t}
  BY DEF CancelledEnds
<1>2. t.generation \in Generations /\ t.generation \in Nat
  BY DEF TaskDid, Generations
<1>3. PICK landed \in BOOLEAN, said \in {<<>>, <<"failed">>} :
        /\ cluster' = IF landed /\ t.at = "write" THEN Written(t.generation)
                      ELSE IF landed THEN Applied(t.generation)
                      ELSE cluster
        /\ IF t.mute THEN UNCHANGED reports ELSE Says(t.generation, said)
  BY Zenon DEF CancelledEnds
<1>4. Onward
  BY <1>2, <1>3, WritesMoveOn
<1>5. reports' \in Seq(TrueOf(cluster'))
  <2>1. reports \in Seq(TrueOf(cluster'))
    BY <1>1, <1>4, OnwardKeeps DEF elsewhere
  <2>2. CASE UNCHANGED reports
    BY <2>1, <2>2
  <2>3. CASE Says(t.generation, said)
    BY <1>2, <2>1, <2>3, FailureIsTrue, ReportsStay
  <2> QED
    BY <1>3, <2>2, <2>3
<1>6. TaskDid'
  <2>1. /\ task'.at \in {"apply", "verify"} =>
             task'.generation <= cluster'.runtime
        /\ task'.at = "verify" => task'.generation \in cluster'.applied
    BY <1>1, <1>4 DEF TaskDid, Onward, TypeOK, Task
  <2> QED
    BY <1>1, <2>1 DEF TaskDid
<1> QED
  BY <1>1, <1>4, <1>5, <1>6, AgentKeeps DEF TypeOK
-----------------------------------------------------------------------------
LEMMA InitIInv == Init => IInv
<1> SUFFICES ASSUME Init PROVE IInv
  OBVIOUS
<1> USE AgentAssumption DEF Init
<1>1. /\ <<>> \in Seq(Generations)
      /\ \A S : <<>> \in Seq(S)
  OBVIOUS
<1>2. /\ runs \in [Generations -> Run]
      /\ \A g \in Generations : runs[g].phase = "absent"
  BY DEF Run, NoPhase
<1>3. /\ workers \in [Generations -> Worker]
      /\ \A g \in Generations : workers[g].heard = "nothing"
  BY DEF Worker, Idle, Heard
<1>4. observation \in TrueOf(cluster)
  BY DEF TrueOf, Observation, Holding, Heartening
<1>5. TypeOK
  <2>1. target \in [generation : 0..MaxGeneration, paused : BOOLEAN]
    OBVIOUS
  <2>2. cluster \in [runtime : 0..MaxGeneration, applied : SUBSET Generations]
    OBVIOUS
  <2>3. faults \in 0..MaxFaults /\ cancelled \subseteq Task
    OBVIOUS
  <2>4. linked \in BOOLEAN
    BY Zenon
  <2>5. observation \in Observation /\ task \in Task
    BY NoTaskTyped DEF Observation
  <2> QED
    BY <1>1, <1>2, <1>3, <2>1, <2>2, <2>3, <2>4, <2>5 DEF TypeOK
<1>6. TellsTrue
  BY <1>1, <1>4 DEF TellsTrue
<1>7. TaskDid
  BY NoTaskTyped DEF TaskDid
<1>8. WorkersRepeat /\ RunsTellTheCluster
  BY <1>2, <1>3 DEF WorkersRepeat, Holding, Heartening,
                    RunsTellTheCluster, Delivered
<1> QED
  BY <1>5, <1>6, <1>7, <1>8 DEF IInv

LEMMA StepIInv == IInv /\ [Next]_vars => IInv'
<1> SUFFICES ASSUME IInv, [Next]_vars PROVE IInv'
  OBVIOUS
<1>1. CASE (\E bad \in BOOLEAN : StartRun(bad)) \/ Pause \/ Resume
  BY <1>1, RequestsKeep
<1>2. ASSUME NEW g \in Generations,
             \/ WorkerStep(g) \/ RefuseEnvelope(g) \/ Deadline(g)
             \/ ResendDue(g) \/ Restart(g)
      PROVE  IInv'
  BY <1>2, WorkerKeeps, RunMoves, SendKeeps DEF WorkerStep
<1>3. CASE Link \/ Cut \/ Hear
  BY <1>3, LinkKeeps, CutKeeps, HearKeeps
<1>4. CASE AgentStep
  BY <1>4, TakeKeeps, WriteKeeps, ApplyKeeps, VerifyKeeps, CancelledKeeps
  DEF AgentStep
<1>5. CASE UNCHANGED vars
  BY <1>5 DEF vars, IInv, TypeOK, TellsTrue, TaskDid, WorkersRepeat,
              RunsTellTheCluster
<1> QED
  BY <1>1, <1>2, <1>3, <1>4, <1>5 DEF Next

LEMMA AlwaysIInv == Spec => []IInv
  BY InitIInv, StepIInv, PTL DEF Spec

\* Type correctness, for any number of runs, any room on the link and any
\* faults.
THEOREM TypeCorrect == Spec => []TypeOK
<1>1. IInv => TypeOK
  BY DEF IInv
<1> QED
  BY <1>1, AlwaysIInv, PTL

\* What SQL says of a run is so in its cluster (followAgent, heard): however
\* often links end, workers restart and observations are lost or late, a
\* delivered run is on the ApplicationRuntime or behind a newer one, and a
\* run that succeeded had its plan applied.
THEOREM RunsTellTrue == Spec => []RunsTellTheCluster
<1>1. IInv => RunsTellTheCluster
  BY DEF IInv
<1> QED
  BY <1>1, AlwaysIInv, PTL
=============================================================================
