---------------------------- MODULE BuildsProofs ----------------------------
(***************************************************************************)
(* Proofs about Builds, for any workers, branches, bounds and faults.      *)
(*                                                                         *)
(* Most of a build's state is written under the fence of its operation, by *)
(* a worker that read the attempt several steps before.  The invariant     *)
(* says what such a worker may rely on: Fits relates what it remembers to  *)
(* the attempt as it is, for a worker that still holds its claim and for   *)
(* one that lost it.                                                       *)
(***************************************************************************)
EXTENDS Builds, FiniteSetTheorems, SequenceTheorems, TLAPS

-----------------------------------------------------------------------------
(* Phases and plans.                                                       *)

Happened(events) == {events[i] : i \in DOMAIN events}

\* A slot is needed from "started" on, a cancellation follows a request, and
\* what ended stays so.
LEMMA ApplyFacts ==
  ASSUME NEW p \in Phase \cup {Illegal}, NEW e
  PROVE  /\ Apply(p, e) \in Phase \cup {Illegal}
         /\ p \in Terminal \cup {Illegal} => Apply(p, e) = Illegal
         /\ p \notin HoldsSlot /\ Apply(p, e) \in HoldsSlot => e = "started"
         /\ /\ p \notin Stopping
            /\ Apply(p, e) \in Stopping \cup {"cancelled"}
            => e = "cancelRequested"
         /\ e = "verified" => Apply(p, e) \in {"succeeded", Illegal}
         /\ e = "failed" => Apply(p, e) \in {"failed", "cancelled", Illegal}
  BY DEF Apply, Phase, Terminal, Waiting, Active, Stopping, HoldsSlot,
         Illegal, Reports

LEMMA AfterFacts ==
  ASSUME NEW p \in Phase, NEW events \in Seq(Event)
  PROVE  /\ After(p, events) \in Phase \cup {Illegal}
         /\ p \in Terminal => After(p, events) \in {p, Illegal}
         /\ p \in Terminal /\ events # <<>> => After(p, events) = Illegal
         /\ p \notin HoldsSlot /\ After(p, events) \in HoldsSlot
              => "started" \in Happened(events)
         /\ /\ p \notin Stopping \cup {"cancelled"}
            /\ After(p, events) \in Stopping \cup {"cancelled"}
            => "cancelRequested" \in Happened(events)
<1> DEFINE q1 == Apply(p, events[1])
           q2 == Apply(q1, events[2])
           q3 == Apply(q2, events[3])
<1>1. /\ Len(events) \in Nat
      /\ DOMAIN events = 1..Len(events)
      /\ events = <<>> <=> Len(events) = 0
  OBVIOUS
<1>2. /\ Len(events) = 0 => After(p, events) = p
      /\ Len(events) = 1 => After(p, events) = q1
      /\ Len(events) = 2 => After(p, events) = q2
      /\ Len(events) \notin {0, 1, 2} => After(p, events) = q3
  BY DEF After
<1>3. \A i \in 1..Len(events) : events[i] \in Happened(events)
  BY <1>1 DEF Happened
<1>4. /\ q1 \in Phase \cup {Illegal}
      /\ q2 \in Phase \cup {Illegal}
      /\ q3 \in Phase \cup {Illegal}
  BY ApplyFacts
<1>5. /\ Illegal \notin Phase /\ HoldsSlot \subseteq Phase
      /\ Terminal \cap HoldsSlot = {} /\ Stopping \subseteq HoldsSlot
      /\ "cancelled" \in Terminal
  BY DEF Illegal, Phase, HoldsSlot, Terminal, Waiting, Active, Stopping
<1>6. p \in Terminal => q1 = Illegal /\ q2 = Illegal /\ q3 = Illegal
  BY ApplyFacts
<1>7. p \notin HoldsSlot =>
        /\ q1 \in HoldsSlot => events[1] = "started"
        /\ q2 \in HoldsSlot => "started" \in {events[1], events[2]}
        /\ q3 \in HoldsSlot => "started" \in {events[1], events[2], events[3]}
  BY <1>4, ApplyFacts
<1>8. p \notin Stopping \cup {"cancelled"} =>
        /\ q1 \in Stopping \cup {"cancelled"} => events[1] = "cancelRequested"
        /\ q2 \in Stopping \cup {"cancelled"} =>
             "cancelRequested" \in {events[1], events[2]}
        /\ q3 \in Stopping \cup {"cancelled"} =>
             "cancelRequested" \in {events[1], events[2], events[3]}
  BY <1>4, <1>5, ApplyFacts
<1> HIDE DEF q1, q2, q3
<1> QED
  BY <1>1, <1>2, <1>3, <1>4, <1>5, <1>6, <1>7, <1>8

LEMMA ThreeEvents ==
  ASSUME NEW S, NEW x \in S, NEW y \in S, NEW z \in S
  PROVE  /\ <<x, y, z>> \in Seq(S)
         /\ Happened(<<x, y, z>>) = {x, y, z}
<1>1. /\ DOMAIN <<x, y, z>> = {1, 2, 3}
      /\ <<x, y, z>>[1] = x /\ <<x, y, z>>[2] = y /\ <<x, y, z>>[3] = z
  OBVIOUS
<1> QED
  BY <1>1 DEF Happened

LEMMA ShortSequences ==
  ASSUME NEW S
  PROVE  /\ <<>> \in Seq(S) /\ Happened(<<>>) = {}
         /\ \A x \in S : <<x>> \in Seq(S) /\ Happened(<<x>>) = {x}
         /\ \A x, y \in S :
              <<x, y>> \in Seq(S) /\ Happened(<<x, y>>) = {x, y}
         /\ \A x, y, z \in S :
              <<x, y, z>> \in Seq(S) /\ Happened(<<x, y, z>>) = {x, y, z}
<1>1. Happened(<<>>) = {}
  BY DEF Happened
<1>2. ASSUME NEW x \in S PROVE <<x>> \in Seq(S) /\ Happened(<<x>>) = {x}
  <2>1. DOMAIN <<x>> = {1} /\ <<x>>[1] = x
    OBVIOUS
  <2> QED
    BY <2>1 DEF Happened
<1>3. ASSUME NEW x \in S, NEW y \in S
      PROVE  <<x, y>> \in Seq(S) /\ Happened(<<x, y>>) = {x, y}
  <2>1. DOMAIN <<x, y>> = {1, 2} /\ <<x, y>>[1] = x /\ <<x, y>>[2] = y
    OBVIOUS
  <2> QED
    BY <2>1 DEF Happened
<1> QED
  BY <1>1, <1>2, <1>3, ThreeEvents

\* What is planned for a Job: events that cancel are planned only when the
\* attempt is to be cancelled, and a cancelled attempt ends cancelled.
PlanOK(plan, p, cancel) ==
  /\ plan.kind \in {"verify", "fail", "cancelled", "stop", "wait"}
  /\ plan.events \in Seq(Event) /\ plan.digest \in Digest
  /\ plan.code \in {"none", "build", "rejected", "lostWorker"}
  /\ "started" \notin Happened(plan.events)
  /\ "cancelRequested" \in Happened(plan.events) => cancel \/ p \in Stopping
  /\ plan.kind = "cancelled" =>
       plan.events # <<>> /\ After(p, plan.events) = "cancelled"

LEMMA AppendShort ==
  ASSUME NEW x, NEW y, NEW z
  PROVE  /\ Append(<<>>, z) = <<z>>
         /\ Append(<<y>>, z) = <<y, z>>
         /\ Append(<<x, y>>, z) = <<x, y, z>>
<1> DEFINE S == {x, y, z}
<1>1. /\ <<y>> \in Seq(S) /\ <<x, y>> \in Seq(S)
      /\ <<y, z>> \in Seq(S) /\ <<x, y, z>> \in Seq(S) /\ z \in S
  OBVIOUS
<1> HIDE DEF S
<1>2. Append(<<y>>, z) = <<y, z>>
  <2> DEFINE s == Append(<<y>>, z)
             t == <<y, z>>
  <2>1. Len(<<y>>) = 1 /\ <<y>>[1] = y /\ Len(t) = 2 /\ t[1] = y /\ t[2] = z
    OBVIOUS
  <2>2. s \in Seq(S) /\ Len(s) = 2 /\ s[1] = y /\ s[2] = z
    BY <1>1, <2>1, AppendProperties
  <2> HIDE DEF s, t
  <2>3. \A i \in 1..Len(s) : s[i] = t[i]
    BY <2>1, <2>2
  <2>4. s = t
    BY <1>1, <2>1, <2>2, <2>3, SeqEqual DEF t
  <2> QED
    BY <2>4 DEF s, t
<1>3. Append(<<x, y>>, z) = <<x, y, z>>
  <2> DEFINE s == Append(<<x, y>>, z)
             t == <<x, y, z>>
  <2>1. /\ Len(<<x, y>>) = 2 /\ <<x, y>>[1] = x /\ <<x, y>>[2] = y
        /\ Len(t) = 3 /\ t[1] = x /\ t[2] = y /\ t[3] = z
    OBVIOUS
  <2>2. s \in Seq(S) /\ Len(s) = 3 /\ s[1] = x /\ s[2] = y /\ s[3] = z
    BY <1>1, <2>1, AppendProperties
  <2> HIDE DEF s, t
  <2>3. \A i \in 1..Len(s) : s[i] = t[i]
    BY <2>1, <2>2
  <2>4. s = t
    BY <1>1, <2>1, <2>2, <2>3, SeqEqual DEF t
  <2> QED
    BY <2>4 DEF s, t
<1> QED
  BY <1>2, <1>3

LEMMA AfterOne ==
  ASSUME NEW p, NEW x PROVE After(p, <<x>>) = Apply(p, x)
  BY DEF After

LEMMA AfterTwo ==
  ASSUME NEW p, NEW x, NEW y
  PROVE  After(p, <<x, y>>) = Apply(Apply(p, x), y)
  BY DEF After

LEMMA AfterThree ==
  ASSUME NEW p, NEW x, NEW y, NEW z
  PROVE  After(p, <<x, y, z>>) = Apply(Apply(Apply(p, x), y), z)
  BY DEF After

LEMMA EventsTyped ==
  {"cancelRequested", "stopping", "stopped", "started", "unblocked", "blocked",
   "building", "publishing", "published"} \subseteq Event
  BY DEF Event, Reports

LEMMA StopsApply ==
  /\ \A p \in Active : Apply(p, "cancelRequested") = "cancelRequested"
  /\ Apply("cancelRequested", "stopping") = "cancelling"
  /\ Apply("cancelling", "stopped") = "cancelled"
  /\ \A p \in Waiting : Apply(p, "cancelRequested") = "cancelled"
<1>1. \A p \in Active : Apply(p, "cancelRequested") = "cancelRequested"
  BY DEF Apply, Active, Waiting, Stopping, Terminal, Reports
<1>2. Apply("cancelRequested", "stopping") = "cancelling"
  BY DEF Apply, Active, Waiting, Stopping, Terminal, Reports
<1>3. Apply("cancelling", "stopped") = "cancelled"
  BY DEF Apply, Active, Waiting, Stopping, Terminal, Reports
<1>4. \A p \in Waiting : Apply(p, "cancelRequested") = "cancelled"
  BY DEF Apply, Active, Waiting, Stopping, Terminal, Reports
<1> QED
  BY <1>1, <1>2, <1>3, <1>4

LEMMA ShortEvents ==
  LET stop == <<"stopping">>
      cancel == <<"cancelRequested", "stopping">>
      stop2 == <<"stopping", "stopped">>
      stop3 == <<"cancelRequested", "stopping", "stopped">>
  IN /\ {<<>>, <<"stopped">>, stop, stop2, stop3, cancel} \subseteq Seq(Event)
     /\ Happened(<<>>) = {} /\ Happened(stop) = {"stopping"}
     /\ Happened(cancel) = {"cancelRequested", "stopping"}
     /\ Happened(<<"stopped">>) = {"stopped"}
     /\ Happened(stop2) = {"stopping", "stopped"}
     /\ Happened(stop3) = {"cancelRequested", "stopping", "stopped"}
     /\ <<"stopped">> # <<>> /\ stop2 # <<>> /\ stop3 # <<>>
<1>1. {"cancelRequested", "stopping", "stopped"} \subseteq Event
  BY EventsTyped
<1>2. <<"stopped">> # <<>> /\ <<"stopping", "stopped">> # <<>>
      /\ <<"cancelRequested", "stopping", "stopped">> # <<>>
  OBVIOUS
<1> QED
  <2>1. <<>> \in Seq(Event) /\ Happened(<<>>) = {}
    BY ShortSequences, Zenon
  <2>2. /\ <<"stopping">> \in Seq(Event)
        /\ Happened(<<"stopping">>) = {"stopping"}
        /\ <<"stopped">> \in Seq(Event)
        /\ Happened(<<"stopped">>) = {"stopped"}
    BY <1>1, ShortSequences, Zenon
  <2>3. /\ <<"cancelRequested", "stopping">> \in Seq(Event)
        /\ Happened(<<"cancelRequested", "stopping">>)
             = {"cancelRequested", "stopping"}
    BY <1>1, ShortSequences, Zenon
  <2>4. /\ <<"stopping", "stopped">> \in Seq(Event)
        /\ Happened(<<"stopping", "stopped">>) = {"stopping", "stopped"}
    BY <1>1, ShortSequences, Zenon
  <2>5. /\ <<"cancelRequested", "stopping", "stopped">> \in Seq(Event)
        /\ Happened(<<"cancelRequested", "stopping", "stopped">>)
             = {"cancelRequested", "stopping", "stopped"}
    BY <1>1, ThreeEvents
  <2> QED
    BY <1>2, <2>1, <2>2, <2>3, <2>4, <2>5, Zenon

LEMMA StoppingEvents ==
  ASSUME NEW p \in HoldsSlot
  PROVE  LET events == Append(ToCancelling(p), "stopped")
         IN /\ ToCancelling(p) \in Seq(Event) /\ events \in Seq(Event)
            /\ Happened(ToCancelling(p)) \subseteq {"cancelRequested", "stopping"}
            /\ Happened(events) \subseteq {"cancelRequested", "stopping", "stopped"}
            /\ events # <<>> /\ After(p, events) = "cancelled"
<1>1. CASE p \in Active
  <2>1. /\ ToCancelling(p) = <<"cancelRequested", "stopping">>
        /\ Append(ToCancelling(p), "stopped")
             = <<"cancelRequested", "stopping", "stopped">>
    BY <1>1, AppendShort DEF ToCancelling, Active
  <2>2. After(p, <<"cancelRequested", "stopping", "stopped">>) = "cancelled"
    <3>1. After(p, <<"cancelRequested", "stopping", "stopped">>) = Apply(Apply(Apply(p, "cancelRequested"), "stopping"), "stopped")
      BY AfterThree
    <3> QED
      BY <1>1, <3>1, StopsApply
  <2> QED
    BY <2>1, <2>2, ShortEvents
<1>2. CASE p = "cancelRequested"
  <2>1. /\ ToCancelling(p) = <<"stopping">>
        /\ Append(ToCancelling(p), "stopped") = <<"stopping", "stopped">>
    BY <1>2, AppendShort DEF ToCancelling, Active
  <2>2. After(p, <<"stopping", "stopped">>) = "cancelled"
    <3>1. After(p, <<"stopping", "stopped">>) = Apply(Apply(p, "stopping"), "stopped")
      BY AfterTwo
    <3> QED
      BY <1>2, <3>1, StopsApply
  <2> QED
    BY <2>1, <2>2, ShortEvents
<1>3. CASE p = "cancelling"
  <2>1. /\ ToCancelling(p) = <<>>
        /\ Append(ToCancelling(p), "stopped") = <<"stopped">>
    BY <1>3, AppendShort DEF ToCancelling, Active
  <2>2. After(p, <<"stopped">>) = "cancelled"
    <3>1. After(p, <<"stopped">>) = Apply(p, "stopped")
      BY AfterOne
    <3> QED
      BY <1>3, <3>1, StopsApply
  <2> QED
    BY <2>1, <2>2, ShortEvents
<1> QED
  BY <1>1, <1>2, <1>3 DEF HoldsSlot, Stopping

LEMMA PlanStopFacts ==
  ASSUME NEW p \in HoldsSlot, NEW v \in Verdict, NEW reported \in Digest
  PROVE  PlanOK(PlanStop(p, v, reported), p, TRUE)
<1> DEFINE digest == IF DigestOf(v) = "none" /\ p = "verifyingOutput"
                     THEN reported ELSE DigestOf(v)
           events == ToCancelling(p)
<1>1. digest \in Digest
  BY DEF DigestOf, Digest
<1>2. CASE digest # "none"
  <2> DEFINE e == IF p \in Stopping THEN <<>> ELSE <<"cancelRequested">>
  <2>1. PlanStop(p, v, reported) = Plan("verify", e, digest, "none")
    BY <1>2 DEF PlanStop
  <2>2. /\ e \in Seq(Event) /\ "started" \notin Happened(e)
    BY ShortSequences, EventsTyped
  <2> HIDE DEF e, digest
  <2> QED
    BY <1>1, <2>1, <2>2 DEF PlanOK, Plan
<1>3. CASE digest = "none" /\ v \in {"gone", "failed", "lost"}
  <2>1. PlanStop(p, v, reported)
          = Plan("cancelled", Append(events, "stopped"), "none", "none")
    BY <1>3 DEF PlanStop
  <2> QED
    BY <2>1, StoppingEvents DEF PlanOK, Plan, Digest
<1>4. CASE digest = "none" /\ v \notin {"gone", "failed", "lost"}
  <2>1. PlanStop(p, v, reported) = Plan("stop", events, "none", "none")
    BY <1>4 DEF PlanStop
  <2> QED
    BY <2>1, StoppingEvents DEF PlanOK, Plan, Digest
<1> QED
  BY <1>2, <1>3, <1>4

LEMMA PlanFacts ==
  ASSUME NEW p \in HoldsSlot, NEW cancel \in BOOLEAN, NEW v \in Verdict,
         NEW reported \in Digest
  PROVE  PlanOK(PlanFor(p, cancel, v, reported), p, cancel)
<1>1. CASE cancel \/ p \in Stopping
  <2>1. PlanFor(p, cancel, v, reported) = PlanStop(p, v, reported)
    BY <1>1 DEF PlanFor, Stopping
  <2> QED
    BY <1>1, <2>1, PlanStopFacts DEF PlanOK
<1>2. CASE ~(cancel \/ p \in Stopping)
  <2> DEFINE plan == PlanFor(p, cancel, v, reported)
             building == IF p = "preparing" THEN <<"building">> ELSE <<>>
  <2>1. \/ \E e \in {<<>>, building, ToVerifying(p)},
              kind \in {"verify", "wait", "fail"}, digest \in Digest,
              code \in {"none", "build", "rejected", "lostWorker"} :
             plan = Plan(kind, e, digest, code)
    <3>1. CASE p = "verifyingOutput"
      BY <1>2, <3>1 DEF PlanFor, Digest
    <3>2. CASE p # "verifyingOutput"
      BY <1>2, <3>2 DEF PlanFor, Digest, DigestOf, Verdict
    <3> QED
      BY <3>1, <3>2
  <2>2. /\ building \in Seq(Event)
        /\ Happened(building) \subseteq {"building"}
        /\ <<>> \in Seq(Event) /\ Happened(<<>>) = {}
    BY ShortSequences, EventsTyped
  <2>3. /\ ToVerifying(p) \in Seq(Event)
        /\ Happened(ToVerifying(p)) \subseteq {"building", "publishing", "published"}
    BY ShortSequences, EventsTyped DEF ToVerifying
  <2>4. PICK e \in {<<>>, building, ToVerifying(p)},
             kind \in {"verify", "wait", "fail"}, digest \in Digest,
             code \in {"none", "build", "rejected", "lostWorker"} :
          plan = Plan(kind, e, digest, code)
    BY <2>1
  <2>5. /\ e \in Seq(Event) /\ "started" \notin Happened(e)
        /\ "cancelRequested" \notin Happened(e)
    <3>1. CASE e = <<>>
      BY <2>2, <3>1
    <3>2. CASE e = building
      BY <2>2, <3>2
    <3>3. CASE e = ToVerifying(p)
      BY <2>3, <3>3
    <3> QED
      BY <2>4, <3>1, <3>2, <3>3
  <2>6. /\ plan.kind = kind /\ plan.events = e
        /\ plan.digest = digest /\ plan.code = code
    BY <2>4 DEF Plan
  <2> HIDE DEF plan
  <2>7. PlanOK(plan, p, cancel)
    BY <2>4, <2>5, <2>6 DEF PlanOK
  <2> QED
    BY <2>7 DEF plan
<1> QED
  BY <1>1, <1>2
-----------------------------------------------------------------------------
(* The invariant.                                                          *)

\* A row that no attempt was queued in is empty, a cancellation was asked
\* for before it began, and an operation ends as its attempt did.
RowsOK ==
  \A a \in Attempts :
    /\ ~attempts[a].made => attempts[a] = NoAttempt
    /\ attempts[a].phase \in Stopping \cup {"cancelled"} => attempts[a].cancel
    /\ attempts[a].done # "open" =>
         /\ attempts[a].phase \in Terminal
         /\ attempts[a].done = "succeeded" <=> attempts[a].phase = "succeeded"

SlotsOK ==
  /\ IsFiniteSet(slots) /\ Cardinality(slots) <= Limit
  /\ \A a \in Attempts : attempts[a].phase \in HoldsSlot => a \in slots
  /\ \A a \in slots : attempts[a].made /\ attempts[a].phase \notin Terminal

\* What the target asks for: the epoch of its head, the revision of its
\* binding.
EpochsOK ==
  /\ \A a \in Attempts : attempts[a].made =>
       /\ attempts[a].epoch <= target.epoch
       /\ attempts[a].revision <= target.revision
       /\ /\ attempts[a].epoch = target.epoch
          /\ attempts[a].revision = target.revision
          => attempts[a].commit = binding.head /\ binding.epoch = target.epoch
  /\ \A a \in Unfinished :
       attempts[a].epoch # target.epoch => attempts[a].cancel
  /\ \A a, b \in Unfinished :
       attempts[a].epoch = target.epoch /\ attempts[b].epoch = target.epoch
         => a = b

BuildSteps == {"slot", "create", "look", "stop", "record", "verify",
               "complete", "failing", "cleanup", "settle"}

\* What r remembers of its attempt, whoever moved it since.
Remembers(r) ==
  /\ r.at \in BuildSteps => r.op \in Attempts
  /\ r.at \in {"ask", "observe", "synced"} => r.op = Sync
  /\ r.at = "ask" => r.branch \in Branches
  /\ r.at = "observe" => r.head \in Commits
  /\ r.at = "idle" => r = Idle
  /\ r.op \in Attempts =>
       /\ attempts[r.op].made
       /\ \/ r.cancel \/ r.phase \in Stopping
          \/ "cancelRequested" \in Happened(r.events)
          => attempts[r.op].cancel
  /\ r.at = "slot" => r.phase \in Waiting
  /\ r.at = "look" => r.phase \in HoldsSlot
  /\ r.at \notin {"stop", "record"} => r.events = <<>>
  /\ r.at = "stop" => r.then = "giveBack"
  /\ r.at = "record" => r.then \in {"cleanup", "giveBack", "verify"}
  /\ r.at = "record" /\ r.then = "cleanup" => r.events # <<>>
  /\ r.at \in {"cleanup", "settle"} =>
       /\ r.phase \in Terminal /\ attempts[r.op].phase \in Terminal
       /\ r.phase = "succeeded" <=> attempts[r.op].phase = "succeeded"

\* What it may rely on while it holds the claim.
ReliesOn(r) ==
  /\ r.at \in {"slot", "look"} => attempts[r.op].phase = r.phase
  /\ r.at = "create" => r.op \in slots
  /\ "started" \in Happened(r.events) => r.op \in slots
  /\ r.at = "record" /\ r.then = "cleanup" =>
       After(attempts[r.op].phase, r.events) = "cancelled"

Fits(w, r) ==
  /\ Remembers(r)
  /\ r.op \in Attempts /\ holder[r.op] = w => ReliesOn(r)

JobsOK == \A w \in Workers : Fits(w, work[w])

IInv == TypeOK /\ RowsOK /\ SlotsOK /\ EpochsOK /\ JobsOK

LEMMA ConstantFacts ==
  /\ Attempts \subseteq Nat \ {0} /\ Sync \notin Attempts
  /\ None \notin Workers /\ None \notin Attempts \cup {Sync}
  /\ {MaxAttempts, MaxTries, Limit, MaxPushes, MaxRevision, MaxFaults} \subseteq Nat
  BY BuildsAssumption DEF Attempts, Sync

LEMMA IdleTyped == Idle \in Work /\ NoAttempt \in Attempt
<1>1. <<>> \in Seq(Event)
  OBVIOUS
<1>2. Idle \in Work
  BY <1>1, Zenon DEF Idle, Work, Steps, Phase, Waiting, Digest
<1>3. NoAttempt \in Attempt
  <2>1. 0 \in Nat
    OBVIOUS
  <2> QED
    BY <2>1 DEF NoAttempt, Attempt, Phase, Waiting, Digest
<1> QED
  BY <1>2, <1>3

LEMMA IdleRemembers == ASSUME TypeOK PROVE Remembers(Idle) /\ ReliesOn(Idle)
<1>1. Happened(<<>>) = {}
  BY ShortSequences
<1> QED
  BY <1>1, ConstantFacts DEF Remembers, ReliesOn, Idle, BuildSteps, Stopping

\* A worker that lost or gave back its claim fits anything.
LEMMA IdleFits == ASSUME TypeOK, NEW w \in Workers PROVE Fits(w, Idle)
  BY IdleRemembers DEF Fits

\* A step of worker w that moves no attempt but its own.
Moves(a) ==
  \A b \in Attempts :
    /\ attempts[b].made => attempts'[b].made
    /\ attempts[b].made /\ attempts[b].cancel => attempts'[b].cancel
    /\ attempts[b].made /\ attempts[b].phase \in Terminal =>
         attempts'[b].phase = attempts[b].phase
    /\ attempts[b].made /\ b # a =>
         /\ attempts'[b].phase = attempts[b].phase
         /\ b \in slots => b \in slots'

\* A worker's work goes on fitting while others move other attempts.
LEMMA StillFits ==
  ASSUME IInv, NEW u \in Workers, work'[u] = work[u], NEW a, Moves(a),
         \A o \in Attempts : holder'[o] = u => holder[o] = u,
         work[u].op = a /\ a \in Attempts => holder'[a] # u
  PROVE  Fits(u, work[u])'
<1>1. Fits(u, work[u])
  BY DEF IInv, JobsOK
<1>2. CASE work[u].op \notin Attempts
  BY <1>1, <1>2 DEF Fits, Remembers, BuildSteps
<1>3. CASE work[u].op \in Attempts
  <2>1. Remembers(work[u])'
    BY <1>1, <1>3 DEF Fits, Remembers, Moves
  <2>2. ASSUME holder'[work[u].op] = u PROVE ReliesOn(work[u])'
    <3>1. ReliesOn(work[u]) /\ work[u].op # a /\ attempts[work[u].op].made
      BY <1>1, <1>3, <2>2 DEF Fits, Remembers
    <3> QED
      BY <1>3, <3>1 DEF ReliesOn, Moves
  <2> QED
    BY <2>1, <2>2 DEF Fits
<1> QED
  BY <1>2, <1>3

-----------------------------------------------------------------------------
(* Steps that only change what a worker does.                              *)

rows == <<target, binding, attempts, holder, slots>>

\* TypeOK is about each variable by itself.
LEMMA TypedRest ==
  ASSUME TypeOK
  PROVE  /\ UNCHANGED <<heads, hooks>> =>
              heads' \in [Branches -> 0..MaxPushes] /\ hooks' \subseteq Branches
         /\ UNCHANGED target => target' \in Target
         /\ UNCHANGED binding => binding' \in Binding
         /\ UNCHANGED syncing => syncing' \in BOOLEAN
         /\ UNCHANGED attempts => attempts' \in [Attempts -> Attempt]
         /\ UNCHANGED holder =>
              holder' \in [Attempts \cup {Sync} -> Workers \cup {None}]
         /\ UNCHANGED slots => slots' \subseteq Attempts
         /\ UNCHANGED jobs => jobs' \in [Attempts -> Verdict]
         /\ UNCHANGED late => late' \subseteq Attempts
         /\ UNCHANGED desired => desired' \in Attempts \cup {None}
         /\ UNCHANGED work => work' \in [Workers -> Work]
         /\ UNCHANGED faults \/ (\E kind : Faulty(kind)) =>
              faults' \in 0..MaxFaults
<1>1. ASSUME UNCHANGED faults \/ \E kind : Faulty(kind)
      PROVE  faults' \in 0..MaxFaults
  BY <1>1, ConstantFacts DEF Faulty, TypeOK
<1> QED
  BY <1>1, Zenon DEF TypeOK

\* The invariant only sees attempts, slots, epochs, claims and work.
LEMMA RowsStay ==
  ASSUME IInv, UNCHANGED rows, UNCHANGED work, TypeOK'
  PROVE  IInv'
<1>1. UNCHANGED <<target, binding, attempts, holder, slots, work>>
  BY DEF rows
<1>2. RowsOK' /\ SlotsOK'
  BY <1>1 DEF IInv, RowsOK, SlotsOK
<1>3. EpochsOK'
  BY <1>1 DEF IInv, EpochsOK, Unfinished, Made
<1>4. JobsOK'
  BY <1>1 DEF IInv, JobsOK, Fits, Remembers, ReliesOn
<1> QED
  BY <1>2, <1>3, <1>4 DEF IInv

LEMMA JobMoves ==
  ASSUME IInv, NEW w \in Workers, NEW r \in Work,
         work' = [work EXCEPT ![w] = r], Fits(w, r), UNCHANGED rows,
         UNCHANGED <<heads, hooks, syncing, late, desired>>,
         jobs' \in [Attempts -> Verdict],
         UNCHANGED faults \/ \E kind : Faulty(kind)
  PROVE  IInv'
<1>1. UNCHANGED <<target, binding, attempts, holder, slots>>
  BY DEF rows
<1>2. work' \in [Workers -> Work]
  BY DEF IInv, TypeOK
<1>3. TypeOK'
  <2>1. TypeOK
    BY DEF IInv
  <2> QED
    BY <1>1, <1>2, <2>1, TypedRest, Zenon DEF TypeOK
<1>4. RowsOK' /\ SlotsOK'
  BY <1>1 DEF IInv, RowsOK, SlotsOK
<1>5. EpochsOK'
  BY <1>1 DEF IInv, EpochsOK, Unfinished, Made
<1>6. JobsOK'
  <2>1. \A u \in Workers : work'[u] = IF u = w THEN r ELSE work[u]
    BY DEF IInv, TypeOK
  <2>2. ASSUME NEW u \in Workers PROVE Fits(u, work[u])'
    <3>1. Fits(u, work'[u])
      BY <2>1 DEF IInv, JobsOK
    <3>2. Remembers(work[u])'
      BY <1>1, <3>1 DEF Fits, Remembers
    <3>3. (work[u].op \in Attempts /\ holder[work[u].op] = u => ReliesOn(work[u]))'
      BY <1>1, <3>1 DEF Fits, ReliesOn
    <3> QED
      BY <3>2, <3>3 DEF Fits
  <2> QED
    BY <2>2 DEF JobsOK
<1> QED
  BY <1>3, <1>4, <1>5, <1>6 DEF IInv

LEMMA JobFacts ==
  ASSUME IInv, NEW w \in Workers
  PROVE  /\ work[w] \in Work /\ Fits(w, work[w]) /\ Remembers(work[w])
         /\ work[w].op \in Attempts /\ Holds(w) => ReliesOn(work[w])
         /\ TypeOK
  BY DEF IInv, TypeOK, JobsOK, Fits, Holds

LEMMA WorkExcept ==
  ASSUME NEW q \in Work
  PROVE  /\ \A x \in Steps : [q EXCEPT !.at = x] \in Work
         /\ \A x \in Attempts \cup {Sync, None} : [q EXCEPT !.op = x] \in Work
         /\ \A x \in Steps : [q EXCEPT !.then = x] \in Work
         /\ \A x \in Phase : [q EXCEPT !.phase = x] \in Work
         /\ \A x \in BOOLEAN : [q EXCEPT !.cancel = x] \in Work
         /\ \A x \in Digest : [q EXCEPT !.reported = x] \in Work
         /\ \A x \in Seq(Event) : [q EXCEPT !.events = x] \in Work
  BY DEF Work

LEMMA Nothing == Happened(<<>>) = {} /\ <<>> \in Seq(Event)
  BY ShortSequences

\* What is left of a job when it is given back: its attempt.
LEMMA BareFits ==
  ASSUME IInv, NEW w \in Workers, work[w].op \in Attempts, NEW r,
         r.op = work[w].op, r.at \in {"failing", "giveBack"},
         r.phase = "queued", r.cancel = FALSE, r.events = <<>>
  PROVE  Fits(w, r)
<1>1. attempts[r.op].made
  BY JobFacts DEF Remembers
<1> QED
  BY <1>1, Nothing DEF Fits, Remembers, ReliesOn, BuildSteps, Stopping

LEMMA RetryFits ==
  ASSUME IInv, NEW w \in Workers, work[w].op \in Attempts
  PROVE  Retried(w) \in Work /\ Fits(w, Retried(w))
<1> DEFINE q == Retried(w)
<1>1. /\ q.op = work[w].op /\ q.at \in {"failing", "giveBack"}
      /\ q.phase = "queued" /\ q.cancel = FALSE /\ q.events = <<>>
  BY DEF Idle, Retried
<1>2. q \in Work
  BY IdleTyped DEF Idle, Retried, Work, Steps
<1> HIDE DEF q
<1>3. Fits(w, q)
  BY <1>1, BareFits
<1> QED
  BY <1>2, <1>3 DEF q

LEMMA RecordingFits ==
  ASSUME IInv, NEW w \in Workers, work[w].op \in Attempts,
         NEW q \in Work, q.op = work[w].op,
         NEW events \in Seq(Event), NEW digest \in Digest,
         NEW step \in {"record", "stop"},
         NEW then \in {"cleanup", "giveBack", "verify"},
         step = "stop" => then = "giveBack",
         "cancelRequested" \in Happened(events) => attempts[work[w].op].cancel,
         "started" \in Happened(events) /\ Holds(w) => work[w].op \in slots,
         then = "cleanup" =>
           /\ events # <<>>
           /\ Holds(w) => After(attempts[work[w].op].phase, events) = "cancelled"
  PROVE  LET r == [Recording(q, events, then)
                     EXCEPT !.at = step, !.reported = digest]
         IN r \in Work /\ Fits(w, r)
<1> DEFINE r == [Recording(q, events, then)
                   EXCEPT !.at = step, !.reported = digest]
<1>1. q \in Work /\ attempts[work[w].op].made
  BY JobFacts DEF Remembers
<1>2. /\ r.at = step /\ r.op = work[w].op /\ r.events = events
      /\ r.cancel = FALSE /\ r.phase = "queued" /\ r.then = then
  BY <1>1 DEF Recording, Work
<1>3. r \in Work
  <2>1. step \in Steps /\ then \in Steps /\ "queued" \in Phase
        /\ "record" \in Steps /\ "none" \in Digest
    BY DEF Steps, Phase, Waiting, Digest
  <2> DEFINE q1 == [q EXCEPT !.at = "record", !.events = events]
             q2 == [q1 EXCEPT !.then = then, !.phase = "queued"]
             q3 == [q2 EXCEPT !.cancel = FALSE, !.reported = "none"]
             q4 == [q3 EXCEPT !.at = step, !.reported = digest]
  <2>2. q1 \in Work
    BY <1>1, <2>1, WorkExcept
  <2>3. q2 \in Work
    <3> HIDE DEF q1
    <3> QED
      BY <2>2, <2>1, WorkExcept
  <2>4. q3 \in Work
    <3> HIDE DEF q2
    <3> QED
      BY <2>3, <2>1, WorkExcept
  <2>5. q4 \in Work
    <3> HIDE DEF q3
    <3> QED
      BY <2>4, <2>1, WorkExcept
  <2>6. r = q4
    BY DEF Recording
  <2> QED
    BY <2>5, <2>6
<1> HIDE DEF r
<1>4. Remembers(r)
  BY <1>1, <1>2 DEF Remembers, BuildSteps, Stopping
<1>5. holder[r.op] = w => ReliesOn(r)
  BY <1>2 DEF ReliesOn, Holds
<1> QED
  BY <1>3, <1>4, <1>5 DEF r, Fits

LEMMA RetryInv ==
  ASSUME IInv, NEW w \in Workers, work[w].op \in Attempts, Retry(w),
         UNCHANGED <<outside, attempts, holder, slots, jobs, late>>,
         UNCHANGED faults \/ \E kind : Faulty(kind)
  PROVE  IInv'
<1>1. Retried(w) \in Work /\ Fits(w, Retried(w))
  BY RetryFits
<1> DEFINE r == Retried(w)
<1>2. work' = [work EXCEPT ![w] = r]
  BY DEF Retry
<1> HIDE DEF r
<1> QED
  BY <1>1, <1>2, JobMoves DEF r, rows, outside, IInv, TypeOK

LEMMA DropInv ==
  ASSUME IInv, NEW w \in Workers, Drop(w),
         UNCHANGED <<outside, attempts, holder, slots, jobs, late>>,
         UNCHANGED faults \/ \E kind : Faulty(kind)
  PROVE  IInv'
<1> DEFINE r == Idle
<1>1. r \in Work /\ Fits(w, r)
  BY IdleTyped, IdleFits DEF IInv
<1>2. work' = [work EXCEPT ![w] = r]
  BY DEF Drop
<1> HIDE DEF r
<1> QED
  BY <1>1, <1>2, JobMoves DEF rows, outside, IInv, TypeOK

\* The steps of a sync that leave the rows as they are.
LEMMA SyncReadsInv ==
  ASSUME IInv, NEW w \in Workers,
         ReadBinding(w) \/ ReadHead(w) \/ ReadHeadFails(w)
  PROVE  IInv'
<1>1. work[w] \in Work /\ Remembers(work[w]) /\ TypeOK
  BY JobFacts
<1>2. CASE ReadBinding(w)
  <2>1. CASE Holds(w)
    <3> DEFINE r == [work[w] EXCEPT !.at = "ask", !.branch = binding.branch]
    <3>1. work' = [work EXCEPT ![w] = r]
      BY <1>2, <2>1 DEF ReadBinding
    <3>2. r \in Work
      BY <1>1 DEF TypeOK, Binding, Work, Steps
    <3>3. /\ r.at = "ask" /\ r.op = Sync /\ r.branch \in Branches
          /\ r.events = <<>>
      BY <1>1, <1>2 DEF TypeOK, Binding, Work, ReadBinding, At, Remembers
    <3> HIDE DEF r
    <3>4. Fits(w, r)
      BY <3>3, ConstantFacts DEF Fits, Remembers, BuildSteps
    <3> QED
      BY <1>1, <1>2, <3>1, <3>2, <3>4, JobMoves DEF ReadBinding, outside, rows, TypeOK
  <2>2. CASE ~Holds(w)
    BY <1>2, <2>2, DropInv DEF ReadBinding, Drop
  <2> QED
    BY <2>1, <2>2
<1>3. CASE ReadHead(w)
  <2> DEFINE head == <<work[w].branch, heads[work[w].branch]>>
             r == [work[w] EXCEPT !.at = "observe", !.head = head]
  <2>1. work' = [work EXCEPT ![w] = r]
    BY <1>3 DEF ReadHead
  <2>2. head \in Commits
    BY <1>1, <1>3 DEF ReadHead, At, Remembers, Commits, TypeOK
  <2>3. r \in Work
    BY <1>1, <2>2 DEF Work, Steps
  <2>4. /\ r.at = "observe" /\ r.op = Sync /\ r.head \in Commits
        /\ r.events = <<>>
    BY <1>1, <1>3, <2>2 DEF Work, ReadHead, At, Remembers
  <2> HIDE DEF r
  <2>5. Fits(w, r)
    BY <2>4, ConstantFacts DEF Fits, Remembers, BuildSteps
  <2> QED
    BY <1>1, <1>3, <2>1, <2>3, <2>5, JobMoves DEF ReadHead, outside, rows, TypeOK
<1>4. CASE ReadHeadFails(w)
  <2>1. PICK next \in {"synced", "giveBack"} : GoTo(w, next)
    BY <1>4 DEF ReadHeadFails
  <2> DEFINE r == [work[w] EXCEPT !.at = next]
  <2>2. work' = [work EXCEPT ![w] = r]
    BY <2>1 DEF GoTo
  <2>3. r \in Work
    BY <1>1 DEF Work, Steps
  <2>4. r.at = next /\ r.op = Sync /\ r.events = <<>>
    BY <1>1, <1>4 DEF Work, ReadHeadFails, At, Remembers
  <2> HIDE DEF r
  <2>5. Fits(w, r)
    BY <2>4, ConstantFacts DEF Fits, Remembers, BuildSteps
  <2> QED
    BY <1>1, <1>4, <2>2, <2>3, <2>5, JobMoves
       DEF ReadHeadFails, outside, rows, TypeOK
<1> QED
  BY <1>2, <1>3, <1>4

LEMMA ReadAttemptInv ==
  ASSUME IInv, NEW w \in Workers, ReadAttempt(w)
  PROVE  IInv'
<1> DEFINE a == attempts[work[w].op]
           read == [work[w] EXCEPT !.phase = a.phase, !.cancel = a.cancel,
                                   !.reported = a.reported]
           next == NextFor(a.phase, a.cancel)
<1>1. /\ work[w] \in Work /\ Remembers(work[w]) /\ TypeOK
      /\ work[w].op \in Attempts /\ (Holds(w) => ReliesOn(work[w]))
      /\ work[w].events = <<>>
  BY JobFacts DEF ReadAttempt, At, Remembers
<1>2. /\ a.phase \in Phase /\ a.cancel \in BOOLEAN /\ a.reported \in Digest
      /\ a.phase \in Stopping => a.cancel
  BY <1>1 DEF TypeOK, Attempt, IInv, RowsOK
<1>3. read \in Work
  BY <1>1, <1>2, WorkExcept DEF Work
<1>4. /\ read.op = work[w].op /\ read.events = work[w].events
      /\ read.phase = a.phase /\ read.cancel = a.cancel
  BY <1>1 DEF Work
<1>5. \E r \in Work : work' = [work EXCEPT ![w] = r] /\ Fits(w, r)
  <2>1. CASE a.phase \in Terminal \/ (a.phase \in Waiting /\ ~a.cancel)
             \/ a.phase \in HoldsSlot
    <3> DEFINE step == IF a.phase \in Terminal THEN "cleanup"
                       ELSE IF a.phase \in Waiting THEN "slot" ELSE "look"
               r == [read EXCEPT !.at = step]
    <3>1. next = IF a.phase \in Terminal THEN "settle"
                 ELSE IF a.phase \in Waiting THEN "admit" ELSE "observe"
      BY <2>1 DEF NextFor, Terminal, Waiting, HoldsSlot, Active, Stopping
    <3>2. work' = [work EXCEPT ![w] = r]
      BY <3>1, Zenon DEF ReadAttempt
    <3>3. r \in Work
      BY <1>3, WorkExcept DEF Steps
    <3>4. /\ r.at = step /\ r.op = work[w].op /\ r.events = work[w].events
          /\ r.phase = a.phase /\ r.cancel = a.cancel
      BY <1>3, <1>4 DEF Work
    <3> HIDE DEF r, next
    <3>5. Remembers(r)
      BY <1>1, <1>2, <2>1, <3>4
         DEF Remembers, BuildSteps, Terminal, Waiting, HoldsSlot, Active, Stopping
    <3>6. holder[r.op] = w => ReliesOn(r)
      BY <1>1, <3>4 DEF ReliesOn, Holds
    <3> QED
      BY <3>2, <3>3, <3>5, <3>6 DEF Fits
  <2>2. CASE a.phase \in Waiting /\ a.cancel
    <3> DEFINE r == Recording(read, <<"cancelRequested">>, "cleanup")
    <3>1. next = "cancelQueued"
      BY <2>2 DEF NextFor, Terminal, Waiting
    <3>2. work' = [work EXCEPT ![w] = r]
      BY <3>1 DEF ReadAttempt
    <3>3. /\ <<"cancelRequested">> \in Seq(Event)
          /\ Happened(<<"cancelRequested">>) = {"cancelRequested"}
          /\ <<"cancelRequested">> # <<>>
      BY ShortSequences, EventsTyped
    <3>4. After(a.phase, <<"cancelRequested">>) = "cancelled"
      BY <2>2, AfterOne, StopsApply
    <3> DEFINE q == [r EXCEPT !.at = "record", !.reported = "none"]
    <3>5. q \in Work /\ Fits(w, q)
      BY <1>1, <1>3, <1>4, <2>2, <3>3, <3>4, RecordingFits DEF Digest
    <3>6. r = q
      BY DEF Recording
    <3> QED
      BY <3>2, <3>5, <3>6
  <2> QED
    BY <1>2, <2>1, <2>2 DEF Phase
<1> QED
  BY <1>1, <1>5, JobMoves DEF ReadAttempt, outside, rows, TypeOK

LEMMA ObserveInv ==
  ASSUME IInv, NEW w \in Workers, Observe(w)
  PROVE  IInv'
<1> DEFINE r == work[w]
           plan == PlanFor(r.phase, r.cancel, jobs[r.op], r.reported)
           next == CASE plan.kind = "verify"    -> "verify"
                     [] plan.kind = "cancelled" -> "cleanup"
                     [] OTHER                   -> "giveBack"
           step == IF plan.kind = "stop" THEN "stop" ELSE "record"
           recording == [Recording(r, plan.events, next)
                           EXCEPT !.reported = plan.digest]
           failing == [Idle EXCEPT !.at = "failing", !.op = r.op, !.code = plan.code]
           taken == [Recording(r, plan.events, next)
                       EXCEPT !.at = step, !.reported = plan.digest]
<1>1. /\ r \in Work /\ Remembers(r) /\ TypeOK /\ (Holds(w) => ReliesOn(r))
      /\ r.at = "look" /\ r.op \in Attempts /\ r.phase \in HoldsSlot
  BY JobFacts DEF Observe, At, Remembers, BuildSteps
<1>2. r.cancel \in BOOLEAN /\ r.reported \in Digest /\ jobs[r.op] \in Verdict
  BY <1>1 DEF Work, TypeOK
<1>3. PlanOK(plan, r.phase, r.cancel)
  BY <1>1, <1>2, PlanFacts
<1> HIDE DEF plan
<1>4. work' = [work EXCEPT ![w] = CASE plan.kind = "fail" -> failing
                 [] plan.kind = "stop" -> [recording EXCEPT !.at = "stop"]
                 [] OTHER              -> recording]
  BY DEF Observe, plan
<1>5. CASE plan.kind = "fail"
  <2>1. work' = [work EXCEPT ![w] = failing]
    BY <1>4, <1>5
  <2>2. failing \in Work
    BY <1>1, <1>3, IdleTyped DEF PlanOK, Idle, Work, Steps
  <2>3. /\ failing.op = r.op /\ failing.at = "failing" /\ failing.phase = "queued"
        /\ failing.cancel = FALSE /\ failing.events = <<>>
    BY DEF Idle
  <2> HIDE DEF failing
  <2>4. Fits(w, failing)
    BY <1>1, <2>3, BareFits
  <2> QED
    BY <1>1, <2>1, <2>2, <2>4, JobMoves DEF Observe, outside, rows, TypeOK
<1>6. CASE plan.kind # "fail"
  <2>1. next \in {"cleanup", "giveBack", "verify"} /\ step \in {"record", "stop"}
        /\ (step = "stop" => next = "giveBack")
        /\ (next = "cleanup" => plan.kind = "cancelled")
    OBVIOUS
  <2>2. /\ plan.events \in Seq(Event) /\ plan.digest \in Digest
        /\ "started" \notin Happened(plan.events)
        /\ "cancelRequested" \in Happened(plan.events) =>
              attempts[r.op].cancel
    BY <1>1, <1>3 DEF PlanOK, Remembers
  <2>3. plan.kind = "cancelled" =>
          /\ plan.events # <<>>
          /\ Holds(w) => After(attempts[r.op].phase, plan.events) = "cancelled"
    BY <1>1, <1>3 DEF PlanOK, ReliesOn
  <2> HIDE DEF next, step
  <2>4. taken \in Work /\ Fits(w, taken)
    BY <1>1, <2>1, <2>2, <2>3, RecordingFits
  <2>5. work' = [work EXCEPT ![w] = taken]
    <3>1. CASE plan.kind = "stop"
      BY <1>4, <1>6, <3>1 DEF step
    <3>2. CASE plan.kind # "stop"
      <4>1. taken = recording
        BY <3>2 DEF step, Recording
      <4> QED
        BY <1>4, <1>6, <3>2, <4>1
    <3> QED
      BY <3>1, <3>2
  <2> HIDE DEF taken
  <2> QED
    BY <1>1, <2>4, <2>5, JobMoves DEF Observe, outside, rows, TypeOK
<1> QED
  BY <1>5, <1>6

LEMMA StepFits ==
  ASSUME IInv, NEW w \in Workers, NEW step \in Steps,
         \/ work[w].at = "stop" /\ step = "record"
         \/ work[w].at = "cleanup" /\ step = "settle"
         \/ work[w].at = "verify" /\ step = "complete"
         \/ work[w].at = "slot" /\ step = "create" /\ work[w].op \in slots
  PROVE  LET r == [work[w] EXCEPT !.at = step] IN r \in Work /\ Fits(w, r)
<1> DEFINE q == work[w]
           r == [q EXCEPT !.at = step]
<1>1. q \in Work /\ Remembers(q) /\ (Holds(w) => ReliesOn(q))
      /\ q.op \in Attempts
  BY JobFacts DEF Remembers, BuildSteps
<1>2. r \in Work
  BY <1>1, WorkExcept
<1>3. /\ r.at = step /\ r.op = q.op /\ r.events = q.events /\ r.phase = q.phase
      /\ r.cancel = q.cancel /\ r.then = q.then
  BY <1>1 DEF Work
<1> HIDE DEF r, q
<1>4. Remembers(r)
  BY <1>1, <1>3 DEF Remembers, BuildSteps, q
<1>5. holder[r.op] = w => ReliesOn(r)
  BY <1>1, <1>3 DEF ReliesOn, Holds, Remembers, q
<1> QED
  BY <1>2, <1>4, <1>5 DEF Fits, r, q

LEMMA OutsideInv ==
  ASSUME IInv, NEW w \in Workers,
         DeleteJob(w) \/ Verify(w) \/ Cleanup(w) \/ Unanswered(w)
  PROVE  IInv'
<1>1. /\ TypeOK /\ work[w] \in Work
      /\ work[w].at \in BuildSteps => work[w].op \in Attempts
  BY JobFacts DEF Remembers
<1>2. CASE DeleteJob(w)
  <2> DEFINE r == [work[w] EXCEPT !.at = "record"]
  <2>1. r \in Work /\ Fits(w, r)
    BY <1>2, StepFits DEF DeleteJob, At, Steps
  <2>2. work' = [work EXCEPT ![w] = r]
    BY <1>2 DEF DeleteJob, GoTo
  <2>3. jobs' \in [Attempts -> Verdict]
    BY <1>1, <1>2 DEF DeleteJob, TypeOK, Verdict
  <2> HIDE DEF r
  <2> QED
    BY <1>2, <2>1, <2>2, <2>3, JobMoves DEF DeleteJob, outside, rows
<1>3. CASE Cleanup(w)
  <2> DEFINE r == [work[w] EXCEPT !.at = "settle"]
  <2>1. r \in Work /\ Fits(w, r)
    BY <1>3, StepFits DEF Cleanup, At, Steps
  <2>2. work' = [work EXCEPT ![w] = r]
    BY <1>3 DEF Cleanup, GoTo
  <2>3. jobs' \in [Attempts -> Verdict]
    BY <1>1, <1>3 DEF Cleanup, TypeOK, Verdict
  <2> HIDE DEF r
  <2> QED
    BY <1>3, <2>1, <2>2, <2>3, JobMoves DEF Cleanup, outside, rows
<1>4. CASE Verify(w)
  <2>1. work[w].at = "verify" /\ work[w].op \in Attempts
    BY <1>1, <1>4 DEF Verify, At, BuildSteps
  <2>2. CASE GoTo(w, "complete") /\ UNCHANGED faults
    <3> DEFINE r == [work[w] EXCEPT !.at = "complete"]
    <3>1. r \in Work /\ Fits(w, r)
      BY <2>1, StepFits DEF Steps, BuildSteps
    <3>2. work' = [work EXCEPT ![w] = r]
      BY <2>2 DEF GoTo
    <3> HIDE DEF r
    <3> QED
      BY <1>1, <1>4, <2>2, <3>1, <3>2, JobMoves DEF Verify, outside, rows, TypeOK
  <2>3. CASE /\ work' = [work EXCEPT ![w].at = "failing", ![w].code = "rejected"]
             /\ UNCHANGED faults
    <3> DEFINE q == work[w]
               r == [q EXCEPT !.at = "failing", !.code = "rejected"]
    <3>1. /\ r \in Work /\ r.at = "failing" /\ r.op = q.op /\ r.events = q.events
          /\ r.phase = q.phase /\ r.cancel = q.cancel
      BY <1>1 DEF Work, Steps
    <3>2. work' = [work EXCEPT ![w] = r]
      BY <2>3
    <3>3. Remembers(q) /\ (Holds(w) => ReliesOn(q))
      BY <2>1, JobFacts
    <3> HIDE DEF r
    <3>4. Fits(w, r)
      BY <2>1, <3>1, <3>3 DEF Fits, Remembers, ReliesOn, Holds, BuildSteps
    <3> QED
      BY <1>1, <1>4, <2>3, <3>1, <3>2, <3>4, JobMoves
         DEF Verify, outside, rows, TypeOK
  <2>4. CASE Faulty("registry") /\ Retry(w)
    BY <1>4, <2>1, <2>4, RetryInv DEF Verify
  <2> QED
    BY <1>4, <2>2, <2>3, <2>4 DEF Verify
<1>5. CASE Unanswered(w)
  BY <1>5, RetryInv DEF Unanswered
<1> QED
  BY <1>2, <1>3, <1>4, <1>5

LEMMA CreateObjectsInv ==
  ASSUME IInv, NEW w \in Workers, CreateObjects(w)
  PROVE  IInv'
<1> DEFINE q == work[w]
           a == q.op
<1>1. /\ TypeOK /\ q \in Work /\ a \in Attempts /\ q.at = "create"
      /\ Remembers(q) /\ (Holds(w) => a \in slots)
  BY JobFacts DEF Remembers, ReliesOn, CreateObjects, At, BuildSteps
<1>2. CASE \E events \in {<<"unblocked", "started">>, <<"started">>} :
             /\ work' = [work EXCEPT ![w] = Recording(@, events, "giveBack")]
             /\ jobs' = [jobs EXCEPT ![a] = IF @ = "gone" THEN "pending" ELSE @]
  <2>1. PICK events \in {<<"unblocked", "started">>, <<"started">>} :
          /\ work' = [work EXCEPT ![w] = Recording(q, events, "giveBack")]
          /\ jobs' = [jobs EXCEPT ![a] = IF @ = "gone" THEN "pending" ELSE @]
    BY <1>2
  <2>2. events \in Seq(Event) /\ "cancelRequested" \notin Happened(events)
    <3>1. /\ <<"started">> \in Seq(Event)
          /\ Happened(<<"started">>) = {"started"}
      BY ShortSequences, EventsTyped
    <3>2. /\ <<"unblocked", "started">> \in Seq(Event)
          /\ Happened(<<"unblocked", "started">>) = {"unblocked", "started"}
      <4>1. "unblocked" \in Event /\ "started" \in Event
        BY EventsTyped
      <4>2. \A x, y \in Event :
              <<x, y>> \in Seq(Event) /\ Happened(<<x, y>>) = {x, y}
        BY ShortSequences
      <4> QED
        BY <4>1, <4>2, Zenon
    <3>3. CASE events = <<"started">>
      BY <3>1, <3>3
    <3>4. CASE events = <<"unblocked", "started">>
      BY <3>2, <3>4
    <3> QED
      BY <2>1, <3>3, <3>4
  <2> DEFINE r == [Recording(q, events, "giveBack")
                     EXCEPT !.at = "record", !.reported = "none"]
  <2>3. r \in Work /\ Fits(w, r)
    BY <1>1, <2>2, RecordingFits DEF Digest
  <2>4. work' = [work EXCEPT ![w] = r]
    BY <2>1 DEF Recording
  <2>5. jobs' \in [Attempts -> Verdict]
    BY <1>1, <2>1 DEF TypeOK, Verdict
  <2> HIDE DEF r
  <2> QED
    BY <2>3, <2>4, <2>5, JobMoves DEF CreateObjects, outside, rows
<1>3. CASE /\ work' = [work EXCEPT ![w].at = "failing", ![w].code = "build"]
           /\ UNCHANGED jobs
  <2> DEFINE r == [q EXCEPT !.at = "failing", !.code = "build"]
  <2>1. /\ r \in Work /\ r.at = "failing" /\ r.op = q.op /\ r.events = q.events
        /\ r.phase = q.phase /\ r.cancel = q.cancel
    BY <1>1 DEF Work, Steps
  <2>2. work' = [work EXCEPT ![w] = r]
    BY <1>3
  <2>3. Holds(w) => ReliesOn(q)
    BY <1>1, JobFacts
  <2> HIDE DEF r
  <2>4. Fits(w, r)
    BY <1>1, <2>1, <2>3 DEF Fits, Remembers, ReliesOn, Holds, BuildSteps
  <2> QED
    BY <1>1, <1>3, <2>1, <2>2, <2>4, JobMoves
       DEF CreateObjects, outside, rows, TypeOK
<1> QED
  BY <1>2, <1>3 DEF CreateObjects

-----------------------------------------------------------------------------
(* Claims.                                                                 *)

LEMMA StayMoves ==
  ASSUME UNCHANGED <<attempts, slots>>, NEW a
  PROVE  Moves(a)
  BY DEF Moves

\* The rows of the target and of its attempts are what they were.
LEMMA RowsKeep ==
  ASSUME IInv, UNCHANGED <<target, binding, attempts, slots>>, TypeOK', JobsOK'
  PROVE  IInv'
<1>1. RowsOK' /\ SlotsOK'
  BY DEF IInv, RowsOK, SlotsOK
<1>2. EpochsOK'
  BY DEF IInv, EpochsOK, Unfinished, Made
<1> QED
  BY <1>1, <1>2 DEF IInv

LEMMA ClaimInv ==
  ASSUME IInv, NEW w \in Workers, NEW o \in Attempts \cup {Sync}, Claim(w, o)
  PROVE  IInv'
<1> DEFINE r == [work[w] EXCEPT !.at = "claimed", !.op = o]
<1>1. /\ TypeOK /\ work[w] \in Work /\ work[w] = Idle
      /\ o # Sync => attempts[o].made
  BY JobFacts DEF Claim, At, Remembers
<1>2. /\ r \in Work /\ r.at = "claimed" /\ r.op = o /\ r.cancel = FALSE
      /\ r.phase = "queued" /\ r.events = <<>>
  <2>1. r = [Idle EXCEPT !.at = "claimed", !.op = o]
    BY <1>1
  <2>2. [Idle EXCEPT !.at = "claimed"] \in Work
    BY IdleTyped, WorkExcept DEF Steps
  <2>3. r \in Work
    BY <2>1, <2>2, WorkExcept
  <2> QED
    BY <2>1, <2>3 DEF Idle
<1>3. work' = [work EXCEPT ![w] = r]
  BY DEF Claim
<1> HIDE DEF r
<1>4. /\ UNCHANGED <<target, binding, attempts, slots, heads, hooks, syncing, desired,
                     jobs, late, faults>>
      /\ holder' = [holder EXCEPT ![o] = w]
  BY DEF Claim, outside
<1>5. TypeOK'
  <2>1. work' \in [Workers -> Work]
        /\ holder' \in [Attempts \cup {Sync} -> Workers \cup {None}]
    BY <1>1, <1>2, <1>3, <1>4 DEF TypeOK
  <2> QED
    BY <1>1, <1>4, <2>1, TypedRest, Zenon DEF TypeOK
<1>6. ASSUME NEW u \in Workers PROVE Fits(u, work[u])'
  <2>1. CASE u = w
    <3>1. work'[u] = r
      BY <1>1, <1>3, <2>1 DEF TypeOK
    <3>2. r.op \in Attempts => attempts'[r.op].made
      BY <1>1, <1>2, <1>4, ConstantFacts
    <3>3. Remembers(work[u])'
      BY <1>2, <3>1, <3>2, Nothing DEF Remembers, BuildSteps, Stopping
    <3>4. ReliesOn(work[u])'
      BY <1>2, <3>1, Nothing DEF ReliesOn
    <3> QED
      BY <3>3, <3>4 DEF Fits
  <2>2. CASE u # w
    <3>1. work'[u] = work[u]
      BY <1>1, <1>3, <2>2 DEF TypeOK
    <3>2. \A b \in Attempts : holder'[b] = u => holder[b] = u
      BY <1>1, <1>4, <2>2 DEF TypeOK
    <3> QED
      BY <1>4, <3>1, <3>2, ConstantFacts, StayMoves, StillFits
  <2> QED
    BY <2>1, <2>2
<1>7. JobsOK'
  BY <1>6 DEF JobsOK
<1> QED
  BY <1>4, <1>5, <1>7, RowsKeep

\* A claim that ends, its worker going on or not.
LEMMA ClaimsEnd ==
  ASSUME IInv, (\E w \in Workers : Drop(w)) \/ UNCHANGED work,
         holder' \in [Attempts \cup {Sync} -> Workers \cup {None}],
         \A o \in Attempts \cup {Sync} : holder'[o] \in {holder[o], None},
         syncing' \in BOOLEAN,
         UNCHANGED <<target, binding, attempts, slots, heads, hooks, desired, jobs, late>>,
         UNCHANGED faults \/ \E kind : Faulty(kind)
  PROVE  IInv'
<1>1. TypeOK
  BY DEF IInv
<1>2. TypeOK'
  <2>1. work' \in [Workers -> Work]
    BY <1>1, IdleTyped DEF Drop, TypeOK
  <2> QED
    BY <1>1, <2>1, TypedRest, Zenon DEF TypeOK
<1>3. ASSUME NEW u \in Workers PROVE Fits(u, work[u])'
  <2>1. CASE work'[u] = Idle
    BY <1>2, <2>1, IdleRemembers, ConstantFacts, Nothing DEF Fits, Remembers, ReliesOn, Idle, BuildSteps, Stopping
  <2>2. CASE work'[u] = work[u]
    <3>1. \A b \in Attempts : holder'[b] = u => holder[b] = u
      BY ConstantFacts
    <3> QED
      BY <2>2, <3>1, ConstantFacts, StayMoves, StillFits
  <2> QED
    BY <1>1, <2>1, <2>2 DEF Drop, TypeOK
<1>4. JobsOK'
  BY <1>3 DEF JobsOK
<1> QED
  BY <1>2, <1>4, RowsKeep

LEMMA ClaimEndsInv ==
  ASSUME IInv,
         \/ \E o \in Attempts \cup {Sync} : LeaseEnds(o)
         \/ \E w \in Workers : Crash(w) \/ GiveBack(w) \/ FinishSync(w)
  PROVE  IInv'
<1>1. TypeOK
  BY DEF IInv
<1>2. CASE \E o \in Attempts \cup {Sync} : LeaseEnds(o)
  <2>1. holder' \in [Attempts \cup {Sync} -> Workers \cup {None}]
        /\ \A o \in Attempts \cup {Sync} : holder'[o] \in {holder[o], None}
    BY <1>1, <1>2 DEF LeaseEnds, TypeOK
  <2> QED
    BY <1>1, <1>2, <2>1, ClaimsEnd DEF LeaseEnds, outside, TypeOK
<1>3. ASSUME NEW w \in Workers, Crash(w) PROVE IInv'
  <2>1. holder' \in [Attempts \cup {Sync} -> Workers \cup {None}]
        /\ \A o \in Attempts \cup {Sync} : holder'[o] \in {holder[o], None}
    BY <1>1, <1>3 DEF Crash, TypeOK
  <2> QED
    BY <1>1, <1>3, <2>1, ClaimsEnd DEF Crash, outside, TypeOK
<1>4. ASSUME NEW w \in Workers, GiveBack(w) PROVE IInv'
  <2>1. holder' \in [Attempts \cup {Sync} -> Workers \cup {None}]
        /\ \A o \in Attempts \cup {Sync} : holder'[o] \in {holder[o], None}
    BY <1>1, <1>4 DEF GiveBack, TypeOK
  <2> QED
    BY <1>1, <1>4, <2>1, ClaimsEnd DEF GiveBack, outside, TypeOK
<1>5. ASSUME NEW w \in Workers, FinishSync(w) PROVE IInv'
  <2>1. holder' \in [Attempts \cup {Sync} -> Workers \cup {None}]
        /\ \A o \in Attempts \cup {Sync} : holder'[o] \in {holder[o], None}
    BY <1>1, <1>5 DEF FinishSync, TypeOK
  <2>2. syncing' \in BOOLEAN
    BY <1>1, <1>5 DEF FinishSync, TypeOK
  <2> QED
    BY <1>5, <2>1, <2>2, ClaimsEnd DEF FinishSync
<1> QED
  BY <1>2, <1>3, <1>4, <1>5

-----------------------------------------------------------------------------
(* Steps that write the attempt of a claim.                                *)

\* The row of attempt a moves under its claim and gives its slot back when it
\* ends; a lost worker's build is queued once more, as attempt id.
LEMMA RowMoves ==
  ASSUME IInv, TypeOK', NEW w \in Workers, NEW a \in Attempts,
         holder[a] = w, NEW row \in Attempt, NEW id, NEW fresh \in Attempt,
         \A b \in Attempts : attempts'[b] =
           IF b = a THEN row ELSE IF b = id THEN fresh ELSE attempts[b],
         attempts[a].made, row.made,
         row.cancel = attempts[a].cancel, row.epoch = attempts[a].epoch,
         row.revision = attempts[a].revision, row.commit = attempts[a].commit,
         attempts[a].phase \in Terminal => row.phase = attempts[a].phase,
         row.phase \in Stopping \cup {"cancelled"} => row.cancel,
         row.done # "open" =>
           /\ row.phase \in Terminal
           /\ row.done = "succeeded" <=> row.phase = "succeeded",
         row.phase \in HoldsSlot => a \in slots,
         id \in Attempts =>
           /\ ~attempts[id].made /\ fresh.made /\ ~fresh.cancel
           /\ fresh.phase = "queued" /\ fresh.done = "open"
           /\ fresh.epoch = attempts[a].epoch /\ fresh.commit = attempts[a].commit
           /\ fresh.revision = attempts[a].revision
           /\ attempts[a].phase \notin Terminal /\ row.phase \in Terminal
           /\ attempts[a].epoch = target.epoch
           /\ attempts[a].revision = target.revision,
         slots' = Release(a, row.phase),
         UNCHANGED <<target, binding>>,
         \A o \in Attempts : holder'[o] \in {holder[o], None},
         \A u \in Workers \ {w} : work'[u] = work[u],
         Fits(w, work[w])'
  PROVE  IInv'
<1>1. TypeOK /\ RowsOK /\ SlotsOK /\ EpochsOK
  BY DEF IInv
<1>2. /\ "queued" \notin Terminal /\ "queued" \notin Stopping \cup {"cancelled"}
      /\ "queued" \notin HoldsSlot /\ Terminal \cap HoldsSlot = {}
  BY DEF Terminal, HoldsSlot, Stopping, Active
<1>3. RowsOK'
  <2> SUFFICES ASSUME NEW b \in Attempts
               PROVE  (/\ ~attempts[b].made => attempts[b] = NoAttempt
                       /\ attempts[b].phase \in Stopping \cup {"cancelled"} =>
                            attempts[b].cancel
                       /\ attempts[b].done # "open" =>
                            /\ attempts[b].phase \in Terminal
                            /\ attempts[b].done = "succeeded"
                                 <=> attempts[b].phase = "succeeded")'
    BY DEF RowsOK
  <2>1. CASE b = a
    BY <2>1
  <2>2. CASE b # a /\ b = id
    BY <1>2, <2>2
  <2>3. CASE b # a /\ b # id
    BY <1>1, <2>3 DEF RowsOK
  <2> QED
    BY <2>1, <2>2, <2>3
<1>4. SlotsOK'
  <2>1. IsFiniteSet(slots') /\ Cardinality(slots') <= Limit
    <3>1. slots' \in {slots, slots \ {a}}
      BY DEF Release
    <3>2. /\ IsFiniteSet(slots \ {a})
          /\ Cardinality(slots \ {a}) <= Cardinality(slots)
          /\ Cardinality(slots) \in Nat /\ Cardinality(slots \ {a}) \in Nat
      BY <1>1, FS_Subset, FS_CardinalityType DEF SlotsOK
    <3>3. Limit \in Nat
      BY ConstantFacts
    <3>4. CASE slots' = slots
      BY <1>1, <3>4 DEF SlotsOK
    <3>5. CASE slots' = slots \ {a}
      <4> DEFINE n == Cardinality(slots)
                 m == Cardinality(slots \ {a})
      <4>1. n <= Limit /\ m <= n /\ n \in Nat /\ m \in Nat
        BY <1>1, <3>2 DEF SlotsOK
      <4>2. m <= Limit
        <5> HIDE DEF n, m
        <5> QED
          BY <3>3, <4>1
      <4> QED
        BY <3>2, <3>5, <4>2
    <3> QED
      BY <3>1, <3>4, <3>5
  <2>2. ASSUME NEW b \in Attempts, attempts'[b].phase \in HoldsSlot
        PROVE  b \in slots'
    BY <1>1, <1>2, <2>2 DEF SlotsOK, Release
  <2>3. ASSUME NEW b \in slots'
        PROVE  attempts'[b].made /\ attempts'[b].phase \notin Terminal
    <3>1. b \in slots /\ b \in Attempts /\ attempts[b].made /\ b # id
      BY <1>1, <2>3 DEF SlotsOK, TypeOK, Release
    <3> QED
      BY <1>1, <2>3, <3>1 DEF SlotsOK, Release
  <2> QED
    BY <2>1, <2>2, <2>3 DEF SlotsOK
<1>5. EpochsOK'
  <2>1. ASSUME NEW b \in Attempts, attempts'[b].made
        PROVE  /\ attempts'[b].epoch <= target.epoch
               /\ attempts'[b].revision <= target.revision
               /\ /\ attempts'[b].epoch = target.epoch
                  /\ attempts'[b].revision = target.revision
                  => /\ attempts'[b].commit = binding.head
                     /\ binding.epoch = target.epoch
    BY <1>1, <2>1 DEF EpochsOK
  <2>2. \A b \in Unfinished' :
          /\ b \in Attempts /\ b # id => b \in Unfinished
          /\ b \in Attempts /\ b = id => attempts'[b] = fresh
          /\ b \in Attempts /\ b = a => id \notin Attempts
    BY DEF Unfinished, Made
  <2>3. \A b \in Unfinished : b # id =>
          /\ attempts'[b].epoch = attempts[b].epoch
          /\ attempts'[b].cancel = attempts[b].cancel
    BY DEF Unfinished, Made
  <2>4. \A b \in Unfinished' : b \in Attempts
    BY DEF Unfinished, Made
  <2>5. ASSUME NEW b \in Unfinished'
        PROVE  attempts'[b].epoch # target.epoch => attempts'[b].cancel
    BY <1>1, <2>2, <2>3, <2>4 DEF EpochsOK
  <2>6. ASSUME NEW b \in Unfinished', NEW c \in Unfinished',
               attempts'[b].epoch = target.epoch, attempts'[c].epoch = target.epoch
        PROVE  b = c
    <3>1. CASE id \in Attempts
      <4>1. a \in Unfinished
        BY <3>1 DEF Unfinished, Made
      <4>2. b # a /\ c # a
        BY <2>2, <3>1
      <4>3. b = id /\ c = id
        BY <1>1, <2>2, <2>3, <2>4, <2>6, <3>1, <4>1, <4>2 DEF EpochsOK
      <4> QED
        BY <4>3
    <3>2. CASE id \notin Attempts
      BY <1>1, <2>2, <2>3, <2>4, <2>6, <3>2 DEF EpochsOK
    <3> QED
      BY <3>1, <3>2
  <2> QED
    BY <2>1, <2>5, <2>6 DEF EpochsOK
<1>6. JobsOK'
  <2>1. Moves(a)
    <3> SUFFICES ASSUME NEW b \in Attempts, attempts[b].made
                 PROVE  /\ attempts'[b].made
                        /\ attempts[b].cancel => attempts'[b].cancel
                        /\ attempts[b].phase \in Terminal =>
                             attempts'[b].phase = attempts[b].phase
                        /\ b # a =>
                             /\ attempts'[b].phase = attempts[b].phase
                             /\ b \in slots => b \in slots'
      BY DEF Moves
    <3>1. b # id
      OBVIOUS
    <3>2. b # a /\ b \in slots => b \in slots'
      BY DEF Release
    <3> QED
      BY <3>1, <3>2
  <2>2. ASSUME NEW u \in Workers, u # w PROVE Fits(u, work[u])'
    <3>1. holder'[a] # u /\ \A o \in Attempts : holder'[o] = u => holder[o] = u
      BY <2>2, ConstantFacts
    <3> QED
      BY <2>1, <2>2, <3>1, StillFits
  <2> QED
    BY <2>2 DEF JobsOK
<1> QED
  BY <1>3, <1>4, <1>5, <1>6 DEF IInv

LEMMA SettleInv ==
  ASSUME IInv, NEW w \in Workers, Settle(w)
  PROVE  IInv'
<1> DEFINE a == work[w].op
           row == [attempts[a] EXCEPT !.done = work[w].phase]
<1>1. /\ TypeOK /\ work[w].at = "settle" /\ a \in Attempts
      /\ attempts[a].made /\ work[w].phase \in Terminal
      /\ attempts[a].phase \in Terminal
      /\ work[w].phase = "succeeded" <=> attempts[a].phase = "succeeded"
  BY JobFacts DEF Settle, At, Remembers, BuildSteps
<1>2. CASE ~Holds(w)
  BY <1>1, <1>2, DropInv DEF Settle
<1>3. CASE Holds(w)
  <2>1. /\ row \in Attempt /\ row.made /\ row.cancel = attempts[a].cancel
        /\ row.epoch = attempts[a].epoch /\ row.revision = attempts[a].revision
        /\ row.commit = attempts[a].commit /\ row.phase = attempts[a].phase
        /\ row.done = work[w].phase
    BY <1>1 DEF TypeOK, Attempt, Terminal
  <2>2. attempts' = [attempts EXCEPT ![a] = row]
    BY <1>3 DEF Settle
  <2> HIDE DEF row
  <2>3. \A b \in Attempts : attempts'[b] =
          IF b = a THEN row ELSE IF b = None THEN NoAttempt ELSE attempts[b]
    BY <1>1, <2>2, ConstantFacts DEF TypeOK
  <2>4. UNCHANGED <<target, binding, heads, hooks, syncing, desired, slots, jobs, late, faults>>
        /\ holder' = [holder EXCEPT ![a] = None]
        /\ work' = [work EXCEPT ![w] = Idle]
    BY <1>3 DEF Settle, Drop, outside
  <2>5. TypeOK'
    <3>1. work' \in [Workers -> Work]
      BY <1>1, <2>4, IdleTyped DEF TypeOK
    <3>2. attempts' \in [Attempts -> Attempt]
      BY <1>1, <2>1, <2>2 DEF TypeOK
    <3>3. holder' \in [Attempts \cup {Sync} -> Workers \cup {None}]
      BY <1>1, <2>4 DEF TypeOK
    <3> QED
      BY <1>1, <2>4, <3>1, <3>2, <3>3, TypedRest, Zenon DEF TypeOK
  <2>6. Fits(w, work[w])'
    <3>1. work'[w] = Idle
      BY <1>1, <2>4 DEF TypeOK
    <3> QED
      BY <3>1, ConstantFacts, Nothing
         DEF Fits, Remembers, ReliesOn, Idle, BuildSteps, Stopping
  <2>7. \A u \in Workers \ {w} : work'[u] = work[u]
    BY <1>1, <2>4 DEF TypeOK
  <2>8. \A o \in Attempts : holder'[o] \in {holder[o], None}
    BY <1>1, <2>4 DEF TypeOK
  <2>9. /\ row.phase \in Stopping \cup {"cancelled"} => row.cancel
        /\ row.phase \notin HoldsSlot
        /\ a \notin slots
    <3>1. Terminal \cap HoldsSlot = {}
      BY DEF Terminal, HoldsSlot, Active, Stopping
    <3> QED
      BY <1>1, <2>1, <3>1 DEF IInv, RowsOK, SlotsOK
  <2>10. slots' = Release(a, row.phase)
    BY <2>4, <2>9 DEF Release
  <2>11. holder[a] = w /\ None \notin Attempts /\ NoAttempt \in Attempt
    BY <1>3, ConstantFacts, IdleTyped DEF Holds
  <2> HIDE DEF a
  <2> QED
    BY <1>1, <2>1, <2>3, <2>4, <2>5, <2>6, <2>7, <2>8, <2>9, <2>10, <2>11, RowMoves
<1> QED
  BY <1>2, <1>3

\* An attempt that ends without a plan: verified, or failed.
LEMMA EndFacts ==
  ASSUME IInv, NEW a \in Attempts, NEW e \in {"verified", "failed"},
         NEW phase, phase = Apply(attempts[a].phase, e), phase # Illegal
  PROVE  /\ attempts[a].phase \notin Terminal /\ attempts[a].done = "open"
         /\ phase \in Terminal /\ phase \notin HoldsSlot
         /\ phase = "cancelled" => attempts[a].cancel
         /\ phase \notin Stopping
         /\ phase = "succeeded" <=> e = "verified"
<1>1. attempts[a].phase \in Phase /\ RowsOK
  BY DEF IInv, TypeOK, Attempt
<1>2. /\ attempts[a].phase \notin Terminal
      /\ e = "verified" => phase = "succeeded"
      /\ e = "failed" => phase \in {"failed", "cancelled"}
      /\ attempts[a].phase \notin Stopping => phase # "cancelled"
  <2> DEFINE p == attempts[a].phase
  <2>1. p \in Phase \cup {Illegal}
    BY <1>1
  <2> HIDE DEF p
  <2>2. /\ p \in Terminal \cup {Illegal} => Apply(p, e) = Illegal
        /\ /\ p \notin Stopping
           /\ Apply(p, e) \in Stopping \cup {"cancelled"}
           => e = "cancelRequested"
        /\ e = "verified" => Apply(p, e) \in {"succeeded", Illegal}
        /\ e = "failed" => Apply(p, e) \in {"failed", "cancelled", Illegal}
    BY <2>1, ApplyFacts
  <2> QED
    BY <2>2 DEF p
<1>3. /\ {"succeeded", "failed", "cancelled"} = Terminal
      /\ Terminal \cap HoldsSlot = {} /\ Terminal \cap Stopping = {}
  BY DEF Terminal, HoldsSlot, Active, Stopping
<1> QED
  BY <1>1, <1>2, <1>3 DEF RowsOK

LEMMA CompleteInv ==
  ASSUME IInv, NEW w \in Workers, Complete(w)
  PROVE  IInv'
<1> DEFINE a == work[w].op
           phase == Apply(attempts[a].phase, "verified")
           row == [attempts[a] EXCEPT !.phase = phase]
           r == [work[w] EXCEPT !.at = "cleanup", !.phase = phase]
<1>1. /\ TypeOK /\ work[w].at = "complete" /\ a \in Attempts
      /\ attempts[a].made /\ work[w] \in Work /\ Remembers(work[w])
      /\ Holds(w) => ReliesOn(work[w])
  BY JobFacts DEF Complete, At, Remembers, BuildSteps
<1>2. CASE ~Holds(w)
  BY <1>1, <1>2, DropInv DEF Complete, outside
<1>3. CASE Holds(w) /\ phase = Illegal
  BY <1>1, <1>3, RetryInv DEF Complete, outside
<1>4. CASE Holds(w) /\ phase # Illegal
  <2>1. /\ attempts[a].phase \notin Terminal /\ attempts[a].done = "open"
        /\ phase \in Terminal /\ phase \notin HoldsSlot
        /\ phase = "cancelled" => attempts[a].cancel
        /\ phase \notin Stopping
    BY <1>1, <1>4, EndFacts
  <2>2. /\ attempts' = [attempts EXCEPT ![a] = row]
        /\ slots' = Release(a, phase)
        /\ work' = [work EXCEPT ![w] = r]
        /\ desired' \in {a, desired}
        /\ UNCHANGED <<heads, hooks, target, binding, syncing, holder, jobs, late, faults>>
    BY <1>4 DEF Complete
  <2>3. phase \in Phase
    BY <2>1 DEF Phase
  <2> HIDE DEF phase
  <2>4. /\ row \in Attempt /\ row.made /\ row.cancel = attempts[a].cancel
        /\ row.epoch = attempts[a].epoch /\ row.revision = attempts[a].revision
        /\ row.commit = attempts[a].commit /\ row.phase = phase
        /\ row.done = "open"
    BY <1>1, <2>1, <2>3 DEF TypeOK, Attempt
  <2>5. /\ r \in Work /\ r.at = "cleanup" /\ r.op = a /\ r.phase = phase
        /\ r.events = work[w].events /\ r.cancel = work[w].cancel
    BY <1>1, <2>3 DEF Work, Steps
  <2> HIDE DEF row, r
  <2>6. \A b \in Attempts : attempts'[b] =
          IF b = a THEN row ELSE IF b = None THEN NoAttempt ELSE attempts[b]
    BY <1>1, <2>2, ConstantFacts DEF TypeOK
  <2>7. TypeOK'
    <3>1. work' \in [Workers -> Work]
      BY <1>1, <2>2, <2>5 DEF TypeOK
    <3>2. attempts' \in [Attempts -> Attempt]
      BY <1>1, <2>2, <2>4 DEF TypeOK
    <3>3. slots' \subseteq Attempts /\ desired' \in Attempts \cup {None}
      BY <1>1, <2>2 DEF TypeOK, Release
    <3> QED
      BY <1>1, <2>2, <3>1, <3>2, <3>3, TypedRest, Zenon DEF TypeOK
  <2>8. Fits(w, work[w])'
    <3>1. work'[w] = r /\ attempts'[a] = row
      BY <1>1, <2>2 DEF TypeOK
    <3>2. Remembers(work[w])'
      BY <1>1, <2>1, <2>4, <2>5, <3>1 DEF Remembers, BuildSteps
    <3>3. ReliesOn(work[w])'
      <4>1. Happened(r.events) = {}
        BY <1>1, <2>5, Nothing DEF Remembers
      <4> QED
        BY <2>5, <3>1, <4>1 DEF ReliesOn
    <3> QED
      BY <3>2, <3>3 DEF Fits
  <2>9. \A u \in Workers \ {w} : work'[u] = work[u]
    BY <1>1, <2>2 DEF TypeOK
  <2>10. \A o \in Attempts : holder'[o] \in {holder[o], None}
    BY <2>2
  <2>11. holder[a] = w /\ None \notin Attempts /\ NoAttempt \in Attempt
    BY <1>4, ConstantFacts, IdleTyped DEF Holds
  <2>12. slots' = Release(a, row.phase)
    BY <2>2, <2>4
  <2> HIDE DEF a
  <2> QED
    BY <1>1, <2>1, <2>2, <2>4, <2>6, <2>7, <2>8, <2>9, <2>10, <2>11, <2>12, RowMoves
<1> QED
  BY <1>2, <1>3, <1>4

Queued(commit, epoch, revision, no) ==
  [NoAttempt EXCEPT !.made = TRUE, !.commit = commit, !.epoch = epoch,
                    !.revision = revision, !.no = no]

\* queueAttempt takes a row that no attempt has.
LEMMA QueueTakes ==
  ASSUME NEW q, NEW b \in Attempts, ~q[b].made,
         NEW commit, NEW epoch, NEW revision, NEW no,
         NEW fresh, fresh = Queued(commit, epoch, revision, no)
  PROVE  \E id \in Attempts :
           /\ ~q[id].made
           /\ Queue(q, commit, epoch, revision, no) = [q EXCEPT ![id] = fresh]
<1> DEFINE id == CHOOSE c \in Attempts : ~q[c].made
<1>1. id \in Attempts /\ ~q[id].made
  OBVIOUS
<1>2. Queue(q, commit, epoch, revision, no) = [q EXCEPT ![id] = fresh]
  BY DEF Queue, Queued
<1> HIDE DEF id
<1> QED
  BY <1>1, <1>2

LEMMA RoomIsFree == ASSUME Room PROVE \E b \in Attempts : ~attempts[b].made
  BY DEF Room, Made

LEMMA QueuedFacts ==
  ASSUME NEW commit \in Commits \cup {None}, NEW epoch \in Nat, NEW revision \in Nat,
         NEW no \in Nat,
         NEW fresh, fresh = Queued(commit, epoch, revision, no)
  PROVE  /\ fresh \in Attempt /\ fresh.made /\ ~fresh.cancel
         /\ fresh.phase = "queued" /\ fresh.done = "open"
         /\ fresh.epoch = epoch /\ fresh.commit = commit
         /\ fresh.revision = revision
  BY IdleTyped DEF Queued, NoAttempt, Attempt

LEMMA NextNoTyped == ASSUME NEW a PROVE NextNo(a) \in Nat
<1> DEFINE S == {b \in Made : /\ attempts[b].epoch = attempts[a].epoch
                              /\ attempts[b].revision = attempts[a].revision}
<1>1. IsFiniteSet(Attempts)
  BY ConstantFacts, FS_Interval DEF Attempts
<1>2. S \subseteq Attempts
  BY DEF Made
<1>3. Cardinality(S) \in Nat
  BY <1>1, <1>2, FS_Subset, FS_CardinalityType
<1> QED
  BY <1>3 DEF NextNo

LEMMA FailInv ==
  ASSUME IInv, NEW w \in Workers, Fail(w)
  PROVE  IInv'
<1> DEFINE a == work[w].op
           phase == Apply(attempts[a].phase, "failed")
           row == [attempts[a] EXCEPT !.phase = phase]
           failed == [attempts EXCEPT ![a].phase = phase]
           fresh == Queued(attempts[a].commit, attempts[a].epoch,
                           attempts[a].revision, NextNo(a))
           r == [work[w] EXCEPT !.at = "cleanup", !.phase = "failed"]
<1>1. /\ TypeOK /\ work[w].at = "failing" /\ a \in Attempts
      /\ attempts[a].made /\ work[w] \in Work /\ Remembers(work[w])
      /\ Holds(w) => ReliesOn(work[w])
  BY JobFacts DEF Fail, At, Remembers, BuildSteps
<1>2. CASE ~Holds(w)
  BY <1>1, <1>2, DropInv DEF Fail
<1>3. CASE Holds(w) /\ phase = Illegal
  BY <1>1, <1>3, RetryInv DEF Fail
<1>4. CASE Holds(w) /\ phase # Illegal
  <2>1. /\ attempts[a].phase \notin Terminal /\ attempts[a].done = "open"
        /\ phase \in Terminal /\ phase \notin HoldsSlot
        /\ phase = "cancelled" => attempts[a].cancel
        /\ phase \notin Stopping /\ phase # "succeeded"
    BY <1>1, <1>4, EndFacts
  <2>2. /\ slots' = Release(a, phase)
        /\ work' = [work EXCEPT ![w] = r]
        /\ UNCHANGED <<heads, hooks, target, binding, syncing, desired, holder,
                       jobs, late, faults>>
    BY <1>4 DEF Fail, outside
  <2>3. \/ attempts' = failed
        \/ /\ Room /\ Retries(a)
           /\ attempts' = Queue(failed, attempts[a].commit, attempts[a].epoch,
                                attempts[a].revision, NextNo(a))
    BY <1>4 DEF Fail
  <2>4. phase \in Phase
    BY <2>1 DEF Phase
  <2> HIDE DEF phase
  <2>5. /\ row \in Attempt /\ row.made /\ row.cancel = attempts[a].cancel
        /\ row.epoch = attempts[a].epoch /\ row.revision = attempts[a].revision
        /\ row.commit = attempts[a].commit /\ row.phase = phase
        /\ row.done = "open"
    BY <1>1, <2>1, <2>4 DEF TypeOK, Attempt
  <2>6. /\ r \in Work /\ r.at = "cleanup" /\ r.op = a /\ r.phase = "failed"
        /\ r.events = work[w].events /\ r.cancel = work[w].cancel
    BY <1>1, <2>4 DEF Work, Steps, Phase, Terminal
  <2>7. /\ fresh \in Attempt /\ fresh.made /\ ~fresh.cancel
        /\ fresh.phase = "queued" /\ fresh.done = "open"
        /\ fresh.epoch = attempts[a].epoch /\ fresh.commit = attempts[a].commit
        /\ fresh.revision = attempts[a].revision
    <3>1. /\ attempts[a].commit \in Commits \cup {None}
          /\ attempts[a].epoch \in Nat /\ attempts[a].revision \in Nat
          /\ NextNo(a) \in Nat
      BY <1>1, NextNoTyped DEF TypeOK, Attempt
    <3>2. PICK c \in Commits \cup {None}, e \in Nat, v \in Nat, n \in Nat :
            /\ c = attempts[a].commit /\ e = attempts[a].epoch
            /\ v = attempts[a].revision /\ n = NextNo(a)
      BY <3>1
    <3>3. PICK x : x = Queued(c, e, v, n)
      OBVIOUS
    <3>4. /\ x \in Attempt /\ x.made /\ ~x.cancel
          /\ x.phase = "queued" /\ x.done = "open"
          /\ x.epoch = e /\ x.commit = c /\ x.revision = v
      BY <3>3, QueuedFacts
    <3>5. x = fresh
      BY <3>2, <3>3
    <3> QED
      BY <3>2, <3>4, <3>5
  <2> HIDE DEF r, fresh
  <2>8. failed = [attempts EXCEPT ![a] = row]
        /\ \A b \in Attempts : failed[b].made = attempts[b].made
    BY <1>1, <2>5 DEF TypeOK
  <2> HIDE DEF row, failed
  <2>9. \E id \in Attempts \cup {None} :
          /\ id \in Attempts => Retries(a) /\ ~attempts[id].made
          /\ attempts' \in [Attempts -> Attempt]
          /\ \A b \in Attempts : attempts'[b] =
               IF b = a THEN row ELSE IF b = id THEN fresh ELSE attempts[b]
    <3>1. CASE attempts' = failed
      <4>1. attempts' = [attempts EXCEPT ![a] = row]
        BY <2>8, <3>1
      <4>2. /\ attempts' \in [Attempts -> Attempt]
            /\ \A b \in Attempts : attempts'[b] =
                 IF b = a THEN row ELSE IF b = None THEN fresh ELSE attempts[b]
        BY <1>1, <2>5, <4>1, ConstantFacts DEF TypeOK
      <4>3. None \notin Attempts
        BY ConstantFacts
      <4> QED
        BY <4>2, <4>3
    <3>2. CASE /\ Room /\ Retries(a)
               /\ attempts' = Queue(failed, attempts[a].commit, attempts[a].epoch,
                                    attempts[a].revision, NextNo(a))
      <4>1. PICK id \in Attempts : /\ ~attempts[id].made
                                   /\ attempts' = [failed EXCEPT ![id] = fresh]
        <5>1. PICK b \in Attempts : ~failed[b].made
          BY <2>8, <3>2, RoomIsFree
        <5>2. \E id \in Attempts : /\ ~failed[id].made
                                  /\ attempts' = [failed EXCEPT ![id] = fresh]
          BY <3>2, <5>1, QueueTakes DEF fresh
        <5> QED
          BY <2>8, <5>2
      <4>2. id # a
        BY <1>1, <4>1
      <4>3. /\ attempts' \in [Attempts -> Attempt]
            /\ \A b \in Attempts : attempts'[b] =
                 IF b = a THEN row ELSE IF b = id THEN fresh ELSE attempts[b]
        <5>1. failed \in [Attempts -> Attempt]
          BY <1>1, <2>5, <2>8 DEF TypeOK
        <5>2. \A b \in Attempts : failed[b] = IF b = a THEN row ELSE attempts[b]
          BY <1>1, <2>8 DEF TypeOK
        <5> QED
          BY <2>7, <4>1, <4>2, <5>1, <5>2
      <4> QED
        BY <3>2, <4>1, <4>3
    <3> QED
      BY <2>3, <3>1, <3>2
  <2>10. TypeOK'
    <3>1. work' \in [Workers -> Work]
      BY <1>1, <2>2, <2>6 DEF TypeOK
    <3>2. slots' \subseteq Attempts
      BY <1>1, <2>2 DEF TypeOK, Release
    <3> QED
      BY <1>1, <2>2, <2>9, <3>1, <3>2, TypedRest, Zenon DEF TypeOK
  <2>11. Fits(w, work[w])'
    <3>1. work'[w] = r /\ attempts'[a] = row
      BY <1>1, <2>2, <2>9 DEF TypeOK
    <3>2. Remembers(work[w])'
      BY <1>1, <2>1, <2>5, <2>6, <3>1
         DEF Remembers, BuildSteps, Stopping, Terminal
    <3>3. ReliesOn(work[w])'
      <4>1. Happened(r.events) = {}
        BY <1>1, <2>6, Nothing DEF Remembers
      <4> QED
        BY <2>6, <3>1, <4>1 DEF ReliesOn
    <3> QED
      BY <3>2, <3>3 DEF Fits
  <2>12. \A u \in Workers \ {w} : work'[u] = work[u]
    BY <1>1, <2>2 DEF TypeOK
  <2>13. PICK id \in Attempts \cup {None} :
          /\ id \in Attempts => Retries(a) /\ ~attempts[id].made
          /\ \A b \in Attempts : attempts'[b] =
               IF b = a THEN row ELSE IF b = id THEN fresh ELSE attempts[b]
    BY <2>9
  <2>14. id \in Attempts => /\ attempts[a].epoch = target.epoch
                            /\ attempts[a].revision = target.revision
    BY <2>13 DEF Retries
  <2>15. holder[a] = w /\ (\A o \in Attempts : holder'[o] \in {holder[o], None})
    BY <1>4, <2>2 DEF Holds
  <2>16. slots' = Release(a, row.phase)
    BY <2>2, <2>5
  <2> HIDE DEF a
  <2> QED
    BY <1>1, <2>1, <2>2, <2>5, <2>7, <2>10, <2>11, <2>12, <2>13, <2>14, <2>15, <2>16,
       RowMoves
<1> QED
  BY <1>2, <1>3, <1>4

\* What the recorded events lead to.
LEMMA RecordedFacts ==
  ASSUME IInv, NEW w \in Workers, work[w].at = "record", NEW a, a = work[w].op,
         NEW phase, phase = After(attempts[a].phase, work[w].events),
         phase # Illegal
  PROVE  /\ a \in Attempts /\ phase \in Phase
         /\ attempts[a].phase \in Terminal => phase = attempts[a].phase
         /\ phase \in Stopping \cup {"cancelled"} => attempts[a].cancel
         /\ Holds(w) /\ phase \in HoldsSlot => a \in slots
         /\ Holds(w) /\ work[w].then = "cleanup" => phase = "cancelled"
         /\ work[w].events = <<>> => phase = attempts[a].phase
<1>1. /\ TypeOK /\ RowsOK /\ SlotsOK /\ a \in Attempts /\ work[w] \in Work
      /\ Remembers(work[w]) /\ (Holds(w) => ReliesOn(work[w]))
  BY JobFacts DEF Remembers, BuildSteps, IInv
<1>2. attempts[a].phase \in Phase /\ work[w].events \in Seq(Event)
  BY <1>1 DEF TypeOK, Attempt, Work
<1> DEFINE p == attempts[a].phase
           events == work[w].events
<1>3. /\ phase \in Phase \cup {Illegal}
      /\ p \in Terminal => phase \in {p, Illegal}
      /\ p \notin HoldsSlot /\ phase \in HoldsSlot => "started" \in Happened(events)
      /\ /\ p \notin Stopping \cup {"cancelled"}
         /\ phase \in Stopping \cup {"cancelled"}
         => "cancelRequested" \in Happened(events)
  <2>1. p \in Phase /\ events \in Seq(Event) /\ phase = After(p, events)
    BY <1>2
  <2> HIDE DEF p, events
  <2> QED
    BY <2>1, AfterFacts
<1>4. phase \in Stopping \cup {"cancelled"} => attempts[a].cancel
  BY <1>1, <1>3 DEF RowsOK, Remembers
<1>5. Holds(w) /\ phase \in HoldsSlot => a \in slots
  BY <1>1, <1>3 DEF SlotsOK, ReliesOn
<1>6. Holds(w) /\ work[w].then = "cleanup" => phase = "cancelled"
  BY <1>1 DEF ReliesOn
<1>7. events = <<>> => phase = p
  BY DEF After
<1> QED
  BY <1>1, <1>3, <1>4, <1>5, <1>6, <1>7

LEMMA RecordInv ==
  ASSUME IInv, NEW w \in Workers, Record(w)
  PROVE  IInv'
<1> DEFINE q == work[w]
           a == q.op
           phase == After(attempts[a].phase, q.events)
           row == [attempts[a] EXCEPT !.phase = phase,
                     !.reported = IF @ = "none" /\ q.events # <<>>
                                  THEN q.reported ELSE @]
           r == [q EXCEPT !.at = q.then, !.events = <<>>, !.then = "idle",
                   !.phase = IF q.then = "cleanup" THEN "cancelled" ELSE @]
<1>1. /\ TypeOK /\ q.at = "record" /\ a \in Attempts
      /\ attempts[a].made /\ q \in Work /\ Remembers(q)
      /\ Holds(w) => ReliesOn(q)
  BY JobFacts DEF Record, At, Remembers, BuildSteps
<1>2. CASE q.events # <<>> /\ ~Holds(w)
  BY <1>1, <1>2, DropInv DEF Record
<1>3. CASE (q.events = <<>> \/ Holds(w)) /\ phase = Illegal
  BY <1>1, <1>3, RetryInv DEF Record
<1>4. CASE (q.events = <<>> \/ Holds(w)) /\ phase # Illegal
  <2>1. /\ phase \in Phase
        /\ attempts[a].phase \in Terminal => phase = attempts[a].phase
        /\ phase \in Stopping \cup {"cancelled"} => attempts[a].cancel
        /\ Holds(w) /\ phase \in HoldsSlot => a \in slots
        /\ Holds(w) /\ q.then = "cleanup" => phase = "cancelled"
        /\ q.events = <<>> => phase = attempts[a].phase
    BY <1>1, <1>4, RecordedFacts
  <2>2. /\ attempts' = [attempts EXCEPT ![a] = row]
        /\ slots' = Release(a, phase)
        /\ work' = [work EXCEPT ![w] = r]
        /\ UNCHANGED <<heads, hooks, target, binding, syncing, desired, holder,
                       jobs, late, faults>>
    <3>1. /\ attempts' = [attempts EXCEPT ![a].phase = phase,
                   ![a].reported = IF @ = "none" /\ q.events # <<>>
                                   THEN q.reported ELSE @]
          /\ work' = [work EXCEPT ![w].at = q.then, ![w].events = <<>>,
                   ![w].then = "idle",
                   ![w].phase = IF q.then = "cleanup" THEN "cancelled" ELSE @]
          /\ slots' = Release(a, phase)
          /\ UNCHANGED <<outside, holder, jobs, late, faults>>
      BY <1>4 DEF Record
    <3>2. work[w] = q /\ DOMAIN work = Workers /\ DOMAIN attempts = Attempts
      BY <1>1 DEF TypeOK
    <3> HIDE DEF phase
    <3>3. attempts' = [attempts EXCEPT ![a] = row]
      BY <1>1, <3>1, <3>2
    <3>4. work' = [work EXCEPT ![w] = r]
      BY <1>1, <3>1, <3>2
    <3> QED
      BY <3>1, <3>3, <3>4 DEF outside
  <2> HIDE DEF phase
  <2>3. /\ row \in Attempt /\ row.made /\ row.cancel = attempts[a].cancel
        /\ row.epoch = attempts[a].epoch /\ row.revision = attempts[a].revision
        /\ row.commit = attempts[a].commit /\ row.phase = phase
        /\ row.done = attempts[a].done
    <3>1. attempts[a] \in Attempt /\ q.reported \in Digest
      BY <1>1 DEF TypeOK, Work
    <3>2. PICK p \in Attempt : p = attempts[a]
      BY <3>1
    <3>3. PICK d \in Digest : d = IF p.reported = "none" /\ q.events # <<>>
                                  THEN q.reported ELSE p.reported
      BY <3>1 DEF Attempt
    <3>4. row = [p EXCEPT !.phase = phase, !.reported = d]
      BY <3>2, <3>3 DEF Attempt
    <3>5. row \in Attempt /\ row.phase = phase /\ row.done = p.done
          /\ row.made = p.made /\ row.cancel = p.cancel /\ row.epoch = p.epoch
          /\ row.revision = p.revision /\ row.commit = p.commit
      <4> HIDE DEF row
      <4> QED
        BY <2>1, <3>4 DEF Attempt
    <3> QED
      BY <1>1, <3>2, <3>5
  <2>4. /\ r.at = q.then /\ r.op = a /\ r.events = <<>>
        /\ r.cancel = q.cancel
        /\ r.phase = IF q.then = "cleanup" THEN "cancelled" ELSE q.phase
    BY <1>1 DEF Work
  <2>5. r \in Work
    <3>1. /\ q.then \in Steps /\ <<>> \in Seq(Event) /\ "idle" \in Steps
          /\ "cancelled" \in Phase
      BY <1>1 DEF Work, Steps, Phase, Terminal
    <3> QED
      BY <1>1, <3>1 DEF Work
  <2> HIDE DEF row, r
  <2>6. TypeOK'
    <3>1. work' \in [Workers -> Work]
      BY <1>1, <2>2, <2>5 DEF TypeOK
    <3>2. attempts' \in [Attempts -> Attempt]
      BY <1>1, <2>2, <2>3 DEF TypeOK
    <3>3. slots' \subseteq Attempts
      BY <1>1, <2>2 DEF TypeOK, Release
    <3> QED
      BY <1>1, <2>2, <3>1, <3>2, <3>3, TypedRest, Zenon DEF TypeOK
  <2>7. /\ work'[w] = r /\ attempts'[a] = row
        /\ \A b \in Attempts \ {a} : attempts'[b] = attempts[b]
        /\ \A u \in Workers \ {w} : work'[u] = work[u]
    BY <1>1, <2>2 DEF TypeOK
  <2>8. "cancelled" \in Terminal /\ "cancelled" \notin Stopping
    BY DEF Terminal, Stopping
  <2>9. q.then = "cleanup" => Holds(w)
    BY <1>1, <1>4 DEF Remembers
  <2>10. Fits(w, work[w])'
    <3>1. Remembers(work[w])'
      BY <1>1, <2>1, <2>3, <2>4, <2>7, <2>8, <2>9, Nothing DEF Remembers, BuildSteps
    <3>2. ReliesOn(work[w])'
      BY <1>1, <2>4, <2>7, Nothing DEF ReliesOn, Remembers
    <3> QED
      BY <3>1, <3>2 DEF Fits
  <2>11. CASE Holds(w)
    <3>1. \A b \in Attempts : attempts'[b] =
            IF b = a THEN row ELSE IF b = None THEN NoAttempt ELSE attempts[b]
      BY <2>7, ConstantFacts
    <3>2. row.done # "open" =>
            /\ row.phase \in Terminal
            /\ row.done = "succeeded" <=> row.phase = "succeeded"
      BY <1>1, <2>1, <2>3 DEF IInv, RowsOK
    <3>3. holder[a] = w /\ None \notin Attempts /\ NoAttempt \in Attempt
      BY <2>11, ConstantFacts, IdleTyped DEF Holds
    <3>4. slots' = Release(a, row.phase)
          /\ \A o \in Attempts : holder'[o] \in {holder[o], None}
      BY <2>2, <2>3
    <3>5. row.phase \in HoldsSlot => a \in slots
      BY <2>1, <2>3, <2>11
    <3> HIDE DEF a
    <3> QED
      BY <1>1, <2>1, <2>2, <2>3, <2>6, <2>7, <2>10, <3>1, <3>2, <3>3, <3>4, <3>5,
         RowMoves
  <2>12. CASE ~Holds(w)
    <3>1. q.events = <<>> /\ phase = attempts[a].phase
      BY <1>4, <2>1, <2>12
    <3>2. row = attempts[a]
      BY <1>1, <3>1 DEF row, TypeOK, Attempt
    <3>3. attempts' = attempts
      BY <1>1, <2>2, <3>2 DEF TypeOK
    <3>4. slots' = slots
      BY <1>1, <2>2, <3>1 DEF Release, IInv, SlotsOK
    <3>5. \A u \in Workers : Fits(u, work[u])'
      <4>1. ASSUME NEW u \in Workers, u # w PROVE Fits(u, work[u])'
        BY <2>2, <2>7, <3>3, <3>4, <4>1, ConstantFacts, StayMoves, StillFits
      <4> QED
        BY <2>10, <4>1
    <3> QED
      BY <2>2, <2>6, <3>3, <3>4, <3>5, RowsKeep DEF JobsOK
  <2> QED
    BY <2>11, <2>12
<1> QED
  BY <1>2, <1>3, <1>4

\* Admission: one more slot, while there is room.
LEMMA ClaimSlotInv ==
  ASSUME IInv, NEW w \in Workers, ClaimSlot(w)
  PROVE  IInv'
<1> DEFINE q == work[w]
           a == q.op
<1>1. /\ TypeOK /\ q.at = "slot" /\ a \in Attempts /\ attempts[a].made
      /\ q \in Work /\ Remembers(q) /\ (Holds(w) => ReliesOn(q)) /\ SlotsOK
  BY JobFacts DEF ClaimSlot, At, Remembers, BuildSteps, IInv
<1>2. CASE ~Holds(w)
  BY <1>1, <1>2, DropInv DEF ClaimSlot
<1>3. CASE Holds(w) /\ (a \in slots \/ FreeSlot)
  <2> DEFINE r == [q EXCEPT !.at = "create"]
  <2>1. /\ slots' = slots \cup {a} /\ work' = [work EXCEPT ![w] = r]
        /\ UNCHANGED <<heads, hooks, target, binding, syncing, desired, attempts,
                       holder, jobs, late, faults>>
    BY <1>3 DEF ClaimSlot, GoTo, outside
  <2>2. /\ r \in Work /\ r.at = "create" /\ r.op = a /\ r.events = <<>>
        /\ r.cancel = q.cancel /\ r.phase = q.phase
    BY <1>1 DEF Work, Steps, Remembers
  <2> HIDE DEF r
  <2>3. /\ IsFiniteSet(slots') /\ Cardinality(slots') <= Limit
    <3>1. CASE a \in slots
      <4>1. slots' = slots
        BY <2>1, <3>1
      <4> QED
        BY <1>1, <4>1 DEF SlotsOK
    <3>2. CASE a \notin slots /\ FreeSlot
      <4>1. IsFiniteSet(slots) /\ Cardinality(slots) \in Nat
        BY <1>1, FS_CardinalityType DEF SlotsOK
      <4>2. /\ IsFiniteSet(slots \cup {a})
            /\ Cardinality(slots \cup {a}) = Cardinality(slots) + 1
        BY <3>2, <4>1, FS_AddElement
      <4>3. Cardinality(slots) + 1 <= Limit
        BY <3>2, <4>1, ConstantFacts DEF FreeSlot
      <4>4. slots' = slots \cup {a}
        BY <2>1
      <4> QED
        BY <4>2, <4>3, <4>4
    <3> QED
      BY <1>3, <3>1, <3>2
  <2>4. attempts[a].phase \notin Terminal
    BY <1>1, <1>3 DEF ReliesOn, Remembers, Waiting, Terminal
  <2>5. TypeOK'
    <3>1. work' \in [Workers -> Work] /\ slots' \subseteq Attempts
      BY <1>1, <2>1, <2>2 DEF TypeOK
    <3> QED
      BY <1>1, <2>1, <3>1, TypedRest, Zenon DEF TypeOK
  <2>6. SlotsOK'
    BY <1>1, <2>1, <2>3, <2>4 DEF SlotsOK
  <2>7. RowsOK'
    BY <2>1 DEF IInv, RowsOK
  <2>8. EpochsOK'
    BY <2>1 DEF IInv, EpochsOK, Unfinished, Made
  <2>9. ASSUME NEW u \in Workers PROVE Fits(u, work[u])'
    <3>1. CASE u = w
      <4>1. work'[u] = r
        BY <1>1, <2>1, <3>1 DEF TypeOK
      <4>2. Remembers(work[u])'
        BY <1>1, <2>1, <2>2, <4>1, Nothing DEF Remembers, BuildSteps
      <4>3. ReliesOn(work[u])'
        BY <2>1, <2>2, <4>1, Nothing DEF ReliesOn
      <4> QED
        BY <4>2, <4>3 DEF Fits
    <3>2. CASE u # w
      <4>1. work'[u] = work[u]
        BY <1>1, <2>1, <3>2 DEF TypeOK
      <4>2. Moves(Sync)
        BY <2>1 DEF Moves
      <4> QED
        BY <2>1, <4>1, <4>2, ConstantFacts, StillFits
    <3> QED
      BY <3>1, <3>2
  <2> QED
    BY <2>5, <2>6, <2>7, <2>8, <2>9 DEF IInv, JobsOK
<1>4. CASE Holds(w) /\ ~(a \in slots \/ FreeSlot)
  <2> DEFINE events == IF q.phase = "blocked" THEN <<>> ELSE <<"blocked">>
             r == [Recording(q, events, "giveBack")
                     EXCEPT !.at = "record", !.reported = "none"]
  <2>1. /\ work' = [work EXCEPT ![w] = Recording(q, events, "giveBack")]
        /\ UNCHANGED <<outside, attempts, holder, slots, jobs, late, faults>>
    <3>1. work[w] = q
      OBVIOUS
    <3> QED
      BY <1>1, <1>4 DEF ClaimSlot, TypeOK
  <2>2. /\ events \in Seq(Event) /\ "started" \notin Happened(events)
        /\ "cancelRequested" \notin Happened(events)
    BY ShortSequences, EventsTyped
  <2> HIDE DEF events
  <2>3. r \in Work /\ Fits(w, r)
    BY <1>1, <2>2, RecordingFits DEF Digest
  <2>4. work' = [work EXCEPT ![w] = r]
    BY <2>1 DEF Recording
  <2> HIDE DEF r
  <2> QED
    BY <1>1, <2>1, <2>3, <2>4, JobMoves DEF outside, rows, TypeOK
<1> QED
  BY <1>2, <1>3, <1>4

-----------------------------------------------------------------------------
(* Requests and the build cluster.                                         *)

\* What neither the rows nor the workers see.
LEMMA UnseenInv ==
  ASSUME IInv,
         \/ \E b \in Branches : Push(b) \/ Webhook(b)
         \/ \E p \in {"auto", "pinned"} : Choose(p)
         \/ ResumeAuto \/ BeginDeletion \/ Cluster
  PROVE  IInv'
<1>1. TypeOK
  BY DEF IInv
<1>2. \E kind : UNCHANGED faults \/ Faulty(kind)
  BY DEF Push, Webhook, Choose, ResumeAuto, BeginDeletion, Cluster, JobRuns,
         JobIsLost, GrowsOld
<1>3. /\ UNCHANGED <<binding, attempts, holder, slots, work>>
      /\ target'.epoch = target.epoch /\ target'.revision = target.revision
      /\ target' \in Target
  BY <1>1 DEF Push, Webhook, Choose, ResumeAuto, BeginDeletion, Cluster, JobRuns,
              JobIsLost, GrowsOld, outside, TypeOK, Target
<1>4. /\ heads' \in [Branches -> 0..MaxPushes] /\ hooks' \subseteq Branches
      /\ syncing' \in BOOLEAN
  <2>1. ASSUME NEW b \in Branches, Push(b)
        PROVE  heads' \in [Branches -> 0..MaxPushes]
    <3>1. heads[b] \in 0..MaxPushes /\ heads[b] + 1 \in 0..MaxPushes
      BY <1>1, <2>1, ConstantFacts DEF Push, TypeOK
    <3>2. heads' = [heads EXCEPT ![b] = heads[b] + 1]
      BY <2>1 DEF Push
    <3> QED
      BY <1>1, <3>1, <3>2 DEF TypeOK
  <2>2. heads' = heads \/ \E b \in Branches : Push(b)
    BY DEF Webhook, Choose, ResumeAuto, BeginDeletion, Cluster, JobRuns, JobIsLost,
           GrowsOld, outside
  <2>3. hooks' \subseteq Branches /\ syncing' \in BOOLEAN
    BY <1>1 DEF Push, Webhook, RequestSync, Choose, ResumeAuto, BeginDeletion,
                Cluster, JobRuns, JobIsLost, GrowsOld, outside, TypeOK
  <2> QED
    BY <1>1, <2>1, <2>2, <2>3 DEF TypeOK
<1>5. /\ jobs' \in [Attempts -> Verdict] /\ late' \subseteq Attempts
      /\ desired' \in Attempts \cup {None}
  BY <1>1 DEF Push, Webhook, Choose, ResumeAuto, BeginDeletion, Cluster, JobRuns,
              JobIsLost, GrowsOld, outside, TypeOK, Verdict, Made
<1>6. TypeOK'
  BY <1>1, <1>2, <1>3, <1>4, <1>5, TypedRest, Zenon DEF TypeOK
<1>7. RowsOK' /\ SlotsOK'
  BY <1>3 DEF IInv, RowsOK, SlotsOK
<1>8. EpochsOK'
  BY <1>3 DEF IInv, EpochsOK, Unfinished, Made
<1>9. JobsOK'
  BY <1>3 DEF IInv, JobsOK, Fits, Remembers, ReliesOn
<1> QED
  BY <1>6, <1>7, <1>8, <1>9 DEF IInv

\* The binding changes: no attempt is of its new revision.
LEMMA RebindInv ==
  ASSUME IInv, NEW b \in Branches, Rebind(b)
  PROVE  IInv'
<1>1. TypeOK /\ EpochsOK
  BY DEF IInv
<1>2. /\ UNCHANGED <<attempts, holder, slots, work, heads, hooks, jobs, late,
                     desired, faults>>
      /\ syncing' = TRUE
      /\ target' = [target EXCEPT !.revision = @ + 1]
      /\ binding' = [binding EXCEPT !.branch = b, !.head = None]
  BY DEF Rebind, RequestSync
<1>3. /\ target' \in Target /\ binding' \in Binding
      /\ target'.epoch = target.epoch /\ target'.revision = target.revision + 1
      /\ target.revision \in Nat
  <2>1. target \in Target /\ binding \in Binding
    BY <1>1 DEF TypeOK
  <2>2. target.revision \in Nat
    BY <2>1 DEF Target
  <2>3. binding' \in Binding
    BY <1>2, <2>1 DEF Binding
  <2>4. target.revision + 1 \in Nat
    BY <2>2
  <2>5. /\ target' \in Target /\ target'.epoch = target.epoch
        /\ target'.revision = target.revision + 1
    BY <1>2, <2>1, <2>4 DEF Target
  <2> QED
    BY <2>2, <2>3, <2>5
<1>4. TypeOK'
  BY <1>1, <1>2, <1>3, TypedRest, Zenon DEF TypeOK
<1>5. RowsOK' /\ SlotsOK'
  BY <1>2 DEF IInv, RowsOK, SlotsOK
<1>6. EpochsOK'
  <2>1. ASSUME NEW a \in Attempts, attempts'[a].made
        PROVE  /\ attempts'[a].epoch <= target'.epoch
               /\ attempts'[a].revision <= target'.revision
               /\ attempts'[a].revision # target'.revision
    <3>1. /\ attempts[a].epoch <= target.epoch
          /\ attempts[a].revision <= target.revision
          /\ attempts[a].revision \in Nat
      BY <1>1, <1>2, <2>1 DEF EpochsOK, TypeOK, Attempt
    <3> QED
      BY <1>2, <1>3, <3>1
  <2>2. Unfinished' = Unfinished
    BY <1>2 DEF Unfinished, Made
  <2> QED
    BY <1>1, <1>2, <1>3, <2>1, <2>2 DEF EpochsOK
<1>7. JobsOK'
  BY <1>2 DEF IInv, JobsOK, Fits, Remembers, ReliesOn
<1> QED
  BY <1>4, <1>5, <1>6, <1>7 DEF IInv

\* A cancellation is asked for.
LEMMA RequestCancelInv ==
  ASSUME IInv, NEW a \in Attempts, RequestCancel(a)
  PROVE  IInv'
<1> DEFINE row == [attempts[a] EXCEPT !.cancel = TRUE]
<1>1. TypeOK /\ EpochsOK /\ RowsOK /\ SlotsOK
  BY DEF IInv
<1>2. /\ UNCHANGED <<target, binding, holder, slots, work, heads, hooks, syncing,
                     jobs, late, desired>>
      /\ attempts' = [attempts EXCEPT ![a] = row]
      /\ Faulty("cancel") /\ attempts[a].made
  BY DEF RequestCancel, outside, Unfinished, Made
<1>3. /\ row \in Attempt /\ row.made = attempts[a].made /\ row.cancel = TRUE
      /\ row.phase = attempts[a].phase /\ row.done = attempts[a].done
      /\ row.epoch = attempts[a].epoch /\ row.revision = attempts[a].revision
      /\ row.commit = attempts[a].commit
  BY <1>1 DEF TypeOK, Attempt
<1> HIDE DEF row
<1>4. \A b \in Attempts : attempts'[b] = IF b = a THEN row ELSE attempts[b]
  BY <1>1, <1>2 DEF TypeOK
<1>5. TypeOK'
  <2>1. attempts' \in [Attempts -> Attempt]
    BY <1>1, <1>2, <1>3 DEF TypeOK
  <2> QED
    BY <1>1, <1>2, <2>1, TypedRest, Zenon DEF TypeOK
<1>6. RowsOK'
  <2>1. ASSUME NEW b \in Attempts, b # a
        PROVE  attempts'[b] = attempts[b]
    BY <1>4, <2>1
  <2>2. /\ attempts'[a] = row /\ row.made /\ row.cancel
        /\ row.phase = attempts[a].phase /\ row.done = attempts[a].done
    BY <1>2, <1>3, <1>4
  <2> QED
    BY <1>1, <2>1, <2>2 DEF RowsOK
<1>7. SlotsOK'
  BY <1>1, <1>2, <1>3, <1>4 DEF SlotsOK, TypeOK
<1>8. EpochsOK'
  <2>1. /\ Unfinished' = Unfinished
        /\ \A b \in Attempts :
             /\ attempts'[b].made = attempts[b].made
             /\ attempts'[b].epoch = attempts[b].epoch
             /\ attempts'[b].revision = attempts[b].revision
             /\ attempts'[b].commit = attempts[b].commit
             /\ attempts[b].cancel => attempts'[b].cancel
        /\ Unfinished \subseteq Attempts
    BY <1>3, <1>4 DEF Unfinished, Made
  <2> QED
    BY <1>1, <1>2, <2>1 DEF EpochsOK
<1>9. JobsOK'
  <2>1. Moves(Sync)
    BY <1>2, <1>3, <1>4 DEF Moves
  <2> QED
    BY <1>2, <2>1, ConstantFacts, StillFits DEF JobsOK
<1> QED
  BY <1>5, <1>6, <1>7, <1>8, <1>9 DEF IInv

\* A newer head: older attempts are asked to stop, its build is queued.
LEMMA NewHeadInv ==
  ASSUME IInv, TypeOK', NEW head \in Commits, NEW id \in Attempts,
         ~attempts[id].made, NEW fresh \in Attempt,
         fresh.made, ~fresh.cancel, fresh.phase = "queued", fresh.done = "open",
         fresh.epoch = target.epoch + 1, fresh.commit = head,
         fresh.revision = target.revision,
         attempts' = [StopOlder(attempts) EXCEPT ![id] = fresh],
         target'.epoch = target.epoch + 1, target'.revision = target.revision,
         binding'.head = head, binding'.epoch = target.epoch + 1,
         UNCHANGED <<holder, slots>>, NEW w \in Workers, Fits(w, work[w])',
         \A u \in Workers \ {w} : work'[u] = work[u]
  PROVE  IInv'
<1>1. TypeOK /\ RowsOK /\ SlotsOK /\ EpochsOK /\ target.epoch \in Nat
  BY DEF IInv, TypeOK, Target
<1>2. \A b \in Attempts : b # id =>
        /\ attempts'[b].made <=> attempts[b].made
        /\ attempts'[b].phase = attempts[b].phase
        /\ attempts'[b].done = attempts[b].done
        /\ attempts'[b].epoch = attempts[b].epoch
        /\ attempts'[b].revision = attempts[b].revision
        /\ attempts'[b].commit = attempts[b].commit
        /\ attempts[b].cancel => attempts'[b].cancel
        /\ b \in Unfinished => attempts'[b].cancel
        /\ ~attempts[b].made => attempts'[b] = attempts[b]
  <2>1. ASSUME NEW b \in Attempts, b # id
        PROVE  attempts'[b] = IF b \in Unfinished
                              THEN [attempts[b] EXCEPT !.cancel = TRUE]
                              ELSE attempts[b]
    BY <1>1, <2>1 DEF StopOlder
  <2>3. \A b \in Unfinished : attempts[b].made
    BY DEF Unfinished, Made
  <2>4. ASSUME NEW b \in Attempts, b # id, b \in Unfinished
        PROVE  /\ attempts'[b].made <=> attempts[b].made
               /\ attempts'[b].phase = attempts[b].phase
               /\ attempts'[b].done = attempts[b].done
               /\ attempts'[b].epoch = attempts[b].epoch
               /\ attempts'[b].revision = attempts[b].revision
               /\ attempts'[b].commit = attempts[b].commit
               /\ attempts'[b].cancel
    <3>1. PICK row \in Attempt : row = attempts[b]
      BY <1>1 DEF TypeOK
    <3>2. attempts'[b] = [row EXCEPT !.cancel = TRUE]
      BY <2>1, <2>4, <3>1
    <3> QED
      BY <3>1, <3>2 DEF Attempt
  <2>5. ASSUME NEW b \in Attempts, b # id, b \notin Unfinished
        PROVE  attempts'[b] = attempts[b]
    BY <2>1, <2>5
  <2> QED
    BY <2>3, <2>4, <2>5
<1>3. attempts'[id] = fresh
  BY <1>1 DEF StopOlder
<1>4. /\ "queued" \notin Terminal /\ "queued" \notin Stopping \cup {"cancelled"}
      /\ "queued" \notin HoldsSlot
  BY DEF Terminal, HoldsSlot, Stopping, Active
<1>5. RowsOK'
  <2>1. ASSUME NEW b \in Attempts
        PROVE  (/\ ~attempts[b].made => attempts[b] = NoAttempt
                /\ attempts[b].phase \in Stopping \cup {"cancelled"} =>
                     attempts[b].cancel
                /\ attempts[b].done # "open" =>
                     /\ attempts[b].phase \in Terminal
                     /\ attempts[b].done = "succeeded"
                          <=> attempts[b].phase = "succeeded")'
    <3>1. CASE b = id
      BY <1>3, <1>4, <3>1
    <3>2. CASE b # id
      BY <1>1, <1>2, <3>2 DEF RowsOK
    <3> QED
      BY <3>1, <3>2
  <2> QED
    BY <2>1 DEF RowsOK
<1>6. SlotsOK'
  <2>1. \A b \in Attempts : attempts'[b].phase \in HoldsSlot => b \in slots'
    BY <1>1, <1>2, <1>3, <1>4 DEF SlotsOK
  <2>2. \A b \in slots' : attempts'[b].made /\ attempts'[b].phase \notin Terminal
    BY <1>1, <1>2 DEF SlotsOK, TypeOK
  <2> QED
    BY <1>1, <2>1, <2>2 DEF SlotsOK
<1>7. EpochsOK'
  <2>1. ASSUME NEW b \in Attempts, attempts'[b].made
        PROVE  /\ attempts'[b].epoch <= target'.epoch
               /\ attempts'[b].revision <= target'.revision
               /\ attempts'[b].epoch = target'.epoch => b = id
    <3>1. CASE b = id
      BY <1>1, <1>3, <3>1 DEF TypeOK, Target
    <3>2. CASE b # id
      <4>1. /\ attempts[b].epoch <= target.epoch
            /\ attempts[b].revision <= target.revision
            /\ attempts[b].epoch \in Nat
        BY <1>1, <1>2, <2>1, <3>2 DEF EpochsOK, TypeOK, Attempt
      <4> QED
        BY <1>1, <1>2, <3>2, <4>1
    <3> QED
      BY <3>1, <3>2
  <2>2. ASSUME NEW b \in Unfinished' PROVE b \in Attempts /\ attempts'[b].made
    BY DEF Unfinished, Made
  <2>3. ASSUME NEW b \in Unfinished', b # id PROVE attempts'[b].cancel
    <3>1. b \in Unfinished
      BY <1>2, <2>3 DEF Unfinished, Made
    <3> QED
      BY <1>2, <2>2, <2>3, <3>1
  <2> QED
    BY <1>3, <2>1, <2>2, <2>3 DEF EpochsOK
<1>8. JobsOK'
  <2>1. Moves(Sync)
    BY <1>1, <1>2 DEF Moves
  <2>2. ASSUME NEW u \in Workers, u # w PROVE Fits(u, work[u])'
    BY <2>1, <2>2, ConstantFacts, StillFits
  <2> QED
    BY <2>2 DEF JobsOK
<1> QED
  BY <1>5, <1>6, <1>7, <1>8 DEF IInv

LEMMA ObserveHeadInv ==
  ASSUME IInv, NEW w \in Workers, ObserveHead(w)
  PROVE  IInv'
<1> DEFINE r == [work[w] EXCEPT !.at = "synced"]
           head == work[w].head
           epoch == target.epoch + 1
<1>1. /\ TypeOK /\ work[w] \in Work /\ work[w].op = Sync /\ head \in Commits
      /\ work[w].events = <<>>
  BY JobFacts DEF ObserveHead, At, Remembers
<1>2. CASE ~Holds(w)
  BY <1>1, <1>2, DropInv DEF ObserveHead, outside
<1>3. CASE Holds(w)
  <2>1. /\ r \in Work /\ r.at = "synced" /\ r.op = Sync /\ r.events = <<>>
        /\ r.head = head
    BY <1>1 DEF Work, Steps
  <2>2. /\ work' = [work EXCEPT ![w] = r]
        /\ UNCHANGED <<heads, hooks, syncing, holder, slots, jobs, late, desired,
                       faults>>
    BY <1>3 DEF ObserveHead, GoTo
  <2> HIDE DEF r
  <2>3. CASE target.deleting \/ SameHead(head)
    <3>1. Fits(w, r)
      BY <2>1, ConstantFacts DEF Fits, Remembers, BuildSteps
    <3>2. UNCHANGED <<target, binding, attempts>>
      BY <1>3, <2>3 DEF ObserveHead
    <3> QED
      BY <1>1, <2>1, <2>2, <3>1, <3>2, JobMoves DEF rows, TypeOK
  <2>4. CASE ~(target.deleting \/ SameHead(head))
    <3>1. /\ Room
          /\ target' = [target EXCEPT !.epoch = epoch]
          /\ binding' = [binding EXCEPT !.head = head, !.epoch = epoch]
          /\ attempts' = Queue(StopOlder(attempts), head, epoch, target.revision, 1)
      BY <1>3, <2>4 DEF ObserveHead
    <3>2. /\ target \in Target /\ binding \in Binding /\ target.epoch \in Nat
          /\ epoch \in Nat /\ target.revision \in Nat
      BY <1>1 DEF TypeOK, Target
    <3>3. /\ target' \in Target /\ target'.epoch = epoch
          /\ target'.revision = target.revision
      BY <3>1, <3>2 DEF Target
    <3>4. binding' \in Binding /\ binding'.head = head /\ binding'.epoch = epoch
      BY <1>1, <3>1, <3>2 DEF Binding
    <3>5. PICK fresh : fresh = Queued(head, epoch, target.revision, 1)
      OBVIOUS
    <3>6. /\ fresh \in Attempt /\ fresh.made /\ ~fresh.cancel
          /\ fresh.phase = "queued" /\ fresh.done = "open"
          /\ fresh.epoch = epoch /\ fresh.commit = head
          /\ fresh.revision = target.revision
      <4>1. PICK c \in Commits \cup {None}, e \in Nat, v \in Nat, n \in Nat :
              c = head /\ e = epoch /\ v = target.revision /\ n = 1
        BY <1>1, <3>2
      <4>2. fresh = Queued(c, e, v, n)
        BY <3>5, <4>1
      <4>3. /\ fresh \in Attempt /\ fresh.made /\ ~fresh.cancel
            /\ fresh.phase = "queued" /\ fresh.done = "open"
            /\ fresh.epoch = e /\ fresh.commit = c /\ fresh.revision = v
        BY <4>2, QueuedFacts
      <4> QED
        BY <4>1, <4>3
    <3>7. \A b \in Attempts : StopOlder(attempts)[b].made <=> attempts[b].made
      <4>1. ASSUME NEW b \in Attempts
            PROVE  StopOlder(attempts)[b].made <=> attempts[b].made
        <5>1. PICK row \in Attempt : row = attempts[b]
          BY <1>1 DEF TypeOK
        <5>2. StopOlder(attempts)[b] \in {row, [row EXCEPT !.cancel = TRUE]}
          BY <5>1 DEF StopOlder
        <5>3. [row EXCEPT !.cancel = TRUE].made <=> row.made
          BY DEF Attempt
        <5> QED
          BY <5>1, <5>2, <5>3
      <4> QED
        BY <4>1
    <3>8. PICK id \in Attempts :
            /\ ~attempts[id].made
            /\ attempts' = [StopOlder(attempts) EXCEPT ![id] = fresh]
      <4>1. PICK b \in Attempts : ~StopOlder(attempts)[b].made
        BY <3>1, <3>7, RoomIsFree
      <4>2. PICK id \in Attempts :
              /\ ~StopOlder(attempts)[id].made
              /\ Queue(StopOlder(attempts), head, epoch, target.revision, 1)
                   = [StopOlder(attempts) EXCEPT ![id] = fresh]
        <5>1. PICK q : q = StopOlder(attempts)
          OBVIOUS
        <5>2. ~q[b].made
          BY <4>1, <5>1
        <5>3. \E id \in Attempts :
                /\ ~q[id].made
                /\ Queue(q, head, epoch, target.revision, 1)
                     = [q EXCEPT ![id] = fresh]
          BY <3>5, <5>2, QueueTakes
        <5> QED
          BY <5>1, <5>3
      <4> QED
        BY <3>1, <3>7, <4>2
    <3>9. StopOlder(attempts) \in [Attempts -> Attempt]
      <4>1. \A row \in Attempt : [row EXCEPT !.cancel = TRUE] \in Attempt
        BY DEF Attempt
      <4> QED
        BY <1>1, <4>1 DEF StopOlder, TypeOK
    <3>10. attempts' \in [Attempts -> Attempt] /\ work' \in [Workers -> Work]
      BY <1>1, <2>1, <2>2, <3>6, <3>8, <3>9 DEF TypeOK
    <3>11. TypeOK'
      BY <1>1, <2>2, <3>3, <3>4, <3>10, TypedRest, Zenon DEF TypeOK
    <3>12. Fits(w, work[w])'
      <4>1. work'[w] = r
        BY <1>1, <2>2 DEF TypeOK
      <4> QED
        BY <2>1, <4>1, ConstantFacts DEF Fits, Remembers, BuildSteps
    <3>13. \A u \in Workers \ {w} : work'[u] = work[u]
      BY <1>1, <2>2 DEF TypeOK
    <3> HIDE DEF epoch, head
    <3> QED
      BY <1>1, <2>2, <3>3, <3>4, <3>6, <3>8, <3>11, <3>12, <3>13, NewHeadInv
         DEF epoch
  <2> QED
    BY <2>3, <2>4
<1> QED
  BY <1>2, <1>3

-----------------------------------------------------------------------------
(* The theorems.                                                           *)

LEMMA InitIInv == Init => IInv
<1> SUFFICES ASSUME Init PROVE IInv
  OBVIOUS
<1>1. /\ \A a \in Attempts : attempts[a] = NoAttempt
      /\ \A w \in Workers : work[w] = Idle
      /\ slots = {} /\ NoAttempt \in Attempt /\ Idle \in Work
  BY IdleTyped DEF Init
<1>2. /\ NoAttempt.made = FALSE /\ NoAttempt.phase = "queued"
      /\ NoAttempt.done = "open"
  BY DEF NoAttempt
<1>3. TypeOK
  BY IdleTyped, ConstantFacts DEF Init, TypeOK, Target, Binding, Verdict
<1>4. RowsOK
  BY <1>1, <1>2 DEF RowsOK, Stopping
<1>5. SlotsOK
  <2>1. /\ IsFiniteSet({}) /\ Cardinality({}) = 0 /\ 0 <= Limit
    BY FS_EmptySet, ConstantFacts
  <2>2. "queued" \notin HoldsSlot
    BY DEF HoldsSlot, Active, Stopping
  <2>3. IsFiniteSet(slots) /\ Cardinality(slots) <= Limit
    BY <1>1, <2>1
  <2> QED
    BY <1>1, <1>2, <2>2, <2>3 DEF SlotsOK
<1>6. EpochsOK
  BY <1>1, <1>2 DEF EpochsOK, Unfinished, Made
<1>7. JobsOK
  BY <1>1, <1>3, IdleFits DEF JobsOK
<1> QED
  BY <1>3, <1>4, <1>5, <1>6, <1>7 DEF IInv

LEMMA StepIInv == IInv /\ [Next]_vars => IInv'
<1> SUFFICES ASSUME IInv, [Next]_vars PROVE IInv'
  OBVIOUS
<1>1. CASE UNCHANGED vars
  <2>1. TypeOK'
    BY <1>1 DEF vars, IInv, TypeOK
  <2> QED
    BY <1>1, <2>1, RowsStay DEF vars, rows
<1>2. CASE Requests
  <2>1. ASSUME NEW b \in Branches, Rebind(b) PROVE IInv'
    BY <2>1, RebindInv
  <2>2. ASSUME NEW a \in Attempts, RequestCancel(a) PROVE IInv'
    BY <2>2, RequestCancelInv
  <2> QED
    BY <1>2, <2>1, <2>2, UnseenInv DEF Requests
<1>3. ASSUME NEW w \in Workers, NEW o \in Attempts \cup {Sync}, Claim(w, o)
      PROVE  IInv'
  BY <1>3, ClaimInv
<1>4. ASSUME NEW w \in Workers, SyncStep(w) PROVE IInv'
  BY <1>4, SyncReadsInv, ObserveHeadInv, ClaimEndsInv DEF SyncStep
<1>5. ASSUME NEW w \in Workers, BuildStep(w) PROVE IInv'
  BY <1>5, ReadAttemptInv, ClaimSlotInv, CreateObjectsInv, ObserveInv, OutsideInv,
     RecordInv, CompleteInv, FailInv, SettleInv, ClaimEndsInv DEF BuildStep
<1>6. ASSUME NEW w \in Workers, Unanswered(w) \/ Crash(w) PROVE IInv'
  BY <1>6, OutsideInv, ClaimEndsInv
<1>7. CASE \E o \in Attempts \cup {Sync} : LeaseEnds(o)
  BY <1>7, ClaimEndsInv
<1>8. CASE Cluster
  BY <1>8, UnseenInv
<1> QED
  BY <1>1, <1>2, <1>3, <1>4, <1>5, <1>6, <1>7, <1>8 DEF Next

LEMMA AlwaysIInv == Spec => []IInv
  BY InitIInv, StepIInv, PTL DEF Spec

\* Every variable keeps its type: a phase the code refuses is never written.
THEOREM TypeCorrect == Spec => []TypeOK
<1>1. IInv => TypeOK
  BY DEF IInv
<1> QED
  BY <1>1, AlwaysIInv, PTL

\* ClaimBuildSlot and moveAttempt: the limit holds, an attempt that may hold a
\* Job has its slot, a final attempt has none, whoever took over its claim.
THEOREM SlotsAreHeld == Spec => []SlotsHold
<1>1. IInv => SlotsHold
  BY DEF IInv, SlotsOK, SlotsHold, Made, Unfinished, TypeOK
<1> QED
  BY <1>1, AlwaysIInv, PTL

\* stopOlderBuilds and RetryBuild: at most one attempt is not asked to stop,
\* and it is of the newest head.
THEOREM OneBuildGoesOn == Spec => []OlderBuildsStop
<1>1. IInv => OlderBuildsStop
  BY DEF IInv, EpochsOK, OlderBuildsStop, Unfinished, Made
<1> QED
  BY <1>1, AlwaysIInv, PTL

\* PlanFor and Phase.Apply: nobody's build is cancelled unasked.
THEOREM CancelledAsAsked == Spec => []CancelledWhenAsked
<1>1. IInv => CancelledWhenAsked
  BY DEF IInv, RowsOK, CancelledWhenAsked, Made
<1> QED
  BY <1>1, AlwaysIInv, PTL

\* settle: the operation ends as its attempt did, also where a worker settles
\* what another one has moved.
THEOREM OperationsTell == Spec => []OperationTellsBuild
<1>1. IInv => OperationTellsBuild
  BY DEF IInv, RowsOK, OperationTellsBuild, Made
<1> QED
  BY <1>1, AlwaysIInv, PTL

\* TryAutodeploy: what deploys on its own is of the recorded head.
THEOREM DeploysHead == Spec => DeploysTheHead
<1>1. ASSUME IInv, [Next]_vars, NEW a \in Attempts, desired' = a, desired # a
      PROVE  attempts[a].commit = binding.head /\ binding.epoch = target.epoch
  <2>1. PICK w \in Workers : Complete(w)
    <3>1. desired' # desired /\ desired' # None
      BY <1>1, ConstantFacts
    <3>2. ~Requests /\ ~Cluster /\ ~UNCHANGED vars
      BY <3>1 DEF Requests, Push, Webhook, Rebind, RequestCancel, Choose, ResumeAuto,
                  BeginDeletion, Cluster, JobRuns, JobIsLost, GrowsOld, outside, vars
    <3>3. \A o \in Attempts \cup {Sync} : ~LeaseEnds(o)
      BY <3>1 DEF LeaseEnds, outside
    <3>4. \A w \in Workers :
            /\ ~SyncStep(w) /\ ~Unanswered(w) /\ ~Crash(w)
            /\ \A o \in Attempts \cup {Sync} : ~Claim(w, o)
      BY <3>1 DEF Claim, SyncStep, ReadBinding, ReadHead, ReadHeadFails, ObserveHead,
                  FinishSync, Unanswered, Crash, outside
    <3>5. \A w \in Workers : BuildStep(w) => Complete(w)
      BY <3>1 DEF BuildStep, ReadAttempt, ClaimSlot, CreateObjects, Observe,
                  DeleteJob, Record, Verify, Fail, Cleanup, Settle, GiveBack, outside
    <3> QED
      BY <1>1, <3>2, <3>3, <3>4, <3>5 DEF Next
  <2>2. a = work[w].op /\ Autodeploys(a)
    BY <1>1, <2>1 DEF Complete
  <2>3. attempts[a].made
    BY <1>1, <2>2, JobFacts DEF Remembers
  <2> QED
    BY <1>1, <2>2, <2>3 DEF Autodeploys, IInv, EpochsOK
<1>2. IInv /\ [Next]_vars =>
        (\A a \in Attempts : desired' = a /\ desired # a =>
           /\ attempts[a].commit = binding.head
           /\ binding.epoch = target.epoch)
  BY <1>1
<1> QED
  BY <1>2, AlwaysIInv, PTL DEF Spec, DeploysTheHead
=============================================================================
