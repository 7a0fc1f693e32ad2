------------------------------- MODULE Notify -------------------------------
(***************************************************************************)
(* The notifier (internal/notify) on the outbox, incidents, endpoints and  *)
(* deliveries (store/notify.go), for the deployments of one target.  Every *)
(* replica runs one.  A step is one transaction or one call to a receiver. *)
(***************************************************************************)
EXTENDS Naturals, Sequences, FiniteSets, SequencesExt

CONSTANTS
  Notifiers,    \* replicas
  Endpoints,    \* webhook endpoints of the organization
  MaxMessages,  \* bound: messages of the target's deployments
  MaxAttempts,  \* attempts of one delivery
  MaxFailures,  \* MaxEndpointFailures
  MaxFaults,    \* bound: faults and requests of people
  Faults        \* which of them happen

ASSUME NotifyAssumption ==
  /\ MaxMessages \in Nat /\ MaxAttempts \in Nat \ {0}
  /\ MaxFailures \in Nat \ {0} /\ MaxFaults \in Nat
  /\ IsFiniteSet(Endpoints)

VARIABLES
  outbox,      \* messages, in the order their transactions wrote them
  incidents,   \* incidents of the target, in the order they were opened
  endpoints,   \* webhook_endpoints: enabled, failures in a row
  deliveries,  \* webhook_deliveries, in the order they were queued
  silenced,    \* a silence covers the target
  notifier,    \* what each notifier does
  faults       \* faults so far

vars == <<outbox, incidents, endpoints, deliveries, silenced, notifier,
          faults>>

\* What a message tells of a deployment; "other": accepted or cancelled.
Verdicts == {"succeeded", "failed", "other"}

\* due: available_at has passed; old: StaleEvent has passed.
Message == [verdict : Verdicts, marked : BOOLEAN, due : BOOLEAN,
            old : BOOLEAN]

\* event: a message, or an incident opened or resolved.
Delivery == [event : {"message", "opened", "resolved"}, of : Nat,
             to : Endpoints, status : {"pending", "delivered", "failed"},
             attempts : Nat, due : BOOLEAN]

\* Consume works off batch, Deliver works off due: deliveries with their
\* attempts as they were taken.
Notifier == [at : {"consume", "mark", "deliver", "record"},
             batch : SUBSET Nat, m : Nat, due : SUBSET (Nat \X Nat),
             d : Nat \X Nat, ok : BOOLEAN]

Idle == [at |-> "deliver", batch |-> {}, m |-> 0, due |-> {}, d |-> <<0, 0>>,
         ok |-> FALSE]

Init ==
  /\ outbox = <<>>
  /\ incidents = <<>>
  /\ endpoints = [e \in Endpoints |-> [enabled |-> TRUE, failures |-> 0]]
  /\ deliveries = <<>>
  /\ silenced = FALSE
  /\ notifier = [n \in Notifiers |-> Idle]
  /\ faults = 0

Faulty(kind) ==
  /\ kind \in Faults /\ faults < MaxFaults
  /\ faults' = faults + 1

At(n, step) == notifier[n].at = step

Becomes(n, w) == notifier' = [notifier EXCEPT ![n] = w]

-----------------------------------------------------------------------------
(* What happens meanwhile.                                                 *)

\* A deployment is accepted or settles, and its message is written with it.
Post(verdict) ==
  /\ Len(outbox) < MaxMessages
  /\ outbox' = Append(outbox, [verdict |-> verdict, marked |-> FALSE,
                              due |-> TRUE, old |-> FALSE])
  /\ UNCHANGED <<incidents, endpoints, deliveries, silenced, notifier, faults>>

\* The time that hides what was taken passes.  It also does under a notifier
\* that is slow, as one with a batch of receivers that do not answer is.
MessageDue(m) ==
  /\ ~outbox[m].due /\ ~outbox[m].marked
  /\ IF \E n \in Notifiers : m \in notifier[n].batch \cup {notifier[n].m}
     THEN Faulty("slow") ELSE UNCHANGED faults
  /\ outbox' = [outbox EXCEPT ![m].due = TRUE]
  /\ UNCHANGED <<incidents, endpoints, deliveries, silenced, notifier>>

InHand(d) ==
  \E n \in Notifiers : \E t \in notifier[n].due \cup {notifier[n].d} : t[1] = d

DeliveryDue(d) ==
  /\ ~deliveries[d].due /\ deliveries[d].status = "pending"
  /\ IF InHand(d) THEN Faulty("slow") ELSE UNCHANGED faults
  /\ deliveries' = [deliveries EXCEPT ![d].due = TRUE]
  /\ UNCHANGED <<outbox, incidents, endpoints, silenced, notifier>>

MessageGrowsOld(m) ==
  /\ "age" \in Faults
  /\ ~outbox[m].old /\ ~outbox[m].marked
  /\ outbox' = [outbox EXCEPT ![m].old = TRUE]
  /\ UNCHANGED <<incidents, endpoints, deliveries, silenced,
                 notifier, faults>>

\* A silence begins or ends.
Silence ==
  /\ Faulty("silence")
  /\ silenced' = ~silenced
  /\ UNCHANGED <<outbox, incidents, endpoints, deliveries, notifier>>

\* ResolveIncident, by hand
ResolveIncident(i) ==
  /\ Faulty("resolve")
  /\ incidents[i] = "open"
  /\ incidents' = [incidents EXCEPT ![i] = "resolved"]
  /\ UNCHANGED <<outbox, endpoints, deliveries, silenced, notifier>>

\* DisableEndpoint, for good
DisableEndpoint(e) ==
  /\ Faulty("disable")
  /\ endpoints' = [endpoints EXCEPT ![e].enabled = FALSE]
  /\ UNCHANGED <<outbox, incidents, deliveries, silenced, notifier>>

\* RetryDelivery: a failed delivery of an enabled endpoint, tried anew.
RetryDelivery(d) ==
  /\ Faulty("again")
  /\ deliveries[d].status = "failed" /\ endpoints[deliveries[d].to].enabled
  /\ deliveries' = [deliveries EXCEPT ![d].status = "pending",
                                      ![d].attempts = 0, ![d].due = TRUE]
  /\ UNCHANGED <<outbox, incidents, endpoints, silenced, notifier>>

-----------------------------------------------------------------------------
(* Consume.                                                                *)

DueMessages == {m \in DOMAIN outbox : outbox[m].due /\ ~outbox[m].marked}

\* TakeOutbox: what is due, hidden from the others.
TakeOutbox(n) ==
  /\ At(n, "deliver") /\ notifier[n].due = {}
  /\ outbox' = [m \in DOMAIN outbox |->
                  [outbox[m] EXCEPT !.due = @ /\ m \notin DueMessages]]
  /\ Becomes(n, [notifier[n] EXCEPT !.at = "consume", !.batch = DueMessages])
  /\ UNCHANGED <<incidents, endpoints, deliveries, silenced, faults>>

\* PlanOf: what a settled deployment does to the incident of its target.
Opens(m) == outbox[m].verdict = "failed"
Resolves(m) == outbox[m].verdict = "succeeded"

OpenOnes == {i \in DOMAIN incidents : incidents[i] = "open"}

\* OpenIncident: a repeat is counted on the open one.
OpenIncident == IF OpenOnes = {} THEN Append(incidents, "open") ELSE incidents

\* Defect: the incident is acknowledged, not resolved.
AcknowledgeOpen == [i \in DOMAIN incidents |-> "acknowledged"]

\* ResolveIncidentKey
ResolveOpen == [i \in DOMAIN incidents |-> "resolved"]

\* Defect: told although nothing changed.
TellsAlways(m) ==
  IF Opens(m)
  THEN {[event |-> "opened", of |-> Len(OpenIncident)]}
  ELSE {[event |-> "resolved", of |-> i] :
          i \in {k \in DOMAIN incidents : Resolves(m)}}

\* incident: an event when it changed anything, and no silence covers it.
Tells(m) ==
  IF silenced THEN {}
  ELSE IF Opens(m) /\ OpenOnes = {}
  THEN {[event |-> "opened", of |-> Len(incidents) + 1]}
  ELSE {[event |-> "resolved", of |-> i] :
          i \in {k \in OpenOnes : Resolves(m)}}

Queued(event, of, e) ==
  \E d \in DOMAIN deliveries : /\ deliveries[d].event = event
                               /\ deliveries[d].of = of
                               /\ deliveries[d].to = e

\* EnqueueEvent for every enabled endpoint: a message's event once for each,
\* the event of an incident has an id of its own.
Enqueue(m) ==
  LET enabled == {e \in Endpoints : endpoints[e].enabled}
      Row(v, e) == [event |-> v.event, of |-> v.of, to |-> e,
                    status |-> "pending", attempts |-> 0, due |-> TRUE]
  IN {Row([event |-> "message", of |-> m], e) :
        e \in {k \in enabled : ~Queued("message", m, k)}}
     \cup {Row(v, e) : v \in Tells(m), e \in enabled}

\* handle: one transaction; a message that is old is only marked.
Handle(n, m) ==
  /\ At(n, "consume") /\ m \in notifier[n].batch
  /\ Becomes(n, [notifier[n] EXCEPT !.at = "mark", !.m = m, !.batch = @ \ {m}])
  /\ IF outbox[m].old THEN UNCHANGED <<incidents, deliveries>>
     ELSE /\ deliveries' = deliveries \o SetToSeq(Enqueue(m))
          /\ incidents' = IF Opens(m) THEN OpenIncident
                          ELSE IF Resolves(m) THEN ResolveOpen
                          ELSE incidents
  /\ UNCHANGED <<outbox, endpoints, silenced, faults>>

\* Defect: a refused message goes on to be marked.
HandleFailsMarked(n, m) ==
  /\ At(n, "consume") /\ m \in notifier[n].batch
  /\ Faulty("error")
  /\ Becomes(n, [notifier[n] EXCEPT !.at = "mark", !.m = m, !.batch = @ \ {m}])
  /\ UNCHANGED <<outbox, incidents, endpoints, deliveries, silenced>>

\* The store refuses; the message is left until it is due again.
HandleFails(n, m) ==
  /\ At(n, "consume") /\ m \in notifier[n].batch
  /\ Faulty("error")
  /\ Becomes(n, [notifier[n] EXCEPT !.batch = @ \ {m}])
  /\ UNCHANGED <<outbox, incidents, endpoints, deliveries, silenced>>

\* Defect: a message that grew old is passed over.
MarkUnlessOld(n) ==
  /\ At(n, "mark")
  /\ outbox' = [outbox EXCEPT ![notifier[n].m].marked =
                                ~outbox[notifier[n].m].old]
  /\ Becomes(n, [notifier[n] EXCEPT !.at = "consume", !.m = 0])
  /\ UNCHANGED <<incidents, endpoints, deliveries, silenced, faults>>

\* OutboxDelivered
Mark(n) ==
  /\ At(n, "mark")
  /\ outbox' = [outbox EXCEPT ![notifier[n].m].marked = TRUE]
  /\ Becomes(n, [notifier[n] EXCEPT !.at = "consume", !.m = 0])
  /\ UNCHANGED <<incidents, endpoints, deliveries, silenced, faults>>

-----------------------------------------------------------------------------
(* Deliver.                                                                *)

DueDeliveries == {d \in DOMAIN deliveries : /\ deliveries[d].due
                                            /\ deliveries[d].status = "pending"}

\* Defect: the attempts are not counted.
TakeUncounted(n) ==
  /\ At(n, "consume") /\ notifier[n].batch = {}
  /\ deliveries' = [d \in DOMAIN deliveries |->
       IF d \in DueDeliveries
       THEN [deliveries[d] EXCEPT !.due = FALSE]
       ELSE deliveries[d]]
  /\ Becomes(n, [notifier[n] EXCEPT !.at = "deliver",
       !.due = {<<d, deliveries[d].attempts>> : d \in DueDeliveries}])
  /\ UNCHANGED <<outbox, incidents, endpoints, silenced, faults>>

\* TakeDeliveries: an attempt is counted when it is taken.
TakeDeliveries(n) ==
  /\ At(n, "consume") /\ notifier[n].batch = {}
  /\ deliveries' = [d \in DOMAIN deliveries |->
       IF d \in DueDeliveries
       THEN [deliveries[d] EXCEPT !.due = FALSE, !.attempts = @ + 1]
       ELSE deliveries[d]]
  /\ Becomes(n, [notifier[n] EXCEPT !.at = "deliver",
       !.due = {<<d, deliveries[d].attempts + 1>> : d \in DueDeliveries}])
  /\ UNCHANGED <<outbox, incidents, endpoints, silenced, faults>>

\* send: the receiver accepts, refuses or does not answer.
Send(n, t) ==
  /\ At(n, "deliver") /\ t \in notifier[n].due
  /\ \E ok \in {FALSE, endpoints[deliveries[t[1]].to].enabled} :
       Becomes(n, [notifier[n] EXCEPT !.at = "record", !.d = t,
                                      !.due = @ \ {t}, !.ok = ok])
  /\ UNCHANGED <<outbox, incidents, endpoints, deliveries, silenced,
                 faults>>

Recorded(n) ==
  Becomes(n, [notifier[n] EXCEPT !.at = "deliver", !.d = <<0, 0>>,
                                 !.ok = FALSE])

\* DeliverySucceeded
DeliverySucceeded(n) ==
  LET d == notifier[n].d[1]
  IN /\ At(n, "record") /\ notifier[n].ok
     /\ deliveries' = [deliveries EXCEPT ![d].status = "delivered"]
     /\ endpoints' = [endpoints EXCEPT ![deliveries[d].to].failures = 0]
     /\ Recorded(n)
     /\ UNCHANGED <<outbox, incidents, silenced, faults>>

\* RetryAt: no attempt is left; or the day is over.
LastTry(attempts) == attempts >= MaxAttempts

\* DeliveryFailed with a retry: backoff hides it, if it is still pending.
DeliveryRetried(n) ==
  /\ At(n, "record") /\ ~notifier[n].ok /\ ~LastTry(notifier[n].d[2])
  /\ Recorded(n)
  /\ UNCHANGED <<outbox, incidents, endpoints, deliveries, silenced,
                 faults>>

\* countFailure
CountFailure(e) ==
  [endpoints EXCEPT ![e].failures = @ + 1,
                    ![e].enabled = @ /\ endpoints[e].failures + 1 < MaxFailures]

\* DeliveryFailed without a retry: given up, whatever became of it meanwhile.
DeliveryGivenUp(n) ==
  LET d == notifier[n].d[1]
  IN /\ At(n, "record") /\ ~notifier[n].ok
     /\ LastTry(notifier[n].d[2]) \/ "age" \in Faults
     /\ deliveries' = [deliveries EXCEPT ![d].status = "failed"]
     /\ endpoints' = CountFailure(deliveries[d].to)
     /\ Recorded(n)
     /\ UNCHANGED <<outbox, incidents, silenced, faults>>

\* The process ends, or the store refuses what is not handled: Run ends, and
\* the supervisor starts it again.
Crash(n) ==
  /\ notifier[n] # Idle
  /\ Faulty("crash")
  /\ Becomes(n, Idle)
  /\ UNCHANGED <<outbox, incidents, endpoints, deliveries, silenced>>

Step(n) ==
  \/ TakeOutbox(n) \/ Mark(n) \/ TakeDeliveries(n)
  \/ \E m \in DOMAIN outbox : Handle(n, m)
  \/ \E t \in notifier[n].due : Send(n, t)
  \/ DeliverySucceeded(n) \/ DeliveryRetried(n) \/ DeliveryGivenUp(n)

Next ==
  \/ \E v \in Verdicts : Post(v)
  \/ \E m \in DOMAIN outbox : MessageDue(m) \/ MessageGrowsOld(m)
  \/ \E d \in DOMAIN deliveries : DeliveryDue(d) \/ RetryDelivery(d)
  \/ Silence \/ \E i \in DOMAIN incidents : ResolveIncident(i)
  \/ \E e \in Endpoints : DisableEndpoint(e)
  \/ \E n \in Notifiers :
       \/ Step(n) \/ Crash(n)
       \/ \E m \in DOMAIN outbox : HandleFails(n, m)

Spec == Init /\ [][Next]_vars

\* As many messages, and as many deliveries, as there may be.
Rows == 1..((2 * MaxMessages + MaxFaults) * Cardinality(Endpoints))

\* Notifiers run (the supervisor starts them again) and time passes.
Fairness ==
  /\ \A n \in Notifiers : WF_vars(Step(n))
  /\ \A m \in Rows : WF_vars(m \in DOMAIN outbox /\ MessageDue(m))
  /\ \A d \in Rows : WF_vars(d \in DOMAIN deliveries /\ DeliveryDue(d))

FairSpec == Spec /\ Fairness

-----------------------------------------------------------------------------
(* Properties.                                                             *)

TypeOK ==
  /\ outbox \in Seq(Message)
  /\ incidents \in Seq({"open", "resolved"})
  /\ endpoints \in [Endpoints -> [enabled : BOOLEAN, failures : Nat]]
  /\ deliveries \in Seq(Delivery)
  /\ silenced \in BOOLEAN
  /\ notifier \in [Notifiers -> Notifier]
  /\ \A n \in Notifiers :
       /\ notifier[n].batch \subseteq DOMAIN outbox
       /\ At(n, "mark") => notifier[n].m \in DOMAIN outbox
       /\ notifier[n].due \subseteq (DOMAIN deliveries) \X Nat
       /\ At(n, "record") => notifier[n].d \in (DOMAIN deliveries) \X Nat
  /\ faults \in 0..MaxFaults

\* A message is marked only when its event is queued: whatever notifier
\* crashed or was refused, no endpoint that still listens missed it.  Only a
\* message that grew old is marked without.
MarkedIsQueued ==
  \A m \in DOMAIN outbox : outbox[m].marked /\ ~outbox[m].old =>
    \A e \in Endpoints : endpoints[e].enabled => Queued("message", m, e)

\* However often messages are handled, by however many notifiers: each event
\* is queued once for an endpoint, a resolution only of an incident that is
\* resolved, and one incident of the target is open at a time.  The POST of a
\* queued delivery may be repeated: its receiver is asked to ignore that
\* (docs/guides/incidents-webhooks.mdx:44).
ToldOnce ==
  /\ Cardinality(OpenOnes) <= 1
  /\ \A c, d \in DOMAIN deliveries :
       c # d => \/ deliveries[c].event # deliveries[d].event
                \/ deliveries[c].of # deliveries[d].of
                \/ deliveries[c].to # deliveries[d].to
  /\ \A d \in DOMAIN deliveries : deliveries[d].event = "resolved" =>
       incidents[deliveries[d].of] = "resolved"

\* Every message is handled at last, through crashes and refusals.
MessagesAreHandled ==
  \A m \in Rows : m \in DOMAIN outbox ~> m \in DOMAIN outbox /\ outbox[m].marked

\* Every delivery ends, accepted or given up, also when its receiver never
\* answers.
DeliveriesEnd ==
  \A d \in Rows : d \in DOMAIN deliveries
                  ~> /\ d \in DOMAIN deliveries
                     /\ deliveries[d].status # "pending"

-----------------------------------------------------------------------------
(* What the repository says of notifications, and the code does not keep.  *)

Outcomes == {m \in DOMAIN outbox : Opens(m) \/ Resolves(m)}

\* plan.go: "A failed deployment or build opens an incident (...) and a
\* success resolves it".  With every message handled, none is open after a
\* deployment that succeeded last.
SuccessResolves ==
  (\A m \in DOMAIN outbox : outbox[m].marked) /\ OpenOnes # {} =>
    \E m \in Outcomes : Opens(m) /\ \A k \in Outcomes : k <= m

\* store/notify.go: "MaxEndpointFailures is the number of given-up deliveries
\* in a row after which an endpoint is disabled".  (No person disables one.)
DisabledAfterFailures ==
  "disable" \notin Faults => \A e \in Endpoints : ~endpoints[e].enabled =>
    Cardinality({d \in DOMAIN deliveries : deliveries[d].to = e})
      >= MaxFailures
=============================================================================
