---------------------------- MODULE NotifyProofs ----------------------------
(***************************************************************************)
(* What Notify promises, for every number of notifiers, endpoints and      *)
(* messages: the proofs.                                                   *)
(***************************************************************************)
EXTENDS Notify, FiniteSetTheorems, TLAPS

-----------------------------------------------------------------------------
(* The rows of a transaction as a sequence.                                *)

\* A finite set as a sequence: each element once, and nothing else.
LEMMA SetAsSequence ==
  ASSUME NEW S, IsFiniteSet(S)
  PROVE  LET q == SetToSeq(S)
         IN  /\ q \in Seq(S)
             /\ \A i, j \in DOMAIN q : q[i] = q[j] => i = j
             /\ \A x \in S : \E i \in DOMAIN q : q[i] = x
<1> DEFINE c == Cardinality(S)
           q == SetToSeq(S)
<1>1. c \in Nat /\ ExistsBijection(1..c, S)
  BY FS_CardinalityType
<1>2. q \in [1..c -> S] /\ IsInjective(q)
  <2>1. PICK f \in Bijection(1..c, S) : TRUE
    BY <1>1 DEF ExistsBijection
  <2>2. f \in [1..c -> S] /\ IsInjective(f)
    BY <2>1 DEF Bijection, Injection, Surjection, IsInjective
  <2> QED
    BY <2>2 DEF SetToSeq
<1>3. q \in Seq(S) /\ DOMAIN q = 1..c
  BY <1>1, <1>2, SMT
<1>4. \A i, j \in DOMAIN q : q[i] = q[j] => i = j
  BY <1>2 DEF IsInjective
<1>5. q \in Surjection(1..c, S)
  <2>1. q \in Injection(1..c, S)
    BY <1>2, <1>3, <1>4 DEF Injection, IsInjective
  <2>2. Cardinality(1..c) = c
    BY <1>1, FS_Interval
  <2> QED
    BY <2>1, <2>2, FS_Injection
<1> QED
  BY <1>3, <1>4, <1>5 DEF Surjection

Row(v, e) == [event |-> v.event, of |-> v.of, to |-> e,
              status |-> "pending", attempts |-> 0, due |-> TRUE]

\* A new row is of the message, for an endpoint that has none of it yet, or of
\* what became of an incident.
LEMMA RowsOf ==
  ASSUME NEW m, NEW x \in Enqueue(m)
  PROVE  \/ \E e \in Endpoints : /\ ~Queued("message", m, e)
                                 /\ x = Row([event |-> "message", of |-> m], e)
         \/ \E v \in Tells(m), e \in Endpoints : x = Row(v, e)
<1> DEFINE enabled == {e \in Endpoints : endpoints[e].enabled}
           M == {Row([event |-> "message", of |-> m], e) :
                   e \in {k \in enabled : ~Queued("message", m, k)}}
           T == {Row(v, e) : v \in Tells(m), e \in enabled}
<1>1. Enqueue(m) = M \cup T
  BY DEF Enqueue, Row
<1>2. CASE x \in M
  BY <1>2
<1>3. CASE x \in T
  BY <1>3
<1> QED
  BY <1>1, <1>2, <1>3

\* What is told of an incident: that it was opened, when none was open, or
\* that it was resolved, of one that is open.
LEMMA ToldOf ==
  ASSUME NEW m, NEW v \in Tells(m)
  PROVE  \/ /\ Opens(m) /\ OpenOnes = {}
            /\ v = [event |-> "opened", of |-> Len(incidents) + 1]
         \/ /\ Resolves(m)
            /\ \E i \in OpenOnes : v = [event |-> "resolved", of |-> i]
BY DEF Tells

\* The rows of a transaction are finite, so that they can be appended.
LEMMA RowsAreFinite ==
  ASSUME TypeOK, NEW m \in DOMAIN outbox
  PROVE  /\ IsFiniteSet(Enqueue(m))
         /\ Enqueue(m) \subseteq Delivery
<1> DEFINE tells == {[event |-> "message", of |-> m]} \cup Tells(m)
           row == [p \in tells \X Endpoints |-> Row(p[1], p[2])]
<1>1. m \in Nat /\ Len(incidents) \in Nat /\ OpenOnes \subseteq 1..Len(incidents)
  BY DEF TypeOK, OpenOnes
<1>2. \A v \in Tells(m) : v.event \in {"opened", "resolved"} /\ v.of \in Nat
  BY <1>1 DEF Tells
<1>3. IsFiniteSet(Tells(m))
  <2>1. IsFiniteSet(1..Len(incidents))
    BY <1>1, FS_Interval
  <2> DEFINE R == {k \in OpenOnes : Resolves(m)}
             events == {[event |-> "resolved", of |-> i] : i \in R}
             told == [i \in R |-> [event |-> "resolved", of |-> i]]
  <2>2. IsFiniteSet(R)
    BY <1>1, <2>1, FS_Subset
  <2>3. told \in Surjection(R, events)
    BY DEF Surjection
  <2>4. IsFiniteSet(events)
    BY <2>2, <2>3, FS_Surjection
  <2> QED
    BY <2>4, FS_EmptySet, FS_Singleton DEF Tells
<1>4. IsFiniteSet(tells \X Endpoints)
  BY <1>3, FS_Singleton, FS_Union, FS_Product, NotifyAssumption
<1> DEFINE rows == {row[p] : p \in tells \X Endpoints}
<1>5. IsFiniteSet(rows)
  <2>1. row \in Surjection(tells \X Endpoints, rows)
    BY DEF Surjection
  <2> QED
    BY <2>1, <1>4, FS_Surjection
<1>6. \A x \in Enqueue(m) : \E v \in tells, e \in Endpoints : x = Row(v, e)
  <2> TAKE x \in Enqueue(m)
  <2>1. CASE \E e \in Endpoints :
               x = Row([event |-> "message", of |-> m], e)
    BY <2>1
  <2>2. CASE \E v \in Tells(m), e \in Endpoints : x = Row(v, e)
    BY <2>2
  <2> QED
    BY <2>1, <2>2, RowsOf
<1>7. Enqueue(m) \subseteq rows
  <2>1. \A v \in tells, e \in Endpoints : row[<<v, e>>] = Row(v, e)
    OBVIOUS
  <2>2. \A v \in tells, e \in Endpoints : Row(v, e) \in rows
    <3> TAKE v \in tells, e \in Endpoints
    <3>1. <<v, e>> \in tells \X Endpoints
      OBVIOUS
    <3> QED
      BY <2>1, <3>1
  <2> HIDE DEF rows, tells
  <2> QED
    BY <1>6, <2>2
<1>8. Enqueue(m) \subseteq Delivery
  <2>1. \A v \in tells : /\ v.event \in {"message", "opened", "resolved"}
                         /\ v.of \in Nat
    BY <1>1, <1>2
  <2>2. \A v \in tells, e \in Endpoints : Row(v, e) \in Delivery
    BY <2>1 DEF Row, Delivery
  <2> HIDE DEF tells
  <2> QED
    BY <1>6, <2>2
<1> QED
  BY <1>5, <1>7, <1>8, FS_Subset

\* What a transaction appends: a row for what is new, and nothing else.
LEMMA Appended ==
  ASSUME TypeOK, NEW m \in DOMAIN outbox
  PROVE  LET q == SetToSeq(Enqueue(m))
             all == deliveries \o q
             old == Len(deliveries)
         IN  /\ all \in Seq(Delivery)
             /\ DOMAIN all = 1..(old + Len(q))
             /\ \A d \in DOMAIN deliveries : all[d] = deliveries[d]
             /\ \A d \in DOMAIN all \ DOMAIN deliveries :
                  /\ d - old \in DOMAIN q /\ all[d] = q[d - old]
                  /\ all[d] \in Enqueue(m)
             /\ \A c, d \in DOMAIN all \ DOMAIN deliveries :
                  all[c] = all[d] => c = d
             /\ \A x \in Enqueue(m) : \E d \in DOMAIN all : all[d] = x
<1> DEFINE q == SetToSeq(Enqueue(m))
           all == deliveries \o q
           old == Len(deliveries)
<1>1. /\ q \in Seq(Enqueue(m))
      /\ \A i, j \in DOMAIN q : q[i] = q[j] => i = j
      /\ \A x \in Enqueue(m) : \E i \in DOMAIN q : q[i] = x
  BY RowsAreFinite, SetAsSequence
<1>2. q \in Seq(Delivery) /\ deliveries \in Seq(Delivery)
  BY <1>1, RowsAreFinite DEF TypeOK
<1> HIDE DEF q
<1>3. /\ all \in Seq(Delivery)
      /\ DOMAIN all = 1..(old + Len(q))
      /\ \A d \in DOMAIN deliveries : all[d] = deliveries[d]
  BY <1>2
<1>4. \A d \in DOMAIN all \ DOMAIN deliveries :
        d - old \in DOMAIN q /\ all[d] = q[d - old]
  BY <1>2
<1>5. \A d \in DOMAIN all \ DOMAIN deliveries : all[d] \in Enqueue(m)
  BY <1>1, <1>4
<1>6. \A c, d \in DOMAIN all \ DOMAIN deliveries : all[c] = all[d] => c = d
  <2> SUFFICES ASSUME NEW c \in DOMAIN all \ DOMAIN deliveries,
                      NEW d \in DOMAIN all \ DOMAIN deliveries,
                      all[c] = all[d]
               PROVE  c = d
    OBVIOUS
  <2>1. c - old = d - old
    BY <1>1, <1>4
  <2> QED
    BY <1>2, <1>3, <2>1
<1>7. \A x \in Enqueue(m) : \E d \in DOMAIN all : all[d] = x
  <2> SUFFICES ASSUME NEW i \in DOMAIN q
               PROVE  \E d \in DOMAIN all : all[d] = q[i]
    BY <1>1
  <2>1. i + old \in DOMAIN all /\ all[i + old] = q[i]
    BY <1>2
  <2> QED
    BY <2>1
<1> QED
  BY <1>3, <1>4, <1>5, <1>6, <1>7 DEF q

-----------------------------------------------------------------------------
(* Types.                                                                  *)

TablesOK ==
  /\ outbox \in Seq(Message)
  /\ incidents \in Seq({"open", "resolved"})
  /\ endpoints \in [Endpoints -> [enabled : BOOLEAN, failures : Nat]]
  /\ deliveries \in Seq(Delivery)
  /\ silenced \in BOOLEAN
  /\ faults \in 0..MaxFaults

\* What a notifier works off is there.
Fits(w) ==
  /\ w \in Notifier
  /\ w.batch \subseteq DOMAIN outbox
  /\ w.at = "mark" => w.m \in DOMAIN outbox
  /\ w.due \subseteq (DOMAIN deliveries) \X Nat
  /\ w.at = "record" => w.d \in (DOMAIN deliveries) \X Nat

WorkOK == /\ notifier \in [Notifiers -> Notifier]
          /\ \A n \in Notifiers : Fits(notifier[n])

LEMMA TypeParts == TypeOK <=> TablesOK /\ WorkOK
<1>1. notifier \in [Notifiers -> Notifier] =>
        \A n \in Notifiers : notifier[n] \in Notifier
  OBVIOUS
<1> QED
  BY <1>1 DEF TypeOK, TablesOK, WorkOK, Fits, At

\* The tables only grow: who did nothing has its work still.
LEMMA WorkStays ==
  ASSUME TypeOK,
         \/ notifier' = notifier
         \/ \E n \in Notifiers : \E w \in Notifier :
              notifier' = [notifier EXCEPT ![n] = w] /\ Fits(w)',
         DOMAIN outbox \subseteq DOMAIN outbox',
         DOMAIN deliveries \subseteq DOMAIN deliveries'
  PROVE  WorkOK'
<1>1. \A w : Fits(w) => Fits(w)'
  BY DEF Fits
<1>2. /\ notifier \in [Notifiers -> Notifier]
      /\ \A n \in Notifiers : Fits(notifier[n])
  BY TypeParts DEF WorkOK
<1>3. CASE notifier' = notifier
  BY <1>1, <1>2, <1>3 DEF WorkOK
<1>4. ASSUME NEW n \in Notifiers, NEW w \in Notifier,
             notifier' = [notifier EXCEPT ![n] = w], Fits(w)'
      PROVE  WorkOK'
  <2>2. notifier' \in [Notifiers -> Notifier]
    BY <1>2, <1>4
  <2>3. ASSUME NEW k \in Notifiers
        PROVE  Fits(notifier[k])'
    <3>1. CASE k = n
      BY <1>2, <1>4, <3>1
    <3>2. CASE k # n
      <4>1. notifier'[k] = notifier[k]
        BY <1>2, <1>4, <3>2
      <4> QED
        BY <1>1, <1>2, <4>1
    <3> QED
      BY <3>1, <3>2
  <2> QED
    BY <2>2, <2>3 DEF WorkOK
<1> QED
  BY <1>3, <1>4

\* A table whose rows change, and stay rows.
LEMMA SameRows ==
  ASSUME NEW S, NEW s \in Seq(S), NEW f \in [DOMAIN s -> S]
  PROVE  f \in Seq(S) /\ DOMAIN f = DOMAIN s
<1>1. Len(s) \in Nat /\ DOMAIN s = 1..Len(s)
  OBVIOUS
<1> QED
  BY <1>1, SMT

LEMMA Rowed ==
  ASSUME TypeOK
  PROVE  /\ outbox \in [DOMAIN outbox -> Message]
         /\ deliveries \in [DOMAIN deliveries -> Delivery]
         /\ incidents \in [DOMAIN incidents -> {"open", "resolved"}]
BY DEF TypeOK

\* What a step does to the tables.
LEMMA TablesStep ==
  ASSUME TypeOK, [Next]_vars
  PROVE  /\ TablesOK'
         /\ DOMAIN outbox \subseteq DOMAIN outbox'
         /\ DOMAIN deliveries \subseteq DOMAIN deliveries'
<1> DEFINE Goal == /\ TablesOK'
                   /\ DOMAIN outbox \subseteq DOMAIN outbox'
                   /\ DOMAIN deliveries \subseteq DOMAIN deliveries'
<1> USE NotifyAssumption
<1>0. TablesOK
  BY TypeParts
<1>1. ASSUME NEW v \in Verdicts, Post(v)
      PROVE  Goal
  <2>1. [verdict |-> v, marked |-> FALSE, due |-> TRUE, old |-> FALSE]
          \in Message
    BY DEF Message, Verdicts
  <2> QED
    BY <1>0, <1>1, <2>1 DEF Post, TablesOK
<1>2. ASSUME NEW m \in DOMAIN outbox, MessageDue(m)
      PROVE  Goal
  <2>1. outbox' \in [DOMAIN outbox -> Message]
    BY <1>2, Rowed DEF MessageDue, Message
  <2> QED
    BY <1>0, <1>2, <2>1, SameRows DEF MessageDue, Faulty, TablesOK
<1>3. ASSUME NEW m \in DOMAIN outbox, MessageGrowsOld(m)
      PROVE  Goal
  <2>1. outbox' \in [DOMAIN outbox -> Message]
    BY <1>3, Rowed DEF MessageGrowsOld, Message
  <2> QED
    BY <1>0, <1>3, <2>1, SameRows DEF MessageGrowsOld, TablesOK
<1>4. ASSUME NEW d \in DOMAIN deliveries, DeliveryDue(d)
      PROVE  Goal
  <2>1. deliveries' \in [DOMAIN deliveries -> Delivery]
    BY <1>4, Rowed DEF DeliveryDue, Delivery
  <2> QED
    BY <1>0, <1>4, <2>1, SameRows DEF DeliveryDue, Faulty, TablesOK
<1>5. ASSUME NEW d \in DOMAIN deliveries, RetryDelivery(d)
      PROVE  Goal
  <2>1. deliveries' \in [DOMAIN deliveries -> Delivery]
    BY <1>5, Rowed DEF RetryDelivery, Delivery
  <2>2. faults' \in 0..MaxFaults
    BY <1>0, <1>5 DEF RetryDelivery, Faulty, TablesOK
  <2> QED
    BY <1>0, <1>5, <2>1, <2>2, SameRows DEF RetryDelivery, TablesOK
<1>6. CASE Silence
  BY <1>0, <1>6 DEF Silence, Faulty, TablesOK
<1>7. ASSUME NEW i \in DOMAIN incidents, ResolveIncident(i)
      PROVE  Goal
  BY <1>0, <1>7 DEF ResolveIncident, Faulty, TablesOK
<1>8. ASSUME NEW e \in Endpoints, DisableEndpoint(e)
      PROVE  Goal
  <2>1. endpoints' \in [Endpoints -> [enabled : BOOLEAN, failures : Nat]]
    BY <1>0, <1>8 DEF DisableEndpoint, TablesOK
  <2>2. faults' \in 0..MaxFaults
    BY <1>0, <1>8 DEF DisableEndpoint, Faulty, TablesOK
  <2> QED
    BY <1>0, <1>8, <2>1, <2>2 DEF DisableEndpoint, TablesOK
<1>9. ASSUME NEW n \in Notifiers, TakeOutbox(n)
      PROVE  Goal
  <2>1. outbox' \in [DOMAIN outbox -> Message]
    BY <1>9, Rowed DEF TakeOutbox, Message
  <2>2. UNCHANGED <<incidents, endpoints, deliveries, silenced, faults>>
    BY <1>9 DEF TakeOutbox
  <2> QED
    BY <1>0, <2>1, <2>2, SameRows DEF TablesOK
<1>10. ASSUME NEW n \in Notifiers, NEW m \in DOMAIN outbox, Handle(n, m)
       PROVE  Goal
  <2>1. incidents' \in Seq({"open", "resolved"})
    <3>1. OpenIncident \in Seq({"open", "resolved"})
      BY <1>0 DEF OpenIncident, TablesOK
    <3>2. ResolveOpen \in Seq({"open", "resolved"})
      BY <1>0, SameRows DEF ResolveOpen, TablesOK
    <3>3. incidents' \in {OpenIncident, ResolveOpen, incidents}
      BY <1>10 DEF Handle
    <3> QED
      BY <1>0, <3>1, <3>2, <3>3 DEF TablesOK
  <2>2. /\ deliveries' \in Seq(Delivery)
        /\ DOMAIN deliveries \subseteq DOMAIN deliveries'
    <3>1. CASE outbox[m].old
      BY <1>0, <1>10, <3>1 DEF Handle, TablesOK
    <3>2. CASE ~outbox[m].old
      <4> DEFINE all == deliveries \o SetToSeq(Enqueue(m))
      <4>1. deliveries' = all
        BY <1>10, <3>2 DEF Handle
      <4>2. all \in Seq(Delivery)
        BY Appended
      <4>3. DOMAIN deliveries \subseteq DOMAIN all
        BY <1>0, <4>2, RowsAreFinite, SetAsSequence DEF TablesOK
      <4> QED
        BY <4>1, <4>2, <4>3
    <3> QED
      BY <3>1, <3>2
  <2> QED
    BY <1>0, <1>10, <2>1, <2>2 DEF Handle, TablesOK
<1>11. ASSUME NEW n \in Notifiers, NEW m \in DOMAIN outbox, HandleFails(n, m)
       PROVE  Goal
  BY <1>0, <1>11 DEF HandleFails, Faulty, TablesOK
<1>12. ASSUME NEW n \in Notifiers, Mark(n)
       PROVE  Goal
  <2>1. outbox' \in [DOMAIN outbox -> Message]
    BY <1>12, Rowed DEF Mark, Message
  <2> QED
    BY <1>0, <1>12, <2>1, SameRows DEF Mark, TablesOK
<1>13. ASSUME NEW n \in Notifiers, TakeDeliveries(n)
       PROVE  Goal
  <2>1. deliveries' \in [DOMAIN deliveries -> Delivery]
    <3> DEFINE taken(d) == [deliveries[d] EXCEPT !.due = FALSE,
                                                 !.attempts = @ + 1]
    <3>1. \A d \in DOMAIN deliveries : deliveries[d] \in Delivery
      BY Rowed
    <3>2. \A d \in DOMAIN deliveries : taken(d) \in Delivery
      <4>1. \A r \in Delivery : [r EXCEPT !.due = FALSE] \in Delivery
        BY DEF Delivery
      <4>2. \A r \in Delivery, k \in Nat : [r EXCEPT !.attempts = k] \in Delivery
        BY DEF Delivery
      <4>3. \A r \in Delivery : r.attempts + 1 \in Nat
        BY DEF Delivery
      <4> QED
        BY <3>1, <4>1, <4>2, <4>3
    <3>3. deliveries' = [d \in DOMAIN deliveries |->
                  IF d \in DueDeliveries THEN taken(d) ELSE deliveries[d]]
      BY <1>13, Zenon DEF TakeDeliveries
    <3> HIDE DEF taken
    <3> QED
      BY <3>1, <3>2, <3>3
  <2> QED
    BY <1>0, <1>13, <2>1, SameRows DEF TakeDeliveries, TablesOK
<1>14. ASSUME NEW n \in Notifiers, NEW t \in notifier[n].due, Send(n, t)
       PROVE  Goal
  BY <1>0, <1>14 DEF Send, TablesOK
<1>15. ASSUME NEW n \in Notifiers, DeliverySucceeded(n)
       PROVE  Goal
  <2>1. deliveries' \in [DOMAIN deliveries -> Delivery]
    <3>1. \E d : deliveries' = [deliveries EXCEPT ![d].status = "delivered"]
      BY <1>15, Zenon DEF DeliverySucceeded
    <3> QED
      BY <3>1, Rowed DEF Delivery
  <2>2. endpoints' \in [Endpoints -> [enabled : BOOLEAN, failures : Nat]]
    <3>1. \E e : endpoints' = [endpoints EXCEPT ![e].failures = 0]
      BY <1>15, Zenon DEF DeliverySucceeded
    <3>2. \A x \in Endpoints :
            /\ endpoints[x] \in [enabled : BOOLEAN, failures : Nat]
            /\ [endpoints[x] EXCEPT !.failures = 0]
                 \in [enabled : BOOLEAN, failures : Nat]
      BY <1>0 DEF TablesOK
    <3> QED
      BY <1>0, <3>1, <3>2 DEF TablesOK
  <2> QED
    BY <1>0, <1>15, <2>1, <2>2, SameRows DEF DeliverySucceeded, TablesOK
<1>16. ASSUME NEW n \in Notifiers, DeliveryRetried(n)
       PROVE  Goal
  BY <1>0, <1>16 DEF DeliveryRetried, TablesOK
<1>17. ASSUME NEW n \in Notifiers, DeliveryGivenUp(n)
       PROVE  Goal
  <2>1. deliveries' \in [DOMAIN deliveries -> Delivery]
    <3>1. \E d : deliveries' = [deliveries EXCEPT ![d].status = "failed"]
      BY <1>17, Zenon DEF DeliveryGivenUp
    <3> QED
      BY <3>1, Rowed DEF Delivery
  <2>2. endpoints' \in [Endpoints -> [enabled : BOOLEAN, failures : Nat]]
    <3>1. PICK e : endpoints' = CountFailure(e)
      BY <1>17, Zenon DEF DeliveryGivenUp
    <3> DEFINE c == endpoints[e].failures + 1 < MaxFailures
               new(x) == [endpoints[x] EXCEPT !.failures = @ + 1,
                                              !.enabled = @ /\ c]
    <3>2. \A x \in Endpoints :
            /\ endpoints[x] \in [enabled : BOOLEAN, failures : Nat]
            /\ new(x) \in [enabled : BOOLEAN, failures : Nat]
      <4> DEFINE Endpoint == [enabled : BOOLEAN, failures : Nat]
      <4>1. \A r \in Endpoint, k \in Nat : [r EXCEPT !.failures = k] \in Endpoint
        OBVIOUS
      <4>2. \A r \in Endpoint, b \in BOOLEAN : [r EXCEPT !.enabled = b] \in Endpoint
        OBVIOUS
      <4>3. \A x \in Endpoints : /\ endpoints[x] \in Endpoint
                               /\ endpoints[x].failures + 1 \in Nat
                               /\ (endpoints[x].enabled /\ c) \in BOOLEAN
        BY <1>0 DEF TablesOK
      <4> HIDE DEF c
      <4> QED
        BY <4>1, <4>2, <4>3
    <3>3. endpoints' = [x \in Endpoints |-> IF x = e THEN new(x)
                                                     ELSE endpoints[x]]
      BY <1>0, <3>1 DEF CountFailure, TablesOK
    <3> HIDE DEF c, new
    <3> QED
      BY <3>2, <3>3
  <2> QED
    BY <1>0, <1>17, <2>1, <2>2, SameRows DEF DeliveryGivenUp, TablesOK
<1>18. ASSUME NEW n \in Notifiers, Crash(n)
       PROVE  Goal
  BY <1>0, <1>18 DEF Crash, Faulty, TablesOK
<1>19. CASE UNCHANGED vars
  BY <1>0, <1>19 DEF vars, TablesOK
<1> QED
  BY <1>1, <1>2, <1>3, <1>4, <1>5, <1>6, <1>7, <1>8, <1>9, <1>10, <1>11,
     <1>12, <1>13, <1>14, <1>15, <1>16, <1>17, <1>18, <1>19 DEF Next, Step

\* A notifier takes up what is there, in a step that may add to the tables.
LEMMA WorkStep ==
  ASSUME TypeOK, [Next]_vars
  PROVE  \/ notifier' = notifier
         \/ \E n \in Notifiers : \E w \in Notifier :
              notifier' = [notifier EXCEPT ![n] = w] /\ Fits(w)'
<1> DEFINE Goal == \/ notifier' = notifier
                   \/ \E n \in Notifiers : \E w \in Notifier :
                        notifier' = [notifier EXCEPT ![n] = w] /\ Fits(w)'
<1>0. /\ DOMAIN outbox \subseteq DOMAIN outbox'
      /\ DOMAIN deliveries \subseteq DOMAIN deliveries'
      /\ notifier \in [Notifiers -> Notifier]
      /\ \A n \in Notifiers : Fits(notifier[n])
      /\ \A m \in DOMAIN outbox : m \in Nat
      /\ \A d \in DOMAIN deliveries :
           d \in Nat /\ deliveries[d].attempts + 1 \in Nat
  <2>1. \A d \in DOMAIN deliveries : d \in Nat /\ deliveries[d] \in Delivery
    BY TypeParts DEF TablesOK
  <2>2. \A r \in Delivery : r.attempts + 1 \in Nat
    BY DEF Delivery
  <2>3. \A m \in DOMAIN outbox : m \in Nat
    BY TypeParts DEF TablesOK
  <2> QED
    BY <2>1, <2>2, <2>3, TablesStep, TypeParts DEF WorkOK
<1>1. ASSUME NEW n \in Notifiers, TakeOutbox(n)
      PROVE  Goal
  <2>1. PICK v : v = [notifier[n] EXCEPT !.at = "consume", !.batch = DueMessages]
    OBVIOUS
  <2>2. v \in Notifier /\ Fits(v)'
    <3>1. /\ v \in Notifier
          /\ v.at = "consume"
          /\ v.batch = DueMessages
          /\ v.due = notifier[n].due
      BY <1>0, <2>1 DEF DueMessages, Notifier
    <3> QED
      BY <1>0, <3>1 DEF DueMessages, Fits
  <2>3. notifier' = [notifier EXCEPT ![n] = v]
    BY <1>1, <2>1 DEF TakeOutbox, Becomes
  <2> QED
    BY <2>2, <2>3
<1>2. ASSUME NEW n \in Notifiers, NEW m \in DOMAIN outbox, Handle(n, m)
      PROVE  Goal
  <2>1. PICK v : v = [notifier[n] EXCEPT !.at = "mark", !.m = m,
                                         !.batch = @ \ {m}]
    OBVIOUS
  <2>2. v \in Notifier /\ Fits(v)'
    <3>1. /\ v \in Notifier
          /\ v.at = "mark"
          /\ v.m = m
          /\ v.batch \subseteq notifier[n].batch
          /\ v.due = notifier[n].due
      BY <1>0, <2>1 DEF Notifier
    <3> QED
      BY <1>0, <3>1 DEF Fits
  <2>3. notifier' = [notifier EXCEPT ![n] = v]
    BY <1>2, <2>1 DEF Handle, Becomes
  <2> QED
    BY <2>2, <2>3
<1>3. ASSUME NEW n \in Notifiers, NEW m \in DOMAIN outbox, HandleFails(n, m)
      PROVE  Goal
  <2>1. PICK v : v = [notifier[n] EXCEPT !.batch = @ \ {m}]
    OBVIOUS
  <2>2. v \in Notifier /\ Fits(v)'
    <3>1. /\ v \in Notifier
          /\ v.at = notifier[n].at
          /\ v.m = notifier[n].m
          /\ v.batch \subseteq notifier[n].batch
          /\ v.due = notifier[n].due
          /\ v.d = notifier[n].d
      BY <1>0, <2>1 DEF Notifier
    <3> QED
      BY <1>0, <3>1 DEF Fits
  <2>3. notifier' = [notifier EXCEPT ![n] = v]
    BY <1>3, <2>1 DEF HandleFails, Becomes
  <2> QED
    BY <2>2, <2>3
<1>4. ASSUME NEW n \in Notifiers, Mark(n)
      PROVE  Goal
  <2>1. PICK v : v = [notifier[n] EXCEPT !.at = "consume", !.m = 0]
    OBVIOUS
  <2>2. v \in Notifier /\ Fits(v)'
    <3>1. /\ v \in Notifier
          /\ v.at = "consume"
          /\ v.batch = notifier[n].batch
          /\ v.due = notifier[n].due
      BY <1>0, <2>1 DEF Notifier
    <3> QED
      BY <1>0, <3>1 DEF Fits
  <2>3. notifier' = [notifier EXCEPT ![n] = v]
    BY <1>4, <2>1 DEF Mark, Becomes
  <2> QED
    BY <2>2, <2>3
<1>5. ASSUME NEW n \in Notifiers, TakeDeliveries(n)
      PROVE  Goal
  <2>1. PICK due : due = {<<d, deliveries[d].attempts + 1>> : d \in DueDeliveries}
    OBVIOUS
  <2>2. due \subseteq (DOMAIN deliveries) \X Nat
    BY <1>0, <2>1 DEF DueDeliveries
  <2>3. PICK v : v = [notifier[n] EXCEPT !.at = "deliver", !.due = due]
    OBVIOUS
  <2>4. v \in Notifier /\ Fits(v)'
    <3>1. /\ v \in Notifier
          /\ v.at = "deliver"
          /\ v.batch = notifier[n].batch
          /\ v.due = due
      BY <1>0, <2>2, <2>3 DEF Notifier
    <3> QED
      BY <1>0, <2>2, <3>1 DEF Fits
  <2>5. notifier' = [notifier EXCEPT ![n] = v]
    BY <1>5, <2>1, <2>3, Zenon DEF TakeDeliveries, Becomes
  <2> QED
    BY <2>4, <2>5
<1>6. ASSUME NEW n \in Notifiers, NEW t \in notifier[n].due, Send(n, t)
      PROVE  Goal
  <2>1. endpoints[deliveries[t[1]].to].enabled \in BOOLEAN
    <3>1. t[1] \in DOMAIN deliveries
      BY <1>0 DEF Fits
    <3>2. deliveries[t[1]].to \in Endpoints
      BY <3>1, Rowed DEF Delivery
    <3> QED
      BY <3>2 DEF TypeOK
  <2>2. PICK ok \in BOOLEAN :
          notifier' = [notifier EXCEPT
                         ![n] = [notifier[n] EXCEPT !.at = "record", !.d = t,
                                                    !.due = @ \ {t}, !.ok = ok]]
    BY <1>6, <2>1 DEF Send, Becomes
  <2>3. PICK v : v = [notifier[n] EXCEPT !.at = "record", !.d = t,
                                         !.due = @ \ {t}, !.ok = ok]
    OBVIOUS
  <2>4. v \in Notifier /\ Fits(v)'
    <3>1. /\ v \in Notifier
          /\ v.at = "record"
          /\ v.d = t
          /\ v.batch = notifier[n].batch
          /\ v.due \subseteq notifier[n].due
      <4>1. t \in Nat \X Nat
        BY <1>0 DEF Notifier
      <4> QED
        BY <1>0, <2>3, <4>1 DEF Notifier
    <3> QED
      BY <1>0, <3>1 DEF Fits
  <2> QED
    BY <2>2, <2>3, <2>4
<1>7. ASSUME NEW n \in Notifiers, Recorded(n)
      PROVE  Goal
  <2>1. PICK v : v = [notifier[n] EXCEPT !.at = "deliver", !.d = <<0, 0>>,
                                         !.ok = FALSE]
    OBVIOUS
  <2>2. v \in Notifier /\ Fits(v)'
    <3>1. /\ v \in Notifier
          /\ v.at = "deliver"
          /\ v.batch = notifier[n].batch
          /\ v.due = notifier[n].due
      BY <1>0, <2>1 DEF Notifier
    <3> QED
      BY <1>0, <3>1 DEF Fits
  <2>3. notifier' = [notifier EXCEPT ![n] = v]
    BY <1>7, <2>1 DEF Recorded, Becomes
  <2> QED
    BY <2>2, <2>3
<1>8. ASSUME NEW n \in Notifiers, Crash(n)
      PROVE  Goal
  <2>1. Idle \in Notifier /\ Fits(Idle)'
    BY DEF Idle, Notifier, Fits
  <2> QED
    BY <1>8, <2>1 DEF Crash, Becomes
<1>9. CASE UNCHANGED notifier
  BY <1>9
<1> QED
  BY <1>1, <1>2, <1>3, <1>4, <1>5, <1>6, <1>7, <1>8, <1>9
     DEF Next, Step, vars, Post, MessageDue, MessageGrowsOld, DeliveryDue,
         RetryDelivery, Silence, ResolveIncident, DisableEndpoint,
         DeliverySucceeded, DeliveryRetried, DeliveryGivenUp

\* Every variable keeps its type, and a notifier works off rows there are.
LEMMA TypeStep ==
  ASSUME TypeOK, [Next]_vars
  PROVE  TypeOK'
<1>1. TypeOK' <=> TablesOK' /\ WorkOK'
  BY TypeParts, PTL
<1> QED
  BY <1>1, TablesStep, WorkStep, WorkStays

\* Each table and each notifier has its type, and a notifier that records the
\* end of a message or of a delivery records it of one that exists.
THEOREM TypeCorrect == Spec => []TypeOK
<1>1. Init => TypeOK
  <2>1. Init => TablesOK
    <3>1. \A S : <<>> \in Seq(S)
      OBVIOUS
    <3>2. Init => endpoints \in [Endpoints -> [enabled : BOOLEAN, failures : Nat]]
      BY DEF Init
    <3>3. Init => faults \in 0..MaxFaults
      BY NotifyAssumption DEF Init
    <3> QED
      BY <3>1, <3>2, <3>3, Zenon DEF Init, TablesOK
  <2>2. Init => WorkOK
    BY DEF Init, Idle, WorkOK, Fits, Notifier
  <2> QED
    BY <2>1, <2>2, TypeParts
<1> QED
  BY <1>1, TypeStep, PTL DEF Spec

-----------------------------------------------------------------------------
(* What is written is kept.                                                *)

\* A row keeps its event and its endpoint.
RowsKept == \A d \in DOMAIN deliveries :
  /\ d \in DOMAIN deliveries'
  /\ deliveries'[d].event = deliveries[d].event
  /\ deliveries'[d].of = deliveries[d].of
  /\ deliveries'[d].to = deliveries[d].to

\* A message that grew old stays old; an endpoint that was disabled stays so.
AgesKept == \A m \in DOMAIN outbox : outbox[m].old => outbox'[m].old
EndpointsKept ==
  \A e \in Endpoints : endpoints'[e].enabled => endpoints[e].enabled

\* Rows that are changed in their status, attempts or time only.
Touched(new) ==
  /\ DOMAIN new = DOMAIN deliveries
  /\ \A d \in DOMAIN deliveries : /\ new[d].event = deliveries[d].event
                                  /\ new[d].of = deliveries[d].of
                                  /\ new[d].to = deliveries[d].to

\* Only Handle adds rows.
LEMMA RowsStep ==
  ASSUME TypeOK, [Next]_vars
  PROVE  \/ Touched(deliveries')
         \/ \E n \in Notifiers, m \in DOMAIN outbox :
              ~outbox[m].old /\ Handle(n, m)
<1> DEFINE Goal == Touched(deliveries')
<1>0. \A d \in DOMAIN deliveries : deliveries[d] \in Delivery
  BY Rowed
<1>1. ASSUME NEW d \in DOMAIN deliveries, DeliveryDue(d)
      PROVE  Goal
  BY <1>0, <1>1 DEF DeliveryDue, Touched, Delivery
<1>2. ASSUME NEW d \in DOMAIN deliveries, RetryDelivery(d)
      PROVE  Goal
  BY <1>0, <1>2 DEF RetryDelivery, Touched, Delivery
<1>3. ASSUME NEW n \in Notifiers, TakeDeliveries(n)
      PROVE  Goal
  <2> DEFINE taken(d) == [deliveries[d] EXCEPT !.due = FALSE,
                                               !.attempts = @ + 1]
  <2>1. \A d \in DOMAIN deliveries : /\ taken(d).event = deliveries[d].event
                                     /\ taken(d).of = deliveries[d].of
                                     /\ taken(d).to = deliveries[d].to
    BY <1>0 DEF Delivery
  <2>2. deliveries' = [d \in DOMAIN deliveries |->
                IF d \in DueDeliveries THEN taken(d) ELSE deliveries[d]]
    BY <1>3, Zenon DEF TakeDeliveries
  <2> HIDE DEF taken
  <2> QED
    BY <2>1, <2>2 DEF Touched
<1>4. ASSUME NEW n \in Notifiers,
             DeliverySucceeded(n) \/ DeliveryGivenUp(n)
      PROVE  Goal
  <2>1. \E d, s : deliveries' = [deliveries EXCEPT ![d].status = s]
    BY <1>4, Zenon DEF DeliverySucceeded, DeliveryGivenUp
  <2> QED
    BY <1>0, <2>1 DEF Touched, Delivery
<1>5. ASSUME NEW n \in Notifiers, NEW m \in DOMAIN outbox, outbox[m].old,
             Handle(n, m)
      PROVE  Goal
  BY <1>5 DEF Handle, Touched
<1>6. CASE UNCHANGED deliveries
  BY <1>6 DEF Touched
<1> QED
  BY <1>1, <1>2, <1>3, <1>4, <1>5, <1>6
     DEF Next, Step, vars, Post, MessageDue, MessageGrowsOld, Silence,
         ResolveIncident, DisableEndpoint, TakeOutbox, HandleFails, Mark,
         Send, DeliveryRetried, Crash

LEMMA RowsAreKept ==
  ASSUME TypeOK, [Next]_vars
  PROVE  /\ RowsKept
         /\ \A event, of, e : Queued(event, of, e) => Queued(event, of, e)'
<1>1. RowsKept
  <2>1. CASE Touched(deliveries')
    BY <2>1 DEF Touched, RowsKept
  <2>2. ASSUME NEW n \in Notifiers, NEW m \in DOMAIN outbox, ~outbox[m].old,
               Handle(n, m)
        PROVE  RowsKept
    <3>1. deliveries' = deliveries \o SetToSeq(Enqueue(m))
      BY <2>2 DEF Handle
    <3>2. DOMAIN deliveries \subseteq DOMAIN deliveries'
      BY TablesStep
    <3>3. \A d \in DOMAIN deliveries : deliveries'[d] = deliveries[d]
      BY <3>1, Appended
    <3> QED
      BY <3>2, <3>3 DEF RowsKept
  <2> QED
    BY <2>1, <2>2, RowsStep
<1> QED
  BY <1>1 DEF RowsKept, Queued

LEMMA RestIsKept ==
  ASSUME TypeOK, [Next]_vars
  PROVE  AgesKept /\ EndpointsKept
<1>0. /\ outbox \in [DOMAIN outbox -> Message]
      /\ endpoints \in [Endpoints -> [enabled : BOOLEAN, failures : Nat]]
  BY Rowed DEF TypeOK
<1>1. AgesKept
  <2>1. ASSUME NEW v \in Verdicts, Post(v)
        PROVE  AgesKept
    BY <2>1 DEF Post, AgesKept, TypeOK
  <2>2. ASSUME NEW m \in DOMAIN outbox, MessageDue(m)
        PROVE  AgesKept
    BY <1>0, <2>2 DEF MessageDue, AgesKept, Message
  <2>3. ASSUME NEW m \in DOMAIN outbox, MessageGrowsOld(m)
        PROVE  AgesKept
    BY <1>0, <2>3 DEF MessageGrowsOld, AgesKept, Message
  <2>4. ASSUME NEW n \in Notifiers, TakeOutbox(n)
        PROVE  AgesKept
    BY <1>0, <2>4 DEF TakeOutbox, AgesKept, Message
  <2>5. ASSUME NEW n \in Notifiers, Mark(n)
        PROVE  AgesKept
    BY <1>0, <2>5 DEF Mark, AgesKept, Message
  <2>6. CASE UNCHANGED outbox
    BY <2>6 DEF AgesKept
  <2> QED
    BY <2>1, <2>2, <2>3, <2>4, <2>5, <2>6
       DEF Next, Step, vars, DeliveryDue, RetryDelivery, Silence,
           ResolveIncident, DisableEndpoint, Handle, HandleFails,
           TakeDeliveries, Send, DeliverySucceeded, DeliveryRetried,
           DeliveryGivenUp, Crash
<1>2. EndpointsKept
  <2>1. ASSUME NEW e \in Endpoints, DisableEndpoint(e)
        PROVE  EndpointsKept
    BY <1>0, <2>1 DEF DisableEndpoint, EndpointsKept
  <2>2. ASSUME NEW n \in Notifiers, DeliverySucceeded(n)
        PROVE  EndpointsKept
    <3>1. \E e : endpoints' = [endpoints EXCEPT ![e].failures = 0]
      BY <2>2, Zenon DEF DeliverySucceeded
    <3> QED
      BY <1>0, <3>1 DEF EndpointsKept
  <2>3. ASSUME NEW n \in Notifiers, DeliveryGivenUp(n)
        PROVE  EndpointsKept
    <3>1. PICK e : endpoints' = CountFailure(e)
      BY <2>3, Zenon DEF DeliveryGivenUp
    <3>2. PICK c : c = (endpoints[e].failures + 1 < MaxFailures)
      OBVIOUS
    <3>3. endpoints' = [endpoints EXCEPT ![e].failures = @ + 1,
                                         ![e].enabled = @ /\ c]
      BY <3>1, <3>2 DEF CountFailure
    <3> QED
      BY <1>0, <3>3 DEF EndpointsKept
  <2>4. CASE UNCHANGED endpoints
    BY <2>4 DEF EndpointsKept
  <2> QED
    BY <2>1, <2>2, <2>3, <2>4
       DEF Next, Step, vars, Post, MessageDue, MessageGrowsOld, DeliveryDue,
           RetryDelivery, Silence, ResolveIncident, TakeOutbox, Handle,
           HandleFails, Mark, TakeDeliveries, Send, DeliveryRetried, Crash
<1> QED
  BY <1>1, <1>2

-----------------------------------------------------------------------------
(* A message that is marked is queued.                                     *)

Handled(m) == \A e \in Endpoints : endpoints[e].enabled => Queued("message", m, e)

\* Between its two transactions a notifier knows that the first was committed:
\* the queue holds the event for every endpoint that still listens.
MarkInv ==
  /\ \A m \in DOMAIN outbox : outbox[m].marked /\ ~outbox[m].old => Handled(m)
  /\ \A n \in Notifiers :
       At(n, "mark") /\ ~outbox[notifier[n].m].old => Handled(notifier[n].m)

LEMMA HandledStays ==
  ASSUME TypeOK, [Next]_vars
  PROVE  \A m : Handled(m) => Handled(m)'
BY RowsAreKept, RestIsKept DEF Handled, EndpointsKept

\* handle queues the event for every enabled endpoint.
LEMMA HandleQueues ==
  ASSUME TypeOK, [Next]_vars, NEW n \in Notifiers, NEW m \in DOMAIN outbox,
         Handle(n, m), ~outbox[m].old
  PROVE  Handled(m)'
<1> SUFFICES ASSUME NEW e \in Endpoints, endpoints[e].enabled
             PROVE  Queued("message", m, e)'
  BY DEF Handle, Handled
<1>1. CASE Queued("message", m, e)
  BY <1>1, RowsAreKept
<1>2. CASE ~Queued("message", m, e)
  <2>1. PICK row : row = Row([event |-> "message", of |-> m], e)
    OBVIOUS
  <2>2. row \in Enqueue(m)
    <3> DEFINE new == {k \in {c \in Endpoints : endpoints[c].enabled} :
                         ~Queued("message", m, k)}
               M == {Row([event |-> "message", of |-> m], k) : k \in new}
    <3>1. M \subseteq Enqueue(m)
      BY DEF Enqueue, Row
    <3>2. e \in new
      BY <1>2
    <3> QED
      BY <2>1, <3>1, <3>2
  <2>3. deliveries' = deliveries \o SetToSeq(Enqueue(m))
    BY DEF Handle
  <2>4. \E d \in DOMAIN deliveries' : deliveries'[d] = row
    BY <2>2, <2>3, Appended
  <2>5. row.event = "message" /\ row.of = m /\ row.to = e
    BY <2>1 DEF Row
  <2> QED
    BY <2>4, <2>5 DEF Queued
<1> QED
  BY <1>1, <1>2

\* A message is marked by a notifier that was about to mark it.
LEMMA NewlyMarked ==
  ASSUME TypeOK, [Next]_vars, NEW m \in DOMAIN outbox', outbox'[m].marked
  PROVE  /\ m \in DOMAIN outbox
         /\ \/ outbox[m].marked
            \/ \E n \in Notifiers : At(n, "mark") /\ notifier[n].m = m
<1> DEFINE Goal == /\ m \in DOMAIN outbox
                   /\ \/ outbox[m].marked
                      \/ \E n \in Notifiers : At(n, "mark") /\ notifier[n].m = m
<1>0. outbox \in [DOMAIN outbox -> Message]
  BY Rowed
<1>1. ASSUME NEW v \in Verdicts, Post(v)
      PROVE  Goal
  BY <1>1 DEF Post, TypeOK
<1>2. ASSUME NEW k \in DOMAIN outbox, MessageDue(k)
      PROVE  Goal
  BY <1>0, <1>2 DEF MessageDue, Message
<1>3. ASSUME NEW k \in DOMAIN outbox, MessageGrowsOld(k)
      PROVE  Goal
  BY <1>0, <1>3 DEF MessageGrowsOld, Message
<1>4. ASSUME NEW n \in Notifiers, TakeOutbox(n)
      PROVE  Goal
  BY <1>0, <1>4 DEF TakeOutbox, Message
<1>5. ASSUME NEW n \in Notifiers, Mark(n)
      PROVE  Goal
  BY <1>0, <1>5 DEF Mark, Message
<1>6. CASE UNCHANGED outbox
  BY <1>6
<1> QED
  BY <1>1, <1>2, <1>3, <1>4, <1>5, <1>6
     DEF Next, Step, vars, DeliveryDue, RetryDelivery, Silence,
         ResolveIncident, DisableEndpoint, Handle, HandleFails,
         TakeDeliveries, Send, DeliverySucceeded, DeliveryRetried,
         DeliveryGivenUp, Crash

\* A notifier is about to mark a message after it handled it.
LEMMA AboutToMark ==
  ASSUME TypeOK, [Next]_vars, NEW n \in Notifiers, At(n, "mark")'
  PROVE  \/ At(n, "mark") /\ notifier'[n].m = notifier[n].m
         \/ \E m \in DOMAIN outbox : Handle(n, m) /\ notifier'[n].m = m
<1> DEFINE Goal == \/ At(n, "mark") /\ notifier'[n].m = notifier[n].m
                   \/ \E m \in DOMAIN outbox :
                        Handle(n, m) /\ notifier'[n].m = m
<1>0. /\ notifier \in [Notifiers -> Notifier]
      /\ notifier'[n].at = "mark"
  BY DEF TypeOK, At
<1>1. ASSUME NEW k \in Notifiers, TakeOutbox(k)
      PROVE  Goal
  BY <1>0, <1>1 DEF TakeOutbox, Becomes, At, Notifier
<1>2. ASSUME NEW k \in Notifiers, NEW m \in DOMAIN outbox, Handle(k, m)
      PROVE  Goal
  <2>1. CASE k = n
    <3>1. notifier'[n].m = m
      BY <1>0, <1>2, <2>1 DEF Handle, Becomes, Notifier
    <3> QED
      BY <1>2, <2>1, <3>1
  <2>2. CASE k # n
    BY <1>0, <1>2, <2>2 DEF Handle, Becomes, At
  <2> QED
    BY <2>1, <2>2
<1>3. ASSUME NEW k \in Notifiers, NEW m \in DOMAIN outbox, HandleFails(k, m)
      PROVE  Goal
  BY <1>0, <1>3 DEF HandleFails, Becomes, At, Notifier
<1>4. ASSUME NEW k \in Notifiers, Mark(k)
      PROVE  Goal
  BY <1>0, <1>4 DEF Mark, Becomes, At, Notifier
<1>5. ASSUME NEW k \in Notifiers, TakeDeliveries(k)
      PROVE  Goal
  <2>1. PICK due :
          Becomes(k, [notifier[k] EXCEPT !.at = "deliver", !.due = due])
    BY <1>5, Zenon DEF TakeDeliveries
  <2> QED
    BY <1>0, <2>1 DEF Becomes, At, Notifier
<1>6. ASSUME NEW k \in Notifiers, NEW t \in notifier[k].due, Send(k, t)
      PROVE  Goal
  BY <1>0, <1>6 DEF Send, Becomes, At, Notifier
<1>7. ASSUME NEW k \in Notifiers, Recorded(k)
      PROVE  Goal
  BY <1>0, <1>7 DEF Recorded, Becomes, At, Notifier
<1>8. ASSUME NEW k \in Notifiers, Crash(k)
      PROVE  Goal
  BY <1>0, <1>8 DEF Crash, Becomes, Idle, At, Notifier
<1>9. CASE UNCHANGED notifier
  BY <1>0, <1>9 DEF At
<1> QED
  BY <1>1, <1>2, <1>3, <1>4, <1>5, <1>6, <1>7, <1>8, <1>9
     DEF Next, Step, vars, Post, MessageDue, MessageGrowsOld, DeliveryDue,
         RetryDelivery, Silence, ResolveIncident, DisableEndpoint,
         DeliverySucceeded, DeliveryRetried, DeliveryGivenUp

LEMMA MarkStep ==
  ASSUME TypeOK, MarkInv, [Next]_vars
  PROVE  MarkInv'
<1>1. ASSUME NEW m \in DOMAIN outbox', outbox'[m].marked, ~outbox'[m].old
      PROVE  Handled(m)'
  <2>1. m \in DOMAIN outbox /\ ~outbox[m].old
    BY <1>1, NewlyMarked, RestIsKept DEF AgesKept
  <2>2. Handled(m)
    BY <1>1, <2>1, NewlyMarked DEF MarkInv
  <2> QED
    BY <2>2, HandledStays
<1>2. ASSUME NEW n \in Notifiers, At(n, "mark")',
             ~outbox'[notifier'[n].m].old
      PROVE  Handled(notifier[n].m)'
  <2>1. CASE At(n, "mark") /\ notifier'[n].m = notifier[n].m
    <3>1. notifier[n].m \in DOMAIN outbox /\ ~outbox[notifier[n].m].old
      BY <1>2, <2>1, RestIsKept DEF AgesKept, TypeOK
    <3>2. PICK m : m = notifier[n].m /\ m = notifier'[n].m
      BY <2>1
    <3>3. Handled(m)'
      BY <2>1, <3>1, <3>2, HandledStays DEF MarkInv
    <3> QED
      BY <3>2, <3>3 DEF Handled
  <2>2. ASSUME NEW m \in DOMAIN outbox, Handle(n, m), notifier'[n].m = m
        PROVE  Handled(notifier[n].m)'
    <3>1. ~outbox[m].old
      BY <1>2, <2>2 DEF Handle
    <3>2. Handled(m)'
      BY <2>2, <3>1, HandleQueues
    <3> QED
      BY <2>2, <3>2 DEF Handled
  <2> QED
    BY <1>2, <2>1, <2>2, AboutToMark
<1> QED
  BY <1>1, <1>2 DEF MarkInv

\* A message is marked only when its event is queued, whoever crashed or was
\* refused: no endpoint that still listens misses what did not grow old.
THEOREM MarkedAreQueued == Spec => []MarkedIsQueued
<1>1. Init => MarkInv
  BY DEF Init, Idle, MarkInv, At
<1>2. MarkInv => MarkedIsQueued
  BY DEF MarkInv, MarkedIsQueued, Handled
<1> QED
  BY <1>1, <1>2, MarkStep, TypeCorrect, PTL DEF Spec

-----------------------------------------------------------------------------
(* An endpoint is told once of each event.                                 *)

Same(c, d) == c.event = d.event /\ c.of = d.of /\ c.to = d.to

\* One incident is open; no two rows are of one event and endpoint; a row of
\* an incident is of one that exists, and of one that is resolved if it says so.
ToldInv ==
  /\ \A i, j \in OpenOnes : i = j
  /\ \A c, d \in DOMAIN deliveries : Same(deliveries[c], deliveries[d]) => c = d
  /\ \A d \in DOMAIN deliveries :
       deliveries[d].event # "message" => deliveries[d].of \in DOMAIN incidents
  /\ \A d \in DOMAIN deliveries :
       deliveries[d].event = "resolved" =>
         incidents[deliveries[d].of] = "resolved"

\* Incidents change by hand or by a message.
LEMMA IncidentsStep ==
  ASSUME TypeOK, [Next]_vars
  PROVE  \/ incidents' = incidents
         \/ \E i \in DOMAIN incidents :
              incidents' = [incidents EXCEPT ![i] = "resolved"]
         \/ \E n \in Notifiers, m \in DOMAIN outbox :
              ~outbox[m].old /\ Handle(n, m)
<1>1. ASSUME NEW n \in Notifiers, NEW m \in DOMAIN outbox, Handle(n, m),
             outbox[m].old
      PROVE  incidents' = incidents
  BY <1>1 DEF Handle
<1> QED
  BY <1>1
     DEF Next, Step, vars, Post, MessageDue, MessageGrowsOld, DeliveryDue,
         RetryDelivery, Silence, ResolveIncident, DisableEndpoint, TakeOutbox,
         HandleFails, Mark, TakeDeliveries, Send, DeliverySucceeded,
         DeliveryRetried, DeliveryGivenUp, Crash

\* What a step does to the queue and to the incidents.
LEMMA EventsStep ==
  ASSUME TypeOK, [Next]_vars
  PROVE  \/ /\ Touched(deliveries')
            /\ \/ incidents' = incidents
               \/ \E i \in DOMAIN incidents :
                    incidents' = [incidents EXCEPT ![i] = "resolved"]
         \/ \E n \in Notifiers, m \in DOMAIN outbox :
              ~outbox[m].old /\ Handle(n, m)
BY RowsStep, IncidentsStep

LEMMA ToldByHand ==
  ASSUME TypeOK, ToldInv, Touched(deliveries'),
         \/ incidents' = incidents
         \/ \E i \in DOMAIN incidents :
              incidents' = [incidents EXCEPT ![i] = "resolved"]
  PROVE  ToldInv'
<1>1. /\ DOMAIN incidents' = DOMAIN incidents
      /\ OpenOnes' \subseteq OpenOnes
      /\ \A i \in DOMAIN incidents :
           incidents[i] = "resolved" => incidents'[i] = "resolved"
  BY DEF OpenOnes
<1> QED
  BY <1>1 DEF ToldInv, Touched, Same

\* What handle does to the incidents: with what it tells of them.
LEMMA IncidentsOf ==
  ASSUME TypeOK, ToldInv, NEW n \in Notifiers, NEW m \in DOMAIN outbox,
         ~outbox[m].old, Handle(n, m)
  PROVE  /\ \A i, j \in OpenOnes' : i = j
         /\ DOMAIN incidents \subseteq DOMAIN incidents'
         /\ \A i \in DOMAIN incidents :
              incidents[i] = "resolved" => incidents'[i] = "resolved"
         /\ \A v \in Tells(m) :
              /\ v.of \in DOMAIN incidents'
              /\ \/ v.event = "opened" /\ v.of \notin DOMAIN incidents
                 \/ /\ v.event = "resolved" /\ incidents[v.of] # "resolved"
                    /\ incidents'[v.of] = "resolved"
<1>1. /\ incidents \in Seq({"open", "resolved"})
      /\ \A i, j \in OpenOnes : i = j
  BY DEF TypeOK, ToldInv
<1>2. CASE Opens(m) /\ OpenOnes = {}
  <2>1. incidents' = Append(incidents, "open")
    BY <1>2 DEF Handle, OpenIncident
  <2>2. OpenOnes' = {Len(incidents) + 1}
    BY <1>1, <1>2, <2>1 DEF OpenOnes
  <2>3. \A v \in Tells(m) : v.event = "opened" /\ v.of = Len(incidents) + 1
    BY <1>2 DEF Tells
  <2> QED
    BY <1>1, <2>1, <2>2, <2>3
<1>3. CASE Opens(m) /\ OpenOnes # {}
  <2>1. incidents' = incidents
    BY <1>3 DEF Handle, OpenIncident
  <2>2. Tells(m) = {}
    BY <1>3, ToldOf DEF Opens, Resolves
  <2> QED
    BY <1>1, <2>1, <2>2 DEF OpenOnes
<1>4. CASE ~Opens(m) /\ Resolves(m)
  <2>1. incidents' = [i \in DOMAIN incidents |-> "resolved"]
    BY <1>4 DEF Handle, ResolveOpen
  <2>2. \A v \in Tells(m) : v.event = "resolved" /\ v.of \in OpenOnes
    BY <1>4 DEF Tells
  <2> QED
    BY <1>1, <2>1, <2>2 DEF OpenOnes
<1>5. CASE ~Opens(m) /\ ~Resolves(m)
  <2>1. incidents' = incidents
    BY <1>5 DEF Handle
  <2>2. Tells(m) = {}
    BY <1>5, ToldOf
  <2> QED
    BY <1>1, <2>1, <2>2 DEF OpenOnes
<1> QED
  BY <1>2, <1>3, <1>4, <1>5

\* No row is queued twice: a message's is looked for, what is told of an
\* incident was not true before.
LEMMA NewRowsAreNew ==
  ASSUME TypeOK, ToldInv, NEW n \in Notifiers, NEW m \in DOMAIN outbox,
         ~outbox[m].old, Handle(n, m), NEW x \in Enqueue(m)
  PROVE  /\ x.status = "pending" /\ x.attempts = 0 /\ x.due = TRUE
         /\ \A d \in DOMAIN deliveries : ~Same(deliveries[d], x)
         /\ x.event # "message" => x.of \in DOMAIN incidents'
         /\ x.event = "resolved" => incidents'[x.of] = "resolved"
<1>1. ASSUME NEW e \in Endpoints, ~Queued("message", m, e),
             x = Row([event |-> "message", of |-> m], e)
      PROVE  /\ x.status = "pending" /\ x.attempts = 0 /\ x.due = TRUE
             /\ \A d \in DOMAIN deliveries : ~Same(deliveries[d], x)
             /\ x.event = "message"
  BY <1>1 DEF Row, Same, Queued
<1>2. ASSUME NEW v \in Tells(m), NEW e \in Endpoints, x = Row(v, e)
      PROVE  /\ x.status = "pending" /\ x.attempts = 0 /\ x.due = TRUE
             /\ \A d \in DOMAIN deliveries : ~Same(deliveries[d], x)
             /\ x.event # "message" => x.of \in DOMAIN incidents'
             /\ x.event = "resolved" => incidents'[x.of] = "resolved"
  <2>1. /\ x.event = v.event /\ x.of = v.of
        /\ x.status = "pending" /\ x.attempts = 0 /\ x.due = TRUE
    BY <1>2 DEF Row
  <2>2. /\ v.of \in DOMAIN incidents'
        /\ \/ v.event = "opened" /\ v.of \notin DOMAIN incidents
           \/ /\ v.event = "resolved" /\ incidents[v.of] # "resolved"
              /\ incidents'[v.of] = "resolved"
    BY <1>2, IncidentsOf
  <2>3. ASSUME NEW d \in DOMAIN deliveries, Same(deliveries[d], x)
        PROVE  FALSE
    BY <2>1, <2>2, <2>3 DEF ToldInv, Same
  <2> QED
    BY <2>1, <2>2, <2>3
<1> QED
  BY <1>1, <1>2, RowsOf

LEMMA ToldByHandle ==
  ASSUME TypeOK, ToldInv, NEW n \in Notifiers, NEW m \in DOMAIN outbox,
         ~outbox[m].old, Handle(n, m)
  PROVE  ToldInv'
<1> DEFINE all == deliveries \o SetToSeq(Enqueue(m))
<1>1. deliveries' = all
  BY DEF Handle
<1>2. /\ all \in Seq(Delivery)
      /\ \A d \in DOMAIN deliveries : all[d] = deliveries[d]
      /\ \A d \in DOMAIN all \ DOMAIN deliveries : all[d] \in Enqueue(m)
      /\ \A c, d \in DOMAIN all \ DOMAIN deliveries : all[c] = all[d] => c = d
  BY Appended
<1> HIDE DEF all
<1>3. ASSUME NEW c \in DOMAIN all, NEW d \in DOMAIN all, Same(all[c], all[d])
      PROVE  c = d
  <2>1. CASE c \in DOMAIN deliveries /\ d \in DOMAIN deliveries
    BY <1>2, <1>3, <2>1 DEF ToldInv
  <2>2. CASE c \in DOMAIN deliveries /\ d \notin DOMAIN deliveries
    BY <1>2, <1>3, <2>2, NewRowsAreNew
  <2>3. CASE c \notin DOMAIN deliveries /\ d \in DOMAIN deliveries
    <3>1. Same(all[d], all[c])
      BY <1>3 DEF Same
    <3> QED
      BY <1>2, <2>3, <3>1, NewRowsAreNew
  <2>4. CASE c \notin DOMAIN deliveries /\ d \notin DOMAIN deliveries
    <3>1. /\ all[c].status = all[d].status
          /\ all[c].attempts = all[d].attempts
          /\ all[c].due = all[d].due
      <4>1. all[c] \in Enqueue(m) /\ all[d] \in Enqueue(m)
        BY <1>2, <2>4
      <4>2. \A x \in Enqueue(m) :
              x.status = "pending" /\ x.attempts = 0 /\ x.due = TRUE
        BY NewRowsAreNew
      <4> QED
        BY <4>1, <4>2
    <3>2. all[c] \in Delivery /\ all[d] \in Delivery
      BY <1>2
    <3>3. all[c] = all[d]
      <4>1. \A r \in Delivery :
              r = [event |-> r.event, of |-> r.of, to |-> r.to,
                   status |-> r.status, attempts |-> r.attempts, due |-> r.due]
        BY DEF Delivery
      <4> QED
        BY <1>3, <3>1, <3>2, <4>1 DEF Same
    <3> QED
      BY <1>2, <2>4, <3>3
  <2> QED
    BY <2>1, <2>2, <2>3, <2>4
<1>4. ASSUME NEW d \in DOMAIN all
      PROVE  /\ all[d].event # "message" => all[d].of \in DOMAIN incidents'
             /\ all[d].event = "resolved" => incidents'[all[d].of] = "resolved"
  <2>1. CASE d \in DOMAIN deliveries
    BY <1>2, <2>1, IncidentsOf DEF ToldInv
  <2>2. CASE d \notin DOMAIN deliveries
    BY <1>2, <2>2, NewRowsAreNew
  <2> QED
    BY <2>1, <2>2
<1> QED
  BY <1>1, <1>3, <1>4, IncidentsOf DEF ToldInv

\* However often messages are handled, and by however many notifiers: each
\* event is queued once for an endpoint, a resolution only of an incident that
\* is resolved, and one incident of the target is open at a time.
THEOREM EndpointsAreToldOnce == Spec => []ToldOnce
<1>1. Init => ToldInv
  BY DEF Init, ToldInv, OpenOnes
<1>2. TypeOK /\ ToldInv /\ [Next]_vars => ToldInv'
  BY EventsStep, ToldByHand, ToldByHandle
<1>3. ToldInv => ToldOnce
  <2> SUFFICES ASSUME ToldInv PROVE ToldOnce
    OBVIOUS
  <2>1. Cardinality(OpenOnes) <= 1
    <3>1. CASE OpenOnes = {}
      BY <3>1, FS_EmptySet
    <3>2. ASSUME NEW i \in OpenOnes
          PROVE  Cardinality(OpenOnes) = 1
      <4>1. OpenOnes = {i}
        BY <3>2 DEF ToldInv
      <4> QED
        BY <4>1, FS_Singleton
    <3> QED
      BY <3>1, <3>2
  <2> QED
    BY <2>1 DEF ToldInv, ToldOnce, Same
<1> QED
  BY <1>1, <1>2, <1>3, TypeCorrect, PTL DEF Spec
=============================================================================
