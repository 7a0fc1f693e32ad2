----------------------------- MODULE Operations -----------------------------
(***************************************************************************)
(* Durable operations (ADR-025, store/operations.go): any number of        *)
(* workers claim operations under a lease, and every claim raises the      *)
(* operation's fence.  Nothing takes a claim back from a worker whose      *)
(* lease ran out; only the fence tells an old claim from the current one.  *)
(*                                                                         *)
(* One step is one SQL statement on one row.  A move of an operation's run *)
(* (store.AdvanceRun) is a transaction of three steps: its SELECT compares *)
(* the fence in the statement's snapshot of the operation and then locks   *)
(* the run's row alone (FOR UPDATE OF r), waiting for whoever has it; the  *)
(* UPDATE and the commit come later.  A claim fits in between.             *)
(***************************************************************************)
EXTENDS Naturals

CONSTANTS
  Workers,    \* processes that claim operations
  Ops,        \* operations
  None,       \* no operation, no worker
  MaxFence,   \* bound: claims of one operation
  MaxMoves    \* bound: moves of one run

ASSUME OperationsAssumption ==
  /\ None \notin Workers /\ None \notin Ops
  /\ MaxFence \in Nat /\ MaxMoves \in Nat

VARIABLES
  rows,     \* operations: the columns claims work with
  claims,   \* the claim each worker works under (store.Claim)
  settled,  \* outbox: messages "<kind>.settled" of an operation
  moves,    \* deployment_runs.phase, as the number of its changes
  noted     \* history: the fence of the last claim that recorded an event

vars == <<rows, claims, settled, moves, noted>>

Row == [state : {"absent", "open", "done"},
        fence : Nat,
        leased : BOOLEAN,   \* lease_until is in the future
        due : BOOLEAN]      \* next_attempt_at has passed

\* tx: how far the worker is in AdvanceRun; read: the phase it locked.
Claimed == [op : Ops \cup {None}, fence : Nat,
            tx : {"none", "compared", "locked"}, read : Nat]

NoRow == [state |-> "absent", fence |-> 0, leased |-> FALSE, due |-> FALSE]
NoClaim == [op |-> None, fence |-> 0, tx |-> "none", read |-> 0]

Init ==
  /\ rows = [o \in Ops |-> NoRow]
  /\ claims = [w \in Workers |-> NoClaim]
  /\ settled = [o \in Ops |-> 0]
  /\ moves = [o \in Ops |-> 0]
  /\ noted = [o \in Ops |-> 0]

Working(w) == claims[w].op # None

\* w may make its next statement: it has a claim and is in no transaction.
Free(w) == Working(w) /\ claims[w].tx = "none"

\* A transaction of AdvanceRun holds the row lock of o's run.
Locked(o) == \E w \in Workers : claims[w].op = o /\ claims[w].tx = "locked"

\* Defect: the statements do not compare the fence.
CurrentAlways(w) == TRUE

\* WHERE fence = $2: the claim of w is the operation's last one.
Current(w) == rows[claims[w].op].fence = claims[w].fence

\* ... AND NOT done.
Holds(w) == Current(w) /\ rows[claims[w].op].state = "open"

\* The insert of Tenant.Accept: due at once.
Accept(o) ==
  /\ rows[o].state = "absent"
  /\ rows' = [rows EXCEPT ![o].state = "open", ![o].due = TRUE]
  /\ UNCHANGED <<claims, settled, moves, noted>>

\* ClaimOperation, by a worker that has nothing to do.
Claim(w, o) ==
  /\ ~Working(w)
  /\ rows[o].state = "open" /\ rows[o].due /\ ~rows[o].leased
  /\ rows[o].fence < MaxFence
  /\ rows' = [rows EXCEPT ![o].fence = @ + 1, ![o].leased = TRUE]
  /\ claims' = [claims EXCEPT ![w] = [NoClaim EXCEPT !.op = o,
                                                    !.fence = rows[o].fence + 1]]
  /\ UNCHANGED <<settled, moves, noted>>

\* Defect: the connection is given back inside its transaction.
LetGoInside(w) == claims' = [claims EXCEPT ![w].op = None]

\* The worker is done with its claim, whatever the statement changed.
LetGo(w) == claims' = [claims EXCEPT ![w] = NoClaim]

\* Defect: the message is written whether or not a row was updated.
FinishAnyway(w) ==
  LET o == claims[w].op
  IN /\ Free(w)
     /\ rows' = IF Holds(w)
                  THEN [rows EXCEPT ![o].state = "done", ![o].leased = FALSE]
                  ELSE rows
     /\ settled' = [settled EXCEPT ![o] = @ + 1]
     /\ LetGo(w)
     /\ UNCHANGED <<moves, noted>>

\* FinishOperation: the operation and its message, in one statement.
Finish(w) ==
  LET o == claims[w].op
  IN /\ Free(w)
     /\ IF Holds(w)
        THEN /\ rows' = [rows EXCEPT ![o].state = "done", ![o].leased = FALSE]
             /\ settled' = [settled EXCEPT ![o] = @ + 1]
        ELSE UNCHANGED <<rows, settled>>
     /\ LetGo(w)
     /\ UNCHANGED <<moves, noted>>

\* RetryOperation: give the claim back, due later.
Retry(w) ==
  LET o == claims[w].op
  IN /\ Free(w)
     /\ rows' = IF Holds(w)
                  THEN [rows EXCEPT ![o].due = FALSE, ![o].leased = FALSE]
                  ELSE rows
     /\ LetGo(w)
     /\ UNCHANGED <<settled, moves, noted>>

\* RenewLease; a worker that is fenced off stops working.
Renew(w) ==
  /\ Free(w)
  /\ \/ /\ Holds(w)
        /\ rows' = [rows EXCEPT ![claims[w].op].leased = TRUE]
        /\ UNCHANGED claims
     \/ /\ ~Holds(w)
        /\ LetGo(w)
        /\ UNCHANGED rows
  /\ UNCHANGED <<settled, moves, noted>>

\* Defect: the event is written under any claim.
RecordAnyEvent(w) ==
  /\ Free(w)
  /\ noted' = [noted EXCEPT ![claims[w].op] = claims[w].fence]
  /\ UNCHANGED <<rows, claims, settled, moves>>

\* RecordEvent: asks for the fence only, so also once the operation is done.
RecordEvent(w) ==
  /\ Free(w) /\ Current(w)
  /\ noted' = [noted EXCEPT ![claims[w].op] = claims[w].fence]
  /\ UNCHANGED <<rows, claims, settled, moves>>

\* lockRunUnderFence sees the fence and that the operation is not done ...
Compare(w) ==
  /\ Free(w) /\ Holds(w)
  /\ claims' = [claims EXCEPT ![w].tx = "compared"]
  /\ UNCHANGED <<rows, settled, moves, noted>>

\* Defect: the row is read without FOR UPDATE.
LockNothing(w) ==
  /\ claims[w].tx = "compared"
  /\ claims' = [claims EXCEPT ![w].tx = "locked",
                              ![w].read = moves[claims[w].op]]
  /\ UNCHANGED <<rows, settled, moves, noted>>

\* ... and gets the row of the run, as it is by then.
Lock(w) ==
  LET o == claims[w].op
  IN /\ claims[w].tx = "compared" /\ ~Locked(o)
     /\ claims' = [claims EXCEPT ![w].tx = "locked", ![w].read = moves[o]]
     /\ UNCHANGED <<rows, settled, moves, noted>>

\* setRunPhase, computed from the phase that was read, and the commit.
Commit(w) ==
  LET c == claims[w]
  IN /\ c.tx = "locked" /\ c.read < MaxMoves
     /\ moves' = [moves EXCEPT ![c.op] = c.read + 1]
     /\ claims' = [claims EXCEPT ![w].tx = "none", ![w].read = 0]
     /\ UNCHANGED <<rows, settled, noted>>

\* An illegal event or an error: the transaction rolls back.
Rollback(w) ==
  /\ claims[w].tx # "none"
  /\ claims' = [claims EXCEPT ![w].tx = "none", ![w].read = 0]
  /\ UNCHANGED <<rows, settled, moves, noted>>

\* A request moves the run: DecideRun, or supersedeOlder for a newer run.
\* Both wait for the row lock, and wake the operation.
Request(o) ==
  /\ rows[o].state # "absent" /\ ~Locked(o)
  /\ moves[o] < MaxMoves
  /\ moves' = [moves EXCEPT ![o] = @ + 1]
  /\ rows' = IF rows[o].state = "open" THEN [rows EXCEPT ![o].due = TRUE]
                                       ELSE rows
  /\ UNCHANGED <<claims, settled, noted>>

\* The worker dies, shuts down, or drops a claim it lost: the lease stays,
\* its transaction is rolled back.
Drop(w) ==
  /\ Working(w)
  /\ LetGo(w)
  /\ UNCHANGED <<rows, settled, moves, noted>>

\* The database clock passes lease_until, or next_attempt_at.
LeaseExpires(o) ==
  /\ rows[o].leased
  /\ rows' = [rows EXCEPT ![o].leased = FALSE]
  /\ UNCHANGED <<claims, settled, moves, noted>>

Due(o) ==
  /\ rows[o].state = "open" /\ ~rows[o].due
  /\ rows' = [rows EXCEPT ![o].due = TRUE]
  /\ UNCHANGED <<claims, settled, moves, noted>>

Next ==
  \/ \E o \in Ops : Accept(o) \/ Request(o) \/ LeaseExpires(o) \/ Due(o)
  \/ \E w \in Workers, o \in Ops : Claim(w, o)
  \/ \E w \in Workers :
       \/ Finish(w) \/ Retry(w) \/ Renew(w) \/ RecordEvent(w)
       \/ Compare(w) \/ Lock(w) \/ Commit(w) \/ Rollback(w) \/ Drop(w)

Spec == Init /\ [][Next]_vars
-----------------------------------------------------------------------------
Typed ==
  /\ rows \in [Ops -> Row]
  /\ claims \in [Workers -> Claimed]
  /\ settled \in [Ops -> Nat]
  /\ moves \in [Ops -> Nat]
  /\ noted \in [Ops -> Nat]

\* The types of the columns, and no transaction is open without a claim.
TypeOK == Typed /\ \A w \in Workers : claims[w].tx # "none" => Working(w)

\* Two workers never work under the same claim, so of all that were ever
\* given an operation, at most one can still settle, renew or move it (I06:
\* "every claim raises the fence").
OneHolder ==
  \A v, w \in Workers :
    (v # w /\ Working(v) /\ Working(w) /\ claims[v].op = claims[w].op)
      => ~(Holds(v) /\ Holds(w))

\* An operation is settled once: its "<kind>.settled" message is written
\* with the verdict and never again, however many workers believe they
\* finished it (finishOperation).
SettledOnce ==
  \A o \in Ops : settled[o] = IF rows[o].state = "done" THEN 1 ELSE 0

\* No change of a run is lost: whoever writes a run's phase computed it from
\* the phase the run has then, be it two workers that both passed the fence,
\* or a worker and the person who approves (the FOR UPDATE of
\* lockRunUnderFence and of DecideRun's lockRun).
NoMoveIsLost ==
  \A w \in Workers :
    claims[w].tx = "locked" => claims[w].read = moves[claims[w].op]

\* The history of an operation is written claim after claim (nextEvent).
EventsInOrder ==
  [][\A o \in Ops : noted'[o] >= noted[o]]_vars

\* "Every write by a worker is conditional on the fence it claimed with, so
\* a paused worker that wakes up after its lease expired writes nothing"
\* (migration 0005): no run is moved under a claim that is not the last one.
MovesAreCurrent ==
  [][\A w \in Workers :
       (claims[w].tx = "locked" /\ moves'[claims[w].op] # moves[claims[w].op])
         => Holds(w)]_vars
=============================================================================
