-------------------------- MODULE OperationsProofs --------------------------
(***************************************************************************)
(* Proofs about Operations, for any sets of workers and operations and any *)
(* bounds.  IInv is the inductive invariant: what makes the fence work is  *)
(* that no claim is ahead of its operation and no two claims of one        *)
(* operation are alike; what makes a move safe is that one worker at a     *)
(* time has a run's row locked.                                            *)
(***************************************************************************)
EXTENDS Operations, TLAPS

\* Claims are never ahead of their operation, and pairwise different.
Fences ==
  /\ \A w \in Workers :
       Working(w) => claims[w].fence <= rows[claims[w].op].fence
  /\ \A v, w \in Workers :
       (v # w /\ Working(v) /\ claims[v].op = claims[w].op)
         => claims[v].fence # claims[w].fence

\* Only a claim has a transaction, and one at a time locks a run.
RowLocks ==
  /\ \A w \in Workers : claims[w].tx # "none" => Working(w)
  /\ \A v, w \in Workers :
       (/\ v # w /\ claims[v].op = claims[w].op
        /\ claims[v].tx = "locked")
         => claims[w].tx # "locked"

Noted == \A o \in Ops : noted[o] <= rows[o].fence

IInv == Typed /\ Fences /\ RowLocks /\ NoMoveIsLost /\ SettledOnce /\ Noted
-----------------------------------------------------------------------------
\* The initial state satisfies the inductive invariant.
LEMMA InitIInv == Init => IInv
  BY OperationsAssumption
  DEF Init, IInv, Typed, Fences, RowLocks, NoMoveIsLost, SettledOnce, Noted,
      NoRow, NoClaim, Row, Claimed, Working

\* A worker with a claim, or in a transaction, has one of the operations.
LEMMA OpOfClaim ==
  ASSUME IInv, NEW w \in Workers, Working(w) \/ claims[w].tx # "none"
  PROVE  claims[w].op \in Ops
  BY DEF IInv, Typed, RowLocks, Claimed, Working

\* Every step preserves the inductive invariant.
LEMMA StepIInv == IInv /\ [Next]_vars => IInv'
<1> SUFFICES ASSUME IInv, [Next]_vars PROVE IInv'
  OBVIOUS
<1> USE OperationsAssumption DEF IInv
<1>1. ASSUME NEW o \in Ops, Accept(o) PROVE IInv'
  <2>1. Typed'
    <3>1. rows' \in [Ops -> Row]
      BY Zenon, <1>1 DEF Typed, Accept, Row
    <3> QED
      BY <1>1, <3>1 DEF Typed, Accept
  <2>2. Fences'
    BY <1>1 DEF Accept, NoRow,
      Typed, Row, Claimed, Working, Fences
  <2>3. RowLocks'
    BY <1>1 DEF Accept, NoRow,
      Typed, Row, Claimed, Working, RowLocks
  <2>4. NoMoveIsLost'
    BY <1>1 DEF Accept, NoRow,
      Typed, Row, Claimed, Working, RowLocks, NoMoveIsLost
  <2>5. SettledOnce'
    BY <1>1 DEF Accept, NoRow,
      Typed, Row, Claimed, Working, SettledOnce
  <2>6. Noted'
    BY <1>1 DEF Accept, NoRow,
      Typed, Row, Claimed, Working, Noted, Fences
  <2> QED
    BY <2>1, <2>2, <2>3, <2>4, <2>5, <2>6
<1>2. ASSUME NEW o \in Ops, LeaseExpires(o) PROVE IInv'
  <2>1. Typed'
    <3>1. rows' \in [Ops -> Row]
      BY Zenon, <1>2 DEF Typed, LeaseExpires, Row
    <3> QED
      BY <1>2, <3>1 DEF Typed, LeaseExpires
  <2>2. Fences'
    BY <1>2 DEF LeaseExpires,
      Typed, Row, Claimed, Working, Fences
  <2>3. RowLocks'
    BY <1>2 DEF LeaseExpires,
      Typed, Row, Claimed, Working, RowLocks
  <2>4. NoMoveIsLost'
    BY <1>2 DEF LeaseExpires,
      Typed, Row, Claimed, Working, RowLocks, NoMoveIsLost
  <2>5. SettledOnce'
    BY <1>2 DEF LeaseExpires,
      Typed, Row, Claimed, Working, SettledOnce
  <2>6. Noted'
    BY <1>2 DEF LeaseExpires,
      Typed, Row, Claimed, Working, Noted, Fences
  <2> QED
    BY <2>1, <2>2, <2>3, <2>4, <2>5, <2>6
<1>3. ASSUME NEW o \in Ops, Due(o) PROVE IInv'
  <2>1. Typed'
    <3>1. rows' \in [Ops -> Row]
      BY Zenon, <1>3 DEF Typed, Due, Row
    <3> QED
      BY <1>3, <3>1 DEF Typed, Due
  <2>2. Fences'
    BY <1>3 DEF Due,
      Typed, Row, Claimed, Working, Fences
  <2>3. RowLocks'
    BY <1>3 DEF Due,
      Typed, Row, Claimed, Working, RowLocks
  <2>4. NoMoveIsLost'
    BY <1>3 DEF Due,
      Typed, Row, Claimed, Working, RowLocks, NoMoveIsLost
  <2>5. SettledOnce'
    BY <1>3 DEF Due,
      Typed, Row, Claimed, Working, SettledOnce
  <2>6. Noted'
    BY <1>3 DEF Due,
      Typed, Row, Claimed, Working, Noted, Fences
  <2> QED
    BY <2>1, <2>2, <2>3, <2>4, <2>5, <2>6
<1>4. ASSUME NEW o \in Ops, Request(o) PROVE IInv'
  <2>1. Typed'
    <3>1. CASE rows[o].state = "open"
      <4>1. rows[o] \in Row
        BY <1>4 DEF Typed
      <4>2. [rows[o] EXCEPT !.due = TRUE] \in Row
        BY Zenon, <4>1 DEF Row
      <4>3. rows' = [rows EXCEPT ![o] = [rows[o] EXCEPT !.due = TRUE]]
        BY <1>4, <3>1 DEF Request, Typed
      <4>4. rows' \in [Ops -> Row]
        BY <4>2, <4>3 DEF Typed
      <4> QED
        BY <1>4, <3>1, <4>4 DEF Typed, Request, Claimed, LetGo, NoClaim
    <3>2. CASE rows[o].state # "open"
      BY <1>4, <3>2 DEF Typed, Request, Claimed, LetGo, NoClaim
    <3> QED
      BY <3>1, <3>2
  <2>2. Fences'
    BY <1>4 DEF Request, Locked,
      Typed, Row, Claimed, Working, Fences
  <2>3. RowLocks'
    BY <1>4 DEF Request, Locked,
      Typed, Row, Claimed, Working, RowLocks
  <2>4. NoMoveIsLost'
    BY <1>4 DEF Request, Locked,
      Typed, Row, Claimed, Working, RowLocks, NoMoveIsLost
  <2>5. SettledOnce'
    BY <1>4 DEF Request, Locked,
      Typed, Row, Claimed, Working, SettledOnce
  <2>6. Noted'
    BY <1>4 DEF Request, Locked,
      Typed, Row, Claimed, Working, Noted, Fences
  <2> QED
    BY <2>1, <2>2, <2>3, <2>4, <2>5, <2>6
<1>5. ASSUME NEW w \in Workers, NEW o \in Ops, Claim(w, o) PROVE IInv'
  <2>1. Typed'
    BY <1>5 DEF Claim, NoClaim,
      Typed, Row, Claimed, Working, RowLocks
  <2>2. Fences'
    BY <1>5 DEF Claim, NoClaim,
      Typed, Row, Claimed, Working, Fences
  <2>3. RowLocks'
    BY <1>5 DEF Claim, NoClaim,
      Typed, Row, Claimed, Working, RowLocks
  <2>4. NoMoveIsLost'
    BY <1>5 DEF Claim, NoClaim,
      Typed, Row, Claimed, Working, RowLocks, NoMoveIsLost
  <2>5. SettledOnce'
    BY <1>5 DEF Claim, NoClaim,
      Typed, Row, Claimed, Working, SettledOnce
  <2>6. Noted'
    BY <1>5 DEF Claim, NoClaim,
      Typed, Row, Claimed, Working, Noted, Fences
  <2> QED
    BY <2>1, <2>2, <2>3, <2>4, <2>5, <2>6
<1>6. ASSUME NEW w \in Workers, Finish(w) PROVE IInv'
  <2>0. claims[w].op \in Ops
    BY <1>6, OpOfClaim DEF Finish, Free
  <2>1. Typed'
    <3>1. CASE Holds(w)
      <4>1. rows[claims[w].op] \in Row
        BY <2>0 DEF Typed
      <4>2. [rows[claims[w].op] EXCEPT !.state = "done", !.leased = FALSE]
              \in Row
        BY Zenon, <4>1 DEF Row
      <4>3. rows' = [rows EXCEPT ![claims[w].op] =
                [rows[claims[w].op] EXCEPT !.state = "done", !.leased = FALSE]]
        BY <1>6, <3>1, <2>0 DEF Finish, Typed
      <4>4. rows' \in [Ops -> Row]
        BY <4>2, <4>3 DEF Typed
      <4>5. settled' \in [Ops -> Nat]
        BY <1>6, <3>1, <2>0 DEF Finish, Typed
      <4> QED
        BY <1>6, <4>4, <4>5 DEF Typed, Finish, Claimed, LetGo, NoClaim
    <3>2. CASE ~Holds(w)
      BY <1>6, <3>2 DEF Typed, Finish, Claimed, LetGo, NoClaim
    <3> QED
      BY <3>1, <3>2
  <2>2. Fences'
    <3>1. \A o \in Ops : rows'[o].fence = rows[o].fence
      BY <1>6, <2>0 DEF Finish, Typed, Row
    <3> QED
      BY <1>6, <3>1 DEF Fences, Finish, LetGo, NoClaim, Working, Typed,
        Claimed
  <2>3. RowLocks'
    BY <1>6, <2>0 DEF Finish, LetGo, NoClaim, Free, Holds, Current,
      Typed, Row, Claimed, Working, RowLocks
  <2>4. NoMoveIsLost'
    BY <1>6, <2>0 DEF Finish, LetGo, NoClaim, Free, Holds, Current,
      Typed, Row, Claimed, Working, RowLocks, NoMoveIsLost
  <2>5. SettledOnce'
    BY <1>6, <2>0 DEF Finish, LetGo, NoClaim, Free, Holds, Current,
      Typed, Row, Claimed, Working, SettledOnce
  <2>6. Noted'
    <3>1. \A o \in Ops : rows'[o].fence = rows[o].fence
      BY <1>6, <2>0 DEF Finish, Typed, Row
    <3> QED
      BY <1>6, <3>1 DEF Noted, Finish
  <2> QED
    BY <2>1, <2>2, <2>3, <2>4, <2>5, <2>6
<1>7. ASSUME NEW w \in Workers, Retry(w) PROVE IInv'
  <2>0. claims[w].op \in Ops
    BY <1>7, OpOfClaim DEF Retry, Free
  <2>1. Typed'
    <3>1. CASE Holds(w)
      <4>1. rows[claims[w].op] \in Row
        BY <1>7, <2>0 DEF Typed
      <4>2. [rows[claims[w].op] EXCEPT !.due = FALSE, !.leased = FALSE] \in Row
        BY Zenon, <4>1 DEF Row
      <4>3. rows' = [rows EXCEPT ![claims[w].op] = [rows[claims[w].op] EXCEPT !.due = FALSE, !.leased = FALSE]]
        BY <1>7, <3>1, <2>0 DEF Retry, Typed
      <4>4. rows' \in [Ops -> Row]
        BY <4>2, <4>3 DEF Typed
      <4> QED
        BY <1>7, <3>1, <4>4 DEF Typed, Retry, Claimed, LetGo, NoClaim
    <3>2. CASE ~Holds(w)
      BY <1>7, <3>2 DEF Typed, Retry, Claimed, LetGo, NoClaim
    <3> QED
      BY <3>1, <3>2
  <2>2. Fences'
    BY <1>7, <2>0 DEF Retry, LetGo, NoClaim, Free, Holds,
      Typed, Row, Claimed, Working, Fences
  <2>3. RowLocks'
    BY <1>7, <2>0 DEF Retry, LetGo, NoClaim, Free, Holds,
      Typed, Row, Claimed, Working, RowLocks
  <2>4. NoMoveIsLost'
    BY <1>7, <2>0 DEF Retry, LetGo, NoClaim, Free, Holds,
      Typed, Row, Claimed, Working, RowLocks, NoMoveIsLost
  <2>5. SettledOnce'
    BY <1>7, <2>0 DEF Retry, LetGo, NoClaim, Free, Holds,
      Typed, Row, Claimed, Working, SettledOnce
  <2>6. Noted'
    BY <1>7, <2>0 DEF Retry, LetGo, NoClaim, Free, Holds,
      Typed, Row, Claimed, Working, Noted, Fences
  <2> QED
    BY <2>1, <2>2, <2>3, <2>4, <2>5, <2>6
<1>8. ASSUME NEW w \in Workers, Renew(w) PROVE IInv'
  <2>0. claims[w].op \in Ops
    BY <1>8, OpOfClaim DEF Renew, Free
  <2>1. Typed'
    <3>1. CASE Holds(w)
      <4>1. rows[claims[w].op] \in Row
        BY <1>8, <2>0 DEF Typed
      <4>2. [rows[claims[w].op] EXCEPT !.leased = TRUE] \in Row
        BY Zenon, <4>1 DEF Row
      <4>3. rows' = [rows EXCEPT ![claims[w].op] = [rows[claims[w].op] EXCEPT !.leased = TRUE]]
        BY <1>8, <3>1, <2>0 DEF Renew, Typed
      <4>4. rows' \in [Ops -> Row]
        BY <4>2, <4>3 DEF Typed
      <4> QED
        BY <1>8, <3>1, <4>4 DEF Typed, Renew, Claimed, LetGo, NoClaim
    <3>2. CASE ~Holds(w)
      BY <1>8, <3>2 DEF Typed, Renew, Claimed, LetGo, NoClaim
    <3> QED
      BY <3>1, <3>2
  <2>2. Fences'
    <3>1. \A o \in Ops : rows'[o].fence = rows[o].fence
      BY <1>8, <2>0 DEF Renew, Typed, Row
    <3> QED
      BY <1>8, <3>1 DEF Fences, Renew, LetGo, NoClaim, Working, Typed,
        Claimed
  <2>3. RowLocks'
    <3>1. CASE Holds(w)
      BY <1>8, <3>1 DEF RowLocks, Renew, Working
    <3>2. CASE ~Holds(w)
      <4>1. /\ UNCHANGED <<rows, moves>>
            /\ \A v \in Workers : claims'[v] \in {claims[v], NoClaim}
        BY <1>8, <3>2 DEF Renew, LetGo, Typed
      <4> QED
        BY <4>1 DEF RowLocks, NoClaim, Working
    <3> QED
      BY <3>1, <3>2
  <2>4. NoMoveIsLost'
    BY <1>8, <2>0 DEF Renew, LetGo, NoClaim, Free, Holds,
      Typed, Row, Claimed, Working, RowLocks, NoMoveIsLost
  <2>5. SettledOnce'
    BY <1>8, <2>0 DEF Renew, LetGo, NoClaim, Free, Holds,
      Typed, Row, Claimed, Working, SettledOnce
  <2>6. Noted'
    BY <1>8, <2>0 DEF Renew, LetGo, NoClaim, Free, Holds,
      Typed, Row, Claimed, Working, Noted, Fences
  <2> QED
    BY <2>1, <2>2, <2>3, <2>4, <2>5, <2>6
<1>9. ASSUME NEW w \in Workers, RecordEvent(w) PROVE IInv'
  <2>0. claims[w].op \in Ops
    BY <1>9, OpOfClaim DEF RecordEvent, Free
  <2>1. Typed'
    BY <1>9, <2>0 DEF RecordEvent, Free, Current,
      Typed, Row, Claimed, Working, RowLocks
  <2>2. Fences'
    BY <1>9, <2>0 DEF RecordEvent, Free, Current,
      Typed, Row, Claimed, Working, Fences
  <2>3. RowLocks'
    BY <1>9, <2>0 DEF RecordEvent, Free, Current,
      Typed, Row, Claimed, Working, RowLocks
  <2>4. NoMoveIsLost'
    BY <1>9, <2>0 DEF RecordEvent, Free, Current,
      Typed, Row, Claimed, Working, RowLocks, NoMoveIsLost
  <2>5. SettledOnce'
    BY <1>9, <2>0 DEF RecordEvent, Free, Current,
      Typed, Row, Claimed, Working, SettledOnce
  <2>6. Noted'
    BY <1>9, <2>0 DEF RecordEvent, Free, Current,
      Typed, Row, Claimed, Working, Noted, Fences
  <2> QED
    BY <2>1, <2>2, <2>3, <2>4, <2>5, <2>6
<1>10. ASSUME NEW w \in Workers, Compare(w) PROVE IInv'
  <2>0. claims[w].op \in Ops
    BY <1>10, OpOfClaim DEF Compare, Free
  <2>1. Typed'
    BY <1>10, <2>0 DEF Compare, Free, Holds,
      Typed, Row, Claimed, Working, RowLocks
  <2>2. Fences'
    BY <1>10, <2>0 DEF Compare, Free, Holds,
      Typed, Row, Claimed, Working, Fences
  <2>3. RowLocks'
    BY <1>10, <2>0 DEF Compare, Free, Holds,
      Typed, Row, Claimed, Working, RowLocks
  <2>4. NoMoveIsLost'
    BY <1>10, <2>0 DEF Compare, Free, Holds,
      Typed, Row, Claimed, Working, RowLocks, NoMoveIsLost
  <2>5. SettledOnce'
    BY <1>10, <2>0 DEF Compare, Free, Holds,
      Typed, Row, Claimed, Working, SettledOnce
  <2>6. Noted'
    BY <1>10, <2>0 DEF Compare, Free, Holds,
      Typed, Row, Claimed, Working, Noted, Fences
  <2> QED
    BY <2>1, <2>2, <2>3, <2>4, <2>5, <2>6
<1>11. ASSUME NEW w \in Workers, Lock(w) PROVE IInv'
  <2>0. claims[w].op \in Ops
    BY <1>11, OpOfClaim DEF Lock
  <2>1. Typed'
    <3>1. moves[claims[w].op] \in Nat /\ claims[w].read + 1 \in Nat
      BY <2>0 DEF Typed, Claimed
    <3> QED
      BY <1>11, <2>0, <3>1 DEF Typed, Lock, Claimed
  <2>2. Fences'
    BY <1>11, <2>0 DEF Lock, Locked,
      Typed, Row, Claimed, Working, Fences
  <2>3. RowLocks'
    BY <1>11, <2>0 DEF Lock, Locked,
      Typed, Row, Claimed, Working, RowLocks
  <2>4. NoMoveIsLost'
    BY <1>11, <2>0 DEF Lock, Locked,
      Typed, Row, Claimed, Working, RowLocks, NoMoveIsLost
  <2>5. SettledOnce'
    BY <1>11, <2>0 DEF Lock, Locked,
      Typed, Row, Claimed, Working, SettledOnce
  <2>6. Noted'
    BY <1>11, <2>0 DEF Lock, Locked,
      Typed, Row, Claimed, Working, Noted, Fences
  <2> QED
    BY <2>1, <2>2, <2>3, <2>4, <2>5, <2>6
<1>12. ASSUME NEW w \in Workers, Commit(w) PROVE IInv'
  <2>0. claims[w].op \in Ops
    BY <1>12, OpOfClaim DEF Commit
  <2>1. Typed'
    <3>1. moves[claims[w].op] \in Nat /\ claims[w].read + 1 \in Nat
      BY <2>0 DEF Typed, Claimed
    <3> QED
      BY <1>12, <2>0, <3>1 DEF Typed, Commit, Claimed
  <2>2. Fences'
    BY <1>12, <2>0 DEF Commit,
      Typed, Row, Claimed, Working, Fences
  <2>3. RowLocks'
    BY <1>12, <2>0 DEF Commit,
      Typed, Row, Claimed, Working, RowLocks
  <2>4. NoMoveIsLost'
    BY <1>12, <2>0 DEF Commit,
      Typed, Row, Claimed, Working, RowLocks, NoMoveIsLost
  <2>5. SettledOnce'
    BY <1>12, <2>0 DEF Commit,
      Typed, Row, Claimed, Working, SettledOnce
  <2>6. Noted'
    BY <1>12, <2>0 DEF Commit,
      Typed, Row, Claimed, Working, Noted, Fences
  <2> QED
    BY <2>1, <2>2, <2>3, <2>4, <2>5, <2>6
<1>13. ASSUME NEW w \in Workers, Rollback(w) PROVE IInv'
  <2>1. Typed'
    BY <1>13 DEF Rollback,
      Typed, Row, Claimed, Working, RowLocks
  <2>2. Fences'
    BY <1>13 DEF Rollback,
      Typed, Row, Claimed, Working, Fences
  <2>3. RowLocks'
    BY <1>13 DEF Rollback,
      Typed, Row, Claimed, Working, RowLocks
  <2>4. NoMoveIsLost'
    BY <1>13 DEF Rollback,
      Typed, Row, Claimed, Working, RowLocks, NoMoveIsLost
  <2>5. SettledOnce'
    BY <1>13 DEF Rollback,
      Typed, Row, Claimed, Working, SettledOnce
  <2>6. Noted'
    BY <1>13 DEF Rollback,
      Typed, Row, Claimed, Working, Noted, Fences
  <2> QED
    BY <2>1, <2>2, <2>3, <2>4, <2>5, <2>6
<1>14. ASSUME NEW w \in Workers, Drop(w) PROVE IInv'
  <2>1. Typed'
    BY <1>14 DEF Drop, LetGo, NoClaim,
      Typed, Row, Claimed, Working, RowLocks
  <2>2. Fences'
    BY <1>14 DEF Drop, LetGo, NoClaim,
      Typed, Row, Claimed, Working, Fences
  <2>3. RowLocks'
    BY <1>14 DEF Drop, LetGo, NoClaim,
      Typed, Row, Claimed, Working, RowLocks
  <2>4. NoMoveIsLost'
    BY <1>14 DEF Drop, LetGo, NoClaim,
      Typed, Row, Claimed, Working, RowLocks, NoMoveIsLost
  <2>5. SettledOnce'
    BY <1>14 DEF Drop, LetGo, NoClaim,
      Typed, Row, Claimed, Working, SettledOnce
  <2>6. Noted'
    BY <1>14 DEF Drop, LetGo, NoClaim,
      Typed, Row, Claimed, Working, Noted, Fences
  <2> QED
    BY <2>1, <2>2, <2>3, <2>4, <2>5, <2>6
<1>15. CASE UNCHANGED vars
  BY <1>15 DEF vars, Typed, Fences, RowLocks, NoMoveIsLost, SettledOnce,
     Noted, Working
<1> QED
  BY <1>1, <1>2, <1>3, <1>4, <1>5, <1>6, <1>7, <1>8,
     <1>9, <1>10, <1>11, <1>12, <1>13, <1>14, <1>15 DEF Next
-----------------------------------------------------------------------------
\* In every behaviour, the tables stay well-typed, claims stay behind their
\* operation and apart from each other, row locks exclude each other, no
\* move of a run is lost and an operation is settled once.
THEOREM AlwaysIInv == Spec => []IInv
  BY InitIInv, StepIInv, PTL DEF Spec

\* Every reachable table is well-typed, and a worker that dies or drops its
\* claim leaves no transaction behind.
THEOREM TypeCorrect == Spec => []TypeOK
<1>1. IInv => TypeOK
  BY DEF IInv, TypeOK, RowLocks
<1> QED
  BY <1>1, AlwaysIInv, PTL

\* However leases run out and workers stall, at most one of the workers that
\* were given an operation can still settle, renew or move it.
THEOREM AtMostOneHolder == Spec => []OneHolder
<1>1. IInv => OneHolder
  BY DEF IInv, Fences, OneHolder, Holds, Current, Working
<1> QED
  BY <1>1, AlwaysIInv, PTL

\* An operation is settled, and its message written, exactly once.
THEOREM SettlesOnce == Spec => []SettledOnce
<1>1. IInv => SettledOnce
  BY DEF IInv
<1> QED
  BY <1>1, AlwaysIInv, PTL

\* No move of a run is computed from a phase the run no longer has.
THEOREM MovesAreKept == Spec => []NoMoveIsLost
<1>1. IInv => NoMoveIsLost
  BY DEF IInv
<1> QED
  BY <1>1, AlwaysIInv, PTL

\* The events of an operation are recorded claim after claim.
THEOREM EventsStayInOrder == Spec => EventsInOrder
<1>1. ASSUME IInv, [Next]_vars
      PROVE  [\A o \in Ops : noted'[o] >= noted[o]]_vars
  <2> SUFFICES ASSUME Next, NEW o \in Ops PROVE noted'[o] >= noted[o]
    BY <1>1
  <2>1. CASE \E w \in Workers : RecordEvent(w)
    BY <1>1, <2>1, OpOfClaim
    DEF RecordEvent, Free, Working, Current, IInv, Noted, Typed, Row, Claimed
  <2>2. CASE ~\E w \in Workers : RecordEvent(w)
    <3>1. UNCHANGED noted
      BY <2>2 DEF Next, Accept, Request, LeaseExpires, Due, Claim, Finish,
        Retry, Renew, Compare, Lock, Commit, Rollback, Drop
    <3> QED
      BY <1>1, <3>1 DEF IInv, Typed
  <2> QED
    BY <2>1, <2>2
<1> QED
  BY <1>1, AlwaysIInv, PTL DEF Spec, EventsInOrder
=============================================================================
