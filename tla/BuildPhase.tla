----------------------------- MODULE BuildPhase -----------------------------
(***************************************************************************)
(* The phases of a build attempt (ADR-028), package core/ops/build, and    *)
(* what the build worker plans from a phase (build/steps.go), both without *)
(* any I/O.  Builds runs its workers with these operators.                 *)
(***************************************************************************)
EXTENDS Naturals, Sequences

Terminal == {"succeeded", "failed", "cancelled"}

\* Nothing was created for the attempt yet.
Waiting == {"queued", "blocked"}

\* The Job runs, or its output is being checked.
Active == {"preparing", "running", "publishing", "verifyingOutput"}

Stopping == {"cancelRequested", "cancelling"}

\* Phases in which the attempt may hold a build slot and a Job.
HoldsSlot == Active \cup Stopping

Phase == Waiting \cup HoldsSlot \cup Terminal

\* Reports of the Job's progress: while stopping they change nothing.
Reports == {"started", "building", "publishing", "published"}

Event == Reports \cup {"blocked", "unblocked", "verified", "failed",
                       "cancelRequested", "stopping", "stopped"}

\* Not a phase: what an event that is refused leads to.
Illegal == "illegal"

\* Phase.Apply: the phase after event e in phase p.
Apply(p, e) ==
  CASE p \in Waiting /\ e = "blocked"                       -> "blocked"
    [] p = "blocked" /\ e = "unblocked"                     -> "queued"
    [] p = "queued" /\ e = "started"                        -> "preparing"
    [] p = "preparing" /\ e = "building"                    -> "running"
    [] p = "running" /\ e = "publishing"                    -> "publishing"
    [] p = "publishing" /\ e = "published"                  -> "verifyingOutput"
    [] p \in Stopping \cup {"verifyingOutput"}
         /\ e = "verified"                                  -> "succeeded"
    [] p \in Waiting /\ e = "cancelRequested"               -> "cancelled"
    [] p \in Active /\ e = "cancelRequested"                -> "cancelRequested"
    [] p \in Stopping /\ e \in Reports \cup {"cancelRequested"} -> p
    [] p \in Stopping /\ e = "stopping"                     -> "cancelling"
    [] p \in Stopping /\ e = "stopped"                      -> "cancelled"
    [] p = "cancelling" /\ e = "failed"                     -> "cancelled"
    [] p \in Waiting \cup Active \cup {"cancelRequested"}
         /\ e = "failed"                                    -> "failed"
    [] OTHER                                                -> Illegal

\* The phase after up to three events, in order (apply in attempt.go).
After(p, events) ==
  CASE Len(events) = 0 -> p
    [] Len(events) = 1 -> Apply(p, events[1])
    [] Len(events) = 2 -> Apply(Apply(p, events[1]), events[2])
    [] OTHER -> Apply(Apply(Apply(p, events[1]), events[2]), events[3])

-----------------------------------------------------------------------------
(* What a claim of the attempt's operation does, steps.go.                 *)

NextFor(p, cancel) ==
  CASE p \in Terminal           -> "settle"
    [] p \in Waiting /\ cancel  -> "cancelQueued"
    [] p \in Waiting /\ ~cancel -> "admit"
    [] OTHER                    -> "observe"

\* toCancelling
ToCancelling(p) ==
  CASE p \in Active            -> <<"cancelRequested", "stopping">>
    [] p = "cancelRequested"   -> <<"stopping">>
    [] OTHER                   -> <<>>

\* toVerifying
ToVerifying(p) ==
  CASE p = "preparing"  -> <<"building", "publishing", "published">>
    [] p = "running"    -> <<"publishing", "published">>
    [] p = "publishing" -> <<"published">>
    [] OTHER            -> <<>>

\* What a Job shows: a verdict of outcome.Classify, with its digest.
Verdict == {"pending", "building", "finished", "forged", "failed", "lost",
            "gone"}

Digest == {"none", "good", "bad"}

\* Defect: the output is taken as it is, not read.
DigestUnread(v) == v

\* The digest a finished Job reported: "bad" is not in the registry.
DigestOf(v) ==
  CASE v = "finished" -> "good" [] v = "forged" -> "bad" [] OTHER -> "none"

Plan(kind, events, digest, code) ==
  [kind |-> kind, events |-> events, digest |-> digest, code |-> code]

\* planStop
PlanStop(p, v, reported) ==
  LET digest == IF DigestOf(v) = "none" /\ p = "verifyingOutput"
                THEN reported ELSE DigestOf(v)
      events == ToCancelling(p)
  IN IF digest # "none"
     THEN Plan("verify",
               IF p \in Stopping THEN <<>> ELSE <<"cancelRequested">>,
               digest, "none")
     ELSE IF v \in {"gone", "failed", "lost"}
     THEN Plan("cancelled", Append(events, "stopped"), "none", "none")
     ELSE Plan("stop", events, "none", "none")

\* Defect: every Job that is gone was stopped.
PlanStopAlways(p, cancel, v, reported) == PlanStop(p, v, reported)

\* PlanFor
PlanFor(p, cancel, v, reported) ==
  CASE p = "verifyingOutput" /\ ~cancel /\ reported # "none" ->
         Plan("verify", <<>>, reported, "none")
    [] p = "verifyingOutput" /\ ~cancel /\ reported = "none" ->
         Plan("fail", <<>>, "none", "rejected")
    [] cancel \/ p \in Stopping -> PlanStop(p, v, reported)
    [] OTHER ->
         CASE v = "building" ->
                Plan("wait",
                     IF p = "preparing" THEN <<"building">> ELSE <<>>,
                     "none", "none")
           [] v = "pending" -> Plan("wait", <<>>, "none", "none")
           [] v \in {"finished", "forged"} ->
                Plan("verify", ToVerifying(p), DigestOf(v), "none")
           [] v = "failed" -> Plan("fail", <<>>, "none", "build")
           [] v \in {"lost", "gone"} -> Plan("fail", <<>>, "none", "lostWorker")
=============================================================================
