---------------------------- MODULE RoutineSignal ----------------------------
(***************************************************************************)
(* The direct channel from a session (coordinate/routine-signal.ts): a     *)
(* heartbeat starts the watchdog again, a completion ends it, an outcome   *)
(* is applied like its comment, and "ended" is the watchdog's expiry at    *)
(* once.  ("blocked" does to the pending fire what a heartbeat does.)      *)
(*                                                                         *)
(* A signal names its routine, not its fire.                               *)
(***************************************************************************)
EXTENDS Watchdog

(* The fire a signal is taken to be of.  One waiting out a rate limit has  *)
(* no run yet, so no signal is of it.                                      *)
Live(s) == pending.run = s.run /\ ~pending.deferred

Handled(s) == hooks' = hooks \ {s}

(* No such fire; or an outcome its comment has already carried.            *)
IgnoreSignal(s) ==
  /\ Idle
  /\ s \in hooks
  /\ s.by = "session"
  /\ ~Live(s) \/ (s.event \notin SignalKinds /\ AlreadyApplied(s))
  /\ Handled(s)
  /\ UNCHANGED <<github, posted, runs, fires, watch, counts, applied, job>>

Heartbeat(s) ==
  /\ Idle
  /\ s \in hooks
  /\ s.by = "session"
  /\ s.event = "process"
  /\ Live(s)
  /\ Handled(s)
  /\ SetPendingFire([pending EXCEPT !.stepped = TRUE])
  /\ UNCHANGED <<github, posted, runs, fires, ringing, counts, applied, job>>

Completion(s) ==
  /\ Idle
  /\ s \in hooks
  /\ s.by = "session"
  /\ s.event = "completion"
  /\ Live(s)
  /\ Handled(s)
  /\ ClearPendingFire
  /\ UNCHANGED <<github, posted, runs, fires, ringing, counts, applied, job>>

(* The outcome goes through the webhook path, as its comment would.        *)
TakeOutcome(s) ==
  /\ Idle
  /\ s \in hooks
  /\ s.by = "session"
  /\ s.event \notin SignalKinds
  /\ Live(s)
  /\ ~AlreadyApplied(s)
  /\ HandleEvent(Begin(s, "signal"))
  /\ UNCHANGED <<github, hooks, posted, runs, fires, watch, applied>>

(* Applied, the rule has cleared or replaced the fire: one still this fire *)
(* (a rule that left it) is ended here.                                    *)
ReturnOutcome ==
  /\ job.pc = "return"
  /\ job.src = "signal"
  /\ RememberApplied(job)
  /\ Handled(job.hook)
  /\ IF job.applied /\ SameFire(job.old) THEN ClearPendingFire ELSE KeepPendingFire
  /\ job' = NoJob
  /\ UNCHANGED <<github, posted, runs, fires, ringing, counts>>

(* The session ended without an outcome: the expiry, with no second try.   *)
EndFire(s) ==
  /\ Idle
  /\ s \in hooks
  /\ s.by = "session"
  /\ s.event = "ended"
  /\ Live(s)
  /\ Handled(s)
  /\ job' = IF Enforced("WATCHDOG_EXPIRED")
            THEN [NoJob EXCEPT !.src = "ended", !.pc = "recover", !.old = pending, !.left = posted]
            ELSE [NoJob EXCEPT !.src = "ended", !.pc = "expire", !.old = pending]
  /\ UNCHANGED <<github, posted, runs, fires, watch, counts, applied>>

SignalStep ==
  \/ \E s \in hooks : \/ IgnoreSignal(s)
                      \/ Heartbeat(s)
                      \/ Completion(s)
                      \/ TakeOutcome(s)
                      \/ EndFire(s)
  \/ ReturnOutcome
=============================================================================
