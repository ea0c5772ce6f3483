------------------------------ MODULE Watchdog ------------------------------
(***************************************************************************)
(* The alarm of one item's Durable Object (coordinate/watchdog.ts): a fire *)
(* kept back by a rate limit is sent; a run that has not answered in time  *)
(* has its outcome comment looked for, is fired once more if it never      *)
(* started, and is given up on otherwise.                                  *)
(*                                                                         *)
(* Alarms are delivered at least once: `ringing` stays TRUE until a call   *)
(* of the handler has returned without throwing.                           *)
(***************************************************************************)
EXTENDS Webhook

CONSTANT WatchdogRetry   \* this repository's watchdog fires a silent run again

ASSUME RetryAssumption == WatchdogRetry \in BOOLEAN

(* Time is not modelled: an alarm that is set may go off at any moment.    *)
Ring ==
  /\ alarm
  /\ ~ringing
  /\ alarm' = FALSE
  /\ ringing' = TRUE
  /\ pending' = [pending EXCEPT !.due = TRUE]
  /\ UNCHANGED <<github, hooks, posted, runs, fires, counts, applied, job>>

AlarmJob(pc) == [NoJob EXCEPT !.src = "alarm", !.pc = pc, !.old = pending]

(* What the alarm does with a run that did not answer, a session's "ended" *)
(* signal does at once (coordinate/routine-signal.ts).                     *)
OfExpiry == job.src \in {"alarm", "ended"} /\ ~job.replays

(* An alarm's handler has returned.                                        *)
StopRinging == ringing' = IF job.src = "alarm" THEN FALSE ELSE ringing

(* Nothing pending, or a fire armed since: this alarm is not for it.       *)
AlarmForNothing ==
  /\ Idle
  /\ ringing
  /\ ~pending.due
  /\ ringing' = FALSE
  /\ UNCHANGED <<github, hooks, posted, runs, fires, pending, alarm, counts, applied, job>>

----------------------------------------------------------------------------
(* A deferred fire: dropped if the labels no longer lead to its run, else  *)
(* armed and sent as a new fire.  Labels that cannot be read send it too.  *)

(* A rule that stands for a fire made outside applyEvent.                  *)
FireOf(run) == CHOOSE r \in Rules : r.run = run

FireAgain(then, retriedNow) ==
  [AlarmJob("write") EXCEPT !.event = pending.cause, !.then = then, !.applied = TRUE,
                            !.rule = FireOf(pending.run), !.retried = retriedNow]

DropDeferred ==
  /\ Idle
  /\ ringing
  /\ pending.due
  /\ pending.deferred
  /\ ~StillWanted(DeriveState(labels), pending.run)
  /\ ClearPendingFire
  /\ ringing' = FALSE
  /\ UNCHANGED <<github, hooks, posted, runs, fires, counts, applied, job>>

SendDeferred ==
  /\ Idle
  /\ ringing
  /\ pending.due
  /\ pending.deferred
  /\ StillWanted(DeriveState(labels), pending.run)
  /\ job' = FireAgain("deferred", pending.retried)
  /\ UNCHANGED <<github, hooks, posted, runs, fires, watch, counts, applied>>

(* The read fails: sent whatever the labels say.                           *)
SendDeferredUnread ==
  /\ Idle
  /\ ringing
  /\ pending.due
  /\ pending.deferred
  /\ job' = FireAgain("deferred", pending.retried)
  /\ UNCHANGED <<github, hooks, posted, runs, fires, watch, counts, applied>>

----------------------------------------------------------------------------
(* A run that did not answer.  Where the watchdog is enforced its outcome  *)
(* comments are read first, and replayed newest first through the webhook  *)
(* path until one applies.                                                 *)

StartExpiryNotYetDue ==
  /\ Idle
  /\ ringing
  /\ pending # NoFire
  /\ ~pending.deferred
  /\ job' = IF Enforced("WATCHDOG_EXPIRED")
            THEN [AlarmJob("recover") EXCEPT !.left = posted]
            ELSE AlarmJob("expire")
  /\ UNCHANGED <<github, hooks, posted, runs, fires, watch, counts, applied>>

StartExpiry ==
  /\ Idle
  /\ ringing
  /\ pending.due
  /\ ~pending.deferred
  /\ job' = IF Enforced("WATCHDOG_EXPIRED")
            THEN [AlarmJob("recover") EXCEPT !.left = posted]
            ELSE AlarmJob("expire")
  /\ UNCHANGED <<github, hooks, posted, runs, fires, watch, counts, applied>>

(* The comments cannot be read: as if there were none.                     *)
StartExpiryUnread ==
  /\ Idle
  /\ ringing
  /\ pending.due
  /\ ~pending.deferred
  /\ Enforced("WATCHDOG_EXPIRED")
  /\ job' = AlarmJob("recover")
  /\ UNCHANGED <<github, hooks, posted, runs, fires, watch, counts, applied>>

Replay ==
  /\ job.pc = "recover"
  /\ job.left # <<>>
  /\ HandleEvent([Begin(job.left[Len(job.left)], job.src)
                     EXCEPT !.replays = TRUE, !.left = SubSeq(job.left, 1, Len(job.left) - 1)])
  /\ UNCHANGED <<github, hooks, posted, runs, fires, watch, applied>>

(* An outcome applied: that was the run's end, unless its rule has already *)
(* cleared or replaced the fire.                                           *)
ReplayApplied ==
  /\ job.pc = "return"
  /\ job.replays
  /\ job.applied
  /\ RememberApplied(job)
  /\ IF SameFire(job.old) THEN ClearPendingFire ELSE KeepPendingFire
  /\ StopRinging
  /\ reworkExpired' = FALSE
  /\ job' = NoJob
  /\ UNCHANGED <<github, hooks, posted, runs, fires,
                 ciFix, reviewLoop, reviewReworks, mergeFiredFor>>

(* It did not: on to the one before it.  Its delivery id stays claimed, so *)
(* a later alarm does not replay it again.                                 *)
Without(s, i) == [k \in 1..(Len(s) - 1) |-> IF k < i THEN s[k] ELSE s[k + 1]]

BackToExpiry(pc) == [NoJob EXCEPT !.src = job.src, !.pc = pc, !.old = job.old, !.left = job.left]

ReplayNotApplied ==
  /\ job.pc = "return"
  /\ job.replays
  /\ ~job.applied
  /\ posted' = Without(posted, Len(job.left) + 1)
  /\ job' = BackToExpiry("recover")
  /\ UNCHANGED <<github, hooks, runs, fires, watch, counts, applied>>

----------------------------------------------------------------------------
(* No outcome: a run that never reported a step is fired again, once.      *)
RetryOnce ==
  /\ job.pc = "recover"
  /\ job.left = <<>>
  /\ job' = IF /\ WatchdogRetry
               /\ job.src = "alarm"
               /\ ~job.old.retried
               /\ ~job.old.stepped
               /\ IsWatched(DeriveState(labels))
            THEN FireAgain("retry", TRUE)
            ELSE BackToExpiry("expire")
  /\ UNCHANGED <<github, hooks, posted, runs, fires, watch, counts, applied>>

ExpiryClaimsAnyRun(run) == TRUE

ExpiryClaims(run) == run = "rework-loop"

(* The expiry: a rework's is recorded before the label write, so that a    *)
(* retry after a failure in between still finds it.                        *)
Expire ==
  /\ job.pc = "expire"
  /\ reworkExpired' = IF Enforced("WATCHDOG_EXPIRED")
                      THEN ExpiryClaims(job.old.run) ELSE reworkExpired
  /\ job' = ApplyEvent([job EXCEPT !.seen = labels], "WATCHDOG_EXPIRED", "expiry")
  /\ UNCHANGED <<github, hooks, posted, runs, fires, watch,
                 ciFix, reviewLoop, reviewReworks, mergeFiredFor, applied>>

(* The pending fire is cleared last.                                       *)
AfterExpiry ==
  /\ job.pc = "after"
  /\ job.then = "expiry"
  /\ reworkExpired' = IF /\ Enforced("WATCHDOG_EXPIRED")
                         /\ ~job.applied
                         /\ DeriveState(job.seen) # "AI_STUCK"
                      THEN FALSE ELSE reworkExpired
  /\ ClearPendingFire
  /\ StopRinging
  /\ job' = NoJob
  /\ UNCHANGED <<github, hooks, posted, runs, fires,
                 ciFix, reviewLoop, reviewReworks, mergeFiredFor, applied>>

(* A deferred fire, or the one retry, is out (or deferred again); a retry  *)
(* that went out is said on the item.                                      *)
AfterFiredAgain ==
  /\ job.pc = "after"
  /\ job.then \in {"deferred", "retry"}
  /\ job' = [job EXCEPT !.pc = IF job.then = "retry" /\ ~pending.deferred
                               THEN "comment" ELSE "return"]
  /\ UNCHANGED <<github, hooks, posted, runs, fires, watch, counts, applied>>

ReturnAlarm ==
  /\ job.pc = "return"
  /\ job.src = "alarm"
  /\ ~job.replays
  /\ ringing' = FALSE
  /\ job' = NoJob
  /\ UNCHANGED <<github, hooks, posted, runs, fires, pending, alarm, counts, applied>>

----------------------------------------------------------------------------
(* Failures.  A throwing handler is called again: `ringing` stays.         *)

ThrowAlarm ==
  /\ OfExpiry
  /\ job.pc \in {"expire", "write", "after", "comment"}
  /\ ~(job.then = "deferred" /\ job.pc # "write")
  /\ job' = NoJob
  /\ UNCHANGED <<github, hooks, posted, runs, fires, watch, counts, applied>>

(* A replay that throws with its fire still pending had no effect, and the *)
(* expiry goes on; one that moved on is rethrown.                          *)
ThrowReplay ==
  /\ job.replays
  /\ job.pc \in OutsideCall
  /\ job' = IF SameFire(job.old) THEN [BackToExpiry("recover") EXCEPT !.left = <<>>] ELSE NoJob
  /\ UNCHANGED <<github, hooks, posted, runs, fires, watch, counts, applied>>

(* A refused fire is disarmed.  The one retry's refusal goes on to the     *)
(* expiry of the fire it replaced; any other is rethrown.                  *)
RefuseAlarm ==
  /\ job.src \in {"alarm", "ended"}
  /\ job.pc = "send"
  /\ Enforced(job.event)
  /\ ClearPendingFire
  /\ job' = IF job.then = "retry" THEN BackToExpiry("expire") ELSE NoJob
  /\ UNCHANGED <<github, hooks, posted, runs, fires, ringing, counts, applied>>

(* The object crashes: the alarm is delivered again.  A replayed comment's *)
(* delivery id was claimed, so it is not replayed again.  (Once its rule   *)
(* has armed another fire, the comments looked for are that fire's.)       *)
CrashAlarm ==
  /\ job.src \in {"alarm", "ended"}
  /\ posted' = IF job.replays /\ SameFire(job.old)
               THEN Without(posted, Len(job.left) + 1) ELSE posted
  /\ job' = NoJob
  /\ UNCHANGED <<github, hooks, runs, fires, watch, counts, applied>>

(* Alarm retries are bounded: in the end the platform gives up.            *)
GiveUp ==
  /\ Idle
  /\ ringing
  /\ ringing' = FALSE
  /\ UNCHANGED <<github, hooks, posted, runs, fires, pending, alarm, counts, applied, job>>

WatchdogStep ==
  \/ AlarmForNothing
  \/ DropDeferred
  \/ SendDeferred
  \/ StartExpiry
  \/ Replay
  \/ ReplayApplied
  \/ ReplayNotApplied
  \/ RetryOnce
  \/ Expire
  \/ AfterExpiry
  \/ AfterFiredAgain
  \/ ReturnAlarm
=============================================================================
