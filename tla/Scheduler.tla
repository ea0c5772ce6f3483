----------------------------- MODULE Scheduler -----------------------------
(***************************************************************************)
(* The reconciliation sweep: the Scheduler Durable Object's chain of       *)
(* alarms (worker/src/scheduler.ts), the front door's /ensure on every     *)
(* webhook (worker/src/index.ts) and what an item's Durable Object answers *)
(* when the sweep asks it (coordinate/reconcile.ts).                       *)
(*                                                                         *)
(* Time is counted in ticks and kept relative: how long until the alarm,   *)
(* how long since something happened, the latter no further than the       *)
(* sweep's threshold Quiet.  The platform is prompt: a due alarm rings     *)
(* before the next tick, and a sweep lasts at most SweepTime.              *)
(*                                                                         *)
(* An item is what the sweep sees of it, a trigger label with or without a *)
(* watchdog; what its coordinator does with events is Coordinator's part.  *)
(***************************************************************************)
EXTENDS Integers, FiniteSets

CONSTANTS Items,         \* the issues and PRs of one repository
          Interval,      \* SWEEP_MINUTES
          IdleInterval,  \* SWEEP_IDLE_MINUTES
          Quiet,         \* twice a routine's timeout
          SweepTime,     \* the longest a sweep lasts
          MaxRefires,    \* SWEEP_MAX_REFIRES
          MaxPeople,     \* bound: what people do in one behaviour
          MaxFaults      \* bound: failures in one behaviour

ASSUME SchedulerAssumption ==
  /\ {Interval, IdleInterval, Quiet, SweepTime, MaxRefires, MaxPeople, MaxFaults} \subseteq Nat
  /\ SweepTime < Interval
  /\ Interval <= IdleInterval

VARIABLES
  alarm,    \* ticks until the scheduler's alarm, or NoAlarm
  ringing,  \* the platform owes the scheduler a call of alarm()
  sweep,    \* the sweep alarm() is making
  off,      \* the repository's sweep is switched off on the dashboard
  mode,     \* what the sweep may do about each item (never changes)
  github,   \* what GitHub's list of open items says of each
  items,    \* what each item's Durable Object keeps
  history   \* what the properties remember

world == <<off, mode, github, items>>
vars == <<alarm, ringing, sweep, off, mode, github, items, history>>

NoAlarm == -1
Age == 0..Quiet

(* What the sweep may do about an item that was left behind: fire it again *)
(* ("enforced"), only log that it would ("shadow"), or read its CI gate    *)
(* again, which may have to wait for CI ("gated": AI_REVIEWING).           *)
Modes == {"enforced", "shadow", "gated"}

(* label: it carries a trigger label; updated: ticks since updated_at;     *)
(* moved: updated_at is newer than the item's last mark (items' done and   *)
(* reported); due: the label's webhook is still on its way.                *)
Listed == [label : BOOLEAN, updated : Age, moved : BOOLEAN, due : BOOLEAN]

(* watched: a fire is pending, with its alarm; logged: ticks since the     *)
(* last log row; done, reported: no log row is newer than the completed    *)
(* mark, or than the idle stretch a shadow sweep reported.                 *)
Item == [watched : BOOLEAN, logged : Age, done : BOOLEAN, reported : BOOLEAN]

Phases == {"none", "controls", "list", "ask"}
Sweep == [phase : Phases, todo : SUBSET Items, listed : [Items -> Listed], refired : Nat,
          live : BOOLEAN, errors : BOOLEAN, ensured : BOOLEAN, elapsed : 0..SweepTime]
NoSweep == [phase |-> "none", todo |-> {},
            listed |-> [i \in Items |-> [label |-> FALSE, updated |-> 0, moved |-> FALSE, due |-> FALSE]],
            refired |-> 0, live |-> FALSE, errors |-> FALSE, ensured |-> FALSE, elapsed |-> 0]

Sweeping == sweep.phase # "none"

(* The trigger label is on, nothing watches it, and its last run did not   *)
(* say it had finished.                                                    *)
LeftBehind(i) ==
  /\ github[i].label
  /\ ~items[i].watched
  /\ ~(items[i].done /\ ~github[i].moved)

(* The scheduler has a next sweep to come to, or is making one.            *)
ChainAlive == alarm # NoAlarm \/ ringing

(* The longest an item to be fired again can wait, in ticks.  The next     *)
(* sweep comes within IdleInterval; one that finds the item still active   *)
(* keeps the pace, so the first past Quiet comes within Interval of it;    *)
(* and the items ahead of it in the queue take MaxRefires a sweep.         *)
Eager == {i \in Items : mode[i] # "shadow"}
FoundBound ==
  LET first == IF Quiet + Interval > IdleInterval THEN Quiet + Interval ELSE IdleInterval
      turns == IF MaxRefires = 0 THEN 0 ELSE (Cardinality(Eager) - 1) \div MaxRefires
  IN  first + SweepTime + Interval * turns

----------------------------------------------------------------------------
(* What the properties remember: how long ago the first webhook came that  *)
(* no sweep has started since (-1: none); how long each item has waited to *)
(* be fired again; and how much people did and how much failed.  A failure *)
(* or the switch starts every item's wait afresh.                          *)

History == [hook : -1..(Interval + 1), waited : [Items -> Nat], people : 0..MaxPeople,
            faults : 0..MaxFaults]
NoWait == [i \in Items |-> 0]

Heard == [history EXCEPT !.hook = IF @ < 0 THEN 0 ELSE @]
Restarted(h, i) == [h EXCEPT !.waited[i] = 0]
Acted(h) == [h EXCEPT !.people = @ + 1]
CanAct == history.people < MaxPeople
Fault(h) == [h EXCEPT !.waited = NoWait, !.faults = @ + 1]
CanFail == history.faults < MaxFaults

Waits(i) == mode[i] = "enforced" /\ LeftBehind(i) /\ ~off /\ ChainAlive
Waited == [history EXCEPT
             !.hook = IF @ < 0 \/ @ > Interval THEN @ ELSE @ + 1,
             !.waited = [i \in Items |->
                IF Waits(i) THEN IF @[i] > FoundBound THEN @[i] ELSE @[i] + 1 ELSE 0]]

----------------------------------------------------------------------------
(* scheduler.ts *)

(* fetch /ensure: a missing alarm, or one slowed for a quiet spell, is     *)
(* brought to the normal interval; a sweep in flight will see it came.     *)
Ensured == [sweep EXCEPT !.ensured = Sweeping]
Ensure ==
  /\ alarm' = IF alarm = NoAlarm \/ alarm > Interval THEN Interval ELSE alarm
  /\ sweep' = Ensured

NextAlarmAfterSweep == NoAlarm

(* alarm(): the next alarm is set before anything else.                    *)
NextAlarm == Interval

StartSweep ==
  /\ ringing /\ ~Sweeping
  /\ ringing' = FALSE
  /\ alarm' = NextAlarm
  /\ sweep' = [NoSweep EXCEPT !.phase = "controls"]
  /\ history' = [history EXCEPT !.hook = -1]
  /\ UNCHANGED world

(* A repository that is switched off is skipped; if the switches cannot be *)
(* read nothing is swept, and the error keeps the pace.                    *)
ReadControls ==
  /\ sweep.phase = "controls"
  /\ \/ /\ sweep' = [sweep EXCEPT !.phase = IF off THEN "ask" ELSE "list"]
        /\ UNCHANGED history
     \/ /\ CanFail
        /\ sweep' = [sweep EXCEPT !.phase = "ask", !.errors = TRUE]
        /\ history' = Fault(history)
  /\ UNCHANGED <<alarm, ringing, world>>

(* openWithLabel, for every trigger label: the candidates, with the        *)
(* updated_at GitHub gives now.                                            *)
ListCandidates ==
  /\ sweep.phase = "list"
  /\ \/ /\ sweep' = [sweep EXCEPT !.phase = "ask", !.listed = github,
                                  !.todo = {i \in Items : github[i].label}]
        /\ UNCHANGED history
     \/ /\ CanFail
        /\ sweep' = [sweep EXCEPT !.phase = "ask", !.errors = TRUE]
        /\ history' = Fault(history)
  /\ UNCHANGED <<alarm, ringing, world>>

SlowedPastTheEnd(elapsed) == IdleInterval + elapsed
SlowsDownWhateverCame == ~sweep.live /\ ~sweep.errors

(* After the sweep: only a quiet one that no webhook came during slows the *)
(* chain, counted from when it started.                                    *)
Slowed(elapsed) == IdleInterval - elapsed
SlowsDown == ~sweep.live /\ ~sweep.errors /\ ~sweep.ensured

FinishSweep ==
  /\ sweep.phase = "ask" /\ sweep.todo = {}
  /\ alarm' = IF SlowsDown THEN Slowed(sweep.elapsed) ELSE alarm
  /\ sweep' = NoSweep
  /\ UNCHANGED <<ringing, history, world>>

(* The platform restarts the object: its sweep is lost, and alarm() may be *)
(* called again for it.                                                    *)
Evict ==
  /\ Sweeping /\ CanFail
  /\ sweep' = NoSweep
  /\ ringing' \in BOOLEAN
  /\ history' = Fault(history)
  /\ UNCHANGED <<alarm, world>>

----------------------------------------------------------------------------
(* reconcile.ts: an item asked whether it was left behind *)

IdleByLogAlone(i) == items[i].logged

(* Since its last activity: the newer of its last log row and updated_at,  *)
(* the latter as the sweep listed it.                                      *)
Idle(i) == IF items[i].logged < sweep.listed[i].updated
           THEN items[i].logged ELSE sweep.listed[i].updated
Moved(i) == sweep.listed[i].moved
Budget == sweep.refired < MaxRefires

Answer(i) ==
  IF items[i].watched THEN "watched"
  ELSE IF ~github[i].label THEN "not_triggered"
  ELSE IF Idle(i) < Quiet THEN "recent"
  ELSE IF items[i].done /\ ~Moved(i) THEN "completed"
  ELSE IF mode[i] = "gated" /\ Budget THEN "gated"
  ELSE IF mode[i] = "enforced" /\ Budget THEN "refired"
  ELSE IF items[i].reported /\ ~Moved(i) THEN "already_logged"
  ELSE "would_refire"

LiveAnswersButRecent == {"watched", "refired", "would_refire"}

(* The answers that keep the normal pace, beside a gate that acted.        *)
LiveAnswers == {"watched", "recent", "refired", "would_refire"}

Answered(i, live, refired) ==
  [sweep EXCEPT !.todo = @ \ {i}, !.live = @ \/ live,
                !.refired = IF refired THEN @ + 1 ELSE @]

(* fireWatched, or the merge or review gate that acted: the item is        *)
(* watched again and the re-fire is in its log.                            *)
Refired(i) ==
  /\ items' = [items EXCEPT ![i] = [watched |-> TRUE, logged |-> 0, done |-> FALSE, reported |-> FALSE]]
  /\ UNCHANGED github

(* One row for an idle stretch: the one the list gave.                     *)
Reported(i) ==
  /\ items' = [items EXCEPT ![i].done = FALSE, ![i].reported = TRUE]
  /\ github' = [github EXCEPT ![i].moved = @ /\ github[i].updated # sweep.listed[i].updated]

(* What a failed answer leaves: nothing; a pending fire armed, then        *)
(* refused and disarmed, or sent and not logged; a report not logged.      *)
FailsPartWay(i) ==
  \/ UNCHANGED <<github, items>>
  \/ /\ Answer(i) \in {"refired", "gated"}
     /\ \E watched \in BOOLEAN :
          items' = [items EXCEPT ![i].watched = watched, ![i].done = FALSE]
     /\ UNCHANGED github
  \/ /\ Answer(i) = "would_refire"
     /\ Reported(i)

Ask(i) ==
  /\ sweep.phase = "ask" /\ i \in sweep.todo
  /\ \/ /\ Answer(i) \in {"watched", "not_triggered", "recent", "completed", "already_logged"}
        /\ sweep' = Answered(i, Answer(i) \in LiveAnswers, FALSE)
        /\ UNCHANGED <<github, items, history>>
     \/ /\ Answer(i) \in {"refired", "gated"}
        /\ Refired(i)
        /\ sweep' = Answered(i, TRUE, TRUE)
        /\ history' = Restarted(history, i)
     \/ /\ Answer(i) = "gated"          \* CI is still running: nothing to do yet
        /\ sweep' = Answered(i, FALSE, FALSE)
        /\ UNCHANGED <<github, items, history>>
     \/ /\ Answer(i) = "would_refire"
        /\ Reported(i)
        /\ sweep' = Answered(i, TRUE, FALSE)
        /\ UNCHANGED history
     \/ /\ CanFail
        /\ FailsPartWay(i)
        /\ sweep' = [Answered(i, FALSE, FALSE) EXCEPT !.errors = TRUE]
        /\ history' = Fault(history)
  /\ UNCHANGED <<alarm, ringing, off, mode>>

----------------------------------------------------------------------------
(* The items' own lives, as the sweep sees them *)

(* A person puts a trigger label on, or takes it off and puts it back.     *)
PersonLabels(i) ==
  /\ ~github[i].due /\ CanAct
  /\ github' = [github EXCEPT ![i] = [label |-> TRUE, updated |-> 0, moved |-> TRUE, due |-> TRUE]]
  /\ history' = Acted(Restarted(history, i))
  /\ UNCHANGED <<alarm, ringing, sweep, off, mode, items>>

(* handleWebhook: /ensure first, and only then the item's object.  The     *)
(* label's routine is fired and watched, unless the fire is refused.       *)
Handled(i, fired) ==
  /\ github' = [github EXCEPT ![i].due = FALSE]
  /\ items' = [items EXCEPT ![i] = [watched |-> fired, logged |-> 0, done |-> FALSE, reported |-> FALSE]]
LabelWebhook(i) ==
  /\ github[i].due
  /\ \/ /\ Ensure
        /\ Handled(i, TRUE)
        /\ history' = Restarted(Heard, i)
     \/ /\ CanFail
        /\ Ensure
        /\ Handled(i, FALSE)
        /\ history' = Fault(Heard)
     \/ /\ CanFail                      \* ensureScheduler never fails the webhook
        /\ Handled(i, TRUE)
        /\ history' = Fault(history)
        /\ UNCHANGED <<alarm, sweep>>
  /\ UNCHANGED <<ringing, off, mode>>

(* The run's outcome comes as a comment: the label moves on.               *)
OutcomeWebhook(i) ==
  /\ items[i].watched
  /\ Ensure
  /\ github' = [github EXCEPT ![i] = [label |-> FALSE, updated |-> 0, moved |-> TRUE, due |-> FALSE]]
  /\ items' = [items EXCEPT ![i] = [watched |-> FALSE, logged |-> 0, done |-> FALSE, reported |-> FALSE]]
  /\ history' = Restarted(Heard, i)
  /\ UNCHANGED <<ringing, off, mode>>

(* The run says it is done by a signal, and its label change never comes:  *)
(* a signal does not come through the webhook, so nothing is ensured.      *)
Completed(i) ==
  /\ items[i].watched
  /\ items' = [items EXCEPT ![i].watched = FALSE, ![i].done = TRUE, ![i].reported = FALSE]
  /\ github' = [github EXCEPT ![i].moved = FALSE]
  /\ history' = Restarted(history, i)
  /\ UNCHANGED <<alarm, ringing, sweep, off, mode>>

(* A webhook that is not delivered, or a watchdog whose alarm the platform *)
(* gave up on.                                                             *)
WebhookLost(i) ==
  /\ github[i].due /\ CanFail
  /\ github' = [github EXCEPT ![i].due = FALSE]
  /\ history' = Fault(history)
  /\ UNCHANGED <<alarm, ringing, sweep, off, mode, items>>
WatchLost(i) ==
  /\ items[i].watched /\ CanFail
  /\ items' = [items EXCEPT ![i].watched = FALSE]
  /\ history' = Fault(history)
  /\ UNCHANGED <<alarm, ringing, sweep, off, mode, github>>

(* Any other webhook, of this repository or another.                       *)
OtherWebhook ==
  /\ Ensure
  /\ history' = Heard
  /\ UNCHANGED <<ringing, world>>

(* The dashboard's switch.                                                 *)
Switch ==
  /\ CanAct
  /\ off' = ~off
  /\ history' = Acted([history EXCEPT !.waited = NoWait])
  /\ UNCHANGED <<alarm, ringing, sweep, mode, github, items>>

----------------------------------------------------------------------------
(* The platform: time, alarms *)

Older(age) == IF age < Quiet THEN age + 1 ELSE age
OlderListed(list) == [i \in Items |-> [list[i] EXCEPT !.updated = Older(@)]]

Tick ==
  /\ alarm # 0 /\ ~ringing
  /\ sweep.elapsed < SweepTime \/ ~Sweeping
  /\ alarm' = IF alarm = NoAlarm THEN NoAlarm ELSE alarm - 1
  /\ sweep' = IF Sweeping
              THEN [sweep EXCEPT !.elapsed = @ + 1, !.listed = OlderListed(@)]
              ELSE sweep
  /\ github' = OlderListed(github)
  /\ items' = [i \in Items |-> [items[i] EXCEPT !.logged = Older(@)]]
  /\ history' = Waited
  /\ UNCHANGED <<ringing, off, mode>>

(* One alarm() at a time.                                                  *)
Ring ==
  /\ alarm = 0 /\ ~Sweeping
  /\ ringing' = TRUE
  /\ alarm' = NoAlarm
  /\ UNCHANGED <<sweep, history, world>>

(* The retries of an alarm() that never got to run are spent.              *)
GiveUp ==
  /\ ringing /\ CanFail
  /\ ringing' = FALSE
  /\ history' = Fault([history EXCEPT !.hook = -1])
  /\ UNCHANGED <<alarm, sweep, world>>

----------------------------------------------------------------------------
(* Labels may have been put on before there was a scheduler.               *)
Init ==
  /\ alarm = NoAlarm
  /\ ringing = FALSE
  /\ sweep = NoSweep
  /\ off = FALSE
  /\ mode \in [Items -> Modes]
  /\ \E old \in SUBSET Items :
       github = [i \in Items |-> [label |-> i \in old, updated |-> Quiet, moved |-> FALSE, due |-> FALSE]]
  /\ items = [i \in Items |-> [watched |-> FALSE, logged |-> Quiet, done |-> FALSE, reported |-> FALSE]]
  /\ history = [hook |-> -1, waited |-> NoWait, people |-> 0, faults |-> 0]

SchedulerSteps == StartSweep \/ ReadControls \/ ListCandidates \/ FinishSweep \/ Evict
ItemSteps == \E i \in Items :
  \/ Ask(i) \/ PersonLabels(i) \/ LabelWebhook(i) \/ OutcomeWebhook(i)
  \/ Completed(i) \/ WebhookLost(i) \/ WatchLost(i)
Next == SchedulerSteps \/ ItemSteps \/ OtherWebhook \/ Switch \/ Tick \/ Ring \/ GiveUp

Spec == Init /\ [][Next]_vars

----------------------------------------------------------------------------
(* Every variable has its shape: an alarm is never further off than the    *)
(* idle interval, a sweep never runs past its time.                        *)
TypeOK ==
  /\ alarm \in NoAlarm..IdleInterval
  /\ ringing \in BOOLEAN
  /\ sweep \in Sweep
  /\ off \in BOOLEAN
  /\ mode \in [Items -> Modes]
  /\ github \in [Items -> Listed]
  /\ items \in [Items -> Item]
  /\ history \in History

(* "each alarm sets the next one before doing any work, so a sweep that    *)
(* fails (or throws) keeps the chain going" (scheduler.ts:8): only the     *)
(* platform giving up on an alarm() that never ran ends the chain.         *)
ChainKept == [][ChainAlive => ChainAlive' \/ GiveUp]_vars

(* "every webhook calls /ensure, which ... brings a slow one back to the   *)
(* normal interval" (scheduler.ts:14): however webhooks interleave with    *)
(* sweeps that slow the chain, the next sweep starts within Interval.      *)
EnsureKeepsPace == history.hook <= Interval

(* The sweep is there for what nothing else will notice: with no further   *)
(* failure, an item left behind with no webhook to speed the sweep up is   *)
(* still fired again in bounded time, the slow pace and the cap on         *)
(* re-fires (scheduler.ts:176) notwithstanding.                            *)
FoundInTime == \A i \in Items : history.waited[i] <= FoundBound

(* A re-fire of an item whose label's webhook is still on its way.         *)
FiresAlongside(i) == ~items[i].watched /\ items'[i].watched /\ github[i].due /\ github'[i].due

(* The sweep re-fires an item beside the webhook of its label only if the  *)
(* label came after the sweep's list (reconcile.ts:95).                    *)
AlongsideOnlyUnlisted ==
  [][\A i \in Items : FiresAlongside(i) => ~sweep.listed[i].due \/ sweep.listed[i].updated >= Quiet]_vars

(* "a label added a moment ago (its webhook not handled yet) is recent, so *)
(* the sweep doesn't fire alongside it" (reconcile.ts:96).                 *)
NeverAlongside == [][\A i \in Items : FiresAlongside(i) => github[i].updated >= Quiet]_vars
=============================================================================
