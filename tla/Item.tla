-------------------------------- MODULE Item --------------------------------
(***************************************************************************)
(* One issue or PR: its side on GitHub, its Durable Object's storage, and  *)
(* the one request the object is working on.                               *)
(*                                                                         *)
(* A request runs start to finish before the next one (the object's serial *)
(* queue), but not in one step: every call to GitHub or to the routines    *)
(* API is a step of its own, between which people, CI and running routines *)
(* act.  The variable job holds the request in progress and its program    *)
(* counter.  The object's own storage is only ever touched by the request  *)
(* in progress, so writes to it with no outside call between them are one  *)
(* step.                                                                   *)
(***************************************************************************)
EXTENDS Graph, MergeGate

CONSTANTS
  ModeEnforced,       \* MODE = enforce: label writes and fires are real
  WatchdogEnforced,   \* WATCHDOG = enforce: so are the watchdog's
  CiFixAttempts,      \* caps.ciFixAttempts
  ReviewReworks,      \* caps.reviewReworks
  BotReviewReworks    \* caps.botReviewReworks

ASSUME SwitchesAssumption ==
  ModeEnforced \in BOOLEAN /\ WatchdogEnforced \in BOOLEAN
ASSUME CapsAssumption ==
  /\ CiFixAttempts \in Nat \ {0}
  /\ ReviewReworks \in Nat \ {0}
  /\ BotReviewReworks \in Nat \ {0}

VARIABLES
  \* GitHub's side
  labels,         \* the tracked labels on the item
  closed,         \* whether it is closed (a PR: merged or closed)
  head,           \* the PR's head commit, numbered
  ci,             \* the state of CI on head
  mergeable,      \* what stands against merging head
  hooks,          \* on their way to the item: webhooks, and sessions' signals
  posted,         \* outcome comments of the pending run since it was fired
  \* the routines' side
  runs,           \* sessions started and not ended, each with its fire's number
  fires,          \* how many fires have been armed: the last one's number
  \* the Durable Object's storage, and its alarm
  pending,        \* pendingFire
  alarm,          \* its alarm is set
  ringing,        \* its alarm has gone off and its handler has not succeeded
  ciFix,          \* CI-fix reworks: attempts, one out, where its push returns
  reviewLoop,     \* review-loop's own rounds
  reviewReworks,  \* rework rounds asked for by people
  reworkExpired,  \* the watchdog gave up on a rework-loop run
  mergeFiredFor,  \* the commit merge-flow was re-fired for
  applied,        \* per routine, the outcome applied for its last fire
  \* the Durable Object's memory
  job             \* the request being handled

github  == <<labels, closed, head, ci, mergeable>>
counts  == <<ciFix, reviewLoop, reviewReworks, reworkExpired, mergeFiredFor>>
watch   == <<pending, alarm, ringing>>
vars    == <<github, hooks, posted, runs, fires, watch, counts, applied, job>>

----------------------------------------------------------------------------
(* Stored values.  Where the code keeps null, the model keeps the record   *)
(* every reader treats alike.                                              *)

NoFire   == [run |-> NoRun, gen |-> 0, cause |-> "none", deferred |-> FALSE,
             unwatched |-> FALSE, due |-> FALSE, retried |-> FALSE, stepped |-> FALSE]
NoCiFix  == [attempts |-> 0, pending |-> FALSE, returnTo |-> "AUTO_MERGING"]
NoReview == [on |-> FALSE, rounds |-> 0, fixPending |-> FALSE]
NoOutcome == [event |-> "none", gen |-> 0]

(* A webhook, by the event translate() reads it as, the routine an outcome *)
(* comment names (or NoRun), and a number that tells like ones apart.      *)
(* "CHECKS" is check_suite.completed, "CLOSED" a PR closed unmerged.       *)
(* A session's direct signal carries an outcome, or one of SignalKinds.    *)
(* Both say which routine, neither which fire: n is for telling them apart.*)
Hook(event, run, n)   == [by |-> "github", event |-> event, run |-> run, n |-> n]
Signal(event, run, n) == [by |-> "session", event |-> event, run |-> run, n |-> n]
SignalKinds == {"process", "completion", "ended"}
NoHook   == Hook("none", NoRun, 0)
NoRule   == Rule("none", "none", "noop", NoRun)

NoJob ==
  [pc      |-> "idle",   \* the step it is at
   src     |-> "none",   \* a webhook, an outcome signal, the alarm, an ended signal
   replays |-> FALSE,    \* it replays an outcome comment the last two found
   hook    |-> NoHook,   \* the webhook, signal or comment handled
   seen    |-> {},       \* the labels as it read them
   event   |-> "none",   \* the event it applies
   then    |-> "none",   \* what the handler does once it is applied
   applied |-> FALSE,    \* whether a rule applied
   rule    |-> NoRule,   \* that rule
   ops     |-> <<>>,     \* its GitHub calls still to make
   late    |-> {},       \* what a late push ends once its rule is applied
   head    |-> 0,        \* the commit its gate looked at
   retried |-> FALSE,    \* the fire it arms is the watchdog's one retry
   old     |-> NoFire,   \* the pending fire it started from
   left    |-> <<>>]     \* outcome comments still to replay

Idle == job = NoJob

----------------------------------------------------------------------------
(* The shapes of all of that.                                              *)

JobSources == {"none", "webhook", "signal", "alarm", "ended"}
ProgramCounters == {"idle", "begin", "facts", "write", "send", "after", "count", "comment",
          "return", "recover", "expire"}
Thens == {"none", "tail", "capped", "review", "reviewFix", "findings", "mergeLabel", "mergeFix",
          "checks", "mergeFired", "passed", "block", "done", "deferred", "retry", "expiry"}

AnyEvent   == Events \cup {"none", "CHECKS", "CLOSED"} \cup SignalKinds
FireType   == [run : AnyRun, gen : Nat, cause : AnyEvent, deferred : BOOLEAN, unwatched : BOOLEAN,
               due : BOOLEAN, retried : BOOLEAN, stepped : BOOLEAN]
CiFixType  == [attempts : Nat, pending : BOOLEAN, returnTo : {"AUTO_MERGING", "AI_REVIEWING"}]
ReviewType == [on : BOOLEAN, rounds : Nat, fixPending : BOOLEAN]
ReportType == [by : {"github"}, event : AnyEvent, run : Routines, n : Nat]
HookType   == [by : {"github"}, event : AnyEvent, run : AnyRun, n : Nat]
              \cup [by : {"session"}, event : AnyEvent, run : Routines, n : Nat]
SessionType == [run : Routines, gen : Nat, cause : AnyEvent, head : Nat, twin : BOOLEAN]
AppliedType == [event : AnyEvent, gen : Nat]
JobType    ==
  [pc : ProgramCounters, src : JobSources, replays : BOOLEAN, hook : HookType, seen : SUBSET Labels,
   event : AnyEvent, then : Thens, applied : BOOLEAN, rule : RuleType \cup {NoRule},
   ops : Seq(OpType), late : SUBSET {"ciFix", "reviewLoop", "reworkExpired"}, head : Nat,
   retried : BOOLEAN, old : FireType, left : Seq(ReportType)]

(* Every variable of the item has its shape.                               *)
ItemTypeOK ==
  /\ labels \in SUBSET Labels
  /\ closed \in BOOLEAN
  /\ head \in Nat
  /\ ci \in CiStates
  /\ mergeable \in MergeStates
  /\ hooks \in SUBSET HookType
  /\ posted \in Seq(ReportType)
  /\ runs \in SUBSET SessionType
  /\ fires \in Nat
  /\ pending \in FireType
  /\ alarm \in BOOLEAN
  /\ ringing \in BOOLEAN
  /\ ciFix \in CiFixType
  /\ reviewLoop \in ReviewType
  /\ reviewReworks \in Nat
  /\ reworkExpired \in BOOLEAN
  /\ mergeFiredFor \in Nat
  /\ applied \in [Routines -> AppliedType]
  /\ job \in JobType

----------------------------------------------------------------------------
(* Definitions named for a slip, here and below, are what the one after    *)
(* them could have been by mistake: the properties tell them apart.        *)
EnforcedByModeAlone(event) == ModeEnforced

(* Whether an event's writes are real.                                     *)
Enforced(event) ==
  ModeEnforced /\ (event = "WATCHDOG_EXPIRED" => WatchdogEnforced)

(* The DO's setPendingFire: the fire, and an alarm for it.                 *)
SetPendingFireUnarmed(fire) ==
  /\ pending' = [fire EXCEPT !.due = FALSE]
  /\ alarm' = alarm

SetPendingFire(fire) ==
  /\ pending' = [fire EXCEPT !.due = FALSE]
  /\ alarm' = TRUE

ClearPendingFire ==
  /\ pending' = NoFire
  /\ alarm' = FALSE

KeepPendingFire == UNCHANGED <<pending, alarm>>

(* Whether the pending fire is still the one a job started from.           *)
SameFire(fire) == pending.run = fire.run /\ pending.gen = fire.gen

----------------------------------------------------------------------------
(* applyEvent: the rule for an event on the labels the handler read.  No   *)
(* rule, or ambiguous labels, and nothing is written.                      *)
ApplyEvent(j, event, then) ==
  LET state == StateBefore(j.seen, event)
      known == state # "ambiguous" /\ HasRule(state, event)
      base  == [j EXCEPT !.event = event, !.then = then, !.applied = known]
  IN  IF known
      THEN [base EXCEPT !.pc = "write", !.rule = Reduce(state, event),
                        !.ops = LabelOps(j.seen, Reduce(state, event))]
      ELSE [base EXCEPT !.pc = "after", !.rule = NoRule, !.ops = <<>>]

Returns(j, appliedNow) == [j EXCEPT !.pc = "return", !.applied = appliedNow]

(* One GitHub call of the rule.  A shadow event's calls are skipped.  The  *)
(* webhook of a label the Worker's own bot changed is dropped by           *)
(* translate(), so none is due; a close's is not.                          *)
WriteLabel ==
  /\ job.pc = "write"
  /\ job.ops # <<>>
  /\ job' = [job EXCEPT !.ops = Tail(@)]
  /\ LET op == Head(job.ops)
     IN  /\ labels' = IF ~Enforced(job.event) THEN labels
                      ELSE CASE op.op = "remove" -> labels \ {op.label}
                             [] op.op = "add"    -> labels \cup {op.label}
                             [] OTHER            -> labels
         /\ IF op.op = "close" /\ Enforced(job.event) /\ ~closed
            THEN closed' = TRUE /\ hooks' = hooks \cup {Hook("ISSUE_CLOSED", NoRun, 0)}
            ELSE UNCHANGED <<closed, hooks>>
  /\ UNCHANGED <<head, ci, mergeable, posted, runs, fires, watch, counts, applied>>

(* The labels are written: a rule that fires nothing ends the watch.       *)
EndWatch ==
  /\ job.pc = "write"
  /\ job.ops = <<>>
  /\ job.rule.run = NoRun
  /\ ClearPendingFire
  /\ job' = [job EXCEPT !.pc = "after"]
  /\ UNCHANGED <<github, hooks, posted, runs, fires, ringing, counts, applied>>

(* fireWatched / fireUnwatched up to the call: the last run's applied      *)
(* outcome is forgotten, and a watched run is armed BEFORE it is fired.    *)
WatchedByOldState(j) == IsWatched(j.rule.from)

Watched(j) == IsWatched(RunState(j.rule))

ArmFire ==
  /\ job.pc = "write"
  /\ job.ops = <<>>
  /\ job.rule.run # NoRun
  /\ applied' = [applied EXCEPT ![job.rule.run] = NoOutcome]
  /\ fires' = fires + 1
  /\ IF Watched(job)
     THEN SetPendingFire([NoFire EXCEPT !.run = job.rule.run, !.gen = fires + 1,
                                        !.cause = job.event, !.retried = job.retried])
     ELSE ClearPendingFire
  /\ posted' = <<>>
  /\ job' = [job EXCEPT !.pc = "send"]
  /\ UNCHANGED <<github, hooks, runs, ringing, counts>>

(* The routines API took the fire: a session starts (but for a shadow      *)
(* event, whose fire is skipped).                                          *)
Started(twin) ==
  [run |-> job.rule.run, gen |-> fires, cause |-> job.event, head |-> job.head, twin |-> twin]

FireSent ==
  /\ job.pc = "send"
  /\ runs' = IF Enforced(job.event) THEN runs \cup {Started(FALSE)} ELSE runs
  /\ job' = [job EXCEPT !.pc = "after"]
  /\ UNCHANGED <<github, hooks, posted, fires, watch, counts, applied>>

(* The session starts, but the answer is lost: the client asks again, and  *)
(* a second session may start for the one fire.                            *)
LostAnswer ==
  /\ job.pc = "send"
  /\ Enforced(job.event)
  /\ Started(TRUE) \notin runs
  /\ runs' = runs \cup {Started(TRUE)}
  /\ UNCHANGED <<github, hooks, posted, fires, watch, counts, applied, job>>

(* It was rate-limited: kept pending, its alarm at the time to send it.    *)
DeferralForgetsRetry ==
  [NoFire EXCEPT !.run = job.rule.run, !.gen = fires, !.cause = job.event,
                 !.deferred = TRUE, !.unwatched = ~Watched(job)]

Deferral ==
  [NoFire EXCEPT !.run = job.rule.run, !.gen = fires, !.cause = job.event,
                 !.retried = job.retried, !.deferred = TRUE, !.unwatched = ~Watched(job)]

FireLimited ==
  /\ job.pc = "send"
  /\ Enforced(job.event)
  /\ SetPendingFire(Deferral)
  /\ job' = [job EXCEPT !.pc = "after"]
  /\ UNCHANGED <<github, hooks, posted, runs, fires, ringing, counts, applied>>
=============================================================================
