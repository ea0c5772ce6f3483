---------------------------- MODULE WatchProofs ----------------------------
(***************************************************************************)
(* A pending fire is never left with nothing to come back to it            *)
(* (WatchKept), and a watched run is armed before it is fired              *)
(* (ArmedBeforeFired), for any bounds and whatever fails.                  *)
(*                                                                         *)
(* WatchKept is not inductive: when an alarm's handler returns, `ringing`  *)
(* goes FALSE, and whether the fire it leaves behind has an alarm depends  *)
(* on what the handler did before.  WatchInv says so, part by part.        *)
(***************************************************************************)
EXTENDS TypeProofs

(* A set alarm is for a fire of a routine.                                 *)
AlarmForAFire == alarm => pending.run # NoRun

(* A pending fire without an alarm is the one the ringing alarm is for.    *)
DueIsRinging ==
  pending # NoFire /\ ~alarm => (ringing /\ pending.due) \/ "giveup" \in Faults

(* The alarm's own requests run while it rings.                            *)
RingsForItsJob == job.src = "alarm" => ringing

Covered == alarm \/ pending = NoFire

(* A replay whose rule has moved the watch on has left it covered.         *)
ReplayCovers == job.src = "alarm" /\ job.replays /\ ~SameFire(job.old) => Covered

(* The alarm's other requests are an expiry, which clears the fire last,   *)
(* or a fire sent again, which is armed before it is sent.                 *)
FiredAgain(j) == j.then \in {"deferred", "retry"} /\ j.applied

AlarmGoes(j) ==
  \/ j.pc \in {"recover", "expire"}
  \/ j.pc \in {"write", "send", "after"} /\ j.then = "expiry"
  \/ j.pc = "write" /\ FiredAgain(j)
  \/ j.pc \in {"send", "after", "comment", "return"} /\ FiredAgain(j) /\ Covered

AlarmPath == job.src = "alarm" /\ ~job.replays => AlarmGoes(job)

WatchInv ==
  /\ AlarmForAFire
  /\ DueIsRinging
  /\ RingsForItsJob
  /\ ReplayCovers
  /\ AlarmPath
  /\ ArmedBeforeFired

----------------------------------------------------------------------------
(* What a step need show, by what it does to the watch and the job.        *)

(* The two parts that are about the watch alone.                           *)
WatchAlone == AlarmForAFire /\ DueIsRinging

LEMMA Cleared ==
  ASSUME ClearPendingFire
  PROVE  WatchAlone' /\ Covered'
BY DEF ClearPendingFire, WatchAlone, AlarmForAFire, DueIsRinging, Covered, NoFire

LEMMA Armed ==
  ASSUME NEW fire \in FireType, fire.run # NoRun, SetPendingFire(fire)
  PROVE  /\ WatchAlone' /\ Covered'
         /\ pending'.run = fire.run /\ pending'.gen = fire.gen
BY DEF SetPendingFire, WatchAlone, AlarmForAFire, DueIsRinging, Covered, FireType

LEMMA WatchUnchanged ==
  ASSUME WatchInv, UNCHANGED watch
  PROVE  WatchAlone' /\ (Covered' <=> Covered) /\ (\A f : SameFire(f)' <=> SameFire(f))
BY DEF watch, WatchInv, WatchAlone, AlarmForAFire, DueIsRinging, Covered, SameFire

(* No request, or one that is not the alarm's: the watch alone.            *)
LEMMA OtherJob ==
  ASSUME WatchAlone', job'.src # "alarm", job'.pc # "send"
  PROVE  WatchInv'
BY DEF WatchAlone, WatchInv, RingsForItsJob, ReplayCovers, AlarmPath, ArmedBeforeFired

LEMMA NoJobLeft ==
  ASSUME WatchAlone', job' = NoJob
  PROVE  WatchInv'
BY OtherJob DEF NoJob

(* The watch is left alone, and the request goes on.                       *)
LEMMA GoesOn ==
  ASSUME WatchInv, UNCHANGED watch,
         job'.src = job.src, job'.replays = job.replays, job'.old = job.old, job'.pc # "send",
         job.src = "alarm" /\ ~job.replays => AlarmGoes(job')
  PROVE  WatchInv'
<1>1. WatchAlone' /\ (Covered' <=> Covered) /\ (\A f : SameFire(f)' <=> SameFire(f))
  BY WatchUnchanged
<1>2. ringing' = ringing
  BY DEF watch
<1>3. RingsForItsJob' /\ ArmedBeforeFired'
  BY <1>2 DEF WatchInv, RingsForItsJob, ArmedBeforeFired
<1>4. ReplayCovers'
  BY <1>1 DEF WatchInv, ReplayCovers, SameFire
<1>5. AlarmPath'
  BY <1>1 DEF AlarmPath, AlarmGoes, FiredAgain
<1> QED BY <1>1, <1>3, <1>4, <1>5 DEF WatchInv, WatchAlone

(* Nothing of it changes.                                                  *)
LEMMA NothingMoves ==
  ASSUME WatchInv, UNCHANGED <<watch, fires, job>>
  PROVE  WatchInv'
BY DEF watch, WatchInv, AlarmForAFire, DueIsRinging, RingsForItsJob, ReplayCovers, AlarmPath, AlarmGoes,
   FiredAgain, Covered, SameFire, ArmedBeforeFired

(* Moving the program counter leaves the rest of the job.                  *)
LEMMA PcGoes ==
  ASSUME NEW j \in JobType, NEW pc, NEW k, k = [j EXCEPT !.pc = pc]
  PROVE  /\ k.pc = pc /\ k.src = j.src /\ k.replays = j.replays /\ k.old = j.old
         /\ k.then = j.then /\ k.applied = j.applied /\ k.rule = j.rule
BY DEF JobType

LEMMA BeginGoes ==
  ASSUME NEW h, NEW src
  PROVE  Begin(h, src).src = src /\ Begin(h, src).replays = FALSE
BY DEF Begin, NoJob

LEMMA IdleJob == NoJob.src = "none" /\ NoJob.pc = "idle" /\ NoJob.replays = FALSE
BY DEF NoJob

----------------------------------------------------------------------------
(* The steps of a webhook's request, and of applyEvent for any request.    *)

LEMMA WebhookStepWatch ==
  ASSUME WatchInv, TypeInv, WebhookStep
  PROVE  WatchInv'
<1>t. ItemTypeOK /\ job \in JobType
  BY DEF TypeInv, TypeOK, ItemTypeOK
<1>1. ASSUME NEW h \in hooks, TakeHook(h)  PROVE WatchInv'
  <2>1. Begin(h, "webhook") \in JobType /\ Begin(h, "webhook").src = "webhook"
    BY <1>t, BeginType, BeginGoes DEF ItemTypeOK, JobSources
  <2>2. job'.src = "webhook" /\ job'.pc # "send"
    BY <1>1, <2>1, HandleEventGoes DEF TakeHook
  <2> QED BY <1>1, <2>2, WatchUnchanged, OtherJob DEF TakeHook
<1>2. CASE ReadFacts
  <2>1. ~(job.src = "alarm" /\ ~job.replays)
    BY <1>2 DEF ReadFacts, WatchInv, AlarmPath, AlarmGoes
  <2> QED BY <1>t, <1>2, <2>1, GateGoes, GoesOn DEF ReadFacts
<1>3. CASE WriteLabel
  <2> DEFINE j == [job EXCEPT !.ops = Tail(job.ops)]
  <2>1. /\ j.pc = job.pc /\ j.src = job.src /\ j.replays = job.replays /\ j.old = job.old
        /\ j.then = job.then /\ j.applied = job.applied
    BY <1>t DEF JobType
  <2>2. job' = j
    BY <1>3 DEF WriteLabel
  <2> HIDE DEF j
  <2>3. job.src = "alarm" /\ ~job.replays => AlarmGoes(job')
    BY <2>1, <2>2 DEF WatchInv, AlarmPath, AlarmGoes, FiredAgain
  <2>4. job.pc = "write" /\ UNCHANGED watch
    BY <1>3 DEF WriteLabel
  <2> QED BY <2>1, <2>2, <2>3, <2>4, GoesOn
<1>4. CASE EndWatch
  <2>1. WatchAlone' /\ Covered'
    BY <1>4, Cleared DEF EndWatch
  <2>2. /\ job'.pc = "after" /\ job'.src = job.src /\ job'.replays = job.replays
        /\ job'.then = job.then /\ job'.applied = job.applied
    BY <1>t, <1>4, PcGoes DEF EndWatch
  <2>3. AlarmPath'
    BY <1>4, <2>1, <2>2 DEF EndWatch, WatchInv, AlarmPath, AlarmGoes, FiredAgain
  <2> QED BY <1>4, <2>1, <2>2, <2>3
      DEF EndWatch, WatchInv, WatchAlone, RingsForItsJob, ReplayCovers, ArmedBeforeFired
<1>5. CASE ArmFire
  <2> DEFINE fire == [NoFire EXCEPT !.run = job.rule.run, !.gen = fires + 1,
                                    !.cause = job.event, !.retried = job.retried]
  <2>1. fire \in FireType /\ fire.run = job.rule.run /\ fire.gen = fires + 1
    <3>1. /\ job.rule.run \in AnyRun
          /\ job.event \in AnyEvent
          /\ job.retried \in BOOLEAN
          /\ fires + 1 \in Nat
      BY <1>t DEF JobType, RuleType, NoRule, Rule, AnyRun, ItemTypeOK
    <3> QED BY <3>1, NothingType DEF FireType
  <2>2. /\ job.pc = "write" /\ job.rule.run # NoRun
        /\ IF Watched(job) THEN SetPendingFire(fire) ELSE ClearPendingFire
        /\ fires' = fires + 1 /\ job' = [job EXCEPT !.pc = "send"]
        /\ ringing' = ringing
    BY <1>5 DEF ArmFire
  <2> HIDE DEF fire
  <2>3. WatchAlone' /\ Covered'
    BY <2>1, <2>2, Armed, Cleared
  <2>4. /\ job'.pc = "send" /\ job'.src = job.src /\ job'.replays = job.replays
        /\ job'.then = job.then /\ job'.applied = job.applied /\ job'.rule = job.rule
    BY <1>t, <2>2, PcGoes
  <2>5. ArmedBeforeFired'
    <3>1. CASE Watched(job)
      BY <2>1, <2>2, <2>4, <3>1, Armed DEF ArmedBeforeFired
    <3>2. CASE ~Watched(job)
      <4>1. ~IsWatched(RunState(job.rule))
        BY <3>2 DEF Watched
      <4> QED BY <2>4, <4>1 DEF ArmedBeforeFired
    <3> QED BY <3>1, <3>2
  <2>6. AlarmPath'
    BY <2>2, <2>3, <2>4 DEF WatchInv, AlarmPath, AlarmGoes, FiredAgain
  <2> QED BY <2>2, <2>3, <2>4, <2>5, <2>6 DEF WatchInv, WatchAlone, RingsForItsJob, ReplayCovers
<1>6. CASE FireSent \/ Comment
  <2>1. /\ \/ job.pc = "send" /\ job' = [job EXCEPT !.pc = "after"]
           \/ job.pc = "comment" /\ job' = [job EXCEPT !.pc = "return"]
        /\ UNCHANGED watch
    BY <1>6 DEF FireSent, Comment, Goes
  <2>2. /\ \/ job.pc = "send" /\ job'.pc = "after"
           \/ job.pc = "comment" /\ job'.pc = "return"
        /\ job'.src = job.src /\ job'.replays = job.replays /\ job'.old = job.old
        /\ job'.then = job.then /\ job'.applied = job.applied
    <3>1. CASE job' = [job EXCEPT !.pc = "after"]
      BY <1>t, <2>1, <3>1, PcGoes
    <3>2. CASE job' = [job EXCEPT !.pc = "return"]
      BY <1>t, <2>1, <3>2, PcGoes
    <3> QED BY <2>1, <3>1, <3>2
  <2>3. job.src = "alarm" /\ ~job.replays => AlarmGoes(job')
    BY <2>2 DEF WatchInv, AlarmPath, AlarmGoes, FiredAgain
  <2> QED BY <2>1, <2>2, <2>3, GoesOn
<1>7. CASE AfterEvent \/ AfterMergeFix \/ CountMergeFix
  <2>1. /\ job'.src = job.src /\ job'.replays = job.replays /\ job'.old = job.old
        /\ job'.pc # "send"
    BY <1>t, <1>7
    DEF AfterEvent, AfterNothingApplied, AfterTail, AfterReviewLabel, AfterReviewFix, AfterFindings,
        AfterCapped, AfterPassed, AfterBlock, AfterMergeFired, AfterDone, AfterMergeFix, CountMergeFix,
        Goes, JobType
  <2>2. ~(job.src = "alarm" /\ ~job.replays)
    BY <1>7
    DEF AfterEvent, AfterNothingApplied, AfterTail, AfterReviewLabel, AfterReviewFix, AfterFindings,
        AfterCapped, AfterPassed, AfterBlock, AfterMergeFired, AfterDone, AfterMergeFix, CountMergeFix,
        After, WatchInv, AlarmPath, AlarmGoes, FiredAgain
  <2>3. UNCHANGED watch
    BY <1>7 DEF AfterEvent, AfterMergeFix, CountMergeFix
  <2> QED BY <2>1, <2>2, <2>3, GoesOn
<1>8. CASE ReturnHook
  <2>1. WatchAlone'
    <3>1. ASSUME ClearPendingFire  PROVE WatchAlone'
      BY <3>1, Cleared
    <3>2. ASSUME KeepPendingFire  PROVE WatchAlone'
      BY <1>8, <3>2, WatchUnchanged DEF KeepPendingFire, ReturnHook, watch
    <3> QED BY <1>8, <3>1, <3>2 DEF ReturnHook
  <2> QED BY <1>8, <2>1, NoJobLeft DEF ReturnHook
<1> QED BY <1>1, <1>2, <1>3, <1>4, <1>5, <1>6, <1>7, <1>8 DEF WebhookStep

----------------------------------------------------------------------------
(* The alarm's requests.                                                   *)

LEMMA AlarmJobGoes ==
  ASSUME ItemTypeOK, NEW pc \in ProgramCounters
  PROVE  /\ AlarmJob(pc).src = "alarm" /\ AlarmJob(pc).pc = pc
         /\ AlarmJob(pc).replays = FALSE
BY NothingType DEF AlarmJob, NoJob, JobType

LEMMA FireAgainGoes ==
  ASSUME ItemTypeOK, NEW then, NEW b \in BOOLEAN
  PROVE  /\ FireAgain(then, b).src = "alarm" /\ FireAgain(then, b).pc = "write"
         /\ FireAgain(then, b).replays = FALSE
         /\ FireAgain(then, b).then = then /\ FireAgain(then, b).applied = TRUE
<1>1. /\ AlarmJob("write") \in JobType
      /\ AlarmJob("write").src = "alarm" /\ AlarmJob("write").pc = "write"
      /\ AlarmJob("write").replays = FALSE
  BY AlarmJobType, AlarmJobGoes DEF ProgramCounters
<1> QED BY <1>1 DEF FireAgain, JobType

LEMMA BackToExpiryGoes ==
  ASSUME NEW pc
  PROVE  /\ BackToExpiry(pc).src = job.src /\ BackToExpiry(pc).pc = pc
         /\ BackToExpiry(pc).replays = FALSE
BY DEF BackToExpiry, NoJob

(* A request of the alarm's begins, or goes back to its expiry.            *)
LEMMA AlarmJobBegins ==
  ASSUME WatchInv, UNCHANGED watch, job'.src = "alarm" => ringing, ~job'.replays,
         job'.pc # "send", job'.src = "alarm" => AlarmGoes(job')
  PROVE  WatchInv'
<1>1. WatchAlone' /\ (Covered' <=> Covered)
  BY WatchUnchanged
<1>2. AlarmPath'
  BY <1>1 DEF AlarmPath, AlarmGoes, FiredAgain
<1> QED BY <1>1, <1>2
    DEF WatchInv, WatchAlone, RingsForItsJob, ReplayCovers, ArmedBeforeFired, watch

LEMMA WatchdogStepWatch ==
  ASSUME WatchInv, TypeInv, WatchdogStep
  PROVE  WatchInv'
<1>t. ItemTypeOK /\ job \in JobType
  BY DEF TypeInv, TypeOK, ItemTypeOK
<1>n. {"recover", "expire", "write"} \in SUBSET ProgramCounters
  BY DEF ProgramCounters
<1>1. CASE AlarmForNothing
  <2>1. WatchAlone'
    BY <1>1 DEF AlarmForNothing, WatchInv, WatchAlone, AlarmForAFire, DueIsRinging
  <2> QED BY <1>1, <2>1, NoJobLeft DEF AlarmForNothing, Idle
<1>2. CASE DropDeferred
  <2>1. WatchAlone'
    BY <1>2, Cleared DEF DropDeferred
  <2> QED BY <1>2, <2>1, NoJobLeft DEF DropDeferred, Idle
<1>3. CASE SendDeferred
  <2>1. job' = FireAgain("deferred", pending.retried) /\ ringing /\ UNCHANGED watch
    BY <1>3 DEF SendDeferred
  <2>r. pending.retried \in BOOLEAN
    BY <1>t DEF ItemTypeOK, FireType
  <2>2. /\ job'.src = "alarm" /\ job'.pc = "write" /\ job'.replays = FALSE
        /\ job'.then = "deferred" /\ job'.applied = TRUE
    BY <1>t, <2>1, <2>r, FireAgainGoes
  <2>3. AlarmGoes(job')
    BY <2>2 DEF AlarmGoes, FiredAgain
  <2> QED BY <2>1, <2>2, <2>3, AlarmJobBegins
<1>4. CASE StartExpiry
  <2> DEFINE recover == [AlarmJob("recover") EXCEPT !.left = posted]
  <2>1. recover.src = "alarm" /\ recover.pc = "recover" /\ recover.replays = FALSE
    <3>1. AlarmJob("recover") \in JobType
      BY <1>t, <1>n, AlarmJobType
    <3> QED BY <1>t, <1>n, <3>1, AlarmJobGoes DEF JobType
  <2>2. job' = recover \/ job' = AlarmJob("expire")
    BY <1>4 DEF StartExpiry
  <2>w. ringing /\ UNCHANGED watch
    BY <1>4 DEF StartExpiry
  <2> HIDE DEF recover
  <2>3. job'.src = "alarm" /\ job'.pc \in {"recover", "expire"} /\ job'.replays = FALSE
    BY <1>t, <1>n, <2>1, <2>2, AlarmJobGoes
  <2>4. AlarmGoes(job')
    BY <2>3 DEF AlarmGoes
  <2> QED BY <2>w, <2>3, <2>4, AlarmJobBegins
<1>5. CASE Replay
  <2> DEFINE h == job.left[Len(job.left)]
             j == [Begin(h, job.src) EXCEPT !.replays = TRUE,
                                            !.left = SubSeq(job.left, 1, Len(job.left) - 1)]
  <2>1. j \in JobType /\ HandleEvent(j) /\ UNCHANGED watch
    BY <1>t, <1>5, ReplayJobType DEF Replay
  <2>2. j.src = job.src /\ j.replays = TRUE /\ j.old = pending
    <3>1. job.left \in Seq(ReportType) /\ job.left # <<>> /\ job.src \in JobSources
      BY <1>t, <1>5 DEF Replay, JobType
    <3>2. h \in ReportType
      BY <3>1
    <3>3. h \in HookType /\ h.run # NoRun
      BY <3>2 DEF ReportType, HookType, AnyRun, Routines, NoRun
    <3> HIDE DEF h
    <3>4. Begin(h, job.src) \in JobType
      BY <1>t, <3>1, <3>3, BeginType
    <3>5. Begin(h, job.src).src = job.src /\ Begin(h, job.src).old = pending
      BY <3>3 DEF Begin, NoJob
    <3> QED BY <3>4, <3>5 DEF JobType
  <2> HIDE DEF j
  <2>3. job'.src = job.src /\ job'.replays = TRUE /\ job'.old = pending /\ job'.pc # "send"
    BY <2>1, <2>2, HandleEventGoes
  <2>4. SameFire(job.old)'
    BY <2>1, <2>3 DEF SameFire, watch
  <2>5. WatchAlone' /\ ringing' = ringing
    BY <2>1, WatchUnchanged DEF watch
  <2> QED BY <2>3, <2>4, <2>5
      DEF WatchInv, WatchAlone, RingsForItsJob, ReplayCovers, AlarmPath, ArmedBeforeFired
<1>6. CASE ReplayApplied
  <2>1. WatchAlone'
    <3>1. CASE SameFire(job.old)
      BY <1>6, <3>1, Cleared DEF ReplayApplied
    <3>2. CASE ~SameFire(job.old)
      <4>1. UNCHANGED <<pending, alarm>> /\ job.replays
        BY <1>6, <3>2 DEF ReplayApplied, KeepPendingFire
      <4>2. CASE job.src = "alarm"
        BY <3>2, <4>1, <4>2
        DEF WatchInv, ReplayCovers, Covered, WatchAlone, AlarmForAFire, DueIsRinging
      <4>3. CASE job.src # "alarm"
        <5>1. ringing' = ringing
          BY <1>6, <4>3 DEF ReplayApplied, StopRinging
        <5> QED BY <4>1, <5>1 DEF WatchInv, WatchAlone, AlarmForAFire, DueIsRinging
      <4> QED BY <4>2, <4>3
    <3> QED BY <3>1, <3>2
  <2> QED BY <1>6, <2>1, NoJobLeft DEF ReplayApplied
<1>7. CASE ReplayNotApplied
  <2>1. job' = BackToExpiry("recover") /\ UNCHANGED watch
    BY <1>7 DEF ReplayNotApplied
  <2>2. job'.src = job.src /\ job'.pc = "recover" /\ job'.replays = FALSE
    BY <2>1, BackToExpiryGoes
  <2>3. AlarmGoes(job') /\ (job.src = "alarm" => ringing)
    BY <2>2 DEF AlarmGoes, WatchInv, RingsForItsJob
  <2> QED BY <2>1, <2>2, <2>3, AlarmJobBegins
<1>8. CASE RetryOnce
  <2>1. job' \in {FireAgain("retry", TRUE), BackToExpiry("expire")} /\ UNCHANGED watch
    BY <1>8 DEF RetryOnce
  <2>2. job' = FireAgain("retry", TRUE) => job.src = "alarm"
    <3>1. FireAgain("retry", TRUE).pc = "write" /\ BackToExpiry("expire").pc = "expire"
      BY <1>t, FireAgainGoes, BackToExpiryGoes
    <3> QED BY <1>8, <3>1 DEF RetryOnce
  <2>3. /\ job'.src = job.src /\ job'.replays = FALSE
        /\ \/ job'.pc = "expire"
           \/ job'.pc = "write" /\ job'.then = "retry" /\ job'.applied = TRUE
    <3>1. CASE job' = FireAgain("retry", TRUE)
      BY <1>t, <2>2, <3>1, FireAgainGoes
    <3>2. CASE job' = BackToExpiry("expire")
      BY <3>2, BackToExpiryGoes
    <3> QED BY <2>1, <3>1, <3>2
  <2>4. AlarmGoes(job') /\ (job.src = "alarm" => ringing) /\ job'.pc # "send"
    BY <2>3 DEF AlarmGoes, FiredAgain, WatchInv, RingsForItsJob
  <2> QED BY <2>1, <2>3, <2>4, AlarmJobBegins
<1>9. CASE Expire
  <2> DEFINE j == [job EXCEPT !.seen = labels]
  <2>1. j \in JobType /\ j.src = job.src /\ j.replays = job.replays /\ j.old = job.old
    BY <1>t DEF ItemTypeOK, JobType
  <2>2. job' = ApplyEvent(j, "WATCHDOG_EXPIRED", "expiry") /\ UNCHANGED watch
    BY <1>9 DEF Expire
  <2> HIDE DEF j
  <2>3. /\ job'.src = job.src /\ job'.replays = job.replays /\ job'.old = job.old
        /\ job'.pc \in {"write", "after"} /\ job'.then = "expiry"
    BY <2>1, <2>2, ApplyEventGoes
  <2>4. AlarmGoes(job')
    BY <2>3 DEF AlarmGoes
  <2> QED BY <2>2, <2>3, <2>4, GoesOn
<1>10. CASE AfterExpiry
  <2>1. WatchAlone'
    BY <1>10, Cleared DEF AfterExpiry
  <2> QED BY <1>10, <2>1, NoJobLeft DEF AfterExpiry
<1>11. CASE AfterFiredAgain
  <2>1. /\ job.pc = "after" /\ job.then \in {"deferred", "retry"} /\ UNCHANGED watch
        /\ \/ job' = [job EXCEPT !.pc = "comment"]
           \/ job' = [job EXCEPT !.pc = "return"]
    BY <1>11 DEF AfterFiredAgain
  <2>2. /\ job'.pc \in {"comment", "return"}
        /\ job'.src = job.src /\ job'.replays = job.replays /\ job'.old = job.old
        /\ job'.then = job.then /\ job'.applied = job.applied
    <3>1. CASE job' = [job EXCEPT !.pc = "comment"]
      BY <1>t, <3>1, PcGoes
    <3>2. CASE job' = [job EXCEPT !.pc = "return"]
      BY <1>t, <3>2, PcGoes
    <3> QED BY <2>1, <3>1, <3>2
  <2>3. job.src = "alarm" /\ ~job.replays => AlarmGoes(job')
    BY <2>1, <2>2 DEF WatchInv, AlarmPath, AlarmGoes, FiredAgain
  <2> QED BY <2>1, <2>2, <2>3, GoesOn
<1>12. CASE ReturnAlarm
  <2>1. Covered /\ UNCHANGED <<pending, alarm>>
    BY <1>12 DEF ReturnAlarm, WatchInv, AlarmPath, AlarmGoes
  <2>2. WatchAlone'
    BY <2>1 DEF Covered, WatchInv, WatchAlone, AlarmForAFire, DueIsRinging
  <2> QED BY <1>12, <2>2, NoJobLeft DEF ReturnAlarm
<1> QED
  BY <1>1, <1>2, <1>3, <1>4, <1>5, <1>6, <1>7, <1>8, <1>9, <1>10, <1>11, <1>12 DEF WatchdogStep

----------------------------------------------------------------------------
(* Signals, the alarm itself, what comes from outside, and failures.       *)

LEMMA SignalStepWatch ==
  ASSUME WatchInv, TypeInv, SignalStep
  PROVE  WatchInv'
<1>t. ItemTypeOK /\ job \in JobType
  BY DEF TypeInv, TypeOK, ItemTypeOK
<1>1. ASSUME NEW s \in hooks, IgnoreSignal(s)  PROVE WatchInv'
  BY <1>1, NothingMoves DEF IgnoreSignal
<1>2. ASSUME NEW s \in hooks, Heartbeat(s)  PROVE WatchInv'
  <2> DEFINE fire == [pending EXCEPT !.stepped = TRUE]
  <2>1. s.run # NoRun
    BY <1>t, <1>2 DEF Heartbeat, ItemTypeOK, HookType, Routines, NoRun
  <2>2. fire \in FireType /\ fire.run # NoRun
    BY <1>t, <1>2, <2>1 DEF Heartbeat, Live, ItemTypeOK, FireType
  <2>3. SetPendingFire(fire) /\ job = NoJob /\ job' = job
    BY <1>2 DEF Heartbeat, Idle
  <2> HIDE DEF fire
  <2> QED BY <2>2, <2>3, Armed, NoJobLeft
<1>3. ASSUME NEW s \in hooks, Completion(s)  PROVE WatchInv'
  BY <1>3, Cleared, NoJobLeft DEF Completion, Idle
<1>4. ASSUME NEW s \in hooks, TakeOutcome(s)  PROVE WatchInv'
  <2>1. Begin(s, "signal") \in JobType /\ Begin(s, "signal").src = "signal"
    BY <1>t, BeginType, BeginGoes DEF ItemTypeOK, JobSources
  <2>2. job'.src = "signal" /\ job'.pc # "send"
    BY <1>4, <2>1, HandleEventGoes DEF TakeOutcome
  <2> QED BY <1>4, <2>2, WatchUnchanged, OtherJob DEF TakeOutcome
<1>5. ASSUME NEW s \in hooks, EndFire(s)  PROVE WatchInv'
  <2>1. job'.src = "ended" /\ job'.pc # "send"
    BY <1>5 DEF EndFire, NoJob
  <2> QED BY <1>5, <2>1, WatchUnchanged, OtherJob DEF EndFire
<1>6. CASE ReturnOutcome
  <2>1. ASSUME ClearPendingFire  PROVE WatchAlone'
    BY <2>1, Cleared
  <2>2. ASSUME KeepPendingFire  PROVE WatchAlone'
    BY <1>6, <2>2, WatchUnchanged DEF KeepPendingFire, ReturnOutcome, watch
  <2> QED BY <1>6, <2>1, <2>2, NoJobLeft DEF ReturnOutcome
<1> QED BY <1>1, <1>2, <1>3, <1>4, <1>5, <1>6 DEF SignalStep

LEMMA RingWatch ==
  ASSUME WatchInv, TypeInv, Ring
  PROVE  WatchInv'
<1>1. /\ pending'.run = pending.run /\ pending'.gen = pending.gen /\ pending'.due = TRUE
      /\ alarm /\ ~ringing /\ alarm' = FALSE /\ ringing' = TRUE
      /\ job' = job /\ fires' = fires
  BY DEF Ring, TypeInv, TypeOK, ItemTypeOK, FireType
<1>2. job.src # "alarm"
  BY <1>1 DEF WatchInv, RingsForItsJob
<1>3. WatchAlone'
  BY <1>1 DEF WatchAlone, AlarmForAFire, DueIsRinging
<1>4. ArmedBeforeFired'
  BY <1>1 DEF WatchInv, ArmedBeforeFired
<1> QED BY <1>1, <1>2, <1>3, <1>4
    DEF WatchInv, WatchAlone, RingsForItsJob, ReplayCovers, AlarmPath

(* People, CI and sessions touch none of it.                               *)
LEMMA OutsideWatch ==
  ASSUME WatchInv, People \/ GitHubWorks \/ Sessions
  PROVE  WatchInv'
<1>1. UNCHANGED <<watch, fires, job>>
  <2> USE DEF storage
  <2>1. CASE People
    BY <2>1 DEF People, PersonAddsLabel, PersonRemovesLabel, PersonPushes, PersonReplies, PersonCloses
  <2>2. CASE GitHubWorks
    BY <2>2 DEF GitHubWorks, CiFinishes, MergeableChanges
  <2>3. CASE Sessions
    BY <2>3 DEF Sessions, Session, Reports, Pushes, Merges, Dies, Steps
  <2> QED BY <2>1, <2>2, <2>3
<1> QED BY <1>1, NothingMoves

LEMMA FailuresWatch ==
  ASSUME WatchInv, TypeInv, Failures
  PROVE  WatchInv'
<1>t. ItemTypeOK /\ job \in JobType
  BY DEF TypeInv, TypeOK, ItemTypeOK
<1>c. ASSUME ClearPendingFire, job' = NoJob  PROVE WatchInv'
  BY <1>c, Cleared, NoJobLeft
<1>k. ASSUME UNCHANGED watch, job' = NoJob  PROVE WatchInv'
  BY <1>k, WatchUnchanged, NoJobLeft
<1>1. CASE Throws
  <2>1. CASE ThrowHook \/ ThrowAlarm
    BY <1>k, <2>1 DEF ThrowHook, ThrowAlarm
  <2>2. CASE ThrowReplay
    <3> DEFINE back == [BackToExpiry("recover") EXCEPT !.left = <<>>]
    <3>1. back.src = job.src /\ back.pc = "recover" /\ back.replays = FALSE
      <4>1. BackToExpiry("recover") \in JobType
        BY <1>t, BackToExpiryType DEF ProgramCounters
      <4> QED BY <4>1, BackToExpiryGoes DEF JobType
    <3>2. (job' = back \/ job' = NoJob) /\ UNCHANGED watch
      BY <2>2 DEF ThrowReplay
    <3> HIDE DEF back
    <3>3. ASSUME job' = back  PROVE WatchInv'
      <4>1. AlarmGoes(job') /\ (job.src = "alarm" => ringing)
        BY <3>1, <3>3 DEF AlarmGoes, WatchInv, RingsForItsJob
      <4> QED BY <3>1, <3>2, <3>3, <4>1, AlarmJobBegins
    <3> QED BY <1>k, <3>2, <3>3
  <2> QED BY <1>1, <2>1, <2>2 DEF Throws
<1>2. CASE Crashes
  BY <1>2, <1>k DEF Crashes, CrashHook, CrashAlarm
<1>3. CASE Refused
  <2>1. CASE RefuseHook
    BY <1>c, <2>1 DEF RefuseHook
  <2>2. CASE RefuseAlarm
    <3>1. ASSUME job' = BackToExpiry("expire")  PROVE WatchInv'
      <4>1. WatchAlone'
        BY <2>2, Cleared DEF RefuseAlarm
      <4>2. job'.src = job.src /\ job'.pc = "expire" /\ job'.replays = FALSE
        BY <3>1, BackToExpiryGoes
      <4>3. ringing' = ringing
        BY <2>2 DEF RefuseAlarm
      <4> QED BY <4>1, <4>2, <4>3
          DEF WatchInv, WatchAlone, RingsForItsJob, ReplayCovers, AlarmPath, AlarmGoes, ArmedBeforeFired
    <3>2. ClearPendingFire /\ (job' = BackToExpiry("expire") \/ job' = NoJob)
      BY <2>2 DEF RefuseAlarm
    <3> QED BY <1>c, <3>1, <3>2
  <2> QED BY <1>3, <2>1, <2>2 DEF Refused
<1>4. CASE Limited
  <2>1. Watched(job) \in BOOLEAN
    BY DEF Watched, IsWatched, HasRule
  <2>2. /\ job.rule.run \in AnyRun /\ job.event \in AnyEvent
        /\ job.retried \in BOOLEAN /\ fires \in Nat
    BY <1>t DEF JobType, RuleType, NoRule, Rule, AnyRun, ItemTypeOK
  <2>3. Deferral \in FireType /\ Deferral.run = job.rule.run
    BY <2>1, <2>2, NothingType DEF Deferral, FireType
  <2>4. /\ job.pc = "send" /\ SetPendingFire(Deferral)
        /\ ringing' = ringing /\ job' = [job EXCEPT !.pc = "after"]
    BY <1>4 DEF Limited, FireLimited
  <2>5. WatchAlone' /\ Covered'
    <3>1. job.rule.run # NoRun
      BY <2>4 DEF TypeInv, SendsARun
    <3> QED BY <2>3, <2>4, <3>1, Armed
  <2>6. /\ job'.pc = "after" /\ job'.src = job.src /\ job'.replays = job.replays
        /\ job'.then = job.then /\ job'.applied = job.applied
    BY <1>t, <2>4, PcGoes
  <2>7. AlarmPath'
    BY <2>4, <2>5, <2>6 DEF WatchInv, AlarmPath, AlarmGoes, FiredAgain
  <2> QED BY <2>4, <2>5, <2>6, <2>7
      DEF WatchInv, WatchAlone, RingsForItsJob, ReplayCovers, ArmedBeforeFired
<1>5. CASE Unheard
  BY <1>5, NothingMoves DEF Unheard, LostAnswer
<1>6. CASE Unread
  <2>1. CASE SendDeferredUnread
    <3>1. job' = FireAgain("deferred", pending.retried) /\ ringing /\ UNCHANGED watch
      BY <2>1 DEF SendDeferredUnread
    <3>2. pending.retried \in BOOLEAN
      BY <1>t DEF ItemTypeOK, FireType
    <3>3. /\ job'.src = "alarm" /\ job'.pc = "write" /\ job'.replays = FALSE
          /\ job'.then = "deferred" /\ job'.applied = TRUE
      BY <1>t, <3>1, <3>2, FireAgainGoes
    <3>4. AlarmGoes(job')
      BY <3>3 DEF AlarmGoes, FiredAgain
    <3> QED BY <3>1, <3>3, <3>4, AlarmJobBegins
  <2>2. CASE StartExpiryUnread
    <3>1. job' = AlarmJob("recover") /\ ringing /\ UNCHANGED watch
      BY <2>2 DEF StartExpiryUnread
    <3>2. job'.src = "alarm" /\ job'.pc = "recover" /\ job'.replays = FALSE
      BY <1>t, <3>1, AlarmJobGoes DEF ProgramCounters
    <3>3. AlarmGoes(job')
      BY <3>2 DEF AlarmGoes
    <3> QED BY <3>1, <3>2, <3>3, AlarmJobBegins
  <2> QED BY <1>6, <2>1, <2>2 DEF Unread
<1>7. CASE GivesUp
  <2>1. "giveup" \in Faults /\ job = NoJob /\ job' = job /\ UNCHANGED <<pending, alarm>>
    BY <1>7 DEF GivesUp, GiveUp, Fails, Idle
  <2>2. WatchAlone'
    BY <2>1 DEF WatchInv, WatchAlone, AlarmForAFire, DueIsRinging
  <2> QED BY <2>1, <2>2, NoJobLeft
<1>8. CASE Loses
  BY <1>8, NothingMoves DEF Loses, storage
<1> QED BY <1>1, <1>2, <1>3, <1>4, <1>5, <1>6, <1>7, <1>8 DEF Failures

----------------------------------------------------------------------------
(* The invariant, and what follows from it.                                *)

LEMMA WatchInit == Init => WatchInv
BY IdleJob
   DEF Init, WatchInv, AlarmForAFire, DueIsRinging, RingsForItsJob, ReplayCovers, AlarmPath, ArmedBeforeFired

LEMMA WatchStep ==
  ASSUME WatchInv, TypeInv, [Next]_allVars
  PROVE  WatchInv'
<1>1. CASE Worker
  BY <1>1, WebhookStepWatch, WatchdogStepWatch, SignalStepWatch DEF Worker
<1>2. CASE Alarm
  BY <1>2, RingWatch DEF Alarm
<1>3. CASE People \/ GitHubWorks \/ Sessions
  BY <1>3, OutsideWatch
<1>4. CASE Failures
  BY <1>4, FailuresWatch
<1>5. CASE UNCHANGED allVars
  BY <1>5, NothingMoves DEF allVars, vars
<1> QED BY <1>1, <1>2, <1>3, <1>4, <1>5 DEF Next

LEMMA WatchInvHolds == Spec => []WatchInv
<1>1. Init => TypeInv /\ WatchInv
  BY TypeInit, WatchInit
<1>2. TypeInv /\ WatchInv /\ [Next]_allVars => TypeInv' /\ WatchInv'
  BY TypeStep, WatchStep
<1> QED BY <1>1, <1>2, PTL DEF Spec

(* A stored pending fire always has something that comes back to it (its   *)
(* alarm, or an alarm call that has not succeeded yet), and no alarm is    *)
(* set for nothing, whatever throws, crashes, is refused, deferred, late   *)
(* or lost: unless the platform gives an alarm up.                         *)
THEOREM WatchIsKept == Spec => []WatchKept
<1>1. WatchInv => WatchKept
  BY DEF WatchInv, WatchKept, AlarmForAFire, DueIsRinging, NoFire
<1> QED BY <1>1, WatchInvHolds, PTL

(* While the routines API is being asked for a watched run, that very fire *)
(* is the pending one (applyEvent, fireWatched).                           *)
THEOREM ArmedFirst == Spec => []ArmedBeforeFired
<1>1. WatchInv => ArmedBeforeFired
  BY DEF WatchInv
<1> QED BY <1>1, WatchInvHolds, PTL
=============================================================================
