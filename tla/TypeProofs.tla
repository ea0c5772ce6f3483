----------------------------- MODULE TypeProofs -----------------------------
(***************************************************************************)
(* The coordinator's state always has its shape (TypeOK), for any caps,    *)
(* switches, reported outcomes and bounds.  One lemma says what a handler  *)
(* leaves (HandleEventType); then every action of Next is looked at once.  *)
(***************************************************************************)
EXTENDS Coordinator, GraphProofs, SequenceTheorems

(* Applying an event leaves a job of the right shape.                      *)
LEMMA ApplyEventType ==
  ASSUME NEW j \in JobType, NEW event \in AnyEvent, NEW then \in Thens
  PROVE  ApplyEvent(j, event, then) \in JobType
<1> DEFINE state == StateBefore(j.seen, event)
           base  == [j EXCEPT !.event = event, !.then = then,
                              !.applied = state # "ambiguous" /\ HasRule(state, event)]
<1>1. base \in JobType
  BY DEF JobType
<1>2. <<>> \in Seq(OpType) /\ NoRule \in RuleType \cup {NoRule}
  OBVIOUS
<1>3. "write" \in ProgramCounters /\ "after" \in ProgramCounters
  BY DEF ProgramCounters
<1>4. CASE state # "ambiguous" /\ HasRule(state, event)
  <2> DEFINE rule == Reduce(state, event)
             ops  == LabelOps(j.seen, rule)
  <2>1. rule \in RuleType
    BY <1>4, ReduceAnswers, RulesType
  <2>2. ops \in Seq(OpType)
    BY <2>1, LabelOpsType DEF JobType
  <2>3. ApplyEvent(j, event, then) = [base EXCEPT !.pc = "write", !.rule = rule, !.ops = ops]
    BY <1>4 DEF ApplyEvent
  <2> HIDE DEF base, state, rule, ops
  <2>4. [base EXCEPT !.pc = "write", !.rule = rule, !.ops = ops] \in JobType
    BY <1>1, <1>3, <2>1, <2>2 DEF JobType
  <2> QED BY <2>3, <2>4, Zenon
<1>5. CASE ~(state # "ambiguous" /\ HasRule(state, event))
  <2>1. ApplyEvent(j, event, then) = [base EXCEPT !.pc = "after", !.rule = NoRule, !.ops = <<>>]
    BY <1>5 DEF ApplyEvent
  <2> HIDE DEF base, state
  <2> QED BY <1>1, <1>2, <1>3, <2>1 DEF JobType
<1> QED BY <1>4, <1>5

(* Moving a job's program counter keeps its shape.                         *)
LEMMA PcType ==
  ASSUME NEW j \in JobType, NEW pc \in ProgramCounters
  PROVE  [j EXCEPT !.pc = pc] \in JobType
BY DEF JobType

(* Returning does too.                                                     *)
LEMMA ReturnsType ==
  ASSUME NEW j \in JobType, NEW appliedNow \in BOOLEAN
  PROVE  Returns(j, appliedNow) \in JobType
BY DEF JobType, Returns, ProgramCounters

(* The constants of the state are of the right shape.                      *)
LEMMA NothingType ==
  /\ NoHook \in HookType
  /\ NoFire \in FireType
  /\ NoCiFix \in CiFixType
  /\ NoReview \in ReviewType
  /\ NoOutcome \in AppliedType
  /\ NoJob \in JobType
<1>1. NoHook \in HookType
  BY DEF NoHook, Hook, HookType, AnyEvent, AnyRun
<1>2. NoFire \in FireType
  BY DEF NoFire, FireType, AnyEvent, AnyRun
<1>3. NoCiFix \in CiFixType /\ NoReview \in ReviewType
  BY DEF NoCiFix, CiFixType, NoReview, ReviewType
<1>4. NoOutcome \in AppliedType
  BY DEF NoOutcome, AppliedType, AnyEvent
<1>5. NoJob \in JobType
  <2>1. "none" \in AnyEvent /\ "none" \in Thens /\ "none" \in JobSources /\ "idle" \in ProgramCounters
    BY DEF AnyEvent, Thens, JobSources, ProgramCounters
  <2> QED BY <1>1, <1>2, <2>1 DEF NoJob, JobType
<1> QED BY <1>1, <1>2, <1>3, <1>4, <1>5

----------------------------------------------------------------------------
(* The handlers.                                                           *)

CountsTypeOK ==
  /\ ciFix \in CiFixType
  /\ reviewLoop \in ReviewType
  /\ reviewReworks \in Nat
  /\ reworkExpired \in BOOLEAN
  /\ mergeFiredFor \in Nat

(* The events and continuations the handlers name are in their lists.      *)
LEMMA NamedEvents ==
  {"REWORK_CAP_REACHED", "CI_FIX_PUSHED", "REVIEW_FIX_PUSHED", "REVIEW_FINDINGS",
   "REVIEW_CI_FAILED", "REVIEW_CI_PASSED", "MERGE_GATE_FAILED_HARD", "MERGE_GATE_FAILED_SOFT",
   "MERGE_GATE_PASSED", "LABELLED_AUTO_MERGING", "WATCHDOG_EXPIRED"} \in SUBSET AnyEvent
BY DEF AnyEvent, Events

LEMMA NamedThens ==
  {"tail", "capped", "review", "reviewFix", "findings", "mergeLabel", "mergeFix", "checks",
   "mergeFired", "passed", "block", "done", "deferred", "retry", "expiry", "none"} \in SUBSET Thens
BY DEF Thens

(* A handler leaves a job and counts of the right shape (processEvent).    *)
LEMMA HandleEventType ==
  ASSUME CountsTypeOK, NEW j \in JobType, HandleEvent(j)
  PROVE  job' \in JobType /\ CountsTypeOK'
<1> USE NamedEvents, NamedThens
<1>e. j.event \in AnyEvent /\ j.seen \in SUBSET Labels
  BY DEF JobType
<1>k. ASSUME UNCHANGED counts  PROVE CountsTypeOK'
  BY <1>k DEF counts, CountsTypeOK
<1>1. ASSUME HandleNothing(j)  PROVE job' \in JobType /\ CountsTypeOK'
  BY <1>1, <1>k, ReturnsType DEF HandleNothing
<1>2. ASSUME HandleReworkEnd(j)  PROVE job' \in JobType /\ CountsTypeOK'
  <2>1. CountsTypeOK'
    BY <1>2 DEF HandleReworkEnd, CountsTypeOK, CiFixType, ReviewType
  <2>2. ASSUME NEW flags \in SUBSET {"ciFix", "reviewLoop", "reworkExpired"},
               NEW event \in AnyEvent
        PROVE  ApplyEvent([j EXCEPT !.late = flags], event, "tail") \in JobType
    <3>1. [j EXCEPT !.late = flags] \in JobType  BY DEF JobType
    <3> QED BY <3>1, ApplyEventType
  <2>3. job' \in JobType
    BY <1>2, <1>e, <2>2, ReturnsType DEF HandleReworkEnd
  <2> QED BY <2>1, <2>3
<1>3. ASSUME HandleReworkLabel(j)  PROVE job' \in JobType /\ CountsTypeOK'
  <2> DEFINE restart == [on |-> TRUE, rounds |-> 0, fixPending |-> TRUE]
  <2>0. restart \in ReviewType
    BY DEF ReviewType
  <2>1. CountsTypeOK'
    <3>1. reviewReworks' \in Nat
      BY <1>3 DEF HandleReworkLabel, CountsTypeOK
    <3>2. reviewLoop' \in {restart, NoReview, reviewLoop}
      BY <1>3 DEF HandleReworkLabel
    <3>3. ciFix' \in {NoCiFix, ciFix} /\ mergeFiredFor' = mergeFiredFor
      BY <1>3 DEF HandleReworkLabel
    <3>4. reworkExpired' \in BOOLEAN
      BY <1>3 DEF HandleReworkLabel, CountsTypeOK
    <3> QED BY <2>0, <3>1, <3>2, <3>3, <3>4, NothingType DEF CountsTypeOK
  <2>2. job' \in JobType
    BY <1>3, <1>e, ApplyEventType DEF HandleReworkLabel
  <2> QED BY <2>1, <2>2
<1>4. ASSUME HandleReviewLabel(j)  PROVE job' \in JobType /\ CountsTypeOK'
  <2>1. CountsTypeOK'
    BY <1>4, NothingType DEF HandleReviewLabel, CountsTypeOK
  <2>2. job' \in JobType
    BY <1>4, <1>e, ApplyEventType, ReturnsType DEF HandleReviewLabel
  <2> QED BY <2>1, <2>2
<1>5. ASSUME HandleFindings(j)  PROVE job' \in JobType /\ CountsTypeOK'
  BY <1>5, <1>k, <1>e, ApplyEventType DEF HandleFindings
<1>6. ASSUME HandleMergeLabel(j)  PROVE job' \in JobType /\ CountsTypeOK'
  <2>1. CountsTypeOK'
    BY <1>6, NothingType DEF HandleMergeLabel, CountsTypeOK
  <2>2. [j EXCEPT !.pc = "facts", !.then = "mergeLabel"] \in JobType
    BY DEF JobType, ProgramCounters
  <2>3. job' \in JobType
    BY <1>6, <2>2, ReturnsType DEF HandleMergeLabel
  <2> QED BY <2>1, <2>3
<1>7. ASSUME HandleChecks(j)  PROVE job' \in JobType /\ CountsTypeOK'
  <2>1. ASSUME NEW then \in {"review", "checks"}
        PROVE  [j EXCEPT !.pc = "facts", !.then = then] \in JobType
    BY DEF JobType, ProgramCounters
  <2> QED BY <1>7, <1>k, <2>1, ReturnsType DEF HandleChecks
<1>8. ASSUME HandleOther(j)  PROVE job' \in JobType /\ CountsTypeOK'
  BY <1>8, <1>k, <1>e, ApplyEventType DEF HandleOther
<1> QED BY <1>1, <1>2, <1>3, <1>4, <1>5, <1>6, <1>7, <1>8 DEF HandleEvent

----------------------------------------------------------------------------
(* The actions on the item and its object.                                 *)

LEMMA FireOfType ==
  ASSUME NEW run \in AnyRun
  PROVE  FireOf(run) \in RuleType /\ FireOf(run).run = run
<1>1. PICK r \in Rules : r.run = run
  BY EveryRunHasARule
<1>2. FireOf(run) \in Rules /\ FireOf(run).run = run
  BY <1>1 DEF FireOf
<1> QED BY <1>2, RulesType

(* A job begins with the right shape.                                      *)
LEMMA BeginType ==
  ASSUME ItemTypeOK, NEW h \in HookType, NEW src \in JobSources
  PROVE  Begin(h, src) \in JobType
<1>1. h.event \in AnyEvent
  BY DEF HookType
<1>2. NoJob \in JobType /\ NoFire \in FireType /\ "begin" \in ProgramCounters
  BY NothingType DEF ProgramCounters
<1>3. (IF h.run # NoRun THEN pending ELSE NoFire) \in FireType
  BY <1>2 DEF ItemTypeOK
<1>4. labels \in SUBSET Labels
  BY DEF ItemTypeOK
<1> QED BY <1>1, <1>2, <1>3, <1>4 DEF Begin, JobType

(* HandleEvent leaves every other variable alone.                          *)
Elsewhere == <<labels, closed, head, ci, mergeable, hooks, posted, runs, fires,
               pending, alarm, ringing, applied>>

LEMMA HandlerType ==
  ASSUME ItemTypeOK, NEW j \in JobType, HandleEvent(j), UNCHANGED Elsewhere
  PROVE  ItemTypeOK'
<1>1. CountsTypeOK
  BY DEF ItemTypeOK, CountsTypeOK
<1>2. job' \in JobType /\ CountsTypeOK'
  BY <1>1, HandleEventType
<1> QED BY <1>2 DEF ItemTypeOK, CountsTypeOK, Elsewhere

(* A step that only changes the job keeps every shape, if it keeps that.   *)
LEMMA JobOnlyType ==
  ASSUME ItemTypeOK, job' \in JobType, UNCHANGED <<Elsewhere, counts>>
  PROVE  ItemTypeOK'
BY DEF ItemTypeOK, Elsewhere, counts

LEMMA GateType ==
  ASSUME ItemTypeOK, ReadFacts
  PROVE  job' \in JobType
<1>p. PICK checks : LET facts == Facts(head, checks, mergeable)
                    IN  job' = CASE job.then = "review"     -> ReviewGate(job, facts)
                                 [] job.then = "mergeLabel" -> GateMergeLabel(job, facts)
                                 [] OTHER                   -> GateChecks(job, facts)
  BY DEF ReadFacts
<1> USE NamedEvents, NamedThens
<1> DEFINE facts == Facts(head, checks, mergeable)
<1>0. job \in JobType /\ job.applied \in BOOLEAN
  BY DEF ItemTypeOK, JobType
<1>1. HandReviewToRework(job) \in JobType
  BY <1>0, ApplyEventType DEF HandReviewToRework
<1>2. HandToRework(job) \in JobType
  BY <1>0, ApplyEventType DEF HandToRework
<1>3. ReviewGate(job, facts) \in JobType
  BY <1>0, <1>1, ApplyEventType, ReturnsType DEF ReviewGate
<1>4. GateMergeLabel(job, facts) \in JobType
  BY <1>0, <1>2, ApplyEventType DEF GateMergeLabel
<1>5. GateChecks(job, facts) \in JobType
  <2>1. [job EXCEPT !.head = facts.head] \in JobType
    BY <1>0 DEF Facts, ItemTypeOK, JobType
  <2>2. ApplyEvent([job EXCEPT !.head = facts.head], "MERGE_GATE_PASSED", "mergeFired") \in JobType
    BY <2>1, ApplyEventType
  <2> QED BY <1>0, <1>2, <2>2, ApplyEventType, ReturnsType DEF GateChecks
<1> QED BY <1>p, <1>3, <1>4, <1>5

(* Outcomes are remembered in the right shape.                             *)
LEMMA RememberType ==
  ASSUME ItemTypeOK, RememberApplied(job)
  PROVE  applied' \in [Routines -> AppliedType]
BY DEF RememberApplied, ItemTypeOK, AppliedType, JobType, HookType, FireType

(* What is sent is a routine's fire: ArmFire's guard.                      *)
SendsARun == job.pc = "send" => job.rule.run # NoRun

(* A session starts with the right shape.                                  *)
LEMMA StartedType ==
  ASSUME ItemTypeOK, SendsARun, job.pc = "send", NEW twin \in BOOLEAN
  PROVE  Started(twin) \in SessionType
BY DEF Started, SessionType, SendsARun, ItemTypeOK, JobType, RuleType, NoRule, Rule, AnyRun

(* What a handler does after its rule keeps the shapes of job and counts.  *)
LEMMA AfterEventType ==
  ASSUME ItemTypeOK, AfterEvent
  PROVE  job' \in JobType /\ CountsTypeOK'
<1>j. job \in JobType /\ CountsTypeOK
  BY DEF ItemTypeOK, CountsTypeOK
<1>1. job' \in JobType
  <2>1. ASSUME NEW pc \in ProgramCounters, Goes(pc)  PROVE job' \in JobType
    BY <1>j, <2>1, PcType DEF Goes
  <2>2. {"return", "comment"} \in SUBSET ProgramCounters
    BY DEF ProgramCounters
  <2>3. ASSUME AfterReviewLabel  PROVE job' \in JobType
    BY <1>j, <2>3 DEF AfterReviewLabel, JobType, ProgramCounters
  <2> QED
    BY <2>1, <2>2, <2>3 DEF AfterEvent, AfterNothingApplied, AfterTail, AfterReviewFix, AfterFindings,
       AfterCapped, AfterPassed, AfterBlock, AfterMergeFired, AfterDone
<1>2. CountsTypeOK'
  <2>1. ASSUME UNCHANGED counts  PROVE CountsTypeOK'
    BY <1>j, <2>1 DEF counts, CountsTypeOK
  <2>2. ASSUME AfterTail  PROVE CountsTypeOK'
    BY <1>j, <2>2 DEF AfterTail, CountsTypeOK, CiFixType, ReviewType
  <2>3. ASSUME AfterReviewFix  PROVE CountsTypeOK'
    BY <1>j, <2>3 DEF AfterReviewFix, CountsTypeOK, CiFixType
  <2>4. ASSUME AfterFindings  PROVE CountsTypeOK'
    BY <1>j, <2>4 DEF AfterFindings, CountsTypeOK, ReviewType
  <2>5. ASSUME AfterCapped \/ AfterPassed \/ AfterMergeFired  PROVE CountsTypeOK'
    BY <1>j, <2>5, NothingType DEF AfterCapped, AfterPassed, AfterMergeFired, CountsTypeOK, JobType
  <2> QED
    BY <2>1, <2>2, <2>3, <2>4, <2>5 DEF AfterEvent, AfterNothingApplied, AfterReviewLabel, AfterBlock, AfterDone
<1> QED BY <1>1, <1>2

(* Every step of the webhook path keeps every shape (coordinate/webhook.ts *)
(* and what applyEvent does for it).                                       *)
LEMMA WebhookStepType ==
  ASSUME ItemTypeOK, SendsARun, WebhookStep
  PROVE  ItemTypeOK'
<1> USE DEF Elsewhere
<1>j. job \in JobType
  BY DEF ItemTypeOK
<1>p. ASSUME NEW pc \in ProgramCounters  PROVE [job EXCEPT !.pc = pc] \in JobType
  BY <1>j, PcType
<1>n. {"after", "return", "comment", "count", "facts", "send"} \in SUBSET ProgramCounters
  BY DEF ProgramCounters
<1>1. ASSUME NEW h \in hooks, TakeHook(h)  PROVE ItemTypeOK'
  <2>1. Begin(h, "webhook") \in JobType
    BY BeginType DEF ItemTypeOK, JobSources
  <2> QED BY <1>1, <2>1, HandlerType DEF TakeHook, github, watch
<1>2. CASE ReadFacts
  BY <1>2, GateType, JobOnlyType DEF ReadFacts, github, watch
<1>3. CASE WriteLabel
  <2>0. job.ops \in Seq(OpType) /\ job.ops # <<>>
    BY <1>3, <1>j DEF WriteLabel, JobType
  <2>1. Head(job.ops) \in OpType /\ Tail(job.ops) \in Seq(OpType)
    BY <2>0
  <2>2. labels' \in SUBSET Labels
    <3> DEFINE op == Head(job.ops)
    <3>1. \/ labels' = labels
          \/ labels' = labels \ {op.label}
          \/ op.op = "add" /\ labels' = labels \cup {op.label}
      BY <1>3 DEF WriteLabel
    <3>2. op.op = "add" => op.label \in Labels
      BY <2>1 DEF OpType
    <3> QED BY <3>1, <3>2 DEF ItemTypeOK
  <2>3. Hook("ISSUE_CLOSED", NoRun, 0) \in HookType
    BY DEF Hook, HookType, AnyEvent, Events, AnyRun
  <2>4. closed' \in BOOLEAN /\ hooks' \in SUBSET HookType
    BY <1>3, <2>3 DEF WriteLabel, ItemTypeOK
  <2>5. job' \in JobType
    BY <1>3, <1>j, <2>1 DEF WriteLabel, JobType
  <2> QED BY <1>3, <2>2, <2>4, <2>5 DEF WriteLabel, ItemTypeOK, counts, watch
<1>4. CASE EndWatch
  <2>1. job' \in JobType /\ pending' \in FireType /\ alarm' \in BOOLEAN
    BY <1>4, <1>p, <1>n, NothingType DEF EndWatch, ClearPendingFire
  <2> QED BY <1>4, <2>1 DEF EndWatch, ItemTypeOK, github, counts
<1>5. CASE ArmFire
  <2>1. job' \in JobType
    BY <1>5, <1>p, <1>n DEF ArmFire
  <2>2. applied' \in [Routines -> AppliedType]
    BY <1>5, NothingType DEF ArmFire, ItemTypeOK
  <2>3. fires' \in Nat /\ posted' = <<>>
    BY <1>5 DEF ArmFire, ItemTypeOK
  <2>4. pending' \in FireType /\ alarm' \in BOOLEAN
    <3>1. /\ job.rule.run \in AnyRun
          /\ job.event \in AnyEvent
          /\ job.retried \in BOOLEAN
          /\ fires + 1 \in Nat
      BY <1>j DEF JobType, RuleType, NoRule, Rule, AnyRun, ItemTypeOK
    <3>2. [NoFire EXCEPT !.run = job.rule.run, !.gen = fires + 1, !.cause = job.event,
                         !.retried = job.retried] \in FireType
      BY <3>1, NothingType DEF FireType
    <3> QED BY <1>5, <3>2, NothingType DEF ArmFire, SetPendingFire, ClearPendingFire, FireType
  <2> QED BY <1>5, <2>1, <2>2, <2>3, <2>4 DEF ArmFire, ItemTypeOK, github, counts
<1>6. CASE FireSent
  <2>1. job' \in JobType
    BY <1>6, <1>p, <1>n DEF FireSent
  <2>2. runs' \in SUBSET SessionType
    BY <1>6, StartedType DEF FireSent, ItemTypeOK
  <2> QED BY <1>6, <2>1, <2>2 DEF FireSent, ItemTypeOK, github, counts, watch
<1>7. CASE AfterEvent
  <2>1. job' \in JobType /\ CountsTypeOK'
    BY <1>7, AfterEventType
  <2> QED BY <1>7, <2>1 DEF AfterEvent, CountsTypeOK, ItemTypeOK, github, watch
<1>8. CASE AfterMergeFix
  <2>1. job' \in JobType /\ labels' \in SUBSET Labels
    BY <1>8, <1>p, <1>n DEF AfterMergeFix, ItemTypeOK
  <2> QED BY <1>8, <2>1 DEF AfterMergeFix, ItemTypeOK, counts, watch
<1>9. CASE CountMergeFix
  <2>1. job' \in JobType
    BY <1>9, <1>p, <1>n DEF CountMergeFix, Goes
  <2>2. ciFix' \in CiFixType
    BY <1>9 DEF CountMergeFix, ItemTypeOK, CiFixType
  <2> QED BY <1>9, <2>1, <2>2 DEF CountMergeFix, ItemTypeOK, github, watch
<1>10. CASE Comment
  BY <1>10, <1>p, <1>n, JobOnlyType DEF Comment, Goes, github, watch
<1>11. CASE ReturnHook
  <2>1. applied' \in [Routines -> AppliedType]
    BY <1>11, RememberType DEF ReturnHook
  <2>2. job' \in JobType /\ pending' \in FireType /\ alarm' \in BOOLEAN
    BY <1>11, NothingType DEF ReturnHook, ClearPendingFire, KeepPendingFire, ItemTypeOK
  <2> QED BY <1>11, <2>1, <2>2 DEF ReturnHook, ItemTypeOK, github, counts
<1> QED BY <1>1, <1>2, <1>3, <1>4, <1>5, <1>6, <1>7, <1>8, <1>9, <1>10, <1>11 DEF WebhookStep

----------------------------------------------------------------------------
(* The alarm's steps, and the ended signal's.                              *)

LEMMA AlarmJobType ==
  ASSUME ItemTypeOK, NEW pc \in ProgramCounters
  PROVE  AlarmJob(pc) \in JobType
BY NothingType DEF AlarmJob, ItemTypeOK, JobType, JobSources

LEMMA FireAgainType ==
  ASSUME ItemTypeOK, NEW then \in Thens, NEW retriedNow \in BOOLEAN
  PROVE  FireAgain(then, retriedNow) \in JobType
<1>1. AlarmJob("write") \in JobType
  BY AlarmJobType DEF ProgramCounters
<1>2. pending.cause \in AnyEvent /\ pending.run \in AnyRun
  BY DEF ItemTypeOK, FireType
<1>3. FireOf(pending.run) \in RuleType
  BY <1>2, FireOfType
<1> QED BY <1>1, <1>2, <1>3 DEF FireAgain, JobType

LEMMA BackToExpiryType ==
  ASSUME ItemTypeOK, NEW pc \in ProgramCounters
  PROVE  BackToExpiry(pc) \in JobType
BY NothingType DEF BackToExpiry, ItemTypeOK, JobType

(* A sequence without one of its elements is a sequence of the same.       *)
LEMMA WithoutType ==
  ASSUME NEW S, NEW s \in Seq(S), NEW i \in Nat
  PROVE  Without(s, i) \in Seq(S)
<1> DEFINE n == IF Len(s) = 0 THEN 0 ELSE Len(s) - 1
<1>1. n \in Nat /\ 1..(Len(s) - 1) = 1..n
  OBVIOUS
<1>2. ASSUME NEW k \in 1..(Len(s) - 1)
      PROVE  (IF k < i THEN s[k] ELSE s[k + 1]) \in S
  <2>1. k \in 1..Len(s) /\ k + 1 \in 1..Len(s)
    OBVIOUS
  <2> QED BY <2>1, ElementOfSeq
<1>3. Without(s, i) \in [1..n -> S]
  BY <1>1, <1>2 DEF Without
<1> QED BY <1>1, <1>3, SeqDef

(* The job that replays an outcome comment has the right shape.            *)
LEMMA ReplayJobType ==
  ASSUME ItemTypeOK, Replay
  PROVE  [Begin(job.left[Len(job.left)], job.src)
            EXCEPT !.replays = TRUE, !.left = SubSeq(job.left, 1, Len(job.left) - 1)] \in JobType
<1> DEFINE h    == job.left[Len(job.left)]
           rest == SubSeq(job.left, 1, Len(job.left) - 1)
<1>1. job.left \in Seq(ReportType) /\ job.left # <<>> /\ job.src \in JobSources
  BY DEF Replay, ItemTypeOK, JobType
<1>2. h \in ReportType /\ rest \in Seq(ReportType)
  BY <1>1
<1>3. h \in HookType
  BY <1>2 DEF ReportType, HookType, AnyRun
<1>4. Begin(h, job.src) \in JobType
  BY <1>1, <1>3, BeginType
<1> HIDE DEF h, rest
<1>5. [Begin(h, job.src) EXCEPT !.replays = TRUE, !.left = rest] \in JobType
  BY <1>2, <1>4 DEF JobType
<1> QED BY <1>5 DEF h, rest

(* Every step of the alarm's handler keeps every shape                     *)
(* (coordinate/watchdog.ts).                                               *)
LEMMA WatchdogStepType ==
  ASSUME ItemTypeOK, WatchdogStep
  PROVE  ItemTypeOK'
<1> USE DEF Elsewhere
<1>j. job \in JobType /\ NoJob \in JobType
  BY NothingType DEF ItemTypeOK
<1>n. {"recover", "expire", "comment", "return"} \in SUBSET ProgramCounters
  BY DEF ProgramCounters
<1>t. {"deferred", "retry", "expiry"} \in SUBSET Thens
  BY DEF Thens
<1>e. "WATCHDOG_EXPIRED" \in AnyEvent
  BY NamedEvents
<1>1. CASE AlarmForNothing
  BY <1>1 DEF AlarmForNothing, ItemTypeOK, github, counts
<1>2. CASE DropDeferred
  BY <1>2, NothingType DEF DropDeferred, ClearPendingFire, ItemTypeOK, github, counts
<1>3. CASE SendDeferred
  <2>1. pending.retried \in BOOLEAN
    BY DEF ItemTypeOK, FireType
  <2> QED BY <1>3, <2>1, <1>t, FireAgainType, JobOnlyType DEF SendDeferred, github, watch
<1>4. CASE StartExpiry
  <2>1. AlarmJob("recover") \in JobType /\ AlarmJob("expire") \in JobType
    BY <1>n, AlarmJobType
  <2>2. [AlarmJob("recover") EXCEPT !.left = posted] \in JobType
    BY <2>1 DEF ItemTypeOK, JobType
  <2> QED BY <1>4, <2>1, <2>2, JobOnlyType DEF StartExpiry, github, watch
<1>5. CASE Replay
  <2> DEFINE j == [Begin(job.left[Len(job.left)], job.src)
                     EXCEPT !.replays = TRUE, !.left = SubSeq(job.left, 1, Len(job.left) - 1)]
  <2>5. j \in JobType
    BY <1>5, ReplayJobType
  <2>6. HandleEvent(j)
    BY <1>5 DEF Replay
  <2> HIDE DEF j
  <2> QED BY <1>5, <2>5, <2>6, HandlerType DEF Replay, github, watch
<1>6. CASE ReplayApplied
  <2>1. applied' \in [Routines -> AppliedType]
    BY <1>6, RememberType DEF ReplayApplied
  <2>2. job' \in JobType /\ pending' \in FireType /\ alarm' \in BOOLEAN /\ ringing' \in BOOLEAN
    BY <1>6, <1>j, NothingType
    DEF ReplayApplied, ClearPendingFire, KeepPendingFire, StopRinging, ItemTypeOK
  <2> QED BY <1>6, <2>1, <2>2 DEF ReplayApplied, ItemTypeOK, github
<1>7. CASE ReplayNotApplied
  <2>1. Len(job.left) + 1 \in Nat
    BY <1>j DEF JobType
  <2>2. posted' \in Seq(ReportType)
    BY <1>7, <2>1, WithoutType DEF ReplayNotApplied, ItemTypeOK
  <2>3. job' \in JobType
    BY <1>7, <1>n, BackToExpiryType DEF ReplayNotApplied
  <2> QED BY <1>7, <2>2, <2>3 DEF ReplayNotApplied, ItemTypeOK, github, watch, counts
<1>8. CASE RetryOnce
  BY <1>8, <1>n, <1>t, FireAgainType, BackToExpiryType, JobOnlyType DEF RetryOnce, github, watch
<1>9. CASE Expire
  <2>1. [job EXCEPT !.seen = labels] \in JobType
    BY <1>j DEF ItemTypeOK, JobType
  <2>2. job' \in JobType
    BY <1>9, <1>t, <1>e, <2>1, ApplyEventType DEF Expire
  <2>3. reworkExpired' \in BOOLEAN
    BY <1>9 DEF Expire, ExpiryClaims, ItemTypeOK
  <2> QED BY <1>9, <2>2, <2>3 DEF Expire, ItemTypeOK, github, watch
<1>10. CASE AfterExpiry
  BY <1>10, <1>j, NothingType DEF AfterExpiry, ClearPendingFire, StopRinging, ItemTypeOK, github
<1>11. CASE AfterFiredAgain
  BY <1>11, <1>j, <1>n, PcType, JobOnlyType DEF AfterFiredAgain, github, watch
<1>12. CASE ReturnAlarm
  BY <1>12, <1>j DEF ReturnAlarm, ItemTypeOK, github, counts
<1> QED
  BY <1>1, <1>2, <1>3, <1>4, <1>5, <1>6, <1>7, <1>8, <1>9, <1>10, <1>11, <1>12 DEF WatchdogStep

(* Every step of the signal path keeps every shape                         *)
(* (coordinate/routine-signal.ts).                                         *)
LEMMA SignalStepType ==
  ASSUME ItemTypeOK, SignalStep
  PROVE  ItemTypeOK'
<1> USE DEF Elsewhere
<1>n. NoJob \in JobType /\ NoFire \in FireType
  BY NothingType
<1>1. ASSUME NEW s \in hooks, IgnoreSignal(s)  PROVE ItemTypeOK'
  BY <1>1 DEF IgnoreSignal, Handled, ItemTypeOK, github, watch, counts
<1>2. ASSUME NEW s \in hooks, Heartbeat(s)  PROVE ItemTypeOK'
  <2>1. pending' \in FireType /\ alarm' \in BOOLEAN
    BY <1>2 DEF Heartbeat, SetPendingFire, ItemTypeOK, FireType
  <2> QED BY <1>2, <2>1 DEF Heartbeat, Handled, ItemTypeOK, github, counts
<1>3. ASSUME NEW s \in hooks, Completion(s)  PROVE ItemTypeOK'
  BY <1>3, <1>n DEF Completion, Handled, ClearPendingFire, ItemTypeOK, github, counts
<1>4. ASSUME NEW s \in hooks, TakeOutcome(s)  PROVE ItemTypeOK'
  <2>1. Begin(s, "signal") \in JobType
    BY BeginType DEF ItemTypeOK, JobSources
  <2> QED BY <1>4, <2>1, HandlerType DEF TakeOutcome, github, watch
<1>5. ASSUME NEW s \in hooks, EndFire(s)  PROVE ItemTypeOK'
  <2> DEFINE recover == [NoJob EXCEPT !.src = "ended", !.pc = "recover", !.old = pending, !.left = posted]
             expire  == [NoJob EXCEPT !.src = "ended", !.pc = "expire", !.old = pending]
  <2>1. recover \in JobType /\ expire \in JobType
    BY <1>n DEF ItemTypeOK, JobType, JobSources, ProgramCounters
  <2>2. job' \in {recover, expire}
    BY <1>5, Zenon DEF EndFire
  <2> HIDE DEF recover, expire
  <2>3. job' \in JobType
    BY <2>1, <2>2
  <2> QED BY <1>5, <2>3 DEF EndFire, Handled, ItemTypeOK, github, watch, counts
<1>6. CASE ReturnOutcome
  <2>1. applied' \in [Routines -> AppliedType]
    BY <1>6, RememberType DEF ReturnOutcome
  <2>2. job' \in JobType /\ pending' \in FireType /\ alarm' \in BOOLEAN /\ hooks' \in SUBSET HookType
    BY <1>6, <1>n DEF ReturnOutcome, Handled, ClearPendingFire, KeepPendingFire, ItemTypeOK
  <2> QED BY <1>6, <2>1, <2>2 DEF ReturnOutcome, ItemTypeOK, github, counts
<1> QED BY <1>1, <1>2, <1>3, <1>4, <1>5, <1>6 DEF SignalStep

----------------------------------------------------------------------------
(* The environment's steps.                                                *)

(* The environment's fields have their types.                              *)
LEMMA EnvironmentFacts ==
  ASSUME env \in Environments
  PROVE  /\ env.adds \in SUBSET Labels /\ env.removes \in SUBSET Labels
         /\ env.reports \in SUBSET Events
         /\ env.suites \in Nat
         /\ env.newMergeable \in MergeStates
         /\ env.mergeables \in SUBSET MergeStates
BY EnvironmentsAssumption DEF EnvironmentType

(* No step of people's touches the object's storage, or its job.           *)
LEMMA PeopleType ==
  ASSUME TypeOK, People
  PROVE  TypeOK'
<1> USE DEF TypeOK, bounds, history, storage, watch, counts, github
<1>h. ASSUME NEW event \in AnyEvent, NEW n \in Nat
      PROVE  Hook(event, NoRun, n) \in HookType /\ Sent(event, NoRun, n) \in SUBSET HookType
  BY <1>h DEF Hook, Sent, HookType, AnyRun
<1>l. \A l : LabelledEvent(l) \in AnyEvent /\ UnlabelledEvent(l) \in AnyEvent
  BY DEF LabelledEvent, UnlabelledEvent, AnyEvent, Events
<1>e. {"REWORK_PUSHED", "MERGED", "CLOSED", "ISSUE_CLOSED", "DISCUSSION_REPLY"} \in SUBSET AnyEvent
  BY DEF AnyEvent, Events
<1>1. ASSUME NEW l \in env.adds, PersonAddsLabel(l)  PROVE TypeOK'
  <2>1. hooks' \in SUBSET HookType /\ labels' \in SUBSET Labels
    BY <1>1, <1>h, <1>l, EnvironmentFacts DEF PersonAddsLabel, ItemTypeOK
  <2> QED BY <1>1, <2>1 DEF PersonAddsLabel, ItemTypeOK
<1>2. ASSUME NEW l \in env.removes, PersonRemovesLabel(l)  PROVE TypeOK'
  <2>1. hooks' \in SUBSET HookType /\ labels' \in SUBSET Labels
    BY <1>2, <1>h, <1>l DEF PersonRemovesLabel, ItemTypeOK
  <2> QED BY <1>2, <2>1 DEF PersonRemovesLabel, ItemTypeOK
<1>3. CASE PersonPushes
  <2>1. hooks' \in SUBSET HookType
    BY <1>3, <1>h, <1>e DEF PersonPushes, Push, ItemTypeOK
  <2> QED BY <1>3, <2>1, EnvironmentFacts DEF PersonPushes, Push, ItemTypeOK, CiStates
<1>4. CASE PersonReplies
  <2>1. hooks' \in SUBSET HookType
    BY <1>4, <1>h, <1>e DEF PersonReplies, ItemTypeOK
  <2> QED BY <1>4, <2>1 DEF PersonReplies, ItemTypeOK
<1>5. CASE PersonCloses
  <2>1. hooks' \in SUBSET HookType
    BY <1>5, <1>h, <1>e DEF PersonCloses, ItemTypeOK
  <2> QED BY <1>5, <2>1 DEF PersonCloses, ItemTypeOK
<1> QED BY <1>1, <1>2, <1>3, <1>4, <1>5 DEF People

LEMMA GitHubWorksType ==
  ASSUME TypeOK, GitHubWorks
  PROVE  TypeOK'
<1> USE DEF TypeOK, bounds, history, storage, watch, counts
<1>1. CASE CiFinishes
  <2>1. ASSUME NEW i \in 1..env.suites
        PROVE  Hook("CHECKS", NoRun, head * env.suites + i) \in HookType
    <3>1. head \in Nat /\ env.suites \in Nat /\ i \in Nat
      BY EnvironmentFacts DEF ItemTypeOK
    <3>2. head * env.suites + i \in Nat
      BY <3>1
    <3> QED BY <3>2 DEF Hook, HookType, AnyEvent, AnyRun
  <2>2. hooks' \in SUBSET HookType
    BY <1>1, <2>1 DEF CiFinishes, ItemTypeOK
  <2> QED BY <1>1, <2>2 DEF CiFinishes, ItemTypeOK, CiStates
<1>2. CASE MergeableChanges
  BY <1>2, EnvironmentFacts DEF MergeableChanges, ItemTypeOK
<1> QED BY <1>1, <1>2 DEF GitHubWorks

LEMMA SessionsType ==
  ASSUME TypeOK, Sessions
  PROVE  TypeOK'
<1> USE DEF TypeOK, bounds, history, storage, watch, counts, github, Ends
<1>1. PICK r \in runs : Session(r)
  BY DEF Sessions
<1>2. /\ r.run \in Routines
      /\ r.gen \in Nat
      /\ runs' \in SUBSET SessionType
  BY <1>1 DEF ItemTypeOK, SessionType, Session, Reports, Pushes, Merges, Dies, Steps
<1>h. ASSUME NEW event \in AnyEvent
      PROVE  /\ Hook(event, r.run, r.gen) \in ReportType \cap HookType
             /\ Signal(event, r.run, r.gen) \in HookType
             /\ \A kind : Sends(kind, event, r) \in SUBSET HookType
  BY <1>2 DEF Hook, Signal, Sends, HookType, ReportType, AnyRun
<1>3. ASSUME NEW o \in Outcomes(r.run) \cap env.reports, Reports(r, o)  PROVE TypeOK'
  <2>1. o \in AnyEvent
    BY EnvironmentFacts DEF AnyEvent
  <2>2. posted' \in Seq(ReportType)
    BY <1>3, <1>h, <2>1 DEF Reports, ItemTypeOK
  <2>3. hooks' \in SUBSET HookType
    BY <1>3, <1>h, <2>1 DEF Reports, ItemTypeOK
  <2> QED BY <1>2, <1>3, <2>2, <2>3 DEF Reports, ItemTypeOK
<1>4. CASE Pushes(r)
  <2>1. Hook("REWORK_PUSHED", NoRun, head + 1) \in HookType
    BY DEF Hook, HookType, AnyRun, AnyEvent, Events, ItemTypeOK
  <2> QED BY <1>2, <1>4, <2>1, EnvironmentFacts DEF Pushes, Push, ItemTypeOK, CiStates
<1>5. CASE Merges(r)
  <2>1. Hook("MERGED", NoRun, 0) \in HookType
    BY DEF Hook, HookType, AnyRun, AnyEvent, Events
  <2> QED BY <1>2, <1>5, <2>1 DEF Merges, ItemTypeOK
<1>6. CASE Dies(r)
  <2>1. \A kind \in {"ended", "completion"} : Sends(kind, kind, r) \in SUBSET HookType
    BY <1>h DEF AnyEvent, SignalKinds
  <2>2. hooks' \in SUBSET HookType
    BY <1>6, <2>1 DEF Dies, ItemTypeOK
  <2> QED BY <1>2, <1>6, <2>2 DEF Dies, ItemTypeOK
<1>7. CASE Steps(r)
  <2>1. Signal("process", r.run, r.gen) \in HookType
    BY <1>h DEF AnyEvent, SignalKinds
  <2>2. hooks' \in SUBSET HookType /\ steps' \in Nat
    BY <1>7, <2>1 DEF Steps, ItemTypeOK
  <2> QED BY <1>7, <2>2 DEF Steps, ItemTypeOK
<1> QED BY <1>1, <1>3, <1>4, <1>5, <1>6, <1>7 DEF Session

(* A failure leaves the item's variables in shape.                         *)
LEMMA FailuresType ==
  ASSUME TypeOK, SendsARun, Failures
  PROVE  TypeOK'
<1> USE DEF watch, counts, github, Elsewhere
<1>n. /\ NoJob \in JobType /\ NoFire \in FireType /\ job \in JobType
      /\ ItemTypeOK
  BY NothingType DEF ItemTypeOK, TypeOK
<1>p. {"recover", "expire", "after"} \in SUBSET ProgramCounters
  BY DEF ProgramCounters
<1>t. "deferred" \in Thens
  BY DEF Thens
<1>1. ASSUME Throws  PROVE ItemTypeOK'
  <2>1. BackToExpiry("recover") \in JobType
    BY <1>n, <1>p, BackToExpiryType
  <2>2. [BackToExpiry("recover") EXCEPT !.left = <<>>] \in JobType
    <3>1. <<>> \in Seq(ReportType)
      OBVIOUS
    <3> HIDE DEF BackToExpiry
    <3> QED BY <2>1, <3>1 DEF JobType
  <2>3. job' \in {NoJob, [BackToExpiry("recover") EXCEPT !.left = <<>>]}
    BY <1>1 DEF Throws, ThrowHook, ThrowAlarm, ThrowReplay
  <2>4. UNCHANGED <<Elsewhere, counts>>
    BY <1>1 DEF Throws, ThrowHook, ThrowAlarm, ThrowReplay
  <2> QED BY <1>n, <2>2, <2>3, <2>4, JobOnlyType
<1>2. ASSUME Crashes  PROVE ItemTypeOK'
  <2>1. CASE CrashHook
    BY <1>n, <2>1 DEF CrashHook, ItemTypeOK
  <2>2. CASE CrashAlarm
    <3>1. Len(job.left) + 1 \in Nat
      BY <1>n DEF JobType
    <3>2. posted' \in Seq(ReportType)
      BY <1>n, <2>2, <3>1, WithoutType DEF CrashAlarm, ItemTypeOK
    <3> QED BY <1>n, <2>2, <3>2 DEF CrashAlarm, ItemTypeOK
  <2> QED BY <1>2, <2>1, <2>2 DEF Crashes
<1>3. ASSUME Refused  PROVE ItemTypeOK'
  <2>1. BackToExpiry("expire") \in JobType
    BY <1>n, <1>p, BackToExpiryType
  <2> QED BY <1>3, <1>n, <2>1 DEF Refused, RefuseHook, RefuseAlarm, ClearPendingFire, ItemTypeOK
<1>4. ASSUME Limited  PROVE ItemTypeOK'
  <2>1. Watched(job) \in BOOLEAN
    BY DEF Watched, IsWatched, HasRule
  <2>2. /\ job.rule.run \in AnyRun /\ job.event \in AnyEvent
        /\ job.retried \in BOOLEAN /\ fires \in Nat
    BY <1>n DEF JobType, RuleType, NoRule, Rule, AnyRun, ItemTypeOK
  <2>3. Deferral \in FireType
    BY <1>n, <2>1, <2>2 DEF Deferral, FireType
  <2>4. pending' \in FireType /\ alarm' \in BOOLEAN
    BY <1>4, <2>3 DEF Limited, FireLimited, SetPendingFire, FireType
  <2>5. job' \in JobType
    BY <1>4, <1>n, <1>p, PcType DEF Limited, FireLimited
  <2> QED BY <1>4, <1>n, <2>4, <2>5 DEF Limited, FireLimited, ItemTypeOK
<1>5. ASSUME Unheard  PROVE ItemTypeOK'
  BY <1>5, <1>n, StartedType DEF Unheard, LostAnswer, ItemTypeOK
<1>6. ASSUME Unread  PROVE ItemTypeOK'
  <2>1. pending.retried \in BOOLEAN
    BY <1>n DEF ItemTypeOK, FireType
  <2>2. FireAgain("deferred", pending.retried) \in JobType /\ AlarmJob("recover") \in JobType
    BY <1>n, <1>p, <1>t, <2>1, FireAgainType, AlarmJobType
  <2> QED BY <1>6, <1>n, <2>2, JobOnlyType DEF Unread, SendDeferredUnread, StartExpiryUnread
<1>7. ASSUME GivesUp  PROVE ItemTypeOK'
  BY <1>7, <1>n DEF GivesUp, GiveUp, ItemTypeOK
<1>8. ASSUME Loses  PROVE ItemTypeOK'
  BY <1>8, <1>n DEF Loses, storage, ItemTypeOK
<1>9. ItemTypeOK'
  BY <1>1, <1>2, <1>3, <1>4, <1>5, <1>6, <1>7, <1>8 DEF Failures
<1>10. env' = env /\ edits' = edits /\ acts' = acts /\ steps' = steps /\ faults' \in Nat
  BY DEF Failures, Throws, Crashes, Refused, Limited, Unheard, Unread, GivesUp, Loses, Fails, TypeOK
<1> QED BY <1>9, <1>10 DEF Failures, TypeOK, history

----------------------------------------------------------------------------
(* Nothing but ArmFire leads to the call of the routines API.              *)

LEMMA ApplyEventGoes ==
  ASSUME NEW j, j \in JobType, NEW event, NEW then
  PROVE  /\ ApplyEvent(j, event, then).pc \in {"write", "after"}
         /\ ApplyEvent(j, event, then).src = j.src
         /\ ApplyEvent(j, event, then).replays = j.replays
         /\ ApplyEvent(j, event, then).old = j.old
         /\ ApplyEvent(j, event, then).then = then
BY DEF ApplyEvent, JobType

(* A handler writes, reads the gate's facts, or returns: it fires nothing  *)
(* itself, and its job still says where it came from.                      *)
LEMMA HandleEventGoes ==
  ASSUME NEW j \in JobType, HandleEvent(j)
  PROVE  /\ job'.pc \in {"write", "after", "facts", "return"}
         /\ job'.src = j.src
         /\ job'.replays = j.replays
         /\ job'.old = j.old
<1> DEFINE Goal == /\ job'.pc \in {"write", "after", "facts", "return"}
                   /\ job'.src = j.src
                   /\ job'.replays = j.replays
                   /\ job'.old = j.old
<1>a. ASSUME NEW event, NEW then, job' = ApplyEvent(j, event, then)  PROVE Goal
  BY <1>a, ApplyEventGoes
<1>r. ASSUME NEW b, job' = Returns(j, b)  PROVE Goal
  BY <1>r DEF Returns, JobType
<1>1. ASSUME HandleNothing(j)  PROVE Goal
  BY <1>1, <1>r DEF HandleNothing
<1>2. ASSUME HandleReworkEnd(j)  PROVE Goal
  <2> DEFINE Good(x) == /\ x.pc \in {"write", "after", "facts", "return"}
                        /\ x.src = j.src
                        /\ x.replays = j.replays
                        /\ x.old = j.old
  <2>1. ASSUME NEW flags \in SUBSET {"ciFix", "reviewLoop", "reworkExpired"}, NEW event
        PROVE  Good(ApplyEvent([j EXCEPT !.late = flags], event, "tail"))
    <3> DEFINE jj == [j EXCEPT !.late = flags]
    <3>1. jj \in JobType /\ jj.src = j.src /\ jj.replays = j.replays /\ jj.old = j.old
      BY DEF JobType
    <3> HIDE DEF jj
    <3>2. Good(ApplyEvent(jj, event, "tail"))
      BY <3>1, ApplyEventGoes
    <3> QED BY <3>2 DEF jj
  <2>2. Good(Returns(j, FALSE))
    BY DEF Returns, JobType
  <2> HIDE DEF Good
  <2>3. Good(job')
    BY <1>2, <2>1, <2>2 DEF HandleReworkEnd
  <2> QED BY <2>3 DEF Good
<1>3. ASSUME HandleReworkLabel(j)  PROVE Goal
  BY <1>3, <1>a DEF HandleReworkLabel
<1>4. ASSUME HandleReviewLabel(j)  PROVE Goal
  BY <1>4, <1>a, <1>r DEF HandleReviewLabel
<1>5. ASSUME HandleFindings(j)  PROVE Goal
  BY <1>5, <1>a DEF HandleFindings
<1>f. ASSUME NEW then, job' = [j EXCEPT !.pc = "facts", !.then = then]  PROVE Goal
  BY <1>f DEF JobType
<1>6. ASSUME HandleMergeLabel(j)  PROVE Goal
  BY <1>6, <1>r, <1>f DEF HandleMergeLabel
<1>7. ASSUME HandleChecks(j)  PROVE Goal
  BY <1>7, <1>r, <1>f DEF HandleChecks
<1>8. ASSUME HandleOther(j)  PROVE Goal
  BY <1>8, <1>a DEF HandleOther
<1> QED BY <1>1, <1>2, <1>3, <1>4, <1>5, <1>6, <1>7, <1>8 DEF HandleEvent

(* The gates lead to a rule or to the end of the request.                  *)
LEMMA GateGoes ==
  ASSUME ItemTypeOK, ReadFacts
  PROVE  /\ job'.pc \in {"write", "after", "return"}
         /\ job'.src = job.src
         /\ job'.replays = job.replays
         /\ job'.old = job.old
<1>p. PICK checks : LET facts == Facts(head, checks, mergeable)
                    IN  job' = CASE job.then = "review"     -> ReviewGate(job, facts)
                                 [] job.then = "mergeLabel" -> GateMergeLabel(job, facts)
                                 [] OTHER                   -> GateChecks(job, facts)
  BY DEF ReadFacts
<1> DEFINE Goal(j) == /\ j.pc \in {"write", "after", "return"}
                      /\ j.src = job.src
                      /\ j.replays = job.replays
                      /\ j.old = job.old
           facts == Facts(head, checks, mergeable)
<1>j. job \in JobType
  BY DEF ItemTypeOK
<1>a. \A event, then : Goal(ApplyEvent(job, event, then))
  BY <1>j, ApplyEventGoes
<1>r. \A b : Goal(Returns(job, b))
  BY <1>j DEF Returns, JobType
<1>h. Goal(ApplyEvent([job EXCEPT !.head = facts.head], "MERGE_GATE_PASSED", "mergeFired"))
  <2>1. facts.head \in Nat
    BY DEF Facts, ItemTypeOK
  <2> HIDE DEF facts
  <2> DEFINE jj == [job EXCEPT !.head = facts.head]
  <2>2. jj \in JobType /\ jj.src = job.src /\ jj.replays = job.replays /\ jj.old = job.old
    BY <1>j, <2>1 DEF JobType
  <2> HIDE DEF jj
  <2>3. Goal(ApplyEvent(jj, "MERGE_GATE_PASSED", "mergeFired"))
    BY <2>2, ApplyEventGoes
  <2> QED BY <2>3 DEF jj
<1> HIDE DEF Goal
<1>1. Goal(ReviewGate(job, facts)) /\ Goal(GateMergeLabel(job, facts)) /\ Goal(GateChecks(job, facts))
  <2>1. Goal(HandReviewToRework(job)) /\ Goal(HandToRework(job))
    BY <1>a DEF HandReviewToRework, HandToRework
  <2>2. Goal(ReviewGate(job, facts))
    BY <1>a, <1>r, <2>1 DEF ReviewGate
  <2>3. Goal(GateMergeLabel(job, facts))
    BY <1>a, <2>1 DEF GateMergeLabel
  <2>4. Goal(GateChecks(job, facts))
    BY <1>a, <1>r, <1>h, <2>1 DEF GateChecks
  <2> QED BY <2>2, <2>3, <2>4
<1>2. Goal(job')
  BY <1>p, <1>1
<1> QED BY <1>2 DEF Goal

(* The routines API is asked only after ArmFire.                           *)
LEMMA OnlyArmFireSends ==
  ASSUME ItemTypeOK, Next, job'.pc = "send"
  PROVE  job' = job \/ ArmFire
<1> USE DEF storage, Goes
<1>j. /\ job \in JobType
      /\ NoJob.pc = "idle" /\ NoJob \in JobType
  BY NothingType DEF ItemTypeOK, NoJob
<1>a. \A pc \in ProgramCounters : AlarmJob(pc).pc = pc
  BY <1>j DEF AlarmJob, JobType
<1>b. \A pc \in ProgramCounters : BackToExpiry(pc).pc = pc
  BY <1>j DEF BackToExpiry, JobType
<1>f. \A then, b : FireAgain(then, b).pc = "write"
  <2>1. AlarmJob("write") \in JobType /\ AlarmJob("write").pc = "write"
    BY <1>a, AlarmJobType DEF ProgramCounters
  <2> QED BY <2>1 DEF FireAgain, JobType
<1>h. \A h \in HookType, src \in JobSources : Begin(h, src) \in JobType
  BY BeginType
<1>1. CASE Worker
  <2>1. CASE WebhookStep
    <3>1. ASSUME NEW h \in hooks, TakeHook(h)  PROVE FALSE
      <4>1. Begin(h, "webhook") \in JobType
        BY <1>h DEF ItemTypeOK, JobSources
      <4> QED BY <3>1, <4>1, HandleEventGoes DEF TakeHook
    <3>2. CASE ReadFacts
      BY <3>2, GateGoes
    <3>3. CASE WriteLabel
      BY <1>j, <3>3 DEF WriteLabel, JobType
    <3>4. CASE EndWatch \/ FireSent \/ AfterMergeFix \/ CountMergeFix \/ Comment \/ ReturnHook
      BY <1>j, <3>4 DEF EndWatch, FireSent, AfterMergeFix, CountMergeFix, Comment, ReturnHook, JobType
    <3>5. CASE AfterEvent
      BY <1>j, <3>5
      DEF AfterEvent, AfterNothingApplied, AfterTail, AfterReviewLabel, AfterReviewFix, AfterFindings,
          AfterCapped, AfterPassed, AfterBlock, AfterMergeFired, AfterDone, JobType
    <3> QED BY <2>1, <3>1, <3>2, <3>3, <3>4, <3>5 DEF WebhookStep
  <2>2. CASE WatchdogStep
    <3>1. CASE Replay
      <4> DEFINE h == job.left[Len(job.left)]
                 rest == SubSeq(job.left, 1, Len(job.left) - 1)
                 j == [Begin(h, job.src) EXCEPT !.replays = TRUE, !.left = rest]
      <4>1. j \in JobType
        BY <3>1, ReplayJobType
      <4>2. HandleEvent(j)
        BY <3>1 DEF Replay
      <4> HIDE DEF j
      <4> QED BY <4>1, <4>2, HandleEventGoes
    <3>2. CASE StartExpiry
      <4>1. AlarmJob("recover") \in JobType /\ AlarmJob("recover").pc = "recover"
            /\ AlarmJob("expire").pc = "expire"
        BY <1>a, AlarmJobType DEF ProgramCounters
      <4>2. [AlarmJob("recover") EXCEPT !.left = posted].pc = "recover"
        BY <4>1 DEF JobType
      <4> QED BY <3>2, <4>1, <4>2 DEF StartExpiry
    <3>3. CASE SendDeferred \/ RetryOnce \/ ReplayNotApplied
      BY <1>f, <1>b, <3>3 DEF SendDeferred, RetryOnce, ReplayNotApplied, ProgramCounters
    <3>4. CASE Expire
      <4> DEFINE jj == [job EXCEPT !.seen = labels]
      <4>1. jj \in JobType
        BY <1>j DEF ItemTypeOK, JobType
      <4>2. job' = ApplyEvent(jj, "WATCHDOG_EXPIRED", "expiry")
        BY <3>4 DEF Expire
      <4> HIDE DEF jj
      <4> QED BY <4>1, <4>2, ApplyEventGoes
    <3>5. CASE AlarmForNothing \/ DropDeferred
      BY <3>5 DEF AlarmForNothing, DropDeferred
    <3>6. CASE ReplayApplied \/ AfterExpiry \/ AfterFiredAgain \/ ReturnAlarm
      BY <1>j, <3>6 DEF ReplayApplied, AfterExpiry, AfterFiredAgain, ReturnAlarm, JobType
    <3> QED BY <2>2, <3>1, <3>2, <3>3, <3>4, <3>5, <3>6 DEF WatchdogStep
  <2>3. CASE SignalStep
    <3>1. ASSUME NEW s \in hooks, TakeOutcome(s)  PROVE FALSE
      <4>1. Begin(s, "signal") \in JobType
        BY <1>h DEF ItemTypeOK, JobSources
      <4> QED BY <3>1, <4>1, HandleEventGoes DEF TakeOutcome
    <3>2. ASSUME NEW s \in hooks, EndFire(s)  PROVE FALSE
      BY <1>j, <3>2 DEF EndFire, JobType
    <3>3. ASSUME NEW s \in hooks, IgnoreSignal(s) \/ Heartbeat(s) \/ Completion(s)  PROVE job' = job
      BY <3>3 DEF IgnoreSignal, Heartbeat, Completion
    <3>4. CASE ReturnOutcome
      BY <1>j, <3>4 DEF ReturnOutcome
    <3> QED BY <2>3, <3>1, <3>2, <3>3, <3>4 DEF SignalStep
  <2> QED BY <1>1, <2>1, <2>2, <2>3 DEF Worker
<1>2. CASE Alarm
  BY <1>2 DEF Alarm, Ring
<1>3. CASE People
  BY <1>3 DEF People, PersonAddsLabel, PersonRemovesLabel, PersonPushes, PersonReplies, PersonCloses
<1>4. CASE GitHubWorks
  BY <1>4 DEF GitHubWorks, CiFinishes, MergeableChanges
<1>5. CASE Sessions
  BY <1>5 DEF Sessions, Session, Reports, Pushes, Merges, Dies, Steps
<1>6. CASE Failures
  <2>1. BackToExpiry("recover") \in JobType /\ BackToExpiry("expire").pc = "expire"
        /\ BackToExpiry("recover").pc = "recover"
    BY <1>b, BackToExpiryType DEF ProgramCounters
  <2>2. [BackToExpiry("recover") EXCEPT !.left = <<>>].pc = "recover"
    BY <2>1 DEF JobType
  <2>3. AlarmJob("recover").pc = "recover"
    BY <1>a DEF ProgramCounters
  <2>4. CASE Throws \/ Crashes \/ Refused
    BY <1>j, <2>1, <2>2, <2>4
    DEF Throws, Crashes, Refused, ThrowHook, ThrowAlarm, ThrowReplay, CrashHook, CrashAlarm,
        RefuseHook, RefuseAlarm
  <2>5. CASE Limited \/ Unheard
    BY <1>j, <2>5 DEF Limited, Unheard, FireLimited, LostAnswer, JobType
  <2>6. CASE Unread
    BY <1>f, <2>3, <2>6 DEF Unread, SendDeferredUnread, StartExpiryUnread
  <2>7. CASE GivesUp \/ Loses
    BY <2>7 DEF GivesUp, Loses, GiveUp
  <2> QED BY <1>6, <2>4, <2>5, <2>6, <2>7 DEF Failures
<1> QED BY <1>1, <1>2, <1>3, <1>4, <1>5, <1>6 DEF Next

----------------------------------------------------------------------------
(* The invariant that is inductive: the types, and that what is sent is a  *)
(* routine's fire (a session is of a routine, never of NoRun).             *)
TypeInv == TypeOK /\ SendsARun

LEMMA TypeStep ==
  ASSUME TypeInv, [Next]_allVars
  PROVE  TypeInv'
<1> USE DEF TypeInv
<1>t. ItemTypeOK
  BY DEF TypeOK
<1>1. CASE Next
  <2>s. SendsARun'
    <3>1. ASSUME ArmFire  PROVE SendsARun'
      BY <1>t, <3>1 DEF ArmFire, SendsARun, ItemTypeOK, JobType
    <3> QED BY <1>t, <1>1, <3>1, OnlyArmFireSends DEF SendsARun
  <2>1. CASE Worker
    <3>1. ItemTypeOK'
      BY <1>t, <2>1, WebhookStepType, WatchdogStepType, SignalStepType DEF Worker
    <3>2. /\ job.old.run \in AnyRun
          /\ job.hook.n \in Nat
          /\ fires' \in Nat
      BY <1>t, <3>1 DEF ItemTypeOK, JobType, FireType, HookType
    <3>3. /\ ciRounds' \in Nat /\ reviewRounds' \in Nat /\ retries' \in Nat
          /\ answered' \in SUBSET Nat /\ newest' \in [Routines -> Nat]
      <4>1. ciRounds' \in Nat /\ reviewRounds' \in Nat /\ answered' \in SUBSET Nat
        BY <2>1, <3>2 DEF Worker, Remember, Counted, TypeOK
      <4>2. retries' \in Nat
        BY <2>1 DEF Worker, Remember, TypeOK
      <4>3. newest' \in [Routines -> Nat]
        BY <2>1, <3>2 DEF Worker, Remember, TypeOK
      <4> QED BY <4>1, <4>2, <4>3
    <3>4. stuckBy' \in AnyRun \cup {"cap"}
      BY <2>1, <3>2 DEF Worker, Remember, TypeOK, AnyRun
    <3>5. UNCHANGED bounds
      BY <2>1 DEF Worker
    <3>6. TypeOK'
      BY <3>1, <3>3, <3>4, <3>5 DEF TypeOK, bounds
    <3> QED BY <2>s, <3>6
  <2>2. CASE Alarm
    <3>1. [pending EXCEPT !.due = TRUE] \in FireType
      BY <1>t DEF ItemTypeOK, FireType
    <3> QED BY <2>s, <2>2, <3>1 DEF Alarm, Ring, TypeOK, ItemTypeOK, github, counts, bounds, history
  <2> QED BY <1>1, <2>s, <2>1, <2>2, PeopleType, GitHubWorksType, SessionsType, FailuresType DEF Next
<1>2. CASE UNCHANGED allVars
  BY <1>2 DEF allVars, vars, github, watch, counts, bounds, history, TypeOK, ItemTypeOK, SendsARun
<1> QED BY <1>1, <1>2

LEMMA TypeInit == Init => TypeInv
<1> SUFFICES ASSUME Init  PROVE TypeInv
  OBVIOUS
<1>1. /\ <<>> \in Seq(ReportType)
      /\ [r \in Routines |-> NoOutcome] \in [Routines -> AppliedType]
      /\ 1 \in Nat \ {0} /\ "running" \in CiStates
  BY NothingType DEF CiStates
<1>2. ItemTypeOK
  BY <1>1, NothingType, EnvironmentFacts DEF Init, ItemTypeOK
<1>3. TypeOK
  BY <1>2 DEF Init, TypeOK, AnyRun
<1>4. SendsARun
  BY DEF Init, SendsARun, NoJob
<1> QED BY <1>3, <1>4 DEF TypeInv

(* The object's storage, its job and everything about the item always have *)
(* their shapes, whatever the caps, the switches and the bounds are, and   *)
(* whatever people, CI, sessions and failures do (TypeOK).                 *)
THEOREM TypeCorrect == Spec => []TypeOK
<1>1. Spec => []TypeInv
  BY TypeInit, TypeStep, PTL DEF Spec
<1>2. TypeInv => TypeOK
  BY DEF TypeInv
<1> QED BY <1>1, <1>2, PTL
=============================================================================
