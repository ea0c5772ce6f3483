--------------------------- MODULE ReleaseProofs ---------------------------
(***************************************************************************)
(* The release keeps what its review promises (Releasing), for any number  *)
(* of commits, reports, failures, redeliveries and people's edits.  The    *)
(* invariant (ReleaseInv) follows the approval: from the reports a trusted *)
(* author made, through the request that merges, to what storage and the   *)
(* watch say was merged.                                                   *)
(***************************************************************************)
EXTENDS Release, GraphProofs

----------------------------------------------------------------------------
(* The invariant.                                                          *)

JobEvents == OwnEvents \cup {"RELEASE_MERGED", "WATCHDOG_EXPIRED"}

Reviewed == mergedAt \in approved

(* A trusted report names a commit that was reviewed.                      *)
Passed(w) == w.event = "RELEASE_APPROVED" /\ w.by # "stranger" => w.commit \in approved

Reported == \A w \in sent \cup waiting \cup since \cup job.todo \cup {job.d} : Passed(w)

Merging == {"pull", "merge", "again", "record"}
Acting  == {"write", "arm", "fire", "log"} \cup Merging
Calling == {"write", "arm", "fire"}

(* Where a request is says which event it handles and what is watched.     *)
InHand(j) ==
  /\ j.event \in JobEvents \cup {"none"}
  /\ j.pc = "read" => j.event # "none"
  /\ j.pc = "write" => j.ops # <<>>
  /\ j.pc = "fire" => j.run # NoRun /\ pending.run = j.run
  /\ j.pc \in Merging => j.event = "RELEASE_APPROVED" /\ pending = NoFire
  /\ j.pc = "record" => mergedAt = j.d.commit

(* It merges for a trusted approval only.                                  *)
ForApproval(j) ==
  j.event = "RELEASE_APPROVED" =>
    /\ j.d.event = "RELEASE_APPROVED"
    /\ j.pc \in Acting => Trusted(j)
    /\ j.pc \in Calling => j.run = NoRun
    /\ j.pc = "log" => pending = NoFire

(* It fires the part that is due.                                          *)
AfterDue(j)  == j.run = After \/ j.event = "RELEASE_MERGED" => Reviewed
BeforeDue(j) == j.run = Before /\ j.pc \in Calling => releaseMerged = None

Sound(j) == InHand(j) /\ ForApproval(j) /\ AfterDue(j) /\ BeforeDue(j)

Stored ==
  /\ releaseMerged # None => Reviewed
  /\ pending.run = After => Reviewed
  /\ pending.run = Before => releaseMerged = None

ReleaseInv == TypeOK /\ Reported /\ Sound(job) /\ Stored

(* Where an applied event takes a request.                                 *)
Applies(j, a) ==
  /\ a \in Job /\ a.d = j.d /\ a.event = j.event /\ a.todo = j.todo
  /\ a.pc \in {"write", "arm", "clear", "return"}
  /\ a.pc = "write" => a.ops # <<>>
  /\ a.pc \notin {"write", "arm"} => a.run = j.run
  /\ a.pc \in {"write", "arm"} =>
       /\ a.run = After => a.event = "RELEASE_MERGED"
       /\ a.run = Before => a.event = "LABELLED_AUTO_RELEASING"

----------------------------------------------------------------------------
(* Applying an event.                                                      *)

(* The table fires the two routines of a release for one event each.       *)
LEMMA ReleaseRuns ==
  ASSUME NEW r \in Rules, r.on \in JobEvents
  PROVE  /\ r.run \in {Before, After, NoRun}
         /\ r.run = After => r.on = "RELEASE_MERGED"
         /\ r.run = Before => r.on = "LABELLED_AUTO_RELEASING"
BY SMT DEF Rules, IssueRules, ReleaseRules, MergeRules, ReviewRules, OutcomeRules, StageRules,
     UnlabelRules, WatchdogRules, StuckRules, Labels, NoRun, Rule, Fires, Moves, TakesOff, Closes, Stays,
     JobEvents, OwnEvents, Reports, Before, After

LEMMA JobEventsAreEvents == JobEvents \subseteq Events
BY DEF JobEvents, OwnEvents, Reports, Events

(* An applied event goes on to its rule's writes and run, or ends.         *)
LEMMA ApplyEventGoes ==
  ASSUME NEW j \in Job, j.event \in JobEvents
  PROVE  Applies(j, ApplyEvent(j))
<1> DEFINE state == StateBefore(j.found, j.event)
           rule  == Reduce(state, j.event)
           ops   == LabelOps(j.found, rule)
<1>1. CASE HasRule(state, j.event)
  <2>1. rule \in Rules /\ rule.on = j.event
    BY <1>1, ReduceAnswers
  <2>2. rule \in RuleType
    BY <2>1, RulesType
  <2>3. ops \in Seq(OpType)
    BY <2>2, LabelOpsType DEF Job
  <2>4. /\ rule.run \in {Before, After, NoRun}
        /\ rule.run = After => j.event = "RELEASE_MERGED"
        /\ rule.run = Before => j.event = "LABELLED_AUTO_RELEASING"
    BY <2>1, ReleaseRuns
  <2>5. ApplyEvent(j) = [j EXCEPT !.pc = IF ops = <<>> THEN "arm" ELSE "write", !.ops = ops, !.run = rule.run]
    BY <1>1 DEF ApplyEvent
  <2> HIDE DEF state, rule, ops
  <2> QED BY <2>3, <2>4, <2>5 DEF Applies, Job, PCs
<1>2. CASE ~HasRule(state, j.event)
  <2>1. ApplyEvent(j) = [j EXCEPT !.pc = IF j.event = "WATCHDOG_EXPIRED" THEN "clear" ELSE "return"]
    BY <1>2 DEF ApplyEvent
  <2> QED BY <2>1 DEF Applies, Job, PCs
<1> QED BY <1>1, <1>2

(* What the event asks for is sound, if the event is due.                  *)
LEMMA ApplyEventSound ==
  ASSUME NEW j \in Job, j.event \in JobEvents, AfterDue(j),
         j.event = "RELEASE_APPROVED" => j.d.event = "RELEASE_APPROVED" /\ Trusted(j),
         j.event = "LABELLED_AUTO_RELEASING" => releaseMerged = None
  PROVE  Sound(ApplyEvent(j))
<1>1. Applies(j, ApplyEvent(j))
  BY ApplyEventGoes
<1> DEFINE a == ApplyEvent(j)
<1> HIDE DEF a
<1>2. Applies(j, a)
  BY <1>1 DEF a
<1>3. a.run \in {Before, After, NoRun}
  BY <1>2 DEF Applies, Job
<1>4. InHand(a)
  BY <1>2 DEF InHand, Applies, Merging
<1>5. ForApproval(a)
  BY <1>2, <1>3 DEF ForApproval, Applies, Trusted, Acting, Calling, Merging
<1>6. AfterDue(a)
  BY <1>2 DEF AfterDue, Applies
<1>7. BeforeDue(a)
  BY <1>2 DEF BeforeDue, Applies, Calling
<1> QED BY <1>4, <1>5, <1>6, <1>7 DEF Sound, a

(* A request in progress moving on to a step that asks for nothing.        *)
LEMMA Ends ==
  ASSUME NEW j \in Job, Sound(j), NEW pc \in {"comment", "forget", "clear", "return", "thrown"}
  PROVE  [j EXCEPT !.pc = pc] \in Job /\ Sound([j EXCEPT !.pc = pc])
BY DEF Job, PCs, Sound, InHand, ForApproval, AfterDue, BeforeDue, Acting, Calling, Merging, Trusted

(* What the handler makes of the labels it read.                           *)
LEMMA HandleSound ==
  ASSUME NEW j \in Job, j.event \in JobEvents, AfterDue(j), Stored,
         j.event = "RELEASE_APPROVED" => j.d.event = "RELEASE_APPROVED"
  PROVE  /\ Handle(j) \in Job /\ Sound(Handle(j))
         /\ Handle(j).d = j.d /\ Handle(j).todo = j.todo
<1> DEFINE r == [j EXCEPT !.pc = "return"]
<1>1. r \in Job /\ r.d = j.d /\ r.todo = j.todo /\ Sound(r)
  BY DEF Job, PCs, Sound, InHand, ForApproval, AfterDue, BeforeDue, Acting, Calling, Merging
<1>2. CASE j.event \in {"RELEASE_APPROVED", "RELEASE_PUBLISHED"} /\ ~Trusted(j)
  <2>1. Handle(j) = r
    BY <1>2 DEF Handle, Returns
  <2> QED BY <1>1, <2>1
<1>3. CASE Retries(j) /\ ~(j.event \in {"RELEASE_APPROVED", "RELEASE_PUBLISHED"} /\ ~Trusted(j))
  <2>1. Handle(j) = RetryReleasePublish(j)
    BY <1>3 DEF Handle
  <2>2. CASE "AUTO_RELEASING" \notin j.found
    BY <1>1, <2>1, <2>2 DEF RetryReleasePublish, Returns
  <2>3. CASE "AUTO_RELEASING" \in j.found
    <3> DEFINE ops == IF "AI_STUCK" \in j.found THEN <<[op |-> "remove", label |-> "AI_STUCK"]>> ELSE <<>>
               pc  == IF "AI_STUCK" \in j.found THEN "write" ELSE "arm"
               h   == [j EXCEPT !.event = "RELEASE_MERGED", !.run = After, !.pc = pc, !.ops = ops]
    <3>1. Handle(j) = h
      BY <2>1, <2>3 DEF RetryReleasePublish
    <3>2. [op |-> "remove", label |-> "AI_STUCK"] \in OpType
      BY DEF OpType, Labels
    <3>3. ops \in Seq(OpType) /\ (pc = "write" => ops # <<>>) /\ pc \in {"write", "arm"}
      BY <3>2
    <3>4. Reviewed
      BY <1>3 DEF Stored, Retries
    <3> HIDE DEF ops, pc
    <3>5. h \in Job /\ h.d = j.d /\ h.todo = j.todo /\ h.event = "RELEASE_MERGED" /\ h.run = After
          /\ h.pc = pc /\ h.ops = ops
      <4>1. "RELEASE_MERGED" \in Events
        BY DEF Events
      <4> QED BY <3>3, <4>1 DEF Job, PCs
    <3> HIDE DEF h
    <3>6. Sound(h)
      BY <3>3, <3>4, <3>5 DEF Sound, InHand, ForApproval, AfterDue, BeforeDue, Merging, JobEvents, Before, After
    <3> QED BY <3>1, <3>5, <3>6
  <2> QED BY <2>2, <2>3
<1>4. CASE ~Retries(j) /\ ~(j.event \in {"RELEASE_APPROVED", "RELEASE_PUBLISHED"} /\ ~Trusted(j))
  <2>1. Handle(j) = ApplyEvent(j)
    BY <1>4 DEF Handle
  <2>2. Sound(ApplyEvent(j))
    BY <1>4, ApplyEventSound DEF Retries
  <2>3. Applies(j, ApplyEvent(j))
    BY ApplyEventGoes
  <2> QED BY <2>1, <2>2, <2>3 DEF Applies
<1> QED BY <1>2, <1>3, <1>4

(* A refusal asks for nothing of the after part.                           *)
LEMMA RefuseSound ==
  ASSUME NEW j \in Job, AfterDue(j)
  PROVE  Refuse(j) \in Job /\ Sound(Refuse(j)) /\ Refuse(j).d = j.d /\ Refuse(j).todo = j.todo
<1> DEFINE b == [j EXCEPT !.event = "RELEASE_BLOCKED"]
<1>1. b \in Job /\ b.event = "RELEASE_BLOCKED" /\ b.d = j.d /\ b.todo = j.todo /\ b.run = j.run
  BY DEF Job, Events
<1>2. b.event \in JobEvents /\ AfterDue(b)
  BY <1>1 DEF JobEvents, OwnEvents, Reports, AfterDue
<1>3. Refuse(j) = ApplyEvent(b)
  BY DEF Refuse
<1> HIDE DEF b
<1>4. Sound(ApplyEvent(b)) /\ Applies(b, ApplyEvent(b))
  BY <1>1, <1>2, ApplyEventSound, ApplyEventGoes
<1> QED BY <1>1, <1>3, <1>4 DEF Applies

----------------------------------------------------------------------------
(* The object's steps keep the invariant.                                  *)

LEMMA InitReleaseInv == Init => ReleaseInv
<1> SUFFICES ASSUME Init PROVE ReleaseInv
  OBVIOUS
<1>1. IdleJob \in Job
  BY DEF IdleJob, Job, PCs
<1>2. TypeOK
  <2>1. 1 \in Commits
    BY ReleaseAssumption DEF Commits
  <2> QED BY <1>1, <2>1 DEF Init, TypeOK
<1>3. Reported /\ Stored
  BY DEF Init, Reported, Stored, Passed, IdleJob, NoRequest, NoFire, NoRun, Before, After
<1>4. Sound(job)
  BY DEF Init, Sound, InHand, ForApproval, AfterDue, BeforeDue, Merging, Acting, Calling, IdleJob, NoRun, JobEvents,
         Before, After
<1> QED BY <1>2, <1>3, <1>4 DEF ReleaseInv

(* A request nobody is at: idle, an expiry, or one set off for a run.      *)
LEMMA FreshJobs ==
  ASSUME TypeOK
  PROVE  /\ IdleJob \in Job /\ Sound(IdleJob) /\ Passed(IdleJob.d) /\ IdleJob.todo = {}
         /\ Expiry \in Job /\ Sound(Expiry) /\ Passed(Expiry.d) /\ Expiry.todo = {}
<1>1. IdleJob \in Job /\ Expiry \in Job
  <2>1. IdleJob \in Job
    BY DEF IdleJob, Job, PCs
  <2>2. "WATCHDOG_EXPIRED" \in Events
    BY DEF Events
  <2>3. pending \in Fire \cup {NoFire}
    BY DEF TypeOK
  <2> QED BY <2>1, <2>2, <2>3 DEF Expiry, Job, PCs
<1>2. Sound(IdleJob) /\ Sound(Expiry)
  BY DEF Sound, InHand, ForApproval, AfterDue, BeforeDue, Merging, Acting, Calling, IdleJob, Expiry, NoRun,
         JobEvents, Before, After
<1> QED BY <1>1, <1>2 DEF Passed, IdleJob, Expiry, NoRequest

(* A request begun for a report or a label.                                *)
LEMMA BegunJobs ==
  ASSUME TypeOK, NEW kind \in {"hook", "alarm"}, NEW w \in Request, NEW todo \in SUBSET Request
  PROVE  /\ ClaimOf(kind, w) \in Claim
         /\ Begin(kind, w, todo) \in Job /\ Sound(Begin(kind, w, todo))
         /\ Begin(kind, w, todo).d = w /\ Begin(kind, w, todo).todo = todo
<1>1. pending.n \in Nat
  BY DEF TypeOK, Fire, NoFire
<1>2. ClaimOf(kind, w) \in Claim
  <2>1. [w EXCEPT !.n = 0, !.commit = None] \in Request
    BY DEF Request
  <2> QED BY <1>1, <2>1 DEF ClaimOf, Claim
<1>3. w.event \in OwnEvents /\ w.event \in Events
  BY DEF Request, OwnEvents, Reports, Events
<1> DEFINE b == Begin(kind, w, todo)
           c == ClaimOf(kind, w)
<1> HIDE DEF c
<1>4. b = [IdleJob EXCEPT !.pc = "read", !.kind = kind, !.d = w, !.event = w.event,
                          !.claim = c, !.before = pending, !.todo = todo]
  BY DEF Begin, c
<1>5. b \in Job
  <2>1. c \in Claim
    BY <1>2 DEF c
  <2>2. pending \in Fire \cup {NoFire} /\ IdleJob \in Job
    BY FreshJobs DEF TypeOK
  <2> QED BY <2>1, <2>2, <1>3, <1>4 DEF Job, PCs
<1>6. b.pc = "read" /\ b.d = w /\ b.event = w.event /\ b.run = NoRun /\ b.todo = todo
  BY <1>4 DEF IdleJob
<1> HIDE DEF b
<1>7. Sound(b)
  BY <1>3, <1>6 DEF Sound, InHand, ForApproval, AfterDue, BeforeDue, Merging, Acting, Calling, NoRun,
         JobEvents, OwnEvents, Reports, Before, After
<1> QED BY <1>2, <1>5, <1>6, <1>7 DEF b

(* A step that only moves the request on, to one that is sound.            *)
LEMMA OnlyTheJob ==
  ASSUME ReleaseInv, NEW j \in Job, Sound(j), Passed(j.d), \A w \in j.todo : Passed(w),
         job' = j, seen' \subseteq Claim,
         UNCHANGED <<github, releaseMerged, pending, applied, since, world, edits, redelivered>>,
         waiting' \subseteq waiting, unread' \in BOOLEAN, faults' \in Nat
  PROVE  ReleaseInv'
<1>1. TypeOK'
  BY DEF ReleaseInv, TypeOK, github, world
<1>2. Reported'
  BY DEF ReleaseInv, Reported, Passed, world
<1>3. Sound(job)'
  BY DEF Sound, InHand, ForApproval, AfterDue, BeforeDue, Reviewed, Trusted, github, world
<1>4. Stored'
  BY DEF ReleaseInv, Stored, Reviewed, github, world
<1> QED BY <1>1, <1>2, <1>3, <1>4 DEF ReleaseInv

(* A commit that was reviewed stays so, and so does the merge.             *)
LEMMA ReviewedStays ==
  ASSUME TypeOK, Reviewed, approved \subseteq approved', mergedAt # None => mergedAt' = mergedAt
  PROVE  Reviewed'
BY DEF TypeOK, Reviewed, Commits, None

(* What the invariant says of the request at work.                         *)
LEMMA AtWork ==
  ASSUME ReleaseInv
  PROVE  /\ job \in Job /\ Sound(job) /\ Passed(job.d) /\ \A w \in job.todo : Passed(w)
         /\ waiting \subseteq Request /\ since \subseteq Request /\ seen \subseteq Claim
         /\ \A w \in waiting \cup since : Passed(w)
         /\ unread \in BOOLEAN /\ faults \in Nat
BY DEF ReleaseInv, Reported, TypeOK

LEMMA TakeKeeps == ASSUME ReleaseInv, Take \/ Drop PROVE ReleaseInv'
<1>1. CASE Take
  <2>1. PICK w \in waiting : job' = Begin("hook", w, {}) /\ waiting' = waiting \ {w}
                             /\ seen' = seen \cup {ClaimOf("hook", w)}
    BY <1>1 DEF Take
  <2>2. w \in Request /\ Passed(w) /\ TypeOK
    BY AtWork DEF ReleaseInv
  <2>3. /\ ClaimOf("hook", w) \in Claim
        /\ job' \in Job /\ Sound(job') /\ job'.d = w /\ job'.todo = {}
    BY <2>1, <2>2, BegunJobs
  <2>4. UNCHANGED <<github, releaseMerged, pending, applied, since, world, edits, redelivered, faults, unread>>
    BY <1>1 DEF Take, counters
  <2> QED BY <2>1, <2>2, <2>3, <2>4, AtWork, OnlyTheJob
<1>2. CASE Drop
  <2>1. PICK w \in waiting : waiting' = waiting \ {w}
                             /\ seen' = IF w.by = "signal" THEN seen ELSE seen \cup {ClaimOf("hook", w)}
    BY <1>2 DEF Drop
  <2>2. ClaimOf("hook", w) \in Claim
    BY AtWork, BegunJobs DEF ReleaseInv
  <2>3. UNCHANGED <<github, releaseMerged, pending, applied, since, world, edits, redelivered, faults, unread, job>>
    BY <1>2 DEF Drop, counters
  <2> QED BY <2>1, <2>2, <2>3, AtWork, OnlyTheJob
<1> QED BY <1>1, <1>2

LEMMA ReadLabelsKeeps == ASSUME ReleaseInv, ReadLabels PROVE ReleaseInv'
<1> DEFINE j == [job EXCEPT !.found = labels]
<1>1. /\ j \in Job /\ j.event = job.event /\ j.run = job.run /\ j.d = job.d /\ j.todo = job.todo
      /\ job' = Handle(j)
  BY DEF ReadLabels, ReleaseInv, TypeOK, Job
<1> HIDE DEF j
<1>2. job.event \in JobEvents
  BY DEF ReadLabels, ReleaseInv, Sound, InHand
<1>3. AfterDue(j) /\ Stored /\ (j.event = "RELEASE_APPROVED" => j.d.event = "RELEASE_APPROVED")
  BY <1>1 DEF ReleaseInv, Sound, AfterDue, ForApproval
<1>4. job' \in Job /\ Sound(job') /\ job'.d = job.d /\ job'.todo = job.todo
  BY <1>1, <1>2, <1>3, HandleSound
<1>5. UNCHANGED <<github, releaseMerged, pending, applied, since, world, edits, redelivered, faults, unread,
                  seen, waiting>>
  BY DEF ReadLabels, counters, storage
<1> QED BY <1>4, <1>5, AtWork, OnlyTheJob

(* A step that ends what the request asks for, storage as it was.          *)
LEMMA EndKeeps ==
  ASSUME ReleaseInv, NEW pc \in {"comment", "forget", "clear", "return", "thrown"},
         job' = [job EXCEPT !.pc = pc], faults' \in Nat,
         UNCHANGED <<github, storage, since, world, waiting, unread, edits, redelivered>>
  PROVE  ReleaseInv'
<1>1. job' \in Job /\ Sound(job')
  BY AtWork, Ends
<1>2. job'.d = job.d /\ job'.todo = job.todo
  BY AtWork DEF Job
<1>3. UNCHANGED <<github, releaseMerged, pending, applied, since, world, edits, redelivered, unread, seen, waiting>>
  BY DEF storage
<1> QED BY <1>1, <1>2, <1>3, AtWork, OnlyTheJob

LEMMA WriteKeeps == ASSUME ReleaseInv, Write PROVE ReleaseInv'
<1>1. job \in Job /\ job.ops \in Seq(OpType) /\ job.ops # <<>> /\ job.pc = "write"
  BY DEF Write, ReleaseInv, TypeOK, Job, Sound, InHand
<1> DEFINE pc == IF Tail(job.ops) = <<>> THEN "arm" ELSE "write"
<1>2. Tail(job.ops) \in Seq(OpType) /\ Head(job.ops) \in OpType
  BY <1>1
<1>3. job' = [job EXCEPT !.ops = Tail(job.ops), !.pc = pc]
  BY <1>1 DEF Write
<1>4. /\ job' \in Job /\ job'.pc = pc /\ job'.ops = Tail(job.ops) /\ job'.event = job.event
      /\ job'.run = job.run /\ job'.d = job.d /\ job'.todo = job.todo
  BY <1>1, <1>2, <1>3 DEF Job, PCs
<1>5. Of("ISSUE_CLOSED", 0) \in Request /\ Passed(Of("ISSUE_CLOSED", 0))
  BY DEF Of, Request, OwnEvents, Passed
<1>6. UNCHANGED <<head, mergedAt, mergedBy, storage, since, sessions, fired, approved, unread, counters>>
  BY DEF Write
<1>7. /\ sent' \subseteq sent \cup {Of("ISSUE_CLOSED", 0)}
      /\ waiting' \subseteq waiting \cup {Of("ISSUE_CLOSED", 0)}
      /\ closed' \in BOOLEAN
  BY DEF Write, ReleaseInv, TypeOK
<1>8. labels' \subseteq Labels
  BY <1>2 DEF Write, ReleaseInv, TypeOK, OpType
<1>9. TypeOK'
  BY <1>4, <1>5, <1>6, <1>7, <1>8 DEF ReleaseInv, TypeOK, storage, counters
<1>10. Reported'
  BY <1>4, <1>5, <1>6, <1>7 DEF ReleaseInv, Reported, Passed
<1>11. Sound(job)'
  BY <1>1, <1>4, <1>6 DEF ReleaseInv, Sound, InHand, ForApproval, AfterDue, BeforeDue, Reviewed, Trusted, storage,
     Merging, Acting, Calling
<1>12. Stored'
  BY <1>6 DEF ReleaseInv, Stored, Reviewed, storage
<1> QED BY <1>9, <1>10, <1>11, <1>12 DEF ReleaseInv

LEMMA ArmKeeps == ASSUME ReleaseInv, Arm PROVE ReleaseInv'
<1>1. UNCHANGED <<github, releaseMerged, seen, sessions, sent, approved, waiting, unread, counters>>
      /\ job \in Job /\ job.pc = "arm"
  BY DEF Arm, ReleaseInv, TypeOK
<1>2. CASE job.run = NoRun
  <2>1. pending' = NoFire /\ job' = [job EXCEPT !.pc = "log"] /\ UNCHANGED <<applied, since, fired>>
    BY <1>2 DEF Arm
  <2>2. /\ job' \in Job /\ job'.pc = "log" /\ job'.event = job.event /\ job'.run = job.run
        /\ job'.d = job.d /\ job'.todo = job.todo
    BY <1>1, <2>1 DEF Job, PCs
  <2>3. TypeOK'
    BY <1>1, <2>1, <2>2 DEF ReleaseInv, TypeOK, github, counters
  <2>4. Reported'
    BY <1>1, <2>1, <2>2 DEF ReleaseInv, Reported, Passed
  <2>5. Sound(job)'
    BY <1>1, <1>2, <2>1, <2>2 DEF ReleaseInv, Sound, InHand, ForApproval, AfterDue, BeforeDue, Reviewed, Trusted,
       github, Merging, Acting, Calling
  <2>6. Stored'
    BY <1>1, <2>1 DEF ReleaseInv, Stored, Reviewed, github, NoFire, NoRun, Before, After
  <2> QED BY <2>3, <2>4, <2>5, <2>6 DEF ReleaseInv
<1>3. CASE job.run # NoRun
  <2>1. /\ fired' = fired + 1 /\ pending' = [run |-> job.run, n |-> fired + 1, deferred |-> FALSE]
        /\ applied' = [applied EXCEPT ![job.run] = NoOutcome] /\ since' = {}
        /\ job' = [job EXCEPT !.pc = "fire"]
    BY <1>3 DEF Arm
  <2>2. /\ job' \in Job /\ job'.pc = "fire" /\ job'.event = job.event /\ job'.run = job.run
        /\ job'.d = job.d /\ job'.todo = job.todo
    BY <1>1, <2>1 DEF Job, PCs
  <2>3. job.run \in {Before, After}
    BY <1>1, <1>3 DEF Job
  <2>4. pending' \in Fire /\ pending'.run = job.run /\ fired' \in Nat
    BY <2>1, <2>3 DEF ReleaseInv, TypeOK, Fire
  <2>5. TypeOK'
    BY <1>1, <2>1, <2>2, <2>4 DEF ReleaseInv, TypeOK, github, counters
  <2>6. Reported'
    BY <1>1, <2>1, <2>2 DEF ReleaseInv, Reported, Passed
  <2>7. Sound(job)'
    BY <1>1, <1>3, <2>2, <2>4 DEF ReleaseInv, Sound, InHand, ForApproval, AfterDue, BeforeDue, Reviewed, Trusted,
       github, Merging, Acting, Calling
  <2>8. Stored'
    BY <1>1, <2>4 DEF ReleaseInv, Stored, Sound, AfterDue, BeforeDue, Calling, Reviewed, github
  <2> QED BY <2>5, <2>6, <2>7, <2>8 DEF ReleaseInv
<1> QED BY <1>2, <1>3

LEMMA FireKeeps == ASSUME ReleaseInv, FireStarts \/ FireRefused \/ FireLimited PROVE ReleaseInv'
<1>1. /\ UNCHANGED <<github, releaseMerged, applied, seen, since, fired, sent, approved, waiting, unread,
                     edits, redelivered>>
      /\ job \in Job /\ job.pc = "fire" /\ faults' \in Nat
  BY DEF FireStarts, FireRefused, FireLimited, ReleaseInv, TypeOK, Fails, counters, storage, world
<1>2. PICK pc \in {"log", "thrown"} : job' = [job EXCEPT !.pc = pc]
  BY DEF FireStarts, FireRefused, FireLimited
<1>3. /\ job' \in Job /\ job'.pc = pc /\ job'.event = job.event /\ job'.run = job.run
      /\ job'.d = job.d /\ job'.todo = job.todo
  BY <1>1, <1>2 DEF Job, PCs
<1>4. pending \in Fire \cup {NoFire} /\ pending.run = job.run /\ job.run \in {Before, After}
  BY <1>1 DEF ReleaseInv, TypeOK, Sound, InHand, Job
<1>5. pending' \in Fire \cup {NoFire} /\ (pending'.run = pending.run \/ pending' = NoFire)
  <2>1. pending \in Fire
    BY <1>4 DEF NoFire, NoRun, Before, After
  <2>2. [pending EXCEPT !.deferred = TRUE] \in Fire /\ [pending EXCEPT !.deferred = TRUE].run = pending.run
    BY <2>1 DEF Fire
  <2> QED BY <1>4, <2>2 DEF FireStarts, FireRefused, FireLimited, storage
<1>6. sessions' \subseteq [run : {Before, After}, n : Nat]
  <2>1. [run |-> pending.run, n |-> pending.n] \in [run : {Before, After}, n : Nat]
    BY <1>4 DEF Fire, NoFire
  <2> QED BY <2>1 DEF FireStarts, FireRefused, FireLimited, ReleaseInv, TypeOK, world
<1>7. TypeOK'
  BY <1>1, <1>3, <1>5, <1>6 DEF ReleaseInv, TypeOK, github
<1>8. Reported'
  BY <1>1, <1>3 DEF ReleaseInv, Reported, Passed
<1>9. job.event # "RELEASE_APPROVED"
  BY <1>1 DEF ReleaseInv, Sound, InHand, ForApproval, Calling
<1>10. Sound(job)'
  BY <1>1, <1>3, <1>9 DEF ReleaseInv, Sound, InHand, ForApproval, AfterDue, BeforeDue, Reviewed, Trusted,
     github, Merging, Acting, Calling
<1>11. Stored'
  BY <1>1, <1>5 DEF ReleaseInv, Stored, Reviewed, github, NoFire, NoRun, Before, After
<1> QED BY <1>7, <1>8, <1>10, <1>11 DEF ReleaseInv

LEMMA LogKeeps == ASSUME ReleaseInv, Log PROVE ReleaseInv'
<1> DEFINE j == [job EXCEPT !.applied = TRUE, !.pc = AfterApplied(job)]
<1>1. AfterApplied(job) \in {"pull", "comment", "forget", "clear", "return"}
      /\ (AfterApplied(job) = "pull" => job.event = "RELEASE_APPROVED")
  BY DEF AfterApplied
<1>2. job' = j /\ job.pc = "log" /\ job \in Job
      /\ UNCHANGED <<github, releaseMerged, pending, applied, since, world, edits, redelivered, faults, unread,
                     seen, waiting>>
  BY DEF Log, ReleaseInv, TypeOK, counters, storage
<1>3. /\ j \in Job /\ j.pc = AfterApplied(job) /\ j.event = job.event /\ j.run = job.run
      /\ j.d = job.d /\ j.todo = job.todo
  BY <1>1, <1>2 DEF Job, PCs
<1> HIDE DEF j
<1>4. Sound(j)
  BY <1>1, <1>2, <1>3 DEF ReleaseInv, Sound, InHand, ForApproval, AfterDue, BeforeDue, Trusted, Merging, Acting, Calling
<1> QED BY <1>2, <1>3, <1>4, AtWork, OnlyTheJob

----------------------------------------------------------------------------
(* The Worker's merge keeps the invariant.                                 *)

(* A request that goes on with the merge, or refuses.                      *)
LEMMA MergingGoesOn ==
  ASSUME ReleaseInv, job.pc \in {"pull", "merge", "again"}, NEW pc \in Merging,
         pc = "record" => mergedAt = job.d.commit
  PROVE  /\ [job EXCEPT !.pc = pc] \in Job /\ Sound([job EXCEPT !.pc = pc])
         /\ [job EXCEPT !.pc = pc].d = job.d /\ [job EXCEPT !.pc = pc].todo = job.todo
BY DEF ReleaseInv, TypeOK, Job, PCs, Sound, InHand, ForApproval, AfterDue, BeforeDue, Trusted, Merging, Acting, Calling

LEMMA Refusing ==
  ASSUME ReleaseInv
  PROVE  Refuse(job) \in Job /\ Sound(Refuse(job)) /\ Refuse(job).d = job.d /\ Refuse(job).todo = job.todo
BY RefuseSound DEF ReleaseInv, TypeOK, Sound

LEMMA ReadPullKeeps == ASSUME ReleaseInv, ReadPull \/ ReadAgain \/ ReadAgainFails PROVE ReleaseInv'
<1>1. /\ UNCHANGED <<github, releaseMerged, pending, applied, since, world, edits, redelivered, seen, waiting>>
      /\ job.pc \in {"pull", "again"} /\ faults' \in Nat /\ unread' \in BOOLEAN
  <2>1. unread \in BOOLEAN /\ faults \in Nat
    BY DEF ReleaseInv, TypeOK
  <2>2. CASE ReadPull
    BY <2>1, <2>2 DEF ReadPull, counters, storage
  <2>3. CASE ReadAgain
    BY <2>1, <2>3 DEF ReadAgain, counters, storage
  <2>4. CASE ReadAgainFails
    BY <2>1, <2>4 DEF ReadAgainFails, Fails, storage
  <2> QED BY <2>2, <2>3, <2>4
<1>2. \/ job' = Refuse(job)
      \/ job' = [job EXCEPT !.pc = "merge"]
      \/ job' = [job EXCEPT !.pc = "record"] /\ mergedAt = job.d.commit
  BY DEF ReadPull, ReadAgain, ReadAgainFails, SecondLook, MergedAtReview
<1>3. job' \in Job /\ Sound(job') /\ job'.d = job.d /\ job'.todo = job.todo
  BY <1>1, <1>2, Refusing, MergingGoesOn DEF Merging
<1> QED BY <1>1, <1>3, AtWork, OnlyTheJob

LEMMA MergeKeeps == ASSUME ReleaseInv, MergePull \/ MergeUnanswered PROVE ReleaseInv'
<1>1. /\ UNCHANGED <<labels, closed, head, storage, since, world, waiting, unread, edits, redelivered>>
      /\ job.pc = "merge" /\ job \in Job /\ faults' \in Nat
  BY DEF MergePull, MergeUnanswered, Fails, ReleaseInv, TypeOK, counters
<1>2. PICK pc \in {"again", "record"} : job' = [job EXCEPT !.pc = pc] /\ (pc = "record" => WorkerMerges)
  BY DEF MergePull, MergeUnanswered
<1>3. WorkerMerges \/ UNCHANGED <<mergedAt, mergedBy>>
  BY DEF MergePull, MergeUnanswered
<1>4. /\ job' \in Job /\ job'.pc = pc /\ job'.event = job.event /\ job'.run = job.run
      /\ job'.d = job.d /\ job'.todo = job.todo
  BY <1>1, <1>2 DEF Job, PCs
<1>5. mergedAt # None => mergedAt' = mergedAt
  BY <1>3 DEF WorkerMerges, Mergeable
<1>6. pc = "record" => mergedAt' = job.d.commit
  BY <1>2 DEF WorkerMerges, Mergeable
<1>7. TypeOK'
  BY <1>1, <1>3, <1>4 DEF ReleaseInv, TypeOK, storage, world, WorkerMerges
<1>8. Reported'
  BY <1>1, <1>4 DEF ReleaseInv, Reported, Passed, world
<1>9. Reviewed => Reviewed'
  BY <1>1, <1>5, ReviewedStays DEF ReleaseInv, world
<1>10. Sound(job)'
  <2>1. pending' = pending /\ releaseMerged' = releaseMerged
    BY <1>1 DEF storage
  <2> QED BY <1>1, <1>4, <1>6, <1>9, <2>1 DEF ReleaseInv, Sound, InHand, ForApproval, AfterDue, BeforeDue, Trusted,
             Merging, Acting, Calling
<1>11. Stored'
  BY <1>1, <1>9 DEF ReleaseInv, Stored, storage
<1> QED BY <1>7, <1>8, <1>10, <1>11 DEF ReleaseInv

LEMMA RecordKeeps == ASSUME ReleaseInv, Record PROVE ReleaseInv'
<1> DEFINE j == [job EXCEPT !.event = "RELEASE_MERGED"]
<1>1. /\ UNCHANGED <<github, pending, applied, seen, since, world, waiting, unread, counters>>
      /\ job.pc = "record" /\ job \in Job /\ releaseMerged' = job.d.commit /\ job' = ApplyEvent(j)
  BY DEF Record, Recorded, ReleaseInv, TypeOK
<1>2. mergedAt = job.d.commit /\ job.d.commit \in approved /\ pending = NoFire
  BY <1>1, AtWork DEF Sound, InHand, ForApproval, Trusted, Merging, Acting, Passed
<1>3. "RELEASE_MERGED" \in Events
  BY DEF Events
<1>4. /\ j \in Job /\ j.event = "RELEASE_MERGED" /\ j.d = job.d /\ j.todo = job.todo
      /\ j.event \in JobEvents /\ Reviewed
  BY <1>1, <1>2, <1>3 DEF Job, JobEvents, Reviewed
<1> HIDE DEF j
<1>5. Sound(ApplyEvent(j)) /\ Applies(j, ApplyEvent(j))
  BY <1>4, ApplyEventSound, ApplyEventGoes DEF AfterDue
<1>6. TypeOK'
  BY <1>1, <1>2, <1>5 DEF ReleaseInv, TypeOK, github, world, counters, Applies
<1>7. Reported'
  BY <1>1, <1>4, <1>5 DEF ReleaseInv, Reported, Passed, world, Applies
<1>8. job'.pc \in {"write", "arm"} => job'.run # Before
  BY <1>1, <1>4, <1>5 DEF Applies
<1>9. Sound(job)'
  BY <1>1, <1>4, <1>5, <1>8 DEF Sound, InHand, ForApproval, AfterDue, BeforeDue, Reviewed, Trusted, Applies,
     github, world, Calling
<1>10. Stored'
  BY <1>1, <1>2, <1>4 DEF Stored, Reviewed, github, world, NoFire, NoRun, Before, After
<1> QED BY <1>6, <1>7, <1>9, <1>10 DEF ReleaseInv

LEMMA ForgetKeeps == ASSUME ReleaseInv, Forget \/ ClearExpired PROVE ReleaseInv'
<1>1. /\ UNCHANGED <<github, applied, seen, since, world, waiting, unread, counters>>
      /\ job \in Job /\ job' = [job EXCEPT !.pc = "return"]
      /\ (releaseMerged' = releaseMerged \/ releaseMerged' = None)
      /\ (pending' = pending \/ pending' = NoFire)
  BY DEF Forget, ClearExpired, Returns, ReleaseInv, TypeOK
<1>2. /\ job' \in Job /\ job'.pc = "return" /\ job'.event = job.event /\ job'.run = job.run
      /\ job'.d = job.d /\ job'.todo = job.todo
  BY <1>1 DEF Job, PCs
<1>3. TypeOK'
  BY <1>1, <1>2 DEF ReleaseInv, TypeOK, github, world, counters
<1>4. Reported'
  BY <1>1, <1>2 DEF ReleaseInv, Reported, Passed, world
<1>5. Sound(job)'
  BY <1>1, <1>2 DEF ReleaseInv, Sound, InHand, ForApproval, AfterDue, BeforeDue, Reviewed, github, world,
     Merging, Acting, Calling
<1>6. Stored'
  BY <1>1 DEF ReleaseInv, Stored, Reviewed, github, world, NoFire, NoRun, Before, After
<1> QED BY <1>3, <1>4, <1>5, <1>6 DEF ReleaseInv

----------------------------------------------------------------------------
(* So do a request's end, the alarm, the sweep and the failures.           *)

LEMMA ReturnKeeps == ASSUME ReleaseInv, Return PROVE ReleaseInv'
<1>1. /\ UNCHANGED <<github, releaseMerged, seen, since, world, waiting, unread, counters>>
      /\ job' = IdleJob /\ (pending' = pending \/ pending' = NoFire)
  BY DEF Return
<1>2. applied' \in [{Before, After} -> Outcome \cup {NoOutcome}]
  <2>1. CASE Remembers
    <3>1. job.before.n \in Nat /\ job.d.event \in Reports
      BY <2>1, AtWork DEF Remembers, Job, Fire, NoFire
    <3>2. [event |-> job.d.event, n |-> job.before.n] \in Outcome
      BY <3>1 DEF Outcome
    <3> QED BY <2>1, <3>2 DEF Return, ReleaseInv, TypeOK
  <2>2. CASE ~Remembers
    BY <2>2 DEF Return, ReleaseInv, TypeOK
  <2> QED BY <2>1, <2>2
<1>3. IdleJob \in Job /\ Passed(IdleJob.d) /\ IdleJob.todo = {}
  BY FreshJobs DEF ReleaseInv
<1>4. TypeOK'
  BY <1>1, <1>2, <1>3 DEF ReleaseInv, TypeOK, github, world, counters
<1>5. Reported'
  BY <1>1, <1>3 DEF ReleaseInv, Reported, Passed, world
<1>6. Sound(job)'
  BY <1>1 DEF Sound, InHand, ForApproval, AfterDue, BeforeDue, IdleJob, JobEvents, Merging, Acting, Calling,
     NoRun, Before, After
<1>7. Stored'
  BY <1>1 DEF ReleaseInv, Stored, Reviewed, github, world, NoFire, NoRun, Before, After
<1> QED BY <1>4, <1>5, <1>6, <1>7 DEF ReleaseInv

(* The comments handed over again since the fire.                          *)
LEMMA ReplayKeeps == ASSUME ReleaseInv, ReplayNext \/ RingExpired PROVE ReleaseInv'
<1>1. UNCHANGED <<github, releaseMerged, pending, applied, since, world, edits, redelivered, faults, unread, waiting>>
  BY DEF ReplayNext, RingExpired, counters
<1>2. PICK todo \in SUBSET Request : Replay(todo) /\ \A w \in todo : Passed(w)
  <2>1. CASE ReplayNext
    <3>1. job.todo \in SUBSET Request
      BY AtWork DEF Job
    <3> QED BY <2>1, <3>1, AtWork DEF ReplayNext
  <2>2. CASE RingExpired
    <3> DEFINE todo == {w \in since : Reporter(w.event) = pending.run}
    <3>1. todo \in SUBSET Request /\ \A w \in todo : Passed(w)
      BY AtWork
    <3>2. Replay(todo)
      BY <2>2 DEF RingExpired
    <3> QED BY <3>1, <3>2
  <2> QED BY <2>1, <2>2
<1>3. CASE todo = {}
  <2>1. job' = Expiry /\ seen' = seen
    BY <1>2, <1>3 DEF Replay
  <2>2. Expiry \in Job /\ Sound(Expiry) /\ Passed(Expiry.d) /\ Expiry.todo = {}
    BY FreshJobs DEF ReleaseInv
  <2> QED BY <1>1, <2>1, <2>2, AtWork, OnlyTheJob
<1>4. CASE todo # {}
  <2> DEFINE skip(w) == [IdleJob EXCEPT !.pc = "return", !.kind = "alarm", !.d = w, !.before = pending,
                                        !.todo = todo \ {w}]
  <2>1. PICK w \in todo : /\ seen' = seen \cup {ClaimOf("alarm", w)}
                          /\ job' \in {skip(w), Begin("alarm", w, todo \ {w})}
    BY <1>2, <1>4 DEF Replay
  <2>2. w \in Request /\ todo \ {w} \in SUBSET Request
    BY <1>2
  <2>3. /\ ClaimOf("alarm", w) \in Claim
        /\ Begin("alarm", w, todo \ {w}) \in Job /\ Sound(Begin("alarm", w, todo \ {w}))
        /\ Begin("alarm", w, todo \ {w}).d = w /\ Begin("alarm", w, todo \ {w}).todo = todo \ {w}
    BY <2>2, BegunJobs DEF ReleaseInv
  <2>4. skip(w) \in Job /\ skip(w).d = w /\ skip(w).todo = todo \ {w} /\ Sound(skip(w))
    <3>1. IdleJob \in Job /\ pending \in Fire \cup {NoFire}
      BY FreshJobs DEF ReleaseInv, TypeOK
    <3>2. skip(w) \in Job /\ skip(w).d = w /\ skip(w).todo = todo \ {w} /\ skip(w).pc = "return"
          /\ skip(w).event = IdleJob.event /\ skip(w).run = IdleJob.run
      BY <2>2, <3>1 DEF Job, PCs
    <3>3. IdleJob.event = "none" /\ IdleJob.run = NoRun
      BY DEF IdleJob
    <3> HIDE DEF skip
    <3>4. Sound(skip(w))
      BY <3>2, <3>3 DEF Sound, InHand, ForApproval, AfterDue, BeforeDue, JobEvents, Merging, Acting, Calling,
         NoRun, Before, After
    <3> QED BY <3>2, <3>4
  <2> HIDE DEF skip
  <2>5. /\ job' \in Job /\ Sound(job') /\ Passed(job'.d) /\ \A v \in job'.todo : Passed(v)
        /\ seen' \subseteq Claim
    BY <1>2, <2>1, <2>3, <2>4, AtWork
  <2> QED BY <1>1, <2>5, AtWork, OnlyTheJob
<1> QED BY <1>3, <1>4

(* A fire made again, by the alarm or by the sweep, for the part due.      *)
LEMMA RefireSound ==
  ASSUME NEW kind \in {"alarm", "sweep"}, NEW run \in {Before, After},
         run = After => Reviewed, run = Before => releaseMerged = None, TypeOK
  PROVE  /\ Refires(kind, run) \in Job /\ Sound(Refires(kind, run))
         /\ Refires(kind, run).d = IdleJob.d /\ Refires(kind, run).todo = IdleJob.todo
<1> DEFINE f == [IdleJob EXCEPT !.pc = "arm", !.kind = kind, !.run = run]
<1>1. IdleJob \in Job
  BY FreshJobs
<1>2. f \in Job /\ f.pc = "arm" /\ f.run = run /\ f.event = IdleJob.event /\ f.d = IdleJob.d
      /\ f.todo = IdleJob.todo
  BY <1>1 DEF Job, PCs
<1>3. Refires(kind, run) = f
  BY DEF Refires
<1>4. IdleJob.event = "none"
  BY DEF IdleJob
<1> HIDE DEF f
<1>5. Sound(f)
  BY <1>2, <1>4 DEF Sound, InHand, ForApproval, AfterDue, BeforeDue, JobEvents, Merging, Acting, Calling, NoRun
<1> QED BY <1>2, <1>3, <1>5

LEMMA RingDeferredKeeps == ASSUME ReleaseInv, RingDeferred PROVE ReleaseInv'
<1>1. UNCHANGED <<github, releaseMerged, applied, seen, since, world, edits, redelivered, faults, unread, waiting>>
  BY DEF RingDeferred, counters
<1>2. pending \in Fire \cup {NoFire} /\ pending.deferred /\ Stored /\ TypeOK
  BY DEF RingDeferred, ReleaseInv, TypeOK
<1>3. CASE StillWanted(DeriveState(labels), pending.run)
  <2>1. job' = Refires("alarm", pending.run) /\ pending' = pending
    BY <1>3 DEF RingDeferred
  <2>2. pending.run \in {Before, After}
    BY <1>2 DEF Fire, NoFire
  <2>3. job' \in Job /\ Sound(job') /\ job'.d = IdleJob.d /\ job'.todo = IdleJob.todo
    BY <1>2, <2>1, <2>2, RefireSound DEF Stored
  <2>4. Passed(IdleJob.d) /\ IdleJob.todo = {}
    BY <1>2, FreshJobs
  <2> QED BY <1>1, <2>1, <2>3, <2>4, AtWork, OnlyTheJob
<1>4. CASE ~StillWanted(DeriveState(labels), pending.run)
  <2>1. job' = job /\ pending' = NoFire /\ job.pc = "idle"
    BY <1>4 DEF RingDeferred
  <2>2. TypeOK'
    BY <1>1, <2>1 DEF ReleaseInv, TypeOK, github, world
  <2>3. Reported'
    BY <1>1, <2>1 DEF ReleaseInv, Reported, Passed, world
  <2>4. Sound(job)'
    BY <1>1, <2>1 DEF ReleaseInv, Sound, InHand, ForApproval, AfterDue, BeforeDue, Reviewed, github, world,
       Merging, Acting, Calling
  <2>5. Stored'
    BY <1>1, <2>1 DEF ReleaseInv, Stored, Reviewed, github, world, NoFire, NoRun, Before, After
  <2> QED BY <2>2, <2>3, <2>4, <2>5 DEF ReleaseInv
<1> QED BY <1>3, <1>4

LEMMA SweepKeeps == ASSUME ReleaseInv, Sweep PROVE ReleaseInv'
<1>1. /\ UNCHANGED <<github, releaseMerged, pending, applied, since, world, edits, redelivered, faults, unread,
                     seen, waiting>>
      /\ job' = Refires("sweep", LostRun)
  BY DEF Sweep, counters, storage
<1>2. /\ LostRun \in {Before, After} /\ (LostRun = After => Reviewed)
      /\ (LostRun = Before => releaseMerged = None) /\ TypeOK
  BY DEF LostRun, ReleaseInv, Stored, Before, After
<1>3. job' \in Job /\ Sound(job') /\ job'.d = IdleJob.d /\ job'.todo = IdleJob.todo
  BY <1>1, <1>2, RefireSound
<1>4. Passed(IdleJob.d) /\ IdleJob.todo = {}
  BY <1>2, FreshJobs
<1> QED BY <1>1, <1>3, <1>4, AtWork, OnlyTheJob

LEMMA UnwindKeeps == ASSUME ReleaseInv, Unwind \/ Evict PROVE ReleaseInv'
<1>1. /\ UNCHANGED <<github, releaseMerged, pending, applied, since, world, edits, redelivered, unread, waiting>>
      /\ seen' \subseteq seen /\ faults' \in Nat /\ job' \in {IdleJob, Expiry}
  BY AtWork DEF Unwind, Evict, Fails, counters, storage
<1>2. job' \in Job /\ Sound(job') /\ Passed(job'.d) /\ job'.todo = {}
  BY <1>1, FreshJobs DEF ReleaseInv
<1> QED BY <1>1, <1>2, AtWork, OnlyTheJob

LEMMA ThrowKeeps == ASSUME ReleaseInv, Throw \/ Comment PROVE ReleaseInv'
<1>1. /\ UNCHANGED <<github, storage, since, world, waiting, unread, edits, redelivered>> /\ faults' \in Nat
  BY AtWork DEF Throw, Comment, Fails, counters
<1>2. job' = [job EXCEPT !.pc = "thrown"] \/ job' = [job EXCEPT !.pc = "return"]
  BY DEF Throw, Comment, Returns
<1> QED BY <1>1, <1>2, EndKeeps

----------------------------------------------------------------------------
(* And what people, sessions and GitHub do.                                *)

(* They leave the request and the object's storage alone, and what they    *)
(* send is true.                                                           *)
LEMMA OthersKeep ==
  ASSUME ReleaseInv, TypeOK', UNCHANGED <<job, storage>>,
         approved \subseteq approved', mergedAt # None => mergedAt' = mergedAt,
         NEW new \in SUBSET Request, \A w \in new : Passed(w)',
         sent' \subseteq sent \cup new, waiting' \subseteq sent \cup waiting \cup new,
         since' \subseteq since \cup new
  PROVE  ReleaseInv'
<1>1. Reviewed => Reviewed'
  BY ReviewedStays DEF ReleaseInv
<1>2. \A w : Passed(w) => Passed(w)'
  BY DEF Passed
<1>3. Reported'
  BY <1>2 DEF ReleaseInv, Reported
<1>4. job.pc = "record" => mergedAt' = job.d.commit
  <2>1. job.pc = "record" => mergedAt = job.d.commit /\ job.d.commit \in approved
    BY AtWork DEF Sound, InHand, ForApproval, Trusted, Merging, Acting, Passed
  <2> QED BY <2>1 DEF ReleaseInv, TypeOK, Commits, None
<1>5. pending' = pending /\ releaseMerged' = releaseMerged /\ job' = job
  BY DEF storage
<1>6. Sound(job)'
  BY <1>1, <1>4, <1>5 DEF ReleaseInv, Sound, InHand, ForApproval, AfterDue, BeforeDue, Trusted
<1>7. Stored'
  BY <1>1, <1>5 DEF ReleaseInv, Stored
<1> QED BY <1>3, <1>6, <1>7 DEF ReleaseInv

LEMMA PeopleKeep ==
  ASSUME ReleaseInv, PersonLabels \/ PersonUnlabels \/ PersonCloses PROVE ReleaseInv'
<1>1. PICK w \in {Of("LABELLED_AUTO_RELEASING", edits'), Of("UNLABELLED_AUTO_RELEASING", edits'),
                  Of("ISSUE_CLOSED", 0)} : Sends({w})
  BY DEF PersonLabels, PersonUnlabels, PersonCloses
<1>2. /\ UNCHANGED <<head, mergedAt, mergedBy, storage, since, sessions, fired, approved, job, unread, faults,
                     redelivered>>
      /\ labels' \subseteq Labels /\ closed' \in BOOLEAN /\ edits' \in Nat
  <2>1. labels \subseteq Labels /\ "AUTO_RELEASING" \in Labels /\ closed \in BOOLEAN /\ edits \in Nat
    BY DEF ReleaseInv, TypeOK, Labels
  <2>2. CASE PersonLabels
    BY <2>1, <2>2 DEF PersonLabels, Edits
  <2>3. CASE PersonUnlabels
    BY <2>1, <2>3 DEF PersonUnlabels, Edits
  <2>4. CASE PersonCloses
    BY <2>1, <2>4 DEF PersonCloses, counters
  <2> QED BY <2>2, <2>3, <2>4
<1>3. w \in Request /\ Passed(w)'
  BY <1>1, <1>2 DEF Of, Request, OwnEvents, Passed
<1>4. sent' = sent \cup {w} /\ waiting' = waiting \cup {w}
  BY <1>1 DEF Sends
<1>5. TypeOK'
  BY <1>2, <1>3, <1>4 DEF ReleaseInv, TypeOK, storage
<1>6. since' = since /\ approved' = approved /\ mergedAt' = mergedAt /\ UNCHANGED <<job, storage>>
  BY <1>2
<1> DEFINE new == {w}
<1>7. new \in SUBSET Request /\ \A v \in new : Passed(v)'
  BY <1>3
<1>8. sent' \subseteq sent \cup new /\ waiting' \subseteq sent \cup waiting \cup new /\ since' \subseteq since \cup new
  BY <1>4, <1>6
<1> HIDE DEF new
<1> QED BY <1>5, <1>6, <1>7, <1>8, OthersKeep

LEMMA PullKeeps == ASSUME ReleaseInv, PersonMerges \/ Push PROVE ReleaseInv'
<1>1. /\ UNCHANGED <<labels, closed, storage, since, world, waiting, job, unread, counters>>
      /\ (mergedAt # None => mergedAt' = mergedAt)
  BY DEF PersonMerges, Push
<1>2. head' \in Commits /\ mergedAt' \in Commits \cup {None} /\ mergedBy' \in {"nobody", "worker", "person"}
  BY ReleaseAssumption DEF PersonMerges, Push, ReleaseInv, TypeOK, Commits
<1>3. TypeOK'
  BY <1>1, <1>2 DEF ReleaseInv, TypeOK, storage, world, counters
<1>4. UNCHANGED <<job, storage>> /\ approved' = approved /\ sent' = sent /\ waiting' = waiting /\ since' = since
  BY <1>1 DEF world
<1> DEFINE new == {}
<1>5. new \in SUBSET Request /\ \A w \in new : Passed(w)'
  OBVIOUS
<1>6. sent' \subseteq sent \cup new /\ waiting' \subseteq sent \cup waiting \cup new /\ since' \subseteq since \cup new
  BY <1>4
<1> HIDE DEF new
<1> QED BY <1>1, <1>3, <1>4, <1>5, <1>6, OthersKeep

LEMMA ReportsKeep == ASSUME ReleaseInv, Approve \/ Block \/ Published PROVE ReleaseInv'
<1>1. PICK s \in sessions, event \in Reports, commit \in Commits \cup {None} :
        /\ Reporting(s, event, commit)
        /\ event = "RELEASE_APPROVED" => commit \in Commits
        /\ approved' = IF event = "RELEASE_APPROVED" THEN approved \cup {commit} ELSE approved
  <2>1. CASE Approve
    <3>1. PICK s \in sessions, c \in 1 .. head : Reporting(s, "RELEASE_APPROVED", c) /\ approved' = approved \cup {c}
      BY <2>1 DEF Approve
    <3>2. c \in Commits
      BY ReleaseAssumption DEF ReleaseInv, TypeOK, Commits
    <3> QED BY <3>1, <3>2 DEF Reports
  <2>2. CASE Block
    BY <2>2 DEF Block, Reports
  <2>3. CASE Published
    BY <2>3 DEF Published, Reports
  <2> QED BY <2>1, <2>2, <2>3
<1> DEFINE said == By("comment", event, commit, s.n)
           new  == {said, By("signal", event, commit, s.n)}
<1>2. s.n \in Nat
  BY DEF ReleaseInv, TypeOK
<1>3. new \in SUBSET Request /\ \A w \in new : Passed(w)'
  <2>1. event \in OwnEvents
    BY DEF OwnEvents
  <2> QED BY <1>1, <1>2, <2>1 DEF By, Request, Passed
<1>4. /\ UNCHANGED <<github, storage, sessions, fired, job, unread, counters>>
      /\ since' = since \cup {said} /\ (Sends({said}) \/ Sends(new))
  BY <1>1 DEF Reporting
<1>5. sent' \subseteq sent \cup new /\ waiting' \subseteq sent \cup waiting \cup new /\ since' \subseteq since \cup new
  BY <1>4 DEF Sends
<1>6. waiting' \subseteq waiting \cup new
  BY <1>4 DEF Sends
<1> HIDE DEF new
<1>7. TypeOK'
  BY <1>1, <1>3, <1>4, <1>5, <1>6 DEF ReleaseInv, TypeOK, storage, github, counters
<1>8. UNCHANGED <<job, storage>> /\ mergedAt' = mergedAt /\ approved \subseteq approved'
  BY <1>1, <1>4 DEF github
<1> QED BY <1>3, <1>5, <1>7, <1>8, OthersKeep

LEMMA StrangerKeeps == ASSUME ReleaseInv, StrangerReports PROVE ReleaseInv'
<1>1. PICK event \in {"RELEASE_APPROVED", "RELEASE_PUBLISHED"}, commit \in Commits \cup {None} :
        since' = since \cup {By("stranger", event, commit, 0)} /\ Sends({By("stranger", event, commit, 0)})
  BY DEF StrangerReports
<1> DEFINE new == {By("stranger", event, commit, 0)}
<1>2. new \in SUBSET Request /\ \A w \in new : Passed(w)'
  BY DEF By, Request, Passed, OwnEvents, Reports
<1>3. /\ UNCHANGED <<github, storage, sessions, fired, approved, job, unread, counters>>
      /\ since' = since \cup new /\ sent' = sent \cup new /\ waiting' = waiting \cup new
  BY <1>1 DEF StrangerReports, Sends
<1> HIDE DEF new
<1>4. TypeOK'
  BY <1>2, <1>3 DEF ReleaseInv, TypeOK, storage, github, counters
<1>5. UNCHANGED <<job, storage>> /\ mergedAt' = mergedAt /\ approved' = approved
  BY <1>3 DEF github
<1>6. sent' \subseteq sent \cup new /\ waiting' \subseteq sent \cup waiting \cup new /\ since' \subseteq since \cup new
  BY <1>3
<1> QED BY <1>2, <1>4, <1>5, <1>6, OthersKeep

LEMMA DeliveryKeeps == ASSUME ReleaseInv, Redeliver \/ Lose PROVE ReleaseInv'
<1>1. /\ UNCHANGED <<github, storage, since, world, job, unread, edits>>
      /\ waiting' \subseteq sent \cup waiting /\ redelivered' \in Nat /\ faults' \in Nat
  BY DEF Redeliver, Lose, Fails, ReleaseInv, TypeOK
<1>2. TypeOK'
  BY <1>1 DEF ReleaseInv, TypeOK, github, storage, world
<1>3. UNCHANGED <<job, storage>> /\ mergedAt' = mergedAt /\ approved' = approved /\ sent' = sent /\ since' = since
  BY <1>1 DEF github, world
<1> DEFINE new == {}
<1>4. new \in SUBSET Request /\ \A w \in new : Passed(w)'
  OBVIOUS
<1>5. sent' \subseteq sent \cup new /\ waiting' \subseteq sent \cup waiting \cup new /\ since' \subseteq since \cup new
  BY <1>1, <1>3
<1> HIDE DEF new
<1> QED BY <1>2, <1>3, <1>4, <1>5, OthersKeep

----------------------------------------------------------------------------
(* The invariant holds.                                                    *)

LEMMA NextKeeps == ASSUME ReleaseInv, [Next]_vars PROVE ReleaseInv'
<1>1. CASE WorkerStep
  BY <1>1, TakeKeeps, ReadLabelsKeeps, WriteKeeps, ArmKeeps, FireKeeps, LogKeeps, ReadPullKeeps, MergeKeeps,
     RecordKeeps, ThrowKeeps, ForgetKeeps, ReturnKeeps, ReplayKeeps, UnwindKeeps DEF WorkerStep
<1>2. CASE AlarmStep
  BY <1>2, ReplayKeeps, RingDeferredKeeps DEF AlarmStep
<1>3. CASE Sweep
  BY <1>3, SweepKeeps
<1>4. CASE FaultStep
  BY <1>4, FireKeeps, MergeKeeps, ReadPullKeeps, ThrowKeeps, UnwindKeeps DEF FaultStep
<1>5. CASE Environment
  BY <1>5, PeopleKeep, PullKeeps, ReportsKeep, StrangerKeeps, DeliveryKeeps DEF Environment
<1>6. CASE UNCHANGED vars
  BY <1>6 DEF vars, github, storage, world, counters, ReleaseInv, TypeOK, Reported, Passed, Sound, InHand,
     ForApproval, AfterDue, BeforeDue, Stored, Reviewed, Trusted
<1> QED BY <1>1, <1>2, <1>3, <1>4, <1>5, <1>6 DEF Next

LEMMA AlwaysReleaseInv == Spec => []ReleaseInv
<1>1. Init => ReleaseInv
  BY InitReleaseInv
<1>2. ReleaseInv /\ [Next]_vars => ReleaseInv'
  BY NextKeeps
<1> QED BY <1>1, <1>2, PTL DEF Spec

(* Every variable of Release has its type, for every choice of what        *)
(* people, sessions and failures do (release.ts, types.ts).                *)
THEOREM ReleaseTypeCorrect == Spec => []TypeOK
<1>1. ReleaseInv => TypeOK
  BY DEF ReleaseInv
<1> QED BY <1>1, AlwaysReleaseInv, PTL

----------------------------------------------------------------------------
(* What the release promises.                                              *)

(* A step that leaves the PR, the reviews and the sessions alone.          *)
LEMMA QuietStep ==
  ASSUME UNCHANGED <<head, mergedAt, mergedBy, sessions, approved>>
  PROVE  UNCHANGED Promise!vars
BY DEF Promise!vars, Publishing

LEMMA FirePromises == ASSUME ReleaseInv, FireStarts PROVE [Promise!Next]_Promise!vars
<1>1. /\ UNCHANGED <<head, mergedAt, mergedBy, approved>>
      /\ sessions' = sessions \cup {[run |-> pending.run, n |-> pending.n]}
  BY DEF FireStarts, github
<1>2. pending.run = job.run /\ (job.run = After => Reviewed)
  BY DEF FireStarts, ReleaseInv, Sound, InHand, AfterDue
<1>3. CASE pending.run = After
  <2> DEFINE f == [run |-> pending.run, n |-> pending.n]
  <2>1. f \in sessions' /\ f.run = After
    BY <1>1, <1>3
  <2> HIDE DEF f
  <2>2. Publishing' /\ mergedAt \in approved
    BY <1>2, <1>3, <2>1 DEF Publishing, Reviewed
  <2>3. Promise!StartPublishing
    BY <1>1, <2>2 DEF Promise!StartPublishing
  <2> QED BY <2>3 DEF Promise!Next
<1>4. CASE pending.run # After
  <2>1. Publishing' = Publishing
    BY <1>1, <1>4 DEF Publishing
  <2> QED BY <1>1, <2>1 DEF Promise!vars
<1> QED BY <1>3, <1>4

LEMMA MergePromises ==
  ASSUME ReleaseInv, MergePull \/ MergeUnanswered PROVE [Promise!Next]_Promise!vars
<1>1. UNCHANGED <<head, sessions, approved>>
  BY DEF MergePull, MergeUnanswered, world
<1>2. Publishing' = Publishing
  BY <1>1 DEF Publishing
<1>3. CASE WorkerMerges
  <2>1. job.d.commit \in approved
    BY AtWork DEF MergePull, MergeUnanswered, Sound, InHand, ForApproval, Trusted, Merging, Acting, Passed
  <2>2. Promise!MergeReviewed
    BY <1>1, <1>2, <1>3, <2>1 DEF WorkerMerges, Mergeable, Promise!MergeReviewed
  <2> QED BY <2>2 DEF Promise!Next
<1>4. CASE UNCHANGED <<mergedAt, mergedBy>>
  BY <1>1, <1>4, QuietStep
<1> QED BY <1>3, <1>4 DEF MergePull, MergeUnanswered

LEMMA OthersPromise ==
  ASSUME ReleaseInv, Environment PROVE [Promise!Next]_Promise!vars
<1>1. CASE PersonLabels \/ PersonUnlabels \/ PersonCloses \/ Redeliver \/ Lose \/ StrangerReports
  <2>1. UNCHANGED <<head, mergedAt, mergedBy, sessions, approved>>
    BY <1>1 DEF PersonLabels, PersonUnlabels, PersonCloses, Redeliver, Lose, StrangerReports, github, world
  <2> QED BY <2>1, QuietStep
<1>2. CASE PersonMerges
  <2>1. UNCHANGED <<head, approved, sessions>> /\ mergedAt = None /\ mergedAt' = head /\ mergedBy' = "person"
    BY <1>2 DEF PersonMerges, world
  <2>2. Promise!MergeByHand
    BY <2>1 DEF Promise!MergeByHand, Publishing
  <2> QED BY <2>2 DEF Promise!Next
<1>3. CASE Push
  <2>1. UNCHANGED <<mergedAt, mergedBy, approved, sessions>> /\ mergedAt = None /\ head' = head + 1
    BY <1>3 DEF Push, world
  <2>2. head + 1 \in Commits
    BY <1>3, ReleaseAssumption DEF Push, ReleaseInv, TypeOK, Commits
  <2>3. Promise!PushCommit
    BY <2>1, <2>2 DEF Promise!PushCommit, Publishing
  <2> QED BY <2>3 DEF Promise!Next
<1>4. CASE Approve
  <2>1. PICK c \in 1 .. head : approved' = approved \cup {c} /\ UNCHANGED <<head, mergedAt, mergedBy, sessions>>
    BY <1>4 DEF Approve, Reporting, github
  <2>2. c \in Commits /\ c <= head
    BY ReleaseAssumption DEF ReleaseInv, TypeOK, Commits
  <2>3. Promise!PassReview(c)
    BY <2>1, <2>2 DEF Promise!PassReview, Publishing
  <2> QED BY <2>2, <2>3 DEF Promise!Next
<1>5. CASE Block \/ Published
  <2>1. UNCHANGED <<head, mergedAt, mergedBy, sessions, approved>>
    BY <1>5 DEF Block, Published, Reporting, github
  <2> QED BY <2>1, QuietStep
<1> QED BY <1>1, <1>2, <1>3, <1>4, <1>5 DEF Environment

LEMMA StepPromises == ASSUME ReleaseInv, [Next]_vars PROVE [Promise!Next]_Promise!vars
<1> DEFINE Quiet == UNCHANGED <<head, mergedAt, mergedBy, sessions, approved>>
<1>1. CASE WorkerStep
  <2>1. FireStarts \/ MergePull \/ Quiet
    BY <1>1 DEF WorkerStep, Take, Drop, ReadLabels, Write, Arm, Log, ReadPull, ReadAgain, Record, Comment, Forget,
       ClearExpired, Return, ReplayNext, Unwind, github, world
  <2> QED BY <2>1, FirePromises, MergePromises, QuietStep
<1>2. CASE AlarmStep \/ Sweep
  <2>1. Quiet
    BY <1>2 DEF AlarmStep, Sweep, RingExpired, RingDeferred, github, world
  <2> QED BY <2>1, QuietStep
<1>3. CASE FaultStep
  <2>1. MergeUnanswered \/ Quiet
    BY <1>3 DEF FaultStep, FireRefused, FireLimited, ReadAgainFails, Throw, Evict, github, world
  <2> QED BY <2>1, MergePromises, QuietStep
<1>4. CASE Environment
  BY <1>4, OthersPromise
<1>5. CASE UNCHANGED vars
  BY <1>5, QuietStep DEF vars, github, world
<1> QED BY <1>1, <1>2, <1>3, <1>4, <1>5 DEF Next

(* The Worker merges only the head a trusted review passed, and publishes  *)
(* only a version merged at a reviewed commit: the release implements      *)
(* Releasing, whatever is redelivered, lost, pushed or fails (release.ts). *)
THEOREM ReviewIsKept == Spec => KeepsReview
<1>1. Init => Promise!Init
  BY DEF Init, Promise!Init, Publishing
<1>2. ReleaseInv /\ [Next]_vars => [Promise!Next]_Promise!vars
  BY StepPromises
<1> QED BY <1>1, <1>2, AlwaysReleaseInv, PTL DEF Spec, KeepsReview, Promise!Spec

(* A release whose merge is recorded never starts auto-release-loop again  *)
(* (release.ts:59-62, reconcile.ts's choice of the run).                   *)
THEOREM BeforeNotRepeated == Spec => BeforeNotAgain
<1>1. ASSUME ReleaseInv, [Next]_vars, releaseMerged # None, NEW s \in sessions' \ sessions
      PROVE  s.run # Before
  <2>1. FireStarts
    BY <1>1 DEF Next, WorkerStep, AlarmStep, FaultStep, Environment, Take, Drop, ReadLabels, Write, Arm, Log,
       ReadPull, MergePull, ReadAgain, Record, Comment, Forget, ClearExpired, Return, ReplayNext, Unwind,
       RingExpired, RingDeferred, Sweep, FireRefused, FireLimited, MergeUnanswered, ReadAgainFails, Throw, Evict,
       PersonLabels, PersonUnlabels, PersonCloses, PersonMerges, Push, Approve, Block, Published, StrangerReports,
       Reporting, Redeliver, Lose, vars, world
  <2>2. s.run = job.run /\ job.pc = "fire"
    BY <1>1, <2>1 DEF FireStarts, ReleaseInv, Sound, InHand
  <2> QED BY <1>1, <2>2 DEF ReleaseInv, Sound, BeforeDue, Calling
<1>2. ReleaseInv /\ [Next]_vars => [releaseMerged # None => \A s \in sessions' \ sessions : s.run # Before]_vars
  BY <1>1
<1> QED BY <1>2, AlwaysReleaseInv, PTL DEF Spec, BeforeNotAgain

----------------------------------------------------------------------------
(* A refusal tells the truth.                                              *)

(* A step that turns no approval into a block.                             *)
LEMMA NoNewRefusal ==
  ASSUME RefusalIsTrue, UNCHANGED <<mergedAt, mergedBy, unread>>,
         \/ job'.event # "RELEASE_BLOCKED"
         \/ job'.event = job'.d.event
         \/ job'.event = job.event /\ job'.d = job.d
  PROVE  RefusalIsTrue'
BY DEF RefusalIsTrue

LEMMA EventKept ==
  ASSUME NEW j \in Job, j.event \in JobEvents
  PROVE  Handle(j).event \in {j.event, "RELEASE_MERGED"} /\ Handle(j).d = j.d
<1>1. Applies(j, ApplyEvent(j))
  BY ApplyEventGoes
<1>2. Handle(j) \in {[j EXCEPT !.pc = "return"], RetryReleasePublish(j), ApplyEvent(j)}
  BY DEF Handle, Returns
<1>3. RetryReleasePublish(j).event \in {j.event, "RELEASE_MERGED"} /\ RetryReleasePublish(j).d = j.d
  BY DEF RetryReleasePublish, Returns, Job
<1>4. [j EXCEPT !.pc = "return"].event = j.event /\ [j EXCEPT !.pc = "return"].d = j.d
  BY DEF Job
<1> QED BY <1>1, <1>2, <1>3, <1>4 DEF Applies

LEMMA ObjectRefuses ==
  ASSUME ReleaseInv, RefusalIsTrue, WorkerStep \/ AlarmStep \/ Sweep \/ FaultStep PROVE RefusalIsTrue'
<1> USE AtWork
<1>1. CASE ReadPull \/ ReadAgain \/ ReadAgainFails
  <2>1. UNCHANGED <<mergedAt, mergedBy>> /\ job.pc \in {"pull", "again"}
    BY <1>1 DEF ReadPull, ReadAgain, ReadAgainFails, github
  <2>2. \/ job' = Refuse(job) /\ (unread' \/ mergedAt # job.d.commit)
        \/ job'.event = job.event /\ job'.d = job.d /\ UNCHANGED unread
    BY <1>1 DEF ReadPull, ReadAgain, ReadAgainFails, SecondLook, MergedAtReview, Job
  <2> QED BY <2>1, <2>2, Refusing, NoNewRefusal DEF RefusalIsTrue
<1>2. CASE MergePull \/ MergeUnanswered
  <2>1. job'.event = job.event /\ job.event = "RELEASE_APPROVED"
    BY <1>2 DEF MergePull, MergeUnanswered, Job, Sound, InHand, Merging
  <2> QED BY <2>1 DEF RefusalIsTrue
<1>3. CASE ReadLabels
  <2> DEFINE j == [job EXCEPT !.found = labels]
  <2>1. j \in Job /\ j.event = job.event /\ j.d = job.d /\ job.event \in JobEvents /\ job' = Handle(j)
    BY <1>3 DEF ReadLabels, Job, ReleaseInv, TypeOK, Sound, InHand
  <2>2. UNCHANGED <<mergedAt, mergedBy, unread>>
    BY <1>3 DEF ReadLabels, github
  <2> HIDE DEF j
  <2>3. job'.event \in {job.event, "RELEASE_MERGED"} /\ job'.d = job.d
    BY <2>1, EventKept
  <2> QED BY <2>2, <2>3, NoNewRefusal
<1>4. CASE Record
  <2> DEFINE j == [job EXCEPT !.event = "RELEASE_MERGED"]
  <2>1. "RELEASE_MERGED" \in Events
    BY DEF Events
  <2>2. j \in Job /\ j.event = "RELEASE_MERGED" /\ job' = ApplyEvent(j)
    BY <1>4, <2>1 DEF Record, Job
  <2>3. j.event \in JobEvents
    BY <2>2 DEF JobEvents
  <2> HIDE DEF j
  <2>4. job'.event = "RELEASE_MERGED"
    BY <2>2, <2>3, ApplyEventGoes DEF Applies
  <2>5. UNCHANGED <<mergedAt, mergedBy, unread>>
    BY <1>4 DEF Record, github
  <2> QED BY <2>4, <2>5, NoNewRefusal
<1>5. CASE Take \/ ReplayNext \/ RingExpired \/ RingDeferred \/ Sweep \/ Unwind \/ Evict \/ Return
  <2>1. UNCHANGED <<mergedAt, mergedBy, unread>>
    BY <1>5 DEF Take, ReplayNext, RingExpired, RingDeferred, Sweep, Unwind, Evict, Return, github
  <2>2. job' = job \/ job'.event # "RELEASE_BLOCKED" \/ job'.event = job'.d.event
    <3>1. CASE Take \/ ReplayNext \/ RingExpired
      <4>1. \/ job' = Expiry
            \/ \E w, k, t : job' = Begin(k, w, t)
            \/ \E w, t : job' = [IdleJob EXCEPT !.pc = "return", !.kind = "alarm", !.d = w, !.before = pending,
                                               !.todo = t]
        BY <3>1 DEF Take, ReplayNext, RingExpired, Replay
      <4> QED BY <4>1 DEF Expiry, Begin, IdleJob
    <3>2. CASE RingDeferred \/ Sweep \/ Unwind \/ Evict \/ Return
      <4>1. \/ job' \in {job, IdleJob, Expiry}
            \/ \E k, r : job' = [IdleJob EXCEPT !.pc = "arm", !.kind = k, !.run = r]
        BY <3>2 DEF RingDeferred, Sweep, Unwind, Evict, Return, Refires
      <4>2. IdleJob.event = "none" /\ Expiry.event = "WATCHDOG_EXPIRED"
        BY DEF Expiry, IdleJob
      <4>3. \A k, r : [IdleJob EXCEPT !.pc = "arm", !.kind = k, !.run = r].event = "none"
        BY DEF IdleJob
      <4>4. CASE job' \in {job, IdleJob, Expiry}
        BY <4>2, <4>4
      <4>5. CASE \E k, r : job' = [IdleJob EXCEPT !.pc = "arm", !.kind = k, !.run = r]
        <5>1. PICK k, r : job' = [IdleJob EXCEPT !.pc = "arm", !.kind = k, !.run = r]
          BY <4>5
        <5>2. job'.event = "none"
          BY <4>3, <5>1
        <5> QED BY <5>2
      <4> QED BY <4>1, <4>4, <4>5
    <3> QED BY <1>5, <3>1, <3>2
  <2> QED BY <2>1, <2>2, NoNewRefusal
<1>6. CASE \/ Drop \/ Write \/ Arm \/ FireStarts \/ FireRefused \/ FireLimited \/ Log \/ Comment \/ Forget
           \/ ClearExpired \/ Throw
  <2>1. UNCHANGED <<mergedAt, mergedBy, unread>>
    BY <1>6 DEF Drop, Write, Arm, FireStarts, FireRefused, FireLimited, Log, Comment, Forget, ClearExpired, Throw, github
  <2>2. job'.event = job.event /\ job'.d = job.d
    BY <1>6 DEF Drop, Write, Arm, FireStarts, FireRefused, FireLimited, Log, Comment, Forget, ClearExpired, Throw,
       Returns, Job
  <2> QED BY <2>1, <2>2, NoNewRefusal
<1> QED BY <1>1, <1>2, <1>3, <1>4, <1>5, <1>6 DEF WorkerStep, AlarmStep, FaultStep

LEMMA OthersRefuse == ASSUME RefusalIsTrue, Environment \/ UNCHANGED vars PROVE RefusalIsTrue'
<1>1. CASE PersonMerges
  BY <1>1 DEF PersonMerges, RefusalIsTrue
<1>2. CASE ~PersonMerges
  <2>1. UNCHANGED <<mergedAt, mergedBy, unread, job>>
    BY <1>2 DEF Environment, PersonLabels, PersonUnlabels, PersonCloses, Push, Approve, Block, Published, Reporting,
       StrangerReports, Redeliver, Lose, vars, github
  <2> QED BY <2>1 DEF RefusalIsTrue
<1> QED BY <1>1, <1>2

(* An approval is turned into a block only if the PR is not merged at its  *)
(* commit by the Worker, or GitHub could not be read (release.ts:18-20).   *)
THEOREM RefusalsAreTrue == Spec => []RefusalIsTrue
<1>1. Init => RefusalIsTrue
  BY DEF Init, RefusalIsTrue, IdleJob
<1>2. ReleaseInv /\ RefusalIsTrue /\ [Next]_vars => RefusalIsTrue'
  BY ObjectRefuses, OthersRefuse DEF Next
<1> QED BY <1>1, <1>2, AlwaysReleaseInv, PTL DEF Spec
=============================================================================
