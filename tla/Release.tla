------------------------------ MODULE Release ------------------------------
(***************************************************************************)
(* The release of one version (coordinate/release.ts): an issue, the PR    *)
(* that releases it, and two routines.  auto-release-loop prepares the PR  *)
(* and reports the commit its review passed; the Worker merges that commit *)
(* and no other, records the merge, and fires release-publish; its report  *)
(* closes the issue.  What may come between is people (labels, pushes,     *)
(* merges), a report carried twice, the watchdog, the sweep, failures and  *)
(* restarts.                                                               *)
(*                                                                         *)
(* The handler's calls are steps of their own.  Time is abstracted: an     *)
(* alarm that is set may ring, and a sweep may find the issue idle, at any *)
(* moment the code allows.  The watchdog's one retry (off unless a         *)
(* repository asks for it) is Watchdog's.                                  *)
(***************************************************************************)
EXTENDS Graph

CONSTANTS
  MaxCommit,                 \* commits the release PR's head goes through
  Acts,                      \* what people and sessions do
  Faults,                    \* which failures there are
  MaxEdits, MaxFaults, MaxRedeliveries

ActKinds   == {"signal", "stranger", "unlabel", "merge", "close"}
FaultKinds == {"throw", "evict", "lose", "noanswer", "unread", "refuse", "limit"}

ASSUME ReleaseAssumption ==
  /\ MaxCommit \in Nat \ {0}
  /\ Acts \subseteq ActKinds /\ Faults \subseteq FaultKinds
  /\ MaxEdits \in Nat /\ MaxFaults \in Nat /\ MaxRedeliveries \in Nat

Commits == 1 .. MaxCommit
None    == 0

Before == "auto-release-loop"
After  == "release-publish"

Reports == {"RELEASE_APPROVED", "RELEASE_BLOCKED", "RELEASE_PUBLISHED"}

OwnEvents == Reports \cup {"LABELLED_AUTO_RELEASING", "UNLABELLED_AUTO_RELEASING", "ISSUE_CLOSED"}

Of(event, n) == [event |-> event, by |-> "person", commit |-> None, n |-> n]

(* What reaches the issue's object: who it comes from, the commit an       *)
(* approval names, and which label edit or session it is of.               *)
Request == [event : OwnEvents, by : {"person", "comment", "signal", "stranger"},
            commit : Commits \cup {None}, n : Nat]

NoRequest == [event |-> "none", by |-> "person", commit |-> None, n |-> 0]
Claim     == {"hook", "signal", "recover"} \X Request \X Nat
NoClaim   == <<"hook", NoRequest, 0>>
Fire      == [run : {Before, After}, n : Nat, deferred : BOOLEAN]
NoFire    == [run |-> NoRun, n |-> 0, deferred |-> FALSE]
Outcome   == [event : Reports, n : Nat]
NoOutcome == [event |-> "none", n |-> 0]

PCs == {"idle", "read", "write", "arm", "fire", "log", "pull", "merge", "again", "record", "comment",
        "forget", "clear", "return", "thrown"}

Job == [pc : PCs, kind : {"hook", "alarm", "sweep"}, d : Request \cup {NoRequest},
        event : Events \cup {"none"}, claim : Claim \cup {NoClaim}, found : SUBSET Labels,
        ops : Seq(OpType), run : {Before, After, NoRun}, before : Fire \cup {NoFire},
        applied : BOOLEAN, todo : SUBSET Request]

IdleJob == [pc |-> "idle", kind |-> "hook", d |-> NoRequest, event |-> "none", claim |-> NoClaim,
            found |-> {}, ops |-> <<>>, run |-> NoRun, before |-> NoFire, applied |-> FALSE, todo |-> {}]

VARIABLES
  labels, closed,          \* GitHub's: the issue
  head, mergedAt, mergedBy, \* GitHub's: the release PR
  releaseMerged,           \* storage: the commit the Worker merged
  pending,                 \* storage: the pending fire, its alarm with it
  applied,                 \* storage: the last outcome applied of each routine
  seen,                    \* storage: deliveries claimed
  since,                   \* comments posted since the pending fire
  sessions, fired,         \* sessions that were started, and fires so far
  sent, waiting,           \* deliveries made, and on their way
  job,                     \* the request the object is at
  approved,                \* history: commits a trusted review passed
  unread,                  \* history: whether GitHub could not be read twice
  edits, faults, redelivered

github   == <<labels, closed, head, mergedAt, mergedBy>>
storage  == <<releaseMerged, pending, applied, seen>>
world    == <<sessions, fired, sent, approved>>
counters == <<edits, faults, redelivered>>
vars == <<github, storage, since, world, waiting, job, unread, counters>>

Init ==
  /\ labels = {} /\ closed = FALSE
  /\ head = 1 /\ mergedAt = None /\ mergedBy = "nobody"
  /\ releaseMerged = None /\ pending = NoFire /\ seen = {}
  /\ applied = [r \in {Before, After} |-> NoOutcome]
  /\ since = {} /\ sessions = {} /\ fired = 0
  /\ sent = {} /\ waiting = {} /\ job = IdleJob
  /\ approved = {} /\ unread = FALSE
  /\ edits = 0 /\ faults = 0 /\ redelivered = 0

----------------------------------------------------------------------------
(* What the handler makes of a request.                                    *)

Reporter(event) == IF event = "RELEASE_PUBLISHED" THEN After ELSE Before

NeverApplied(w) == FALSE

(* The report's other carrier was applied for the fire it ended.           *)
AlreadyApplied(w) ==
  /\ w.event \in Reports
  /\ LET last == applied[Reporter(w.event)]
     IN  /\ last.event = w.event
         /\ ~(pending.run = Reporter(w.event) /\ pending.n # last.n)

(* A signal counts for the fire that is out, a comment whoever runs.       *)
Live(w) == w.by = "signal" => pending.run = Reporter(w.event) /\ ~pending.deferred

ClaimOf(kind, w) ==
  CASE kind = "alarm"    -> <<"recover", w, pending.n>>
    [] w.by = "signal"   -> <<"signal", [w EXCEPT !.n = 0, !.commit = None], pending.n>>
    [] OTHER             -> <<"hook", w, 0>>

Returns(j) == [j EXCEPT !.pc = "return"]

(* The rule of the labels read, and the calls it needs.                    *)
ApplyEvent(j) ==
  LET state == StateBefore(j.found, j.event)
      rule  == Reduce(state, j.event)
      ops   == LabelOps(j.found, rule)
  IN  IF HasRule(state, j.event)
      THEN [j EXCEPT !.pc = IF ops = <<>> THEN "arm" ELSE "write", !.ops = ops, !.run = rule.run]
      ELSE [j EXCEPT !.pc = IF j.event = "WATCHDOG_EXPIRED" THEN "clear" ELSE "return"]

(* The label is back on a merged release: the after part runs again.       *)
RetryReleasePublish(j) ==
  IF "AUTO_RELEASING" \notin j.found THEN Returns(j)
  ELSE LET stuck == "AI_STUCK" \in j.found
       IN  [j EXCEPT !.event = "RELEASE_MERGED", !.run = After,
                     !.pc = IF stuck THEN "write" ELSE "arm",
                     !.ops = IF stuck THEN <<[op |-> "remove", label |-> "AI_STUCK"]>> ELSE <<>>]

Anyone(j) == TRUE

(* Only a trusted author's report merges or closes.                        *)
Trusted(j) == j.d.by # "stranger"

StartsOver(j) == FALSE

Retries(j) == j.event = "LABELLED_AUTO_RELEASING" /\ releaseMerged # None

Handle(j) ==
  IF j.event \in {"RELEASE_APPROVED", "RELEASE_PUBLISHED"} /\ ~Trusted(j) THEN Returns(j)
  ELSE IF Retries(j) THEN RetryReleasePublish(j)
  ELSE ApplyEvent(j)

Refuse(j) == ApplyEvent([j EXCEPT !.event = "RELEASE_BLOCKED"])

----------------------------------------------------------------------------
(* The object's steps.                                                     *)

Begin(kind, w, rest) ==
  [IdleJob EXCEPT !.pc = "read", !.kind = kind, !.d = w, !.event = w.event,
                  !.claim = ClaimOf(kind, w), !.before = pending, !.todo = rest]

Take ==
  /\ job.pc = "idle"
  /\ \E w \in waiting :
       /\ Live(w) /\ ~AlreadyApplied(w) /\ ClaimOf("hook", w) \notin seen
       /\ waiting' = waiting \ {w}
       /\ seen' = seen \cup {ClaimOf("hook", w)}
       /\ job' = Begin("hook", w, {})
  /\ UNCHANGED <<github, releaseMerged, pending, applied, since, world, unread, counters>>

(* A duplicate, a report applied already, a signal of no fire.             *)
Drop ==
  /\ job.pc = "idle"
  /\ \E w \in waiting :
       /\ ~Live(w) \/ AlreadyApplied(w) \/ ClaimOf("hook", w) \in seen
       /\ waiting' = waiting \ {w}
       /\ seen' = IF w.by = "signal" THEN seen ELSE seen \cup {ClaimOf("hook", w)}
  /\ UNCHANGED <<github, releaseMerged, pending, applied, since, world, job, unread, counters>>

ReadLabels ==
  /\ job.pc = "read"
  /\ job' = Handle([job EXCEPT !.found = labels])
  /\ UNCHANGED <<github, storage, since, world, waiting, unread, counters>>

Write ==
  /\ job.pc = "write"
  /\ LET op    == Head(job.ops)
         shuts == IF op.op = "close" /\ ~closed THEN {Of("ISSUE_CLOSED", 0)} ELSE {}
     IN  /\ labels' = CASE op.op = "add"    -> labels \cup {op.label}
                        [] op.op = "remove" -> labels \ {op.label}
                        [] OTHER            -> labels
         /\ closed' = (closed \/ op.op = "close")
         /\ sent' = sent \cup shuts /\ waiting' = waiting \cup shuts
  /\ job' = [job EXCEPT !.ops = Tail(@), !.pc = IF Tail(job.ops) = <<>> THEN "arm" ELSE "write"]
  /\ UNCHANGED <<head, mergedAt, mergedBy, storage, since, sessions, fired, approved, unread, counters>>

(* A run is watched before it is fired; a rule without one ends the watch. *)
Arm ==
  /\ job.pc = "arm"
  /\ IF job.run = NoRun
     THEN /\ pending' = NoFire
          /\ job' = [job EXCEPT !.pc = "log"]
          /\ UNCHANGED <<applied, since, fired>>
     ELSE /\ fired' = fired + 1
          /\ pending' = [run |-> job.run, n |-> fired + 1, deferred |-> FALSE]
          /\ applied' = [applied EXCEPT ![job.run] = NoOutcome]
          /\ since' = {}
          /\ job' = [job EXCEPT !.pc = "fire"]
  /\ UNCHANGED <<github, releaseMerged, seen, sessions, sent, approved, waiting, unread, counters>>

Fails(kind) ==
  /\ kind \in Faults /\ faults < MaxFaults
  /\ faults' = faults + 1
  /\ UNCHANGED <<edits, redelivered>>

FireStarts ==
  /\ job.pc = "fire"
  /\ sessions' = sessions \cup {[run |-> pending.run, n |-> pending.n]}
  /\ job' = [job EXCEPT !.pc = "log"]
  /\ UNCHANGED <<github, storage, since, fired, sent, approved, waiting, unread, counters>>

(* Refused: nothing runs, so nothing is watched, and the caller throws.    *)
FireRefused ==
  /\ job.pc = "fire" /\ Fails("refuse")
  /\ pending' = NoFire
  /\ job' = [job EXCEPT !.pc = "thrown"]
  /\ UNCHANGED <<github, releaseMerged, applied, seen, since, world, waiting, unread>>

(* Rate-limited: the fire stays pending, for its alarm to send.            *)
FireLimited ==
  /\ job.pc = "fire" /\ Fails("limit")
  /\ pending' = [pending EXCEPT !.deferred = TRUE]
  /\ job' = [job EXCEPT !.pc = "log"]
  /\ UNCHANGED <<github, releaseMerged, applied, seen, since, world, waiting, unread>>

(* Where an applied event's own handler goes on.                           *)
AfterApplied(j) ==
  CASE j.event = "RELEASE_APPROVED"     -> "pull"
    [] j.event # "RELEASE_APPROVED" /\ j.d.event = "RELEASE_APPROVED" -> "comment"
    [] j.event = "RELEASE_PUBLISHED"    -> "forget"
    [] j.event = "WATCHDOG_EXPIRED"     -> "clear"
    [] OTHER                            -> "return"

Log ==
  /\ job.pc = "log"
  /\ job' = [job EXCEPT !.applied = TRUE, !.pc = AfterApplied(job)]
  /\ UNCHANGED <<github, storage, since, world, waiting, unread, counters>>

----------------------------------------------------------------------------
(* The Worker's merge.                                                     *)

MergedAtReview == mergedAt = job.d.commit

ReadPull ==
  /\ job.pc = "pull"
  /\ job' = CASE mergedAt = None -> [job EXCEPT !.pc = "merge"]
              [] MergedAtReview  -> [job EXCEPT !.pc = "record"]
              [] OTHER           -> Refuse(job)
  /\ UNCHANGED <<github, storage, since, world, waiting, unread, counters>>

(* GitHub merges only if nothing was pushed after the review.              *)
Mergeable == mergedAt = None /\ head = job.d.commit

WorkerMerges ==
  /\ Mergeable
  /\ mergedAt' = head /\ mergedBy' = "worker"

MergePull ==
  /\ job.pc = "merge"
  /\ \/ WorkerMerges /\ job' = [job EXCEPT !.pc = "record"]
     \/ /\ ~Mergeable
        /\ job' = [job EXCEPT !.pc = "again"]
        /\ UNCHANGED <<mergedAt, mergedBy>>
  /\ UNCHANGED <<labels, closed, head, storage, since, world, waiting, unread, counters>>

(* A timeout or a 5xx, whether GitHub merged or not.                       *)
MergeUnanswered ==
  /\ job.pc = "merge" /\ Fails("noanswer")
  /\ WorkerMerges \/ UNCHANGED <<mergedAt, mergedBy>>
  /\ job' = [job EXCEPT !.pc = "again"]
  /\ UNCHANGED <<labels, closed, head, storage, since, world, waiting, unread>>

NotLookedAgain == Refuse(job)

SecondLook == IF MergedAtReview THEN [job EXCEPT !.pc = "record"] ELSE Refuse(job)

ReadAgain ==
  /\ job.pc = "again"
  /\ job' = SecondLook
  /\ UNCHANGED <<github, storage, since, world, waiting, unread, counters>>

(* The second read fails too, and is taken for a refusal.                  *)
ReadAgainFails ==
  /\ job.pc = "again" /\ Fails("unread")
  /\ job' = Refuse(job) /\ unread' = TRUE
  /\ UNCHANGED <<github, storage, since, world, waiting>>

(* The merge commit is none of the PR's own.                               *)
MergeCommit == MaxCommit + 1

Recorded == job.d.commit

Record ==
  /\ job.pc = "record"
  /\ releaseMerged' = Recorded
  /\ job' = ApplyEvent([job EXCEPT !.event = "RELEASE_MERGED"])
  /\ UNCHANGED <<github, pending, applied, seen, since, world, waiting, unread, counters>>

Comment ==
  /\ job.pc = "comment"
  /\ job' = Returns(job)
  /\ UNCHANGED <<github, storage, since, world, waiting, unread, counters>>

Forget ==
  /\ job.pc = "forget"
  /\ releaseMerged' = None
  /\ job' = Returns(job)
  /\ UNCHANGED <<github, pending, applied, seen, since, world, waiting, unread, counters>>

ClearExpired ==
  /\ job.pc = "clear"
  /\ pending' = NoFire
  /\ job' = Returns(job)
  /\ UNCHANGED <<github, releaseMerged, applied, seen, since, world, waiting, unread, counters>>

----------------------------------------------------------------------------
(* How a request ends, and what else the object is called for.             *)

Expiry == [IdleJob EXCEPT !.pc = "read", !.kind = "alarm", !.event = "WATCHDOG_EXPIRED", !.before = pending]

IsReplay == job.kind = "alarm" /\ job.d # NoRequest

(* The outcome is remembered against the fire it ended.                    *)
Remembers ==
  /\ job.applied /\ job.d.event \in Reports
  /\ job.before.run = Reporter(job.d.event) /\ ~job.before.deferred
  /\ ~(pending.run = job.before.run /\ pending.n # job.before.n)

(* A signal's or a replay's own fire, if the rule left it; and a fire      *)
(* still deferred when the issue closes.                                   *)
EndsWatch ==
  \/ job.applied /\ (IsReplay \/ job.d.by = "signal") /\ pending = job.before
  \/ job.d.event = "ISSUE_CLOSED" /\ pending.deferred

Return ==
  /\ job.pc = "return" /\ ~(IsReplay /\ ~job.applied)
  /\ applied' = IF Remembers
                THEN [applied EXCEPT ![job.before.run] = [event |-> job.d.event, n |-> job.before.n]]
                ELSE applied
  /\ pending' = IF EndsWatch THEN NoFire ELSE pending
  /\ job' = IdleJob
  /\ UNCHANGED <<github, releaseMerged, seen, since, world, waiting, unread, counters>>

(* The comments posted since the fire that its routine made, one at a      *)
(* time, until one applies; then the expiry.                               *)
Replay(todo) ==
  IF todo = {} THEN job' = Expiry /\ UNCHANGED seen
  ELSE \E w \in todo :
         IF ClaimOf("alarm", w) \in seen \/ AlreadyApplied(w)
         THEN job' = [IdleJob EXCEPT !.pc = "return", !.kind = "alarm", !.d = w, !.before = pending,
                                     !.todo = todo \ {w}]
              /\ seen' = seen \cup {ClaimOf("alarm", w)}
         ELSE job' = Begin("alarm", w, todo \ {w}) /\ seen' = seen \cup {ClaimOf("alarm", w)}

ReplayNext ==
  /\ job.pc = "return" /\ IsReplay /\ ~job.applied
  /\ Replay(job.todo)
  /\ UNCHANGED <<github, releaseMerged, pending, applied, since, world, waiting, unread, counters>>

RingExpired ==
  /\ job.pc = "idle" /\ pending # NoFire /\ ~pending.deferred
  /\ Replay({w \in since : Reporter(w.event) = pending.run})
  /\ UNCHANGED <<github, releaseMerged, pending, applied, since, world, waiting, unread, counters>>

Refires(kind, run) == [IdleJob EXCEPT !.pc = "arm", !.kind = kind, !.run = run]

RingDeferred ==
  /\ job.pc = "idle" /\ pending.deferred
  /\ IF StillWanted(DeriveState(labels), pending.run)
     THEN job' = Refires("alarm", pending.run) /\ UNCHANGED pending
     ELSE pending' = NoFire /\ UNCHANGED job
  /\ UNCHANGED <<github, releaseMerged, applied, seen, since, world, waiting, unread, counters>>

AlwaysBefore == Before

LostRun == IF releaseMerged # None THEN After ELSE Before

UnmergedLeft == DeriveState(labels) = "AUTO_RELEASING" /\ releaseMerged = None

LeftBehind == DeriveState(labels) = "AUTO_RELEASING"

(* The label on an open issue, nothing watched and nothing on its way for  *)
(* as long as the sweep waits.                                             *)
Sweep ==
  /\ job.pc = "idle" /\ waiting = {} /\ ~closed /\ pending = NoFire
  /\ LeftBehind
  /\ job' = Refires("sweep", LostRun)
  /\ UNCHANGED <<github, storage, since, world, waiting, unread, counters>>

(* A call fails.                                                           *)
Throw ==
  /\ job.pc \notin {"idle", "fire", "merge", "again", "return", "thrown"} /\ Fails("throw")
  /\ job' = [job EXCEPT !.pc = "thrown"]
  /\ UNCHANGED <<github, storage, since, world, waiting, unread>>

(* The claim is given up.  A replay whose fire is still out goes on to the *)
(* expiry.                                                                 *)
Unwind ==
  /\ job.pc = "thrown"
  /\ seen' = seen \ {job.claim}
  /\ job' = IF IsReplay /\ pending = job.before THEN Expiry ELSE IdleJob
  /\ UNCHANGED <<github, releaseMerged, pending, applied, since, world, waiting, unread, counters>>

(* The object restarts: what was in memory is gone, claims stay.           *)
Evict ==
  /\ job.pc # "idle" /\ Fails("evict")
  /\ job' = IdleJob
  /\ UNCHANGED <<github, storage, since, world, waiting, unread>>

WorkerStep ==
  Take \/ Drop \/ ReadLabels \/ Write \/ Arm \/ FireStarts \/ Log \/ ReadPull \/ MergePull \/ ReadAgain
  \/ Record \/ Comment \/ Forget \/ ClearExpired \/ Return \/ ReplayNext \/ Unwind

AlarmStep == RingExpired \/ RingDeferred

FaultStep == FireRefused \/ FireLimited \/ MergeUnanswered \/ ReadAgainFails \/ Throw \/ Evict
----------------------------------------------------------------------------
(* People, sessions and GitHub.                                            *)

Sends(requests) ==
  /\ sent' = sent \cup requests
  /\ waiting' = waiting \cup requests

Edits == edits < MaxEdits /\ edits' = edits + 1 /\ UNCHANGED <<faults, redelivered>>

PersonLabels ==
  /\ ~closed /\ "AUTO_RELEASING" \notin labels /\ Edits
  /\ labels' = labels \cup {"AUTO_RELEASING"}
  /\ Sends({Of("LABELLED_AUTO_RELEASING", edits')})
  /\ UNCHANGED <<closed, head, mergedAt, mergedBy, storage, since, sessions, fired, approved, job, unread>>

PersonUnlabels ==
  /\ "unlabel" \in Acts /\ "AUTO_RELEASING" \in labels /\ Edits
  /\ labels' = labels \ {"AUTO_RELEASING"}
  /\ Sends({Of("UNLABELLED_AUTO_RELEASING", edits')})
  /\ UNCHANGED <<closed, head, mergedAt, mergedBy, storage, since, sessions, fired, approved, job, unread>>

PersonCloses ==
  /\ "close" \in Acts /\ ~closed
  /\ closed' = TRUE
  /\ Sends({Of("ISSUE_CLOSED", 0)})
  /\ UNCHANGED <<labels, head, mergedAt, mergedBy, storage, since, sessions, fired, approved, job, unread, counters>>

PersonMerges ==
  /\ "merge" \in Acts /\ mergedAt = None
  /\ mergedAt' = head /\ mergedBy' = "person"
  /\ UNCHANGED <<labels, closed, head, storage, since, world, waiting, job, unread, counters>>

Push ==
  /\ mergedAt = None /\ head < MaxCommit
  /\ head' = head + 1
  /\ UNCHANGED <<labels, closed, mergedAt, mergedBy, storage, since, world, waiting, job, unread, counters>>

By(by, event, commit, n) == [event |-> event, by |-> by, commit |-> commit, n |-> n]

(* A session's outcome: its comment, and the signal that stands for it.    *)
Reporting(s, event, commit) ==
  /\ \A w \in sent : ~(w.by = "comment" /\ w.n = s.n)
  /\ LET said == By("comment", event, commit, s.n)
     IN  /\ since' = since \cup {said}
         /\ \/ Sends({said})
            \/ "signal" \in Acts /\ Sends({said, By("signal", event, commit, s.n)})
  /\ UNCHANGED <<github, storage, sessions, fired, job, unread, counters>>

Approve ==
  \E s \in sessions, c \in 1 .. head :
    /\ s.run = Before /\ Reporting(s, "RELEASE_APPROVED", c)
    /\ approved' = approved \cup {c}

Block     == \E s \in sessions : s.run = Before /\ Reporting(s, "RELEASE_BLOCKED", None) /\ UNCHANGED approved
Published == \E s \in sessions : s.run = After /\ Reporting(s, "RELEASE_PUBLISHED", None) /\ UNCHANGED approved

(* Somebody with no write access posts what looks like a report.           *)
StrangerReports ==
  /\ "stranger" \in Acts /\ \A w \in sent : w.by # "stranger"
  /\ \E event \in {"RELEASE_APPROVED", "RELEASE_PUBLISHED"}, c \in Commits :
       LET said == By("stranger", event, IF event = "RELEASE_APPROVED" THEN c ELSE None, 0)
       IN  since' = since \cup {said} /\ Sends({said})
  /\ UNCHANGED <<github, storage, sessions, fired, approved, job, unread, counters>>

(* A delivery made again, or never arriving.                               *)
Redeliver ==
  /\ redelivered < MaxRedeliveries /\ redelivered' = redelivered + 1
  /\ \E w \in sent \ waiting : waiting' = waiting \cup {w}
  /\ UNCHANGED <<github, storage, since, world, job, unread, edits, faults>>

Lose ==
  /\ Fails("lose")
  /\ \E w \in waiting : waiting' = waiting \ {w}
  /\ UNCHANGED <<github, storage, since, world, job, unread>>

Environment ==
  PersonLabels \/ PersonUnlabels \/ PersonCloses \/ PersonMerges \/ Push \/ Approve \/ Block \/ Published
  \/ StrangerReports \/ Redeliver \/ Lose

Next == WorkerStep \/ AlarmStep \/ Sweep \/ FaultStep \/ Environment

Spec == Init /\ [][Next]_vars

(* The object goes on while there is something it can do: a request, its   *)
(* alarm, the sweep.  In which order is left open, and nobody else has to  *)
(* act.                                                                    *)
FairSpec == Spec /\ WF_vars(WorkerStep \/ AlarmStep \/ Sweep)
----------------------------------------------------------------------------
(* Properties.                                                             *)

(* Every variable has its type: the object's storage keys, what GitHub     *)
(* keeps, the deliveries and the request at work (release.ts, types.ts).   *)
TypeOK ==
  /\ labels \subseteq Labels /\ closed \in BOOLEAN
  /\ head \in Commits /\ mergedAt \in Commits \cup {None}
  /\ mergedBy \in {"nobody", "worker", "person"}
  /\ releaseMerged \in Commits \cup {None}
  /\ pending \in Fire \cup {NoFire}
  /\ applied \in [{Before, After} -> Outcome \cup {NoOutcome}]
  /\ seen \subseteq Claim
  /\ since \subseteq Request /\ sent \subseteq Request /\ waiting \subseteq Request
  /\ sessions \subseteq [run : {Before, After}, n : Nat] /\ fired \in Nat
  /\ job \in Job
  /\ approved \subseteq Commits /\ unread \in BOOLEAN
  /\ edits \in Nat /\ faults \in Nat /\ redelivered \in Nat

Publishing == \E s \in sessions : s.run = After

Promise == INSTANCE Releasing WITH reviewed <- approved, publishing <- Publishing

(* Through carriers, retries, failures and sweeps, the Worker merges only  *)
(* the PR's head and only a commit a trusted review passed, and starts     *)
(* release-publish only on a version merged at a reviewed commit           *)
(* (release.ts's releaseApproved, retryReleasePublish and reconcile.ts's   *)
(* choice of the run).                                                     *)
KeepsReview == Promise!Spec

(* Once the Worker's merge is recorded, nothing starts the before part     *)
(* again on the merged version: not a label put back, not a deferred fire, *)
(* not the sweep (release.ts:59-62).                                       *)
BeforeNotAgain ==
  [][releaseMerged # None => \A s \in sessions' \ sessions : s.run # Before]_vars

(* Once release-publish is out, the approval's other carrier, its          *)
(* redelivery, the alarm's replay and the sweep do not start it again:     *)
(* only a delivery of the label does (outcome-dedupe.ts:1-4).              *)
PublishOnce ==
  [][(\E s \in sessions' \ sessions : s.run = After) /\ Publishing
       => job.d.event = "LABELLED_AUTO_RELEASING"]_vars

(* An approval is turned into a block only if the Worker's merge of its    *)
(* commit has not happened, or GitHub could not be read (release.ts:       *)
(* 18-20): the answer lost, a person merging, two approvals, in any order. *)
RefusalIsTrue ==
  job.d.event = "RELEASE_APPROVED" /\ job.event = "RELEASE_BLOCKED" /\ ~unread =>
    ~(mergedBy = "worker" /\ mergedAt = job.d.commit)

(* A merge the Worker recorded is followed up to an end somebody sees:     *)
(* published, stuck, or taken out of the flow (release.ts:59-66).          *)
MergedEnds ==
  releaseMerged # None ~>
    \/ releaseMerged = None \/ closed
    \/ "AI_STUCK" \in labels \/ "AUTO_RELEASING" \notin labels
=============================================================================
