----------------------------- MODULE Coordinator -----------------------------
(***************************************************************************)
(* One item's Durable Object among everything that acts on the item: its   *)
(* people, CI, the routine sessions the Worker fires, GitHub's webhooks,   *)
(* and what fails.                                                         *)
(*                                                                         *)
(* None of the environment's actions wait for a request in progress: they  *)
(* come between its calls.                                                 *)
(***************************************************************************)
EXTENDS RoutineSignal

CONSTANTS
  Faults,         \* the kinds of failure that happen
  Environments    \* what may be around the item: one of these, from the start

FaultKinds ==
  {"throw", "crash", "refuse", "unheard", "limit", "unread", "lose", "giveup"}

(* An environment: what its people, GitHub and sessions may do.  The max   *)
(* fields are bounds on what could go on for ever.                         *)
EnvironmentType ==
  [kind : {"pr", "issue"},
   reports     : SUBSET Events,       \* the outcomes sessions report
   signals     : SUBSET (SignalKinds \cup {"outcome"}),   \* the signals they send
   fails       : SUBSET FaultKinds,   \* which of the Faults may happen
   adds        : SUBSET Labels,       \* the labels a person may add,
   removes     : SUBSET Labels,       \* take off,
   acts        : SUBSET {"push", "close", "reply"},        \* and do besides
   suites      : Nat,                 \* check suites per commit: a webhook each
   reds        : SUBSET Nat,          \* the commits whose CI may fail
   newMergeable : MergeStates,        \* what GitHub says of merging a new commit, at first,
   mergeables  : SUBSET (MergeStates \ {"unknown"}),      \* and what it can come to say
   maxEdits    : Nat,                 \* label edits by people
   maxActs     : Nat,                 \* their pushes, replies, reviews, and closing the item
   maxHead     : Nat,                 \* the PR's last commit
   maxSteps    : Nat,                 \* heartbeats
   maxFaults   : Nat]                 \* failures

ASSUME EnvironmentsAssumption ==
  Faults \subseteq FaultKinds /\ Environments \subseteq EnvironmentType

VARIABLES
  env,      \* the environment
  edits,    \* label edits so far: numbers their webhooks
  acts,     \* pushes, replies, reviews and closes by people so far
  faults,   \* failures so far
  steps,    \* heartbeats so far
  \* history, which nothing reads but the properties
  \* reworks the Worker handed out since it last took up a person's label
  \* or a review passed,
  ciRounds,     \* for failing CI
  reviewRounds, \* for a review's findings
  stuckBy,  \* the run whose expiry put AI_STUCK on, or "cap"
  answered, \* the fires an outcome was applied for
  newest,   \* per routine, its newest fire
  retries   \* how often the watchdog fired a silent run again since another fire

bounds  == <<env, edits, acts, faults, steps>>
history == <<ciRounds, reviewRounds, stuckBy, answered, newest, retries>>
allVars == <<vars, bounds, history>>

Init ==
  /\ env \in Environments
  /\ labels = {} /\ closed = FALSE
  /\ head = 1 /\ ci = "running" /\ mergeable = env.newMergeable
  /\ hooks = {} /\ posted = <<>> /\ runs = {} /\ fires = 0
  /\ pending = NoFire /\ alarm = FALSE /\ ringing = FALSE
  /\ ciFix = NoCiFix /\ reviewLoop = NoReview /\ reviewReworks = 0
  /\ reworkExpired = FALSE /\ mergeFiredFor = 0
  /\ applied = [r \in Routines |-> NoOutcome]
  /\ job = NoJob
  /\ edits = 0 /\ acts = 0 /\ faults = 0 /\ steps = 0
  /\ ciRounds = 0 /\ reviewRounds = 0 /\ stuckBy = NoRun /\ answered = {}
  /\ newest = [r \in Routines |-> 0]
  /\ retries = 0

storage == <<watch, counts, applied, job>>

----------------------------------------------------------------------------
(* People.  translate() reads some label changes as events; the Worker's   *)
(* own changes come from its bot and are dropped there.                    *)

LabelledEvent(label) ==
  CASE label = "AI_READY"       /\ env.kind = "issue" -> "LABELLED_AI_READY"
    [] label = "AUTO_RELEASING" /\ env.kind = "issue" -> "LABELLED_AUTO_RELEASING"
    [] label = "AI_DISCUSSING"  /\ env.kind = "issue" -> "LABELLED_AI_DISCUSSING"
    [] label = "PR_OPEN"        /\ env.kind = "issue" -> "BUILD_SUCCEEDED"
    [] label = "AI_BLOCKED"     /\ env.kind = "issue" -> "BUILD_BLOCKED"
    [] label = "AUTO_REWORKING" /\ env.kind = "pr"    -> "LABELLED_AUTO_REWORKING"
    [] label = "AUTO_MERGING"   /\ env.kind = "pr"    -> "LABELLED_AUTO_MERGING"
    [] label = "AI_REVIEWING"   /\ env.kind = "pr"    -> "LABELLED_AI_REVIEWING"
    [] OTHER -> "none"

UnlabelledEvent(label) ==
  CASE label = "AI_READY"       /\ env.kind = "issue" -> "UNLABELLED_AI_READY"
    [] label = "AUTO_RELEASING" /\ env.kind = "issue" -> "UNLABELLED_AUTO_RELEASING"
    [] label = "AUTO_REWORKING" /\ env.kind = "pr"    -> "UNLABELLED_AUTO_REWORKING"
    [] label = "AUTO_MERGING"   /\ env.kind = "pr"    -> "UNLABELLED_AUTO_MERGING"
    [] label = "AI_REVIEWING"   /\ env.kind = "pr"    -> "UNLABELLED_AI_REVIEWING"
    [] OTHER -> "none"

Sent(event, run, n) == IF event = "none" THEN {} ELSE {Hook(event, run, n)}

(* People add a label where it means something: where the table has a rule *)
(* for it in the state they see.                                           *)
PersonAddsLabel(l) ==
  /\ ~closed /\ edits < env.maxEdits
  /\ l \in env.adds \ labels
  /\ HasRule(DeriveState(labels), LabelledEvent(l))
  /\ labels' = labels \cup {l}
  /\ hooks' = hooks \cup Sent(LabelledEvent(l), NoRun, edits)
  /\ edits' = edits + 1
  /\ UNCHANGED <<closed, head, ci, mergeable, posted, runs, fires, storage, env, acts, faults, steps, history>>

PersonRemovesLabel(l) ==
  /\ ~closed /\ edits < env.maxEdits
  /\ l \in env.removes \cap labels
  /\ labels' = labels \ {l}
  /\ hooks' = hooks \cup Sent(UnlabelledEvent(l), NoRun, edits)
  /\ edits' = edits + 1
  /\ UNCHANGED <<closed, head, ci, mergeable, posted, runs, fires, storage, env, acts, faults, steps, history>>

(* A commit pushed to the PR's branch, by anyone: CI starts again, and     *)
(* GitHub has yet to work out whether it merges.                           *)
Push ==
  /\ env.kind = "pr" /\ ~closed /\ head < env.maxHead
  /\ head' = head + 1
  /\ ci' = "running"
  /\ mergeable' = env.newMergeable
  /\ hooks' = hooks \cup {Hook("REWORK_PUSHED", NoRun, head + 1)}
  /\ UNCHANGED <<labels, closed>>

PersonPushes ==
  /\ "push" \in env.acts
  /\ Push
  /\ acts < env.maxActs
  /\ acts' = acts + 1
  /\ UNCHANGED <<posted, runs, fires, storage, env, edits, faults, steps, history>>

PersonCloses ==
  /\ "close" \in env.acts
  /\ ~closed /\ acts < env.maxActs
  /\ closed' = TRUE
  /\ acts' = acts + 1
  /\ \E e \in IF env.kind = "pr" THEN {"MERGED", "CLOSED"} ELSE {"ISSUE_CLOSED"} :
       hooks' = hooks \cup {Hook(e, NoRun, 0)}
  /\ UNCHANGED <<labels, head, ci, mergeable, posted, runs, fires, storage, env, edits, faults, steps, history>>

(* A reply in the issue's discussion, which starts its next round.         *)
PersonReplies ==
  /\ "reply" \in env.acts
  /\ env.kind = "issue" /\ ~closed /\ acts < env.maxActs
  /\ "AI_DISCUSSING" \in labels
  /\ acts' = acts + 1
  /\ hooks' = hooks \cup {Hook("DISCUSSION_REPLY", NoRun, acts)}
  /\ UNCHANGED <<github, posted, runs, fires, storage, env, edits, faults, steps, history>>

People ==
  \/ \E l \in env.adds : PersonAddsLabel(l)
  \/ \E l \in env.removes : PersonRemovesLabel(l)
  \/ PersonPushes
  \/ PersonReplies
  \/ PersonCloses

----------------------------------------------------------------------------
(* GitHub works: CI finishes (one webhook per check suite), and what       *)
(* stands against merging changes: it is computed, a conflict appears, or  *)
(* changes are requested.  None of that is an event the Worker reads.      *)

CiFinishes ==
  /\ env.kind = "pr" /\ ci = "running" /\ ~closed
  /\ ci' \in IF head \in env.reds THEN {"red", "green"} ELSE {"green"}
  /\ hooks' = hooks \cup {Hook("CHECKS", NoRun, head * env.suites + i) : i \in 1..env.suites}
  /\ UNCHANGED <<labels, closed, head, mergeable, posted, runs, fires, storage, bounds, history>>

MergeableChanges ==
  /\ env.kind = "pr" /\ ~closed
  /\ mergeable' \in env.mergeables \ {mergeable}
  /\ IF mergeable = "unknown" THEN UNCHANGED acts ELSE acts < env.maxActs /\ acts' = acts + 1
  /\ UNCHANGED <<labels, closed, head, ci, hooks, posted, runs, fires, storage,
                 env, edits, faults, steps, history>>

GitHubWorks == CiFinishes \/ MergeableChanges

----------------------------------------------------------------------------
(* The sessions.  Each reports once and ends: by an outcome comment (and   *)
(* signal), a push, or the merge itself; or it ends without any of them.   *)

Outcomes(run) ==
  CASE run = "issue-build-loop"  -> {"BUILD_SUCCEEDED", "BUILD_BLOCKED"}
    [] run = "auto-release-loop" -> {"RELEASE_BLOCKED", "RELEASE_PUBLISHED"}
    [] run = "issue-discuss-loop" -> {"DISCUSSION_CAPPED"}
    [] run = "rework-loop"       -> {"REWORK_NO_CHANGE"}
    [] run = "merge-flow"        -> {"MERGE_BLOCKED"}
    [] run = "review-loop"       -> {"REVIEW_PASSED", "REVIEW_FINDINGS", "REVIEW_BLOCKED"}
    [] OTHER                     -> {}

Ends(r) == runs' = runs \ {r}

Sends(kind, event, r) == IF kind \in env.signals THEN {Signal(event, r.run, r.gen)} ELSE {}

(* The comment is posted after the signal was sent, not after it arrived.  *)
(* It is posted under the pending fire only if that is its fire or a later *)
(* one of its routine.                                                     *)
Reports(r, outcome) ==
  /\ Ends(r)
  /\ hooks' = hooks \cup {Hook(outcome, r.run, r.gen)} \cup Sends("outcome", outcome, r)
  /\ posted' = IF pending.run = r.run THEN Append(posted, Hook(outcome, r.run, r.gen)) ELSE posted
  /\ UNCHANGED <<github, fires, storage, bounds, history>>

Pushes(r) ==
  /\ r.run = "rework-loop"
  /\ Push
  /\ Ends(r)
  /\ UNCHANGED <<posted, fires, storage, bounds, history>>

Merges(r) ==
  /\ r.run = "merge-flow"
  /\ "AUTO_MERGING" \in labels /\ ~closed
  /\ ci = "green" /\ mergeable = "clean"
  /\ Ends(r)
  /\ closed' = TRUE
  /\ hooks' = hooks \cup {Hook("MERGED", NoRun, 0)}
  /\ UNCHANGED <<labels, head, ci, mergeable, posted, fires, storage, bounds, history>>

(* Without a word, or with the hooks' signal that it ended.                *)
Dies(r) ==
  /\ Ends(r)
  /\ \E kind \in {"ended", "completion"} :
       hooks' \in {hooks, hooks \cup Sends(kind, kind, r)}
  /\ UNCHANGED <<github, posted, fires, storage, bounds, history>>

Steps(r) ==
  /\ "process" \in env.signals
  /\ steps < env.maxSteps
  /\ steps' = steps + 1
  /\ hooks' = hooks \cup {Signal("process", r.run, r.gen)}
  /\ UNCHANGED <<github, posted, runs, fires, storage, env, edits, acts, faults, history>>

Session(r) ==
  \/ \E o \in Outcomes(r.run) \cap env.reports : Reports(r, o)
  \/ Pushes(r)
  \/ Merges(r)
  \/ Dies(r)
  \/ Steps(r)

Sessions == \E r \in runs : Session(r)

----------------------------------------------------------------------------
(* Failures, each from the budget.                                         *)

Fails(kind) ==
  /\ kind \in Faults \cap env.fails
  /\ faults < env.maxFaults
  /\ faults' = faults + 1
  /\ UNCHANGED <<env, edits, acts, steps>>

Throws   == Fails("throw") /\ (ThrowHook \/ ThrowAlarm \/ ThrowReplay)
Crashes  == Fails("crash") /\ (CrashHook \/ CrashAlarm)
Refused  == Fails("refuse") /\ (RefuseHook \/ RefuseAlarm)
Limited  == Fails("limit") /\ FireLimited
Unheard  == Fails("unheard") /\ LostAnswer
Unread   == Fails("unread") /\ (SendDeferredUnread \/ StartExpiryUnread)
GivesUp  == Fails("giveup") /\ GiveUp

(* GitHub delivers once: an answer it did not get in time loses the        *)
(* webhook, and so does a failed delivery nobody redelivers.  A signal can *)
(* be lost too.                                                            *)
Loses ==
  /\ Fails("lose")
  /\ \E h \in hooks : hooks' = hooks \ {h} /\ job.hook # h
  /\ UNCHANGED <<github, posted, runs, fires, storage>>

Failures == UNCHANGED history /\ (Throws \/ Crashes \/ Refused \/ Limited \/ Unheard \/ Unread \/ GivesUp \/ Loses)

----------------------------------------------------------------------------
(* What the history records of a step of the Worker's.  (A deferred fire   *)
(* sent, or a silent one fired again, is no further round.)                *)
HandsOut(causes) ==
  fires' # fires /\ job.event \in causes /\ job.then \notin {"deferred", "retry"}

TakesUpLabel ==
  Idle /\ job'.event \in {"LABELLED_AUTO_REWORKING", "LABELLED_AUTO_MERGING", "LABELLED_AI_REVIEWING"}

Counted(rounds, causes) ==
  CASE TakesUpLabel \/ After("passed") -> 0
    [] HandsOut(causes)               -> rounds + 1
    [] OTHER                          -> rounds

Remember ==
  /\ ciRounds' = Counted(ciRounds, {"MERGE_GATE_FAILED_SOFT", "REVIEW_CI_FAILED"})
  /\ reviewRounds' = Counted(reviewRounds, {"REVIEW_FINDINGS"})
  /\ stuckBy' = IF "AI_STUCK" \notin labels'   THEN NoRun
                ELSE IF "AI_STUCK" \in labels  THEN stuckBy
                ELSE IF job.then = "expiry"    THEN job.old.run
                ELSE "cap"
  /\ answered' = IF job.pc = "return" /\ job.applied /\ job.hook.run # NoRun
                 THEN answered \cup {job.hook.n} ELSE answered
  /\ newest' = IF fires' # fires THEN [newest EXCEPT ![job.rule.run] = fires'] ELSE newest
  /\ retries' = IF fires' = fires THEN retries
                ELSE CASE job.then = "retry"    -> retries + 1
                       [] job.then = "deferred" -> retries
                       [] OTHER                 -> 0

Worker == (WebhookStep \/ WatchdogStep \/ SignalStep) /\ Remember /\ UNCHANGED bounds

Alarm == Ring /\ UNCHANGED <<bounds, history>>

Next == Worker \/ Alarm \/ People \/ GitHubWorks \/ Sessions \/ Failures

Spec == Init /\ [][Next]_allVars

(* The platform runs a request it was given, and rings an alarm it was     *)
(* set.  Nothing is assumed of people, GitHub or the sessions.             *)
FairSpec == Spec /\ WF_allVars(Worker) /\ WF_allVars(Alarm)

----------------------------------------------------------------------------
(* What must hold.                                                         *)

TypeOK ==
  /\ ItemTypeOK
  /\ env \in Environments
  /\ edits \in Nat /\ acts \in Nat /\ faults \in Nat /\ steps \in Nat
  /\ ciRounds \in Nat /\ reviewRounds \in Nat
  /\ stuckBy \in AnyRun \cup {"cap"}
  /\ answered \in SUBSET Nat
  /\ newest \in [Routines -> Nat]
  /\ retries \in Nat

Quiet == Idle /\ hooks = {} /\ ~ringing

(* A stored pending fire always has something that will come back to it:   *)
(* its alarm set, or an alarm call that has not succeeded yet; and no      *)
(* alarm is set for nothing.  (setPendingFire, clearPendingFire, and the   *)
(* expiry's "pendingFire is cleared LAST".)                                *)
WatchKept ==
  /\ pending # NoFire => alarm \/ ringing \/ "giveup" \in Faults
  /\ alarm => pending # NoFire

(* Armed before it is fired: while the routines API is being asked for a   *)
(* watched run, that very fire is the pending one (and so has its alarm,   *)
(* by WatchKept): applyEvent, fireWatched.                                 *)
ArmedBeforeFired ==
  job.pc = "send" /\ IsWatched(RunState(job.rule)) =>
    pending.run = job.rule.run /\ pending.gen = fires

(* With nothing failing and nothing left to handle, an open item whose     *)
(* label says a routine is at work has one under watch: no order of        *)
(* webhooks, pushes, CI results, late reports and expiries leaves it       *)
(* behind.                                                                 *)
Working == {"AI_READY", "AUTO_RELEASING", "AUTO_REWORKING", "AUTO_MERGING"}

NothingLeftBehind ==
  Quiet /\ ~closed /\ faults = 0 /\ ModeEnforced /\ DeriveState(labels) \in Working
    => pending # NoFire

(* A rework is out, and nothing is in progress.                            *)
ReworkOut ==
  Idle /\ faults = 0 /\ DeriveState(labels) = "AUTO_REWORKING" /\ pending.run = "rework-loop"

(* A CI fix the Worker handed out knows where its push goes back to: to    *)
(* the merge, or to the review (handToRework, handReviewToRework).         *)
FixReturns ==
  ReworkOut =>
    /\ pending.cause = "MERGE_GATE_FAILED_SOFT" =>
         ciFix.pending /\ ciFix.returnTo = "AUTO_MERGING"
    /\ pending.cause = "REVIEW_CI_FAILED" =>
         ciFix.pending /\ ciFix.returnTo = "AI_REVIEWING"

(* One for a review's findings knows it is that, and no CI fix             *)
(* (reviewFindings).                                                       *)
FindingsReturn ==
  ReworkOut /\ pending.cause = "REVIEW_FINDINGS" => ~ciFix.pending /\ reviewLoop.fixPending

(* A rework the Worker handed out knows where its push goes back to, for   *)
(* as long as it is out (the ends of a rework in processEvent).            *)
ReturnPath == FixReturns /\ FindingsReturn

(* Between two labels of a person's it takes up, or a review's passes, the *)
(* Worker hands out no more reworks than its caps allow, however reworks,  *)
(* expiries and late reports follow each other.                            *)
ReworkBudget == faults = 0 => ciRounds <= CiFixAttempts /\ reviewRounds <= BotReviewReworks

(* No review is fired while one is out, however its label's webhook and    *)
(* the check suites' are ordered (the guards of coordinate/webhook.ts and  *)
(* reviewGate).                                                            *)
ReviewOnce ==
  [][fires' # fires /\ job.rule.run = "review-loop" /\ job.then = "done"
       => pending.run # "review-loop"]_allVars

(* A push clears AI_STUCK only when what got stuck was a rework: the push  *)
(* is then its late answer.                                                *)
StuckStays ==
  [][ "AI_STUCK" \in labels /\ "AI_STUCK" \notin labels' /\ job.event = "REWORK_PUSHED"
       => stuckBy = "rework-loop"]_allVars

(* No request was cut off in the middle, by a throw or a restart.          *)
NothingCutOff == faults = 0 \/ Faults \cap env.fails \cap {"throw", "crash"} = {}

ClaimsAnExpiry == Idle /\ reworkExpired /\ "AI_STUCK" \in labels => stuckBy = "rework-loop"

(* reworkExpired is TRUE only while what last put AI_STUCK on was a        *)
(* rework's expiry ("so it is only true if the latest entry into AI_STUCK  *)
(* was a rework expiry", expirePendingFire): alarms that are delivered     *)
(* again included, and whatever is refused, unheard, lost or put off, as   *)
(* long as no request is cut off.  (Under one cut off it may not: see      *)
(* CappedClaim.)                                                           *)
ExpiryClaim == NothingCutOff => ClaimsAnExpiry

(* A green head commit re-fires merge-flow once (MERGE_GATE_PASSED).  What *)
(* the watchdog sends again is no re-fire: it looked at no commit.         *)
MergeRefiredOnce ==
  faults = 0 =>
    \A r, s \in runs : /\ r.cause = "MERGE_GATE_PASSED"
                       /\ s.cause = "MERGE_GATE_PASSED"
                       /\ r.head = s.head /\ r.head # 0
                       => r = s

(* The outcome of a routine's newest fire is applied once, by whichever of *)
(* its carriers comes first (outcome-dedupe.ts).                           *)
Answers == job.pc = "return" /\ job.applied /\ job.hook.run # NoRun /\ job' # job

NewestOutcomeOnce ==
  [][Answers /\ job.hook.n = newest[job.hook.run] => job.hook.n \notin answered]_allVars

(* A silent run is fired again once ("a second silent expiry goes to       *)
(* LABELS.AI_STUCK", retryOnce), whatever the retry meets: a rate limit, a *)
(* crash, a repeated alarm.                                                *)
RetryBudget == retries <= 1

(* In shadow nothing is written to GitHub and no session is started; and a *)
(* watchdog in shadow only looks, though it still sends a fire that waited *)
(* out a rate limit (resolveEnforced, shadowDeps).                         *)
ShadowOnlyLooks ==
  [][ /\ labels' # labels \/ runs' \ runs # {}
      /\ job # NoJob /\ job' # job
      => /\ ModeEnforced
         /\ OfExpiry /\ job.then # "deferred" => WatchdogEnforced
         /\ job.replays => WatchdogEnforced ]_allVars

(* What the requests leave of a fire's watch to be seen, and the promise   *)
(* they keep of it: FireWatch (setPendingFire, fireWatched, deferFire,     *)
(* retryOnce, expirePendingFire).                                          *)
AsFire(f) == [run |-> f.run, gen |-> f.gen, retried |-> f.retried, waits |-> f.deferred]

Asked ==
  IF job.pc = "send"
  THEN [run |-> job.rule.run, gen |-> fires, retried |-> job.retried, waits |-> FALSE]
  ELSE AsFire(NoFire)

Comes == IF alarm THEN "alarm" ELSE IF ringing /\ pending.due THEN "ring" ELSE "nothing"

Promise == INSTANCE FireWatch
             WITH watched <- AsFire(pending), comes <- Comes, asking <- Asked,
                  sessions <- {[run |-> r.run, gen |-> r.gen] : r \in runs},
                  GivesUp <- "giveup" \in Faults

KeepsWatch == Promise!Spec

(* No chain of fires goes on for ever: an outcome or an expiry ends each   *)
(* watch, whatever is lost, refused, repeated or late, and a rework and    *)
(* its gate do not keep handing the item to each other.                    *)
WatchEnds == []<>(pending = NoFire)

(* A label that says a routine is at work does not stay for ever, even if  *)
(* every session dies in silence.  (A fire that is refused leaves its      *)
(* label, for the sweep: with no failure it does not stay.)                *)
WorkEnds == []<>(closed \/ DeriveState(labels) \notin Working \/ faults > 0)

----------------------------------------------------------------------------
(* What the code says of itself, and does not do.                          *)

(* The gate of AI_REVIEWING is read "when AI_REVIEWING is added, each time *)
(* a check suite finishes, and by the sweep" (coordinate/review-gate.ts):  *)
(* a PR under it with nothing left to handle has a review under watch, or  *)
(* CI to wait for.                                                         *)
ReviewGateRead ==
  Quiet /\ ~closed /\ faults = 0 /\ ModeEnforced /\ DeriveState(labels) = "AI_REVIEWING"
    => pending # NoFire \/ ci = "running"

(* reworkExpired "is only true if the latest entry into AI_STUCK was a     *)
(* rework expiry" (coordinate/watchdog.ts), said with no exception.        *)
ExpiryClaimAlways == ClaimsAnExpiry

(* Any fire's outcome is applied once: "the first to apply is remembered   *)
(* against the fire it ended; the second is a logged no-op"                *)
(* (coordinate/webhook.ts).                                                *)
OutcomeOnce == [][Answers => job.hook.n \notin answered]_allVars

(* AI_STUCK is left through the labels a person adds: AI_REVIEWING,        *)
(* AUTO_REWORKING or AUTO_MERGING (coordinate/webhook.ts).                 *)
StuckIsLeft ==
  Quiet /\ ~closed /\ faults = 0 /\ ModeEnforced /\ "AI_STUCK" \in labels
    => "AUTO_MERGING" \notin labels

(* The pending fire is cleared last, "so a failure anywhere before it      *)
(* leaves the retry something to act on" (coordinate/watchdog.ts).         *)
FailureLeavesRetry ==
  [][job.pc = "expire" /\ faults' # faults => pending # NoFire]_allVars
=============================================================================
