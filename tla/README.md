# The orchestrator's coordination, in TLA+

The repository runs coding agents ("routines") on GitHub issues and pull requests. A Cloudflare Worker
receives GitHub's webhooks, keeps one Durable Object per issue or PR, decides from the item's labels what
happens next, writes labels, and fires routines through an HTTP API. The routines answer through GitHub (an
outcome comment, a push, a merge) and by direct signals. This directory holds a model of that coordination,
the configurations TLC checks it with, and proofs TLAPS checks. Paths below are relative to `src/`.

## 1. Inventory

| component | state it keeps | operations | talks to |
|---|---|---|---|
| transition table (`graph/graph.ts`, `graph/github/to-github.ts`) | none | `deriveState`, `reduce`, `labelOps`, `isWatched` | used by everything below |
| event reading (`graph/github/from-github.ts`, `graph/outcomes.ts`) | none | `translate`, outcome comments to events | GitHub's webhooks |
| merge gate (`graph/github/merge-gate.ts`, `coordinate/merge-gate.ts`) | none; counts CI fixes in the item | `deriveMergeGateOutcome`, `handToRework`, `blockMerge` | GitHub |
| review gate (`coordinate/review-gate.ts`) | review rounds, CI fixes, in the item | `reviewGate`, `handReviewToRework`, `reviewFindings` | GitHub |
| webhook coordination (`coordinate/webhook.ts`, `apply.ts`, `outcome-dedupe.ts`) | all counters and flags of the item | one handler per event, `applyEvent`, `fireWatched` | GitHub, the routines API |
| watchdog (`coordinate/watchdog.ts`) | the pending fire, its alarm | expiry, deferred fires, replay of a lost outcome, one retry | GitHub, the routines API |
| routine signals (`coordinate/routine-signal.ts`) | the pending fire's last step | `process`, `completion`, `outcome`, `ended`, `blocked` | routines' hooks |
| issue Durable Object (`worker/src/issue-coordinator.ts`) | the storage of all the above, a serial queue, one alarm | `coordinate`, `alarm`, `routineSignal`, `reconcile`, `release` | everything |
| routines client (`worker/src/routines-client.ts`) | none | `fireRoutine`, with its second call | the routines API |
| stage hand-offs (`coordinate/stages.ts`) | the merge an issue was moved on by | a build's review, a merge, a release, each handed on to other items | other Durable Objects |
| release (`coordinate/release.ts`) | the merge the Worker made | approval, the merge of the release PR, release-publish and its retry | GitHub, the routines API |
| scheduler and sweep (`worker/src/scheduler.ts`, `coordinate/reconcile.ts`) | the next alarm, when a webhook last came | a chain of alarms, `/ensure` on every webhook, the periodic check of every open item | D1, all Durable Objects |
| front door (`worker/src/index.ts`, `webhook-parse.ts`) | none | parse, route, answer in time | GitHub, Durable Objects |
| dashboard, controls, D1 tables, auth, work log, GitHub clients | rows in D1 | reading, switching, logging | D1, GitHub |
| plugins, scripts, skills, e2e driver and stub | files | sessions' hooks and prompts, tests | outside the Worker |

What makes it hard:

- **Interleaving.** A Durable Object handles one request at a time, but a request awaits GitHub and the
  routines API many times. Between two awaits people edit labels, commits arrive, CI finishes, sessions
  report. Labels are read once, at the start.
- **Ordering.** A label's webhook is handled some time after the label was put on; by then another event may
  have acted on it. Check suites of one commit finish one by one. A push's webhook and the CI result of the
  commit it pushed race.
- **Failure.** A webhook answered too late is lost (GitHub does not redeliver); an alarm is delivered at
  least once; each call may throw, and the object may be evicted between two storage writes. A fire may
  start a session and lose the answer, be refused, or be put off by a rate limit.
- **Timeouts.** The watchdog's expiry races the run's own late report, which comes by two carriers.
- **Staleness.** The sweep lists open items with their `updated_at`, then asks them one by one; by then a
  label may be new and its webhook on its way.
- **Requests between objects.** A hand-off waits for another object's serial queue from inside its own; a
  check suite goes to several PRs one after the other, and GitHub gets one answer for all of them.
- **Bounds.** Three caps (CI fixes, reviewers' reworks, the bot's review rounds) are counted in one handler
  and reset in several others.

What makes each component correct is the list of properties of section 4. `PROJECT.json` lists every hazard
at its line with the property that covers it, or the reason none does yet.

## 2. Modules

`Graph` to `Coordinator` each EXTEND the one above. `Stages` and `Release` EXTEND `Graph`: `Stages` has many
items and what passes between them, `Release` one release issue in depth. `Delivery` and `Scheduler` stand
alone: `Delivery` sees an item as what handles a delivery, `Scheduler` as the sweep does, a trigger label with
or without a watchdog.

| module | models | notes |
|---|---|---|
| `Graph` | the table's rules, `reduce` (`Matching`), `deriveState`, `labelOps`, `isWatched` | pure; a rule is a record `[from, on, to, run]` |
| `MergeGate` | `deriveMergeGateOutcome` and the facts it is given: CI (nothing reported yet included), mergeability | pure |
| `Item` | the item's variables; `applyEvent`: each GitHub write, arming, the call of the routines API and all it can come to | `job` is the request in progress and its program counter |
| `Webhook` | `coordinateWebhook`: handlers by event (`HandleEvent`), the gates (`ReadFacts`), what follows the rule (`AfterEvent`), the outcome's memory | one action per stretch between two outside calls |
| `Watchdog` | `coordinateAlarm`, `recoverOutcome`, `retryOnce`, `expirePendingFire` | `ringing`: an alarm call that has not succeeded yet |
| `RoutineSignal` | `coordinateRoutineSignal` | signals name a routine, never a fire |
| `Coordinator` | the whole: people, GitHub, sessions, failures; Init, Next, fairness, properties | `env` is the environment of the behaviour |
| `FireWatch` | the promise `Coordinator` implements: a watched fire has something to come back to it, and is made again only once its alarm rang | abstract |
| `MCCoordinator` | the environments the runs use | TLC only |
| `Scheduler` | the scheduler's alarm chain, `/ensure`, a sweep's steps (controls, list, one `Ask` per item), `coordinateReconcile`'s answers; webhooks, signals, people and the platform as they touch those | `sweep` is the sweep alarm() is making |
| `MCScheduler` | two items | TLC only |
| `Stages` | `stages.ts` between the serial queues of issues, PRs and releases: deliveries and their claims, hand-offs and the wait for their answers, `prMerged`, `released`, the review's two askers, its gate and its pending fire | one `job` per item |
| `Shipping` | the promise `Stages` implements: an issue is closed by a published release that contains the merge it was moved on by | abstract |
| `MCStages` | one or two issues, a PR, a release | TLC only |
| `Release` | `releaseApproved` call by call, `retryReleasePublish`, the release's labels, reports, watch, replay, sweep and close; pushes, reviews and merges of its PR | `job` as in `Item` |
| `Releasing` | the promise `Release` implements: only a reviewed head is merged by the Worker, only a reviewed merge is published | abstract |
| `MCRelease` | one release | TLC only |
| `Delivery` | the front door: routing by payload or by commit, one forward after the other, the answer by 8 s, redelivery; each object's queue and claim | a check suite on a commit with several PRs; any other webhook is the case of one |
| `Acceptance` | the promise `Delivery` implements: a PR handles a result once, and a 200 means every open PR did | abstract |
| `MCDelivery` | two PRs, two suites | TLC only |
| `GraphProofs`, `TypeProofs`, `WatchProofs`, `RequestProofs` | theorems about `Coordinator` | each EXTENDS the one before; section 6 |
| `SchedulerProofs`, `StagesProofs`, `ReleaseProofs`, `DeliveryProofs` | theorems about those modules | section 6 |

**State.** `labels`, `closed`, `head`, `ci`, `mergeable` are GitHub's; `hooks` is the set of deliveries on
their way (a set, so they arrive in any order); `posted` the outcome comments since the pending fire;
`runs` the sessions alive; `pending` is `pendingFire` and `alarm` whether an alarm is set for it; `ciFix`,
`reviewLoop`, `reviewReworks`, `reworkExpired`, `mergeFiredFor`, `applied` are the storage keys
of those names. `job` is the request the serial queue is at. `ciRounds`, `reviewRounds`, `stuckBy`,
`answered`, `newest`, `retries` are history: no action reads them.

**Granularity.** The object's storage is only touched by the request in progress, so storage writes with no
outside call between them are one step; every call to GitHub or to the routines API ends a step. A crash
falls between steps. `job.pc` names where a request is: `facts` (gate's read), `write` (label writes, one at
a time), `send` (the routines API), `after`, `comment`, `return`; the alarm adds `recover` and `expire`.

**A slip beside its original.** Some definitions come in two forms, the one named for a slip (for example
`WatchedByOldState` before `Watched`) being what the code could have said by mistake. Nothing uses it:
substituting it shows that the property about that code tells the two apart.

**Abstractions**, none of which the properties can see past, but which a reader should know:

- Time is gone: an alarm that is set may ring at any moment, whatever the routine's period is. So each
  property holds for every setting of the periods, and a watch that moved on is told from the one an alarm
  rang for by the flag `due`, as the code tells by the fire's deadline.
- A fire has a number (`gen`) where the code compares `firedAt`.
- GitHub's facts are CI of the head commit (`running`, `red`, `green`; a `running` one may be read as having no
  check runs at all yet) and what stands against merging (`unknown`, `clean`, `blocked`). `settledGateFacts`' short wait for a mergeable flag is one read.
- An outcome comment counts only from a trusted author; all the model's are.
- A signal's delivery-id claim is taken per fire.
- D1 rows, the item key and status writes are not modelled: nothing in the modelled code reads them.
- In `Coordinator`, `MERGED` and `BUILD_SUCCEEDED` act on their own item only; `Stages` hands them on.
- A comment posted under the pending fire of the same routine is one the expiry may find, an older one is not.

`Scheduler`'s own:

- Time is counted in ticks, relative to now: `alarm` is how far off the next alarm is, `updated` and `logged`
  how long ago something happened, up to the threshold `Quiet` past which the code sees no difference.
- The platform is prompt: a due alarm rings before the next tick, and a sweep lasts at most `SweepTime`,
  which is shorter than the interval. Both are assumptions, not things the code ensures, and what the
  properties say in ticks rests on them.
- One repository, so one list per sweep. The list's calls are one step; so is an item's answer, which its
  own object's queue does not interleave with anything. `POST /sweep` (the end-to-end tests') is left out.
- `mode` says for good what a sweep may do about an item: fire, only report, or read a gate that may have to
  wait for CI. The merge gate's answers when it acts are a re-fire like any other.
- The marks `completedAt` and of a reported idle stretch are Booleans (`done`, `reported`): set at the mark,
  cleared by a later log row; `moved` says `updated_at` is newer than the mark.
- All items have one `Quiet`, where the code takes twice the timeout of the item's routine.

`Stages`' own:

- Labels are those the stages read; what a routine's fire and its watch do is `Coordinator`'s, and here only
  a review's is told: fired by the gate, pending until a rule that fires nothing ends its watch (`ClearPendingFire`). A request's own writes are steps; so is each hand-off's call and answer.
- A delivery is named by what it reports (item, event, PR, carrier), and a hand-off's claim by that and the
  item it is for, as `stages.ts` derives its delivery id.
- Whether a merge is in a release (`isAncestor`) is one read of the set of merges in its branch, cut before.
- The queue of an item is a set: requests of different items may overtake each other.
- A build makes one PR, which its comment and its signal both name.

`Release`'s own:

- One release PR, and its commits are numbers. `unread` remembers that GitHub could not be read at the second
  look; a lost answer of the merge (`noanswer`) may hide a merge that was made or one that was not.
- The sweep asks the item only when nothing is on its way to it (`waiting` empty): the code asks after an idle
  time that is far longer than a webhook takes.
- The enforced mode only, and without the watchdog's one retry (off unless a repository asks for it).
- A stranger's `release_blocked` counts, as in the code: only an approval is checked for its author.
- `release-publish`'s completion signal, which only the sweep reads, is left out.

`Delivery`'s own:

- A suite's n-th place in the order in which suites finish is its rank, and what a PR reads of its commit's
  checks is how many suites had finished. What it then does with it is `Coordinator`'s gate.
- A PR's queue is a set: two calls may reach the object in either order.
- No PR opens on the commit once its first suite has finished; which are open by then is free, and PRs close at any time.
- A claim is let go when the work fails, and kept if the object is evicted: that case is left to section 5.

## 3. Environments and bounds

An environment (`EnvironmentType`) says what people, GitHub and sessions may do in a behaviour: labels they
may add or remove, whether they push, close or reply, which outcomes sessions report and which signals they
send, which of the run's failures may happen, which commits' CI may fail, check suites per commit, and bounds: `maxEdits` label edits, `maxActs`
other acts, `maxHead` the last commit, `maxSteps` heartbeats, `maxFaults` failures. `Environments` is the
set a run starts from; `env` is chosen in Init and never changes. Everything else (which hook
is handled next, when an alarm rings, when a session ends, where a failure falls) is free. The theorems hold
for every set of environments. All caps are 1: a second CI fix or review round is the one past the cap.

| environment | why it is enough |
|---|---|
| `ReviewFlow` | four commits: the first CI fix, a review round, a person's push and the commit past the cap; every report; a close at any moment |
| `Relabelled` | two label edits while CI, a review, reworks and expiries are under way: a label's webhook may be handled after anything |
| `MergeFlow` | two red commits: the fix and the one past the cap; mergeability late, then clean or blocked |
| `Unblocked` | `AUTO_MERGING` put back on a blocked PR while it changes |
| `IssueFlow` | build and discussion, labels coming and going, replies, a close, outcome by signal and by comment |
| `ReleaseFlow` | a release whose session publishes itself: the label changed twice, and the issue the Worker closes |
| `Signalled` | every signal a session can send, late ones included |
| `FailingRework`, `FailingReview`, `FailingBuild`, `FailingDiscussion` | one failure of any kind at any step |
| `FailingCap` | a rework asked for past its cap, its own label or `AI_STUCK` taken off in between, and one failure that cuts no request off: a cap's `AI_STUCK` after an expiry's |
| `QuietBuild` | a session that says nothing, two failures: the retry's own failure included |
| `Shadowed` | merges and reworks under a watchdog in shadow |
| `SilentMerge`, `LiveBuild`, `LiveRework` | small enough for liveness: red CI under a merge label, a build that reports, a rework that pushes |

`Sweep` (and `SweepAlongside.cfg`) have two items and ticks of half an interval: `Interval` 2, `IdleInterval` 6 (a
quiet repository is swept every third interval), `Quiet` 4 (an item passes at least one sweep as "recent"),
`SweepTime` 1 (a tick may fall in the middle of a sweep), `MaxRefires` 1 (the cap puts the second item off).
A person acts once (a label, or the switch) and one failure happens, on top of labels from before there was
a scheduler; webhooks, outcomes and signals are not bounded. `FoundBound` is tight here: TLC refutes
the same property with one tick less.

`HandOff` has an issue and the PR its build made, with the report by comment and by signal, a person's label,
CI, the merge, one call that throws and one redelivery: each of the two items can hand on to, and wait for, the other.
`Ship` has two issues that one PR closes and a release, one call that throws, one redelivery and one person's edit:
the smallest instance in which a hand-off fails between the first item and the second. `StagesLive` is `Ship`
with an eviction as well as a throw for its one failure, and no redelivery or edit. Two PRs that close one issue are beyond these runs; the
theorems of section 6 have them.

`Release` has two commits, so that a push can come between the review and the merge, and both can be
approved; one edit, one failure, one redelivery. `ReleaseFails` has one commit and two edits (the label off
and on again) with every failure that interrupts, one at a time.

`Delivery` has two suites and two PRs (a forward before and after another, a result before and after
another), one redelivery, and two of: a failed call, a 202, a cut. So a request may be late, its redelivery
arrive while it works, and its work fail. It starts with any of the PRs open, none included, and at most one
closes (`MaxCloses`); the theorems have no such bound.

The `Only...` sets hold the smallest environment that shows a behaviour of section 5.

## 4. Runs

| run | checks | result |
|---|---|---|
| `Flows` | `TypeOK`, `NothingLeftBehind`, `ReturnPath`, `ReworkBudget`, `MergeRefiredOnce`, `ReviewOnce`, `StuckStays`, `NewestOutcomeOnce` over seven flows, nothing failing | 1.8 M states, holds |
| `Failing` | `WatchKept`, `ArmedBeforeFired`, `ExpiryClaim`, `RetryBudget`, `KeepsWatch` with failures, the watchdog retrying | 2.1 M states, holds |
| `Shadow` | `ShadowOnlyLooks` with the watchdog in shadow | 0.36 M states, holds |
| `Live` | `WatchEnds`, `WorkEnds` under fairness | 11 k states, holds |
| `Sweep` | `TypeOK`, `EnsureKeepsPace`, `FoundInTime`, `ChainKept`, `AlongsideOnlyUnlisted` over the sweep's chain, one failure anywhere | 2.6 M states, holds |
| `HandOff` | `TypeOK`, `HandOffsDone`, `ReviewOnce` between an issue and its PR | 0.65 M states, holds |
| `Ship` | `HandOffsDone`, `MergesHandedOn`, `KeepsPromise` from a merge to the release that ships it | 0.48 M states, holds |
| `StagesLive` | `WaitsForAnswer`, and `RequestsEnd`, `MergedMovesOn` under fairness, evictions included | 15 k states, holds |
| `Release` | `TypeOK`, `RefusalIsTrue`, `PublishOnce`, `KeepsReview` | 2.7 M states, holds |
| `ReleaseFails` | `BeforeNotAgain`, `MergedEnds` under fairness, with failures | 0.65 M states, holds |
| `Delivery` | `TypeOK`, `LastWordRead`, `KeepsAcceptance` | 1.7 M states, holds |
| `WaitCycle` | `RequestsEnd` with the build's report and the merge at once | violated: section 5 |

The properties, each stated in full in `Coordinator.tla`, or in the module named above them:

- `NothingLeftBehind`: with nothing failing, once everything is handled, an open item whose label says a
  routine is at work has one under watch.
- `ReturnPath`: a rework the Worker handed out knows where its push goes back to, as long as it is out.
- `ReworkBudget`: between two labels of a person's it takes up, the Worker hands out no more reworks than its caps (with nothing failing: a
  failure between the hand-out and its count leaves it uncounted).
- `MergeRefiredOnce`: with nothing failing, a green commit re-fires merge-flow once.
- `ReviewOnce`: no review is fired while one is out.
- `StuckStays`: a push clears `AI_STUCK` only when a rework got stuck.
- `NewestOutcomeOnce`: the outcome of a routine's newest fire is applied once, whichever carrier is first.
- `WatchKept`: a pending fire always has something that comes back to it, and no alarm is set for nothing.
- `ArmedBeforeFired`: while the routines API is asked for a watched run, that fire is the pending one.
- `ExpiryClaim`: `reworkExpired` is TRUE in `AI_STUCK` only if a rework's expiry put that label on, as long as no
  request is cut off (by a throw or a restart; every other failure is allowed).
- `RetryBudget`: the watchdog fires a silent run again once, whatever the retry meets.
- `KeepsWatch`: `Coordinator` implements `FireWatch` (`watched` is `pending`, `comes` what `alarm` and `ringing` leave to
  come back to it, `asking` the fire a request at `send` makes, `sessions` the runs).
- `ShadowOnlyLooks`: what is in shadow writes nothing and starts nothing.
- `WatchEnds`, `WorkEnds`: every watch ends; a working label does not stay for ever if nothing fails.

`Scheduler`:

- `ChainKept`: the scheduler always has a next sweep to come to, through failed sweeps and evictions.
- `EnsureKeepsPace`: the sweep after a webhook starts within the normal interval, though a sweep in
  progress may be about to slow the chain.
- `FoundInTime`: an item left behind (trigger label, no watchdog, not said to be done) is fired again within
  `FoundBound` of the last failure, the slow pace, the "recent" answers and the cap notwithstanding.
- `AlongsideOnlyUnlisted`: a re-fire beside a label's own webhook happens only to a label that came after
  the sweep's list, or whose webhook took longer than `Quiet`.

`Stages`:

- `MergesHandedOn`: a merge answered well has been handled to its end by every issue it closes.
- `HandOffsDone`: so have the other hand-offs, while they are owed: a build's review by one of its reports until the
  PR is merged or its issue leaves `PR_OPEN`, a release by each issue that waits for one.
- `ReviewOnce`: a PR asked for by its issue, labelled by a person and passed by CI, in any order and again after a failure,
  has its review fired once: no label's rule ends the watch of a review that is out.
- `WaitsForAnswer`: who waits for another item's answer is on that item's desk or in its queue.
- `KeepsPromise`: `Stages` implements `Shipping` (`moved` is `shipped`, `published` the releases delivered).
- `RequestsEnd`, `MergedMovesOn`: a request ends; a merge moves its issues on if nothing fails.

`Release`:

- `KeepsReview`: `Release` implements `Releasing` (`reviewed` is the history `approved`, `publishing` whether
  a session of release-publish was started).
- `BeforeNotAgain`: with the Worker's merge on record, the before part is not started again.
- `PublishOnce`: release-publish, once out, is started again only by the label put back.
- `RefusalIsTrue`: an approval is refused only if the Worker's merge of its commit has not happened, or GitHub could
  not be read.
- `MergedEnds`: a recorded merge ends published, stuck, or out of the flow.

`Delivery`:

- `LastWordRead`: with a 200 for every suite that finished, every open PR handled one with all of them in view.
- `KeepsAcceptance`: `Delivery` implements `Acceptance` (`handled` is `log`, `accepted` the suites with a 200).

`ReturnPath` and `StuckStays` hold in the environments of `Flows` and fail in the richer ones of
`UnlabelledLate.cfg` (a working label removed and put back) and `OldRework.cfg` (a merge handed out twice around a rework that never
pushed): what `Flows` shows of them is that those two are what it takes. `PublishOnce` holds with a failed
call of the merge and fails with others (`PublishedTwice.cfg`).

**Fairness.** `FairSpec` assumes weak fairness of the Worker's steps (the platform runs a request it has
accepted, and a delivery that has arrived is handled) and of the alarm (`setAlarm` is durable and is called
back). In `Stages` it is assumed of some item that can go on, in `Release` of the object's steps, its alarm and the
sweep together; behaviours are finite there, so everything that can end does. Nothing is assumed of people, GitHub, CI or the sessions, which may die in silence at any moment.

`CHECK_DEADLOCK FALSE` in every run but `Sweep`: items nobody acts on any more rest. `Sweep` checks deadlock:
time and webhooks never stop.

## 5. Where the code and its comments part

`WaitCycle` is a run: an issue and the PR built for it wait for each other when the build's report is handed
to the PR while the PR's merge is handed to the issue, each from inside its own queue
(`issue-coordinator.ts:279`); neither request ends.

The others have a configuration beside the modules, each with the smallest instance that shows it, to be run
with `tlc -config <name>.cfg` on the module named; TLC finds the property violated.

| configuration, module | property | what the code does |
|---|---|---|
| `ReturnedUnread`, `MCCoordinator` | `ReviewGateRead` | a rework's push returns the PR to `AI_REVIEWING` without reading the CI gate (`webhook.ts:153`); if CI finished before the push's webhook was handled, only the sweep finds it |
| `LateOutcomeTwice`, `MCCoordinator` | `OutcomeOnce` | an outcome the watchdog replayed is applied again by its own late webhook, once a newer fire of the routine has made the coordinator forget it (`outcome-dedupe.ts:32`) |
| `UnlabelledLate`, `MCCoordinator` | `ReturnPath` | the late webhook of a removal of `AUTO_REWORKING` ends the CI fix handed out after it (`webhook.ts:155`) |
| `StuckGate`, `MCCoordinator` | `StuckIsLeft` | `AUTO_MERGING` on a PR in `AI_STUCK` with red CI has no rule and leaves both labels (`webhook.ts:384`) |
| `OldRework`, `MCCoordinator` | `StuckStays` | a CI fix that ended without a push leaves `ciFix.pending`, and a later push clears another run's `AI_STUCK` (`webhook.ts:180`) |
| `CappedClaim`, `MCCoordinator` | `ExpiryClaimAlways` | a cap cut off between putting `AI_STUCK` on and ending the watch (`apply.ts:204`) leaves the older rework under watch, whose expiry then claims the cap's label (`watchdog.ts:182-188`) |
| `RefusedRetry`, `MCCoordinator` | `FailureLeavesRetry` | the refused retry clears the pending fire before the expiry is done (`watchdog.ts:139`) |
| `SweepAlongside`, `MCScheduler` | `NeverAlongside` | an item is asked with the `updated_at` of the sweep's list; a label taken off and put back since is not recent by it, and the sweep fires beside the label's webhook (`scheduler.ts:163`) |
| `MergedBeforeReport`, `MCStages` | `MergeCarried` | a PR merged before its build's report is handled hands its merge to an issue without a rule for it, and the report then moves the issue to `PR_OPEN` for good (`stages.ts:79`) |
| `RecordLost`, `MCStages` | `MergeRecorded` | `prMerged` fails between the label and the record; its redelivery finds no rule, and no release can close the issue (`stages.ts:80`) |
| `ClosedEarly`, `MCStages` | `AllMergesShipped` | an issue two PRs close keeps the first merge only, and a release cut between them closes it (`stages.ts:79`) |
| `ClaimLeft`, `MCStages` | `MergesHandedOn` | a restart between the claim and the end of the work leaves the claim, and the redelivery is a duplicate (`webhook.ts:46`) |
| `PublishedTwice`, `MCRelease` | `PublishOnce` | a comment or log that fails after release-publish was fired lets the claim go with nothing remembered, and the redelivery, or the approval's other carrier, fires it again (`release.ts:66`) |

Known behaviours without a configuration:

- A mergeable flag not computed yet hides CI that has already failed (`coordinate/webhook.ts:373`,
  `graph/github/merge-gate.ts:87`).
- A fire whose first answer was lost and whose second call is refused is disarmed with its session running
  (`coordinate/apply.ts:49`).
- A PR merged between a build's reading of it and the label's write is handed a review all the same
  (`coordinate/webhook.ts:252`), which is why `HandOffsDone` does not ask for it.
- The release's redelivery lists open issues afresh: one a person closed meanwhile is not handed the release.
- release-publish is also fired twice by a restart right after the fire, by a fire that was refused and then
  made by the sweep, and by a label's webhook delivered again; and a label's webhook delayed past the
  issue's close starts auto-release-loop again, as its payload says open (`coordinate/webhook.ts:105-108`).
- A restart between the merge and its record lets the sweep, or the label put back, start the before part on a
  merged version (`coordinate/release.ts:59-62`): `BeforeNotAgain` speaks of a merge on record.
- A merge whose answer is lost and whose second look fails is refused though made (`coordinate/release.ts:49-56`).
- A review's block reported after its watch expired takes `AI_STUCK` off a PR whose CI fix expired too and leaves
  `ciFix`; `AI_REVIEWING` put on from `AI_BLOCKED` resets it no more than from any state but `AI_STUCK`
  (`coordinate/webhook.ts:296`), so the next review's findings are handed out as if a CI fix were out.
- After a 202, GitHub is told of no failure (`worker/src/index.ts:95-103`): `LastWordRead` and `Acceptance`
  speak of a 200.

## 6. Theorems

Proved for all values of the constants: every set of faults and of environments, any caps, both switches.
Assumptions: caps are positive naturals, switches are Booleans, environments have their type; in `Stages`, that
issues, PRs and releases are different things.

- `OneRuleEach` (`GraphProofs`): no two rules share a state and an event, so "the first matching rule" is
  the only one, and the order of the table does not matter.
- `TypeCorrect` (`TypeProofs`): `Spec => []TypeOK`. `TypeOK` is not inductive: `ArmFire` numbers a session
  of the rule's routine, and a session must be of a routine, not of `NoRun`. `TypeInv` adds `SendsARun`,
  that a job at `send` carries a rule with a routine, which needs `OnlyArmFireSends`: nothing else leads there.
- `WatchIsKept`, `ArmedFirst` (`WatchProofs`): `WatchKept` and `ArmedBeforeFired` hold always. Neither is inductive. An alarm's
  handler finds the alarm already consumed; that a fire is still covered depends on what it did so far.
  `WatchInv` says so part by part: a set alarm is for a fire of a routine; a pending fire without an alarm is
  the one the ringing alarm is for (`DueIsRinging`); the alarm's requests run while it rings
  (`RingsForItsJob`); a replay whose rule has moved the watch on left it covered (`ReplayCovers`); the
  alarm's other requests are an expiry, which clears last, or a fire sent again, armed before it is sent
  (`AlarmPath`). One lemma per kind of step, then one theorem per property.
- `ReviewFiresOnce`, `RetriedOnce`, `MergeFiredOnce`, `ReworksCapped`, `ShadowLooksOnly` (`RequestProofs`):
  `ReviewOnce`, `RetryBudget`, `MergeRefiredOnce`, `ReworkBudget`, `ShadowOnlyLooks`. What a step may do was
  decided some steps earlier, by the request's first look; so all of them rest on what a request carries:
  `RequestInv` (its step against its continuation: whose it is, that a rule was applied before anything is
  sent) and `LooksFirst` (the switches were asked before the watchdog writes), over `TypeInv` and `WatchInv`. To these each adds
  a part of its own:
  - `ReviewAlone`: a request on its way to fire a review found none out, and the queue lets nobody else start one.
  - `RetryInv`: a pending fire that is not marked as a retry was not retried, nor was what an alarm read of it.
    Kept by the order in which `retryOnce`, a rate limit and the deferred fire carry the mark along.
  - `MergeInv`: `mergeFiredFor` bounds the commits merge-flow was re-fired for, but for one just sent and
    recorded next (`JustRefired`); a commit is at most the head, and the head only grows.
  - `BudgetInv`: what was handed out is at most what is counted, plus one while the request that hands it out
    has not counted it yet; that request found the count under its cap. It needs `HeardInv`: no webhook and no outcome
    comment carries an event only the gates decide on (`Decided`), so no rework passes by the cap.
- `NewestAppliedOnce` (`RequestProofs`): `NewestOutcomeOnce` in every environment, with any failures but a lost answer of
  the routines API (`"unheard" \notin Faults`). That hypothesis is needed: a fire whose answer is lost is sent again
  under its number, and its two sessions may each report. `OnceInv` has four parts. `CarrierInv`: a session is of
  one fire of its routine, a fire has one session, and what still carries an outcome (a webhook, a signal, a comment, the
  request's own report) is of a session that has gone and says what that session said. `SourceInv` and `FoundInv`: a
  request that applies a signal or a replayed comment took the pending fire to be of that routine. `AnsweredInv`, the point: once
  a routine's newest fire is answered it is no longer the pending one, which stops a signal and the watchdog, and its
  comment's webhook finds it remembered in `applied`.
- `ClaimIsTrue` (`RequestProofs`): `ExpiryClaim`, whatever is refused, unheard, put off, lost or rung for twice, in every
  environment. `StuckInv` says how `AI_STUCK` can be there: only with the mode enforced, never beside a watch but while the
  request that put it on has not ended that watch yet (`PutsOn`), and known to any other request at work (`KnowsStuck`), since only
  the object itself puts it on. So an expiry that finds it there has nothing to claim, a cap takes an older claim back
  before it is done, and a claim written ahead of its label is a rework's. That the rule a request applies is the one its
  labels chose (`Chosen`), and that a cap or an expiry is never heard from outside (`Derived`), is what it rests on.
- `FireWatchIsKept` (`RequestProofs`): `KeepsWatch` in every environment and through every failure. Most steps map by what
  `WatchInv` and `RequestInv` say. `AskAgain` needs more, as what an alarm found when it rang is acted on some calls
  later: `AgainInv` keeps what the alarm read (`job.old`) equal to the pending fire until something is asked for, so
  that only a silent fire that is no retry, or one that waited, is made again.
- `ReworkReturns` (`RequestProofs`): `ReturnPath` on a PR that is `Undisturbed`: the mode is enforced, nobody outside takes
  a label off, no call has failed. `PathHeard` says what such a PR never hears (an issue's events, a late removal of
  `AUTO_REWORKING`). `PathJob` and `PathSeen` say what a request carries: what it hands out is of its event, the label of a
  rework is its last call, and the labels it read stay on until it takes them off itself. `PathOpen`, the heart of it: a CI fix
  that is out keeps one of four labels on (`FixLabels`), until the request that ends it has its rule; no review's
  findings are handed out under one of those, so a fix left behind is not met by them. `PathKnown` is the property as it
  is between two calls: the pending rework is known, or the request at work is about to end its watch or to count it.
  One half, `FixReturns`, needs no more; the other, `FindingsReturn`, assumes that no review reports itself blocked
  (`NeverBlocked`): TLC finds it violated by a block reported late (section 5, last list).

- `SweepTypeCorrect`, `PaceIsKept`, `ChainIsKept` (`SchedulerProofs`): `TypeOK`, `EnsureKeepsPace` and
  `ChainKept` for any intervals with `SweepTime < Interval <= IdleInterval`, any items and failures. The
  inductive invariant `PaceInv` adds to the type that, after a webhook that no sweep has started since, the
  alarm's distance and the webhook's age sum to at most `Interval`, unless `alarm()` is owed already; that `alarm()` is not
  owed again while a sweep runs; and that a sweep a webhook came during knows so, which is what forbids it to slow the chain.
  `ChainIsKept` needs the second part: what keeps the chain through an eviction in
  mid-sweep is then the alarm set before the sweep began, and not the call owed.
- `AlongsideUnlisted` (`SchedulerProofs`): `AlongsideOnlyUnlisted`, step by step over the sweep's type
  invariant: an item that begins to be watched with its label's webhook still on its way was asked and fired again (no other
  step does that), and one is fired again only if its entry in the sweep's list was `Quiet` old.
- `LeftBehindIsFound` (`SchedulerProofs`): `FoundInTime` while no more items are candidates of a sweep than the cap on
  re-fires (`[]WithinCap`), for any intervals, items, failures and people. An inductive invariant for a bound on a
  sum of delays: `InTime` has an item wait at most `First`, the longer of `IdleInterval` and `Quiet + Interval`,
  from its wait's beginning to the next sweep. What waits has been still as long, so past `Quiet` no sweep takes it for
  recent; one that does keeps the pace and so brings the next within `First`; one that lists it as it is now fires it
  again, as each item still to ask has a re-fire left to it (`SweepCounts`). The hypothesis is needed: where the cap
  bites and `Quiet` is shorter than an interval, an item people bring back can get ahead of a waiting one in the queue
  again, and `FoundBound` fails.
- `StagesTypeCorrect`, `PromiseIsKept` (`StagesProofs`): `TypeOK` and `Stages => Shipping` for any items, any
  map of PRs to the issues they close, any failures. `HandOffInv` says where a request may come from (a
  delivery GitHub made, at the item it is about or at one it is handed on to) and that an issue is being
  closed only by a release that has its merge in it (`ClosesShipped`): the merge recorded for an issue
  cannot change once a release was checked against it, because the item's queue is at that request.
- `AnswersAreOnTheirWay`, `ReviewFiredOnce`, `MergesAreHandedOn` (`StagesProofs`): `WaitsForAnswer`, `ReviewOnce`,
  `MergesHandedOn`. `CallInv` relates the two ends of a call: who is at `wait` has made it, and it is
  queued or in progress at the item it names. `FiredInv` follows a PR's request
  from its first reading on: a review fired is a review pending, no rule of a PR's own events writes a label but
  `AI_REVIEWING`, and none comes to the clear while a review is out, since what found none out (`webhook.ts:295`) has the
  queue to itself until it has read the gate. `HandedInv` follows a
  merge: a claim is of a delivery in progress or done (`Claimed`), a merge's request has handed on to each issue
  its list no longer holds (`MergeSteps`), and ends well only with an empty one (`MergeEnds`).
  The last theorem assumes that no object is restarted in mid-request (`"evict" \notin Faults`): that is the
  case section 5 refutes it in (`ClaimLeft`), and every other failure is allowed.
- `HandOffsAreDone` (`StagesProofs`): `HandOffsDone`, where no object is restarted in mid-request and nobody edits an
  issue's labels (`"edit" \notin Acts`; the run has an edit). A hand-off is owed only as long as the issue's
  labels say so, so the proof needs what they can be: `Staged` says that an issue has at most one of the stages'
  labels, and between two of a rule's calls exactly those the calls left have to put right; a stage once left is
  never entered again (`StageKept`). Over that and `HandedInv`, `OwedInv` follows a claim to what it stands for: it is of
  a delivery handled, at work, or a second report of a remembered build (`ClaimsAt`), a remembered build had its
  review asked for (`KnownAt`), a request has handed on what its list no longer holds (`BuildStep`, `ReleaseStep`),
  and a delivery that is claimed and at work no more left nothing it owes undone (`SettledAt`).
- `ReleaseTypeCorrect`, `ReviewIsKept`, `BeforeNotRepeated`, `RefusalsAreTrue` (`ReleaseProofs`). `ReleaseInv`
  follows the approval. `Reported`: a trusted report, wherever it is kept, names a commit that was reviewed.
  `Sound`: where a request is says which event it handles; it merges only for a trusted approval, and its
  run is release-publish only if the merge is reviewed. `Stored`: so do the record and the pending fire.
  `Releasing` follows step by step, since GitHub merges only the head the request names.
- `DeliveryTypeCorrect`, `LastWordIsRead`, `AcceptanceIsKept` (`DeliveryProofs`) for any PRs, suites, failures
  and redeliveries. Neither property is inductive. `DeliveryInv` follows a delivery through its claim
  (`Claimed`: a claimed delivery is being worked on or was completed, so what an idle object dedupes was completed), and a request through its PRs (`Asked`: one that has
  heard no failure has each open PR still to ask, being asked, or done). The refinement maps a 200 to
  `Accept`, a completion to `Handle`, and all else to a stutter. That deduping waits for the queue is what it rests on.

Only model-checked:

- `NothingLeftBehind`, `StuckStays`, and `ReturnPath` beyond `ReworkReturns`: unlike the ones proved, these depend on what people do. They hold in the
  runs' environments and fail in richer ones, so no theorem over all environments can state them. A completion
  signal ends a watch and leaves the label, and `AUTO_MERGING` beside `AI_STUCK` has no rule (`NothingLeftBehind`);
  a late removal's webhook ends a rework handed out after it (`ReturnPath`, `UnlabelledLate`); a flag of an
  older rework outlives it (`StuckStays`, `OldRework`).
- `FoundInTime` where the cap on re-fires bites: the bound's term for the turns of the queue holds for the
  run's intervals and people, not for all.
- `HandOffsDone` under a person's edits: what is owed ends when a person takes a label off, and begins again when they put it back.
- `PublishOnce`: fails with other failures than the run's (`PublishedTwice`).
- Liveness (`WatchEnds`, `WorkEnds`, `RequestsEnd`, `MergedMovesOn`, `MergedEnds`), which the prover cannot do.

## 7. Not modelled, and the plan

Not modelled: GitHub clients (each call is a step of the module that makes it), dashboard (rendering of D1
rows), auth, the D1 tables (write-only for the coordinator, but for the sweep's read of the last activity),
work log, plugins' shell scripts, skills, deployment. Of the front door: signatures, the dashboard's rows,
`GET /transitions`, `POST /sweep`. Of the routines client: the dispatch's text.

Further work: **`Reconcile`**, `coordinateReconcile` inside `Coordinator`, whose label events, gates and pending fire it
shares: `ReturnedUnread`'s PR is found by it, and a re-fire beside a late webhook is watched once.
