------------------------------- MODULE Webhook -------------------------------
(***************************************************************************)
(* The webhook path of one item (coordinate/webhook.ts, review-gate.ts,    *)
(* merge-gate.ts, outcome-dedupe.ts): from a delivery to the rule it       *)
(* applies, and what each handler does after the rule.                     *)
(*                                                                         *)
(* HandleEvent(j) is the handler, up to its first outside call after the   *)
(* labels were read.  It is used for a webhook and for an outcome comment  *)
(* the watchdog replays, so it says nothing of where j came from.          *)
(***************************************************************************)
EXTENDS Item

Begin(h, src) ==
  [NoJob EXCEPT !.pc = "begin", !.src = src, !.hook = h, !.event = h.event, !.seen = labels,
                !.old = IF h.run # NoRun THEN pending ELSE NoFire]

----------------------------------------------------------------------------
NeverApplied(h) == FALSE

(* One outcome, two carriers: the second finds it applied for its fire.    *)
AlreadyApplied(h) ==
  /\ h.run # NoRun
  /\ applied[h.run].event = h.event
  /\ ~(pending.run = h.run /\ pending.gen # applied[h.run].gen)

(* An applied outcome is remembered against the fire it ended, unless      *)
(* applying it started a newer fire of the same routine.                   *)
RememberApplied(j) ==
  applied' =
    IF /\ j.applied
       /\ j.hook.run # NoRun
       /\ j.old.run = j.hook.run
       /\ ~j.old.deferred
       /\ ~(pending.run = j.hook.run /\ pending.gen # j.old.gen)
    THEN [applied EXCEPT ![j.hook.run] = [event |-> j.hook.event, gen |-> j.old.gen]]
    ELSE applied

----------------------------------------------------------------------------
(* A push, AUTO_REWORKING taken off, or a rework with nothing to push: the *)
(* rework the Worker handed out has ended, and its push goes back to where *)
(* it came from.  From AI_STUCK the pending flag is only cleared once the  *)
(* label is off, and a push nothing was waiting for leaves the PR stuck.   *)
HandleReworkEnd(j) ==
  LET state   == DeriveState(j.seen)
      ended   == j.event = "REWORK_NO_CHANGE" => state \in {"AUTO_REWORKING", "AI_STUCK"}
      late    == j.event = "REWORK_PUSHED" /\ state = "AI_STUCK"
      fix     == ended /\ ciFix.pending
      review  == ended /\ ~ciFix.pending /\ reviewLoop.fixPending
      expired == late /\ reworkExpired
      event   == IF ~(j.event = "REWORK_PUSHED" /\ state = "AUTO_REWORKING") THEN j.event
                 ELSE IF fix /\ ciFix.returnTo = "AUTO_MERGING" THEN "CI_FIX_PUSHED"
                 ELSE IF fix \/ review THEN "REVIEW_FIX_PUSHED"
                 ELSE j.event
      flags   == {f \in {"ciFix", "reviewLoop", "reworkExpired"} :
                    \/ f = "ciFix" /\ fix
                    \/ f = "reviewLoop" /\ review
                    \/ f = "reworkExpired" /\ expired}
  IN  /\ j.event \in {"REWORK_PUSHED", "UNLABELLED_AUTO_REWORKING", "REWORK_NO_CHANGE"}
      /\ ciFix' = IF fix /\ ~late THEN [ciFix EXCEPT !.pending = FALSE] ELSE ciFix
      /\ reviewLoop' = IF review /\ ~late THEN [reviewLoop EXCEPT !.fixPending = FALSE]
                                          ELSE reviewLoop
      /\ UNCHANGED <<reviewReworks, reworkExpired, mergeFiredFor>>
      /\ job' = IF late /\ flags = {}
                THEN Returns(j, FALSE)
                ELSE ApplyEvent([j EXCEPT !.late = IF late THEN flags ELSE {}], event, "tail")

(* AUTO_REWORKING added by a reviewer: a round, counted, past the cap to a *)
(* person.  On a PR from the review flow its push goes back to review.     *)
HandleReworkLabel(j) ==
  LET before  == DeriveState(j.seen \ {"AUTO_REWORKING"})
      counted == before \in {"none", "AI_STUCK"}
      rounds  == IF before = "AI_STUCK" THEN 1 ELSE reviewReworks + 1
      over    == counted /\ rounds > ReviewReworks
      fresh   == before = "AI_STUCK" /\ ~over
      restart == /\ ~over
                 /\ ~ciFix.pending
                 /\ \/ before = "READY_FOR_REVIEW"
                    \/ before = "AI_STUCK" /\ (reviewLoop.on \/ ciFix.returnTo = "AI_REVIEWING")
  IN  /\ j.event = "LABELLED_AUTO_REWORKING"
      /\ reviewReworks' = IF counted /\ ~over THEN rounds ELSE reviewReworks
      /\ reviewLoop' = IF restart THEN [on |-> TRUE, rounds |-> 0, fixPending |-> TRUE]
                       ELSE IF fresh THEN NoReview ELSE reviewLoop
      /\ ciFix' = IF restart THEN NoCiFix ELSE ciFix
      /\ reworkExpired' = IF fresh THEN FALSE ELSE reworkExpired
      /\ UNCHANGED mergeFiredFor
      /\ job' = IF over THEN ApplyEvent(j, "REWORK_CAP_REACHED", "capped")
                        ELSE ApplyEvent(j, j.event, "tail")

(* A review already out leaves CI alone: its verdict decides what's next.  *)
ReviewOutUnchecked == FALSE

ReviewOut == pending.run = "review-loop"

(* AI_REVIEWING added: the label's rule, then the CI gate.  From AI_STUCK  *)
(* both counts start fresh.  A label already gone, or whose CI gate        *)
(* already fired the review, is stale.                                     *)
HandleReviewLabel(j) ==
  LET stale == "AI_REVIEWING" \notin j.seen \/ ReviewOut
      fresh == ~stale /\ StateBefore(j.seen, j.event) = "AI_STUCK"
  IN  /\ j.event = "LABELLED_AI_REVIEWING"
      /\ reviewLoop' = IF fresh THEN NoReview ELSE reviewLoop
      /\ ciFix' = IF fresh THEN NoCiFix ELSE ciFix
      /\ reworkExpired' = IF fresh THEN FALSE ELSE reworkExpired
      /\ UNCHANGED <<reviewReworks, mergeFiredFor>>
      /\ job' = IF stale THEN Returns(j, FALSE) ELSE ApplyEvent(j, j.event, "review")

HandleFindingsUncapped(j) ==
  /\ j.event = "REVIEW_FINDINGS"
  /\ DeriveState(j.seen) = "AI_REVIEWING"
  /\ job' = ApplyEvent(j, "REVIEW_FINDINGS", "findings")
  /\ UNCHANGED counts

(* review-loop's findings: a counted round for rework-loop, up to the cap. *)
HandleFindings(j) ==
  /\ j.event = "REVIEW_FINDINGS"
  /\ DeriveState(j.seen) = "AI_REVIEWING"
  /\ job' = IF reviewLoop.rounds + 1 > BotReviewReworks
            THEN ApplyEvent(j, "REWORK_CAP_REACHED", "capped")
            ELSE ApplyEvent(j, "REVIEW_FINDINGS", "findings")
  /\ UNCHANGED counts

(* AUTO_MERGING added: the PR is checked before merge-flow is fired.       *)
(* Re-added to a MERGE_BLOCKED PR, it starts a fresh count.                *)
HandleMergeLabel(j) ==
  LET stale == "AUTO_MERGING" \notin j.seen
  IN  /\ j.event = "LABELLED_AUTO_MERGING"
      /\ ciFix' = IF ~stale /\ "MERGE_BLOCKED" \in j.seen THEN NoCiFix ELSE ciFix
      /\ UNCHANGED <<reviewLoop, reviewReworks, reworkExpired, mergeFiredFor>>
      /\ job' = IF stale THEN Returns(j, FALSE)
                         ELSE [j EXCEPT !.pc = "facts", !.then = "mergeLabel"]

(* A check suite finished: the review's gate or the merge gate, by the     *)
(* label that is on.                                                       *)
HandleChecks(j) ==
  LET reviewing == DeriveState(j.seen) = "AI_REVIEWING"
  IN  /\ j.event = "CHECKS"
      /\ job' = CASE reviewing /\ ~ReviewOut ->
                       [j EXCEPT !.pc = "facts", !.then = "review"]
                  [] ~reviewing /\ "AUTO_MERGING" \in j.seen ->
                       [j EXCEPT !.pc = "facts", !.then = "checks"]
                  [] OTHER -> Returns(j, FALSE)
      /\ UNCHANGED counts

(* Every other event goes straight to its rule.  What a handler does after *)
(* it: a block says why, a pass starts the next stage with fresh counts.   *)
HandleOther(j) ==
  /\ j.event \notin {"REWORK_PUSHED", "UNLABELLED_AUTO_REWORKING", "REWORK_NO_CHANGE",
                     "LABELLED_AUTO_REWORKING", "LABELLED_AI_REVIEWING",
                     "LABELLED_AUTO_MERGING", "CHECKS", "CLOSED"}
  /\ ~(j.event = "REVIEW_FINDINGS" /\ DeriveState(j.seen) = "AI_REVIEWING")
  /\ job' = ApplyEvent(j, j.event, CASE j.event = "MERGE_BLOCKED" -> "block"
                                     [] j.event = "REVIEW_PASSED" -> "passed"
                                     [] OTHER -> "tail")
  /\ UNCHANGED counts

(* No event for the table (a PR closed unmerged), or the second carrier of *)
(* an outcome.                                                             *)
HandleNothing(j) ==
  /\ job' = Returns(j, FALSE)
  /\ UNCHANGED counts

HandleEvent(j) ==
  IF AlreadyApplied(j.hook) \/ j.event = "CLOSED"
  THEN HandleNothing(j)
  ELSE \/ HandleReworkEnd(j)
       \/ HandleReworkLabel(j)
       \/ HandleReviewLabel(j)
       \/ HandleFindings(j)
       \/ HandleMergeLabel(j)
       \/ HandleChecks(j)
       \/ HandleOther(j)

(* A delivery reaches the item, and the labels are read.                   *)
TakeHook(h) ==
  /\ Idle
  /\ h \in hooks
  /\ h.by = "github"
  /\ HandleEvent(Begin(h, "webhook"))
  /\ UNCHANGED <<github, hooks, posted, runs, fires, watch, applied>>

----------------------------------------------------------------------------
(* The gates' facts are read, and decide the event.                        *)

(* CI red: rework-loop, up to the cap.                                     *)
HandReviewToRework(j) ==
  IF ciFix.attempts >= CiFixAttempts
  THEN ApplyEvent(j, "REWORK_CAP_REACHED", "capped")
  ELSE ApplyEvent(j, "REVIEW_CI_FAILED", "reviewFix")

HandToRework(j) ==
  IF ciFix.attempts >= CiFixAttempts
  THEN ApplyEvent(j, "MERGE_GATE_FAILED_HARD", "block")
  ELSE ApplyEvent(j, "MERGE_GATE_FAILED_SOFT", "mergeFix")

ReviewGate(j, facts) ==
  CASE NothingReported(facts) \/ StillRunning(facts) -> Returns(j, j.applied)
    [] FailedChecks(facts) -> HandReviewToRework(j)
    [] OTHER               -> ApplyEvent(j, "REVIEW_CI_PASSED", "done")

GateMergeLabel(j, facts) ==
  CASE HardBlockReason(facts) -> ApplyEvent(j, "MERGE_GATE_FAILED_HARD", "block")
    [] DeriveMergeGateOutcome(facts) = "soft" -> HandToRework(j)
    [] OTHER -> ApplyEvent(j, "LABELLED_AUTO_MERGING", "tail")

(* A suite finished under AUTO_MERGING: green fires merge-flow again, once *)
(* per head commit.  The head may be newer than the suite's, with nothing  *)
(* reported yet: that alone holds no block back.                           *)
GateChecks(j, facts) ==
  IF StillRunning(facts) THEN Returns(j, FALSE)
  ELSE IF HardBlockReason(facts) THEN ApplyEvent(j, "MERGE_GATE_FAILED_HARD", "block")
  ELSE IF FailedChecks(facts) THEN HandToRework(j)
  ELSE IF ~NothingReported(facts) /\ mergeFiredFor # facts.head
  THEN ApplyEvent([j EXCEPT !.head = facts.head], "MERGE_GATE_PASSED", "mergeFired")
  ELSE Returns(j, FALSE)

ReadFacts ==
  /\ job.pc = "facts"
  /\ \E checks \in CheckRuns(ci) :
       LET facts == Facts(head, checks, mergeable)
       IN  job' = CASE job.then = "review"     -> ReviewGate(job, facts)
                    [] job.then = "mergeLabel" -> GateMergeLabel(job, facts)
                    [] OTHER                   -> GateChecks(job, facts)
  /\ UNCHANGED <<github, hooks, posted, runs, fires, watch, counts, applied>>

----------------------------------------------------------------------------
(* After the rule, the log row written: what the handler still records.    *)
(* None of it happens if the log write (or the fire) threw.                *)

After(then) == job.pc = "after" /\ job.then = then /\ job.applied

Goes(pc) == job' = [job EXCEPT !.pc = pc]

AfterNothingApplied ==
  /\ job.pc = "after"
  /\ ~job.applied
  /\ job.then # "expiry"
  /\ Goes("return")
  /\ UNCHANGED counts

(* A late push ends what was waiting for it, and any way out of AI_STUCK   *)
(* ends the expiry's claim on the next push.                               *)
AfterTail ==
  /\ After("tail")
  /\ ciFix' = IF "ciFix" \in job.late THEN [ciFix EXCEPT !.pending = FALSE] ELSE ciFix
  /\ reviewLoop' = IF "reviewLoop" \in job.late THEN [reviewLoop EXCEPT !.fixPending = FALSE]
                                                ELSE reviewLoop
  /\ reworkExpired' = IF "reworkExpired" \in job.late \/ (DeriveState(job.seen) = "AI_STUCK" /\ job.rule.to # "noop")
                      THEN FALSE ELSE reworkExpired
  /\ UNCHANGED <<reviewReworks, mergeFiredFor>>
  /\ Goes("return")

(* AI_REVIEWING's own rule applied: on to the CI gate, on the labels that  *)
(* rule left.                                                              *)
AfterReviewLabel ==
  /\ After("review")
  /\ job' = [job EXCEPT !.pc = "facts",
                        !.seen = @ \ {"AI_STUCK", "AI_BLOCKED", "READY_FOR_REVIEW"}]
  /\ UNCHANGED counts

AfterReviewFixToRework ==
  /\ After("reviewFix")
  /\ ciFix' = [attempts |-> ciFix.attempts + 1, pending |-> TRUE, returnTo |-> "AUTO_REWORKING"]
  /\ UNCHANGED <<reviewLoop, reviewReworks, reworkExpired, mergeFiredFor>>
  /\ Goes("comment")

AfterReviewFix ==
  /\ After("reviewFix")
  /\ ciFix' = [attempts |-> ciFix.attempts + 1, pending |-> TRUE, returnTo |-> "AI_REVIEWING"]
  /\ UNCHANGED <<reviewLoop, reviewReworks, reworkExpired, mergeFiredFor>>
  /\ Goes("comment")

AfterFindingsNotAwaited ==
  /\ After("findings")
  /\ reviewLoop' = [reviewLoop EXCEPT !.on = TRUE, !.rounds = @ + 1]
  /\ UNCHANGED <<ciFix, reviewReworks, reworkExpired, mergeFiredFor>>
  /\ Goes("comment")

AfterFindings ==
  /\ After("findings")
  /\ reviewLoop' = [on |-> TRUE, rounds |-> reviewLoop.rounds + 1, fixPending |-> TRUE]
  /\ UNCHANGED <<ciFix, reviewReworks, reworkExpired, mergeFiredFor>>
  /\ Goes("comment")

AfterCappedKeepsClaim ==
  /\ After("capped")
  /\ Goes("comment")
  /\ UNCHANGED counts

AfterCapped ==
  /\ After("capped")
  /\ reworkExpired' = FALSE
  /\ UNCHANGED <<ciFix, reviewLoop, reviewReworks, mergeFiredFor>>
  /\ Goes("comment")

AfterPassed ==
  /\ After("passed")
  /\ reviewLoop' = NoReview
  /\ ciFix' = NoCiFix
  /\ reworkExpired' = FALSE
  /\ UNCHANGED <<reviewReworks, mergeFiredFor>>
  /\ Goes("return")

AfterBlock ==
  /\ After("block")
  /\ Goes("comment")
  /\ UNCHANGED counts

AfterMergeFiredForgotten ==
  /\ After("mergeFired")
  /\ Goes("return")
  /\ UNCHANGED counts

AfterMergeFired ==
  /\ After("mergeFired")
  /\ mergeFiredFor' = job.head
  /\ UNCHANGED <<ciFix, reviewLoop, reviewReworks, reworkExpired>>
  /\ Goes("return")

AfterDone ==
  /\ After("done")
  /\ Goes("return")
  /\ UNCHANGED counts

AfterEvent ==
  /\ \/ AfterNothingApplied
     \/ AfterTail
     \/ AfterReviewLabel
     \/ AfterReviewFix
     \/ AfterFindings
     \/ AfterCapped
     \/ AfterPassed
     \/ AfterBlock
     \/ AfterMergeFired
     \/ AfterDone
  /\ UNCHANGED <<github, hooks, posted, runs, fires, watch, applied>>

(* The merge gate's rework of a MERGE_BLOCKED PR: that label comes off     *)
(* first (a call of its own), then the rework is counted.                  *)
AfterMergeFix ==
  /\ After("mergeFix")
  /\ labels' = IF "MERGE_BLOCKED" \in job.seen /\ Enforced(job.event)
               THEN labels \ {"MERGE_BLOCKED"} ELSE labels
  /\ job' = [job EXCEPT !.pc = "count"]
  /\ UNCHANGED <<closed, head, ci, mergeable, hooks, posted, runs, fires, watch, counts, applied>>

CountMergeFix ==
  /\ job.pc = "count"
  /\ ciFix' = [attempts |-> ciFix.attempts + 1, pending |-> TRUE, returnTo |-> "AUTO_MERGING"]
  /\ Goes("comment")
  /\ UNCHANGED <<github, hooks, posted, runs, fires, watch,
                 reviewLoop, reviewReworks, reworkExpired, mergeFiredFor, applied>>

(* The comment that says what happened; if it throws, the delivery fails.  *)
Comment ==
  /\ job.pc = "comment"
  /\ Goes("return")
  /\ UNCHANGED <<github, hooks, posted, runs, fires, watch, counts, applied>>

----------------------------------------------------------------------------
(* The webhook's handler returns: its claim stays, so it is never handled  *)
(* again.  A close also drops a fire still waiting out a rate limit.       *)
ReturnHook ==
  /\ job.pc = "return"
  /\ job.src = "webhook"
  /\ RememberApplied(job)
  /\ hooks' = hooks \ {job.hook}
  /\ IF job.hook.event \in {"MERGED", "CLOSED", "ISSUE_CLOSED"} /\ pending.deferred
     THEN ClearPendingFire ELSE KeepPendingFire
  /\ job' = NoJob
  /\ UNCHANGED <<github, posted, runs, fires, ringing, counts>>

(* The handler throws: the claim is released, and the webhook can be       *)
(* redelivered, the signal sent again.  A fire the routines API refused is *)
(* disarmed first.                                                         *)
OutsideCall == {"facts", "write", "after", "comment"}

ThrowHook ==
  /\ job.src \in {"webhook", "signal"}
  /\ job.pc \in OutsideCall
  /\ job' = NoJob
  /\ UNCHANGED <<github, hooks, posted, runs, fires, watch, counts, applied>>

RefuseHook ==
  /\ job.src \in {"webhook", "signal"}
  /\ job.pc = "send"
  /\ Enforced(job.event)
  /\ ClearPendingFire
  /\ job' = NoJob
  /\ UNCHANGED <<github, hooks, posted, runs, fires, ringing, counts, applied>>

(* The object is evicted or crashes mid-request: the claim stays behind,   *)
(* so a redelivery is deduped and the rest of the handler never runs.      *)
CrashHook ==
  /\ job.src \in {"webhook", "signal"}
  /\ hooks' = hooks \ {job.hook}
  /\ job' = NoJob
  /\ UNCHANGED <<github, posted, runs, fires, watch, counts, applied>>

WebhookStep ==
  \/ \E h \in hooks : TakeHook(h)
  \/ ReadFacts
  \/ WriteLabel
  \/ EndWatch
  \/ ArmFire
  \/ FireSent
  \/ AfterEvent
  \/ AfterMergeFix
  \/ CountMergeFix
  \/ Comment
  \/ ReturnHook
=============================================================================
