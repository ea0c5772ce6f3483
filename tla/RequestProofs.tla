---------------------------- MODULE RequestProofs ----------------------------
(***************************************************************************)
(* What the coordinator's requests do to each other, for any bounds: no    *)
(* review is fired while one is out (ReviewOnce), a watchdog in shadow     *)
(* only looks (ShadowOnlyLooks), a silent run is fired again once          *)
(* (RetryBudget), a green commit re-fires merge-flow once                  *)
(* (MergeRefiredOnce), the caps on reworks hold (ReworkBudget), a fire's   *)
(* outcome is applied once (NewestOutcomeOnce), reworkExpired claims no    *)
(* AI_STUCK but a rework's (ExpiryClaim), what the requests do to a fire's *)
(* watch keeps the promise of FireWatch (KeepsWatch), and where no label   *)
(* is taken off from outside, a rework knows where its push goes back to   *)
(* (ReturnPath).                                                           *)
(*                                                                         *)
(* None of them is inductive.  Each is about what one step does, and what  *)
(* that step may do was decided by an earlier step of the same request (a  *)
(* guard read, a count looked at, a fire taken as the pending one).  The   *)
(* invariants below carry the decision along the request: what is true of  *)
(* a request by the step it is at (pc) and what it does next (then).       *)
(***************************************************************************)
EXTENDS WatchProofs, FiniteSetTheorems

(* The continuations of the watchdog's own requests.                       *)
OfWatchdog == {"deferred", "retry", "expiry"}

(* Between the rule chosen and its fire sent.                              *)
Applies(j) == j.pc \in {"write", "send"}

(* A request is the watchdog's by its continuation too; it applies a rule  *)
(* it found; only a fire sent again is a retry.                            *)
RequestInv ==
  /\ job.then \in OfWatchdog => OfExpiry
  /\ OfExpiry /\ job.pc \notin {"recover", "expire"} => job.then \in OfWatchdog
  /\ job.pc \in {"recover", "expire"} => job.then = "none" /\ OfExpiry
  /\ job.then = "expiry" /\ (Applies(job) \/ job.pc = "after") => job.event = "WATCHDOG_EXPIRED"
  /\ job.replays => job.src \in {"alarm", "ended"}
  /\ job.retried => job.then \in {"deferred", "retry"}
  /\ job.then = "retry" => job.retried
  /\ Applies(job) => job.applied
  /\ job.pc = "facts" => job.then \in {"review", "mergeLabel", "checks"}
  /\ job.pc = "count" => job.then = "mergeFix" /\ job.applied

(* A request on its way to fire a review knows of none out: its label's,   *)
(* until the CI gate is read, and the gate's own.                          *)
ReviewAlone ==
  /\ job.then = "review" => ~ReviewOut
  /\ job.then = "review" /\ Applies(job) => job.rule.run = NoRun
  /\ job.then = "done" /\ job.pc = "write" => ~ReviewOut

(* The watchdog looks for outcomes, replays one or fires again only where  *)
(* it is enforced.                                                         *)
LooksFirst ==
  job.src \in {"alarm", "ended"} =>
    (job.pc = "recover" \/ job.replays \/ job.then = "retry" => Enforced("WATCHDOG_EXPIRED"))

(* A pending fire that is no retry has not been retried, and neither has   *)
(* what the watchdog is about to make of it.                               *)
Untried == retries = 0

RetryInv ==
  /\ RetryBudget
  /\ pending.run # NoRun /\ ~pending.retried => Untried
  /\ pending.due => pending.run # NoRun
  /\ job.then = "retry" /\ job.pc = "write" => Untried \/ job.rule.run = NoRun
  /\ job.then = "deferred" /\ job.pc = "write" /\ ~job.retried => Untried
  /\ job.pc = "send" /\ ~job.retried => Untried
  /\ job.pc = "recover" \/ job.replays =>
       (pending.run # NoRun /\ ~job.old.retried => Untried)

(* Merge-flow was re-fired for no commit after the one it is recorded for; *)
(* a fire just sent is recorded next.                                      *)
Refired(r) == r.cause = "MERGE_GATE_PASSED" /\ r.head # 0

JustRefired(r) ==
  job.then = "mergeFired" /\ job.pc = "after" /\ job.applied /\ r.head = job.head

MergeInv ==
  /\ job.head # 0 => job.then = "mergeFired"
  /\ faults = 0 =>
       /\ mergeFiredFor <= head
       /\ job.then = "mergeFired" => job.head <= head
       /\ job.then = "mergeFired" /\ (Applies(job) \/ job.pc = "after") => mergeFiredFor < job.head
       /\ \A r \in runs : Refired(r) => r.head <= mergeFiredFor \/ JustRefired(r)
       /\ MergeRefiredOnce

(* The events only the Worker itself derives (the gates' reworks, a cap,   *)
(* an expiry), and the ones only a person's label is: no delivery is the   *)
(* first, no outcome comment either.                                       *)
Decided == {"MERGE_GATE_FAILED_SOFT", "REVIEW_CI_FAILED"}
Derived == Decided \cup {"REWORK_CAP_REACHED", "WATCHDOG_EXPIRED"}
ByLabel == {"LABELLED_AUTO_REWORKING", "LABELLED_AUTO_MERGING", "LABELLED_AI_REVIEWING"}

OutcomeReports == {r \in ReportType : r.event \notin Derived \cup ByLabel}

Reported(s) == s \in Seq(OutcomeReports)

HeardInv ==
  /\ \A h \in hooks : h.event \notin Derived
  /\ Reported(posted)
  /\ Reported(job.left)

(* A rework handed out is counted before its request ends, and was within  *)
(* its cap when the request chose it.                                      *)
HandsOutCi == job.then \in {"mergeFix", "reviewFix"}

Uncounted(then) == job.then \in then /\ job.pc \in {"send", "after", "count"} /\ job.applied

BudgetInv ==
  /\ job.event \in Decided /\ job.pc = "write" => HandsOutCi \/ OfExpiry
  /\ job.event = "REVIEW_FINDINGS" /\ job.pc = "write" => job.then = "findings" \/ OfExpiry
  /\ HandsOutCi /\ job.pc \in {"write", "send", "after", "count"} => ciFix.attempts < CiFixAttempts
  /\ job.then = "findings" /\ job.pc \in {"write", "send", "after"} => reviewLoop.rounds < BotReviewReworks
  /\ ciFix.attempts <= CiFixAttempts
  /\ reviewLoop.rounds <= BotReviewReworks
  /\ faults = 0 =>
       /\ ciRounds <= ciFix.attempts + (IF Uncounted({"mergeFix", "reviewFix"}) THEN 1 ELSE 0)
       /\ reviewRounds <= reviewLoop.rounds + (IF Uncounted({"findings"}) THEN 1 ELSE 0)

----------------------------------------------------------------------------
(* How a request goes on.                                                  *)

(* All of it but its program counter, and what is left of its rule.        *)
Carries ==
  /\ job'.src = job.src /\ job'.replays = job.replays /\ job'.hook = job.hook
  /\ job'.old = job.old /\ job'.left = job.left
  /\ job'.retried = job.retried /\ job'.head = job.head
  /\ job'.event = job.event /\ job'.then = job.then
  /\ job'.applied = job.applied /\ job'.rule = job.rule

GoesTo(p, q) == job.pc = p /\ job'.pc = q /\ Carries

LEMMA PcCarries ==
  ASSUME job \in JobType, NEW pc, job' = [job EXCEPT !.pc = pc]
  PROVE  job'.pc = pc /\ Carries
BY DEF JobType, Carries

(* The steps of a rule, and what follows it.                               *)
LEMMA RuleMoves ==
  ASSUME job \in JobType
  PROVE  /\ WriteLabel => GoesTo("write", "write")
         /\ EndWatch => GoesTo("write", "after")
         /\ ArmFire => GoesTo("write", "send")
         /\ FireSent \/ FireLimited => GoesTo("send", "after")
         /\ AfterMergeFix => GoesTo("after", "count") /\ job.then = "mergeFix" /\ job.applied
         /\ CountMergeFix => GoesTo("count", "comment")
         /\ Comment => GoesTo("comment", "return")
         /\ AfterFiredAgain => \/ GoesTo("after", "comment")
                               \/ GoesTo("after", "return")
<1>1. WriteLabel => GoesTo("write", "write")
  BY DEF WriteLabel, GoesTo, Carries, JobType
<1> QED
  BY <1>1, PcCarries
  DEF EndWatch, ArmFire, FireSent, FireLimited, AfterMergeFix, After, CountMergeFix, Comment, Goes,
      AfterFiredAgain, GoesTo

LEMMA AfterMoves ==
  ASSUME job \in JobType, AfterEvent
  PROVE  /\ \/ GoesTo("after", "comment")
            \/ GoesTo("after", "return")
            \/ GoesTo("after", "facts") /\ job.then = "review"
         /\ job.then \notin OfWatchdog \/ ~job.applied
         /\ job.then # "expiry"
<1>1. ASSUME AfterReviewLabel
      PROVE  GoesTo("after", "facts") /\ job.then = "review"
  BY <1>1 DEF AfterReviewLabel, After, GoesTo, Carries, JobType
<1>2. ASSUME AfterEvent, ~AfterReviewLabel
      PROVE  job.pc = "after" /\ (Goes("comment") \/ Goes("return"))
  BY <1>2
  DEF AfterEvent, AfterNothingApplied, AfterTail, AfterReviewFix, AfterFindings, AfterCapped,
      AfterPassed, AfterBlock, AfterMergeFired, AfterDone, After
<1>3. /\ job.then \notin OfWatchdog \/ ~job.applied
      /\ job.then # "expiry"
  BY DEF AfterEvent, AfterNothingApplied, AfterTail, AfterReviewLabel, AfterReviewFix, AfterFindings,
         AfterCapped, AfterPassed, AfterBlock, AfterMergeFired, AfterDone, After, OfWatchdog
<1> QED BY <1>1, <1>2, <1>3, PcCarries DEF Goes, GoesTo

(* applyEvent: the rule for the event, or none.                            *)
LEMMA ApplyEventMoves ==
  ASSUME NEW j \in JobType, NEW event, NEW then, NEW k, k = ApplyEvent(j, event, then)
  PROVE  /\ k.event = event /\ k.then = then
         /\ k.src = j.src /\ k.replays = j.replays /\ k.hook = j.hook /\ k.old = j.old /\ k.left = j.left
         /\ k.retried = j.retried /\ k.head = j.head
         /\ \/ k.pc = "after" /\ ~k.applied
            \/ /\ k.pc = "write" /\ k.applied
               /\ k.rule \in Rules /\ k.rule.on = event /\ k.rule.from = StateBefore(j.seen, event)
<1> DEFINE state == StateBefore(j.seen, event)
           known == state # "ambiguous" /\ HasRule(state, event)
           base  == [j EXCEPT !.event = event, !.then = then, !.applied = known]
<1>1. /\ k = IF known
             THEN [base EXCEPT !.pc = "write", !.rule = Reduce(state, event),
                               !.ops = LabelOps(j.seen, Reduce(state, event))]
             ELSE [base EXCEPT !.pc = "after", !.rule = NoRule, !.ops = <<>>]
  BY DEF ApplyEvent
<1>2. known \in BOOLEAN
  BY DEF HasRule
<1>3. known => Reduce(state, event) \in Rules /\ Reduce(state, event).from = state
               /\ Reduce(state, event).on = event
  BY ReduceAnswers
<1> HIDE DEF state, known
<1>4. /\ k.event = event /\ k.then = then
      /\ k.src = j.src /\ k.replays = j.replays /\ k.hook = j.hook /\ k.old = j.old /\ k.left = j.left
      /\ k.retried = j.retried /\ k.head = j.head
      /\ k.applied = known
      /\ IF known THEN k.pc = "write" /\ k.rule = Reduce(state, event) ELSE k.pc = "after"
  BY <1>1 DEF JobType
<1> QED BY <1>2, <1>3, <1>4 DEF state

(* What a request that has just looked at the item makes of it: a rule for *)
(* what it saw, or none.                                                   *)
Chosen(seen, k) ==
  /\ k.seen = seen
  /\ \/ ~k.applied /\ k.pc \in {"after", "return", "facts"}
     \/ /\ k.applied /\ k.pc = "write"
        /\ k.rule \in Rules /\ k.rule.on = k.event /\ k.rule.from = StateBefore(seen, k.event)
        /\ k.ops = LabelOps(seen, k.rule)
        /\ k.then = "review" => k.event = "LABELLED_AI_REVIEWING"
        /\ k.event = "REWORK_CAP_REACHED" => k.then = "capped"
        /\ k.event = "WATCHDOG_EXPIRED" => k.then = "expiry"

LEMMA ApplyEventChooses ==
  ASSUME NEW j \in JobType, NEW event, NEW then,
         then = "review" => event = "LABELLED_AI_REVIEWING",
         event = "REWORK_CAP_REACHED" => then = "capped",
         event = "WATCHDOG_EXPIRED" => then = "expiry"
  PROVE  Chosen(j.seen, ApplyEvent(j, event, then))
<1> DEFINE state == StateBefore(j.seen, event)
           known == state # "ambiguous" /\ HasRule(state, event)
           base  == [j EXCEPT !.event = event, !.then = then, !.applied = known]
<1>1. PICK k : k = ApplyEvent(j, event, then)
  OBVIOUS
<1>2. k = IF known
          THEN [base EXCEPT !.pc = "write", !.rule = Reduce(state, event),
                            !.ops = LabelOps(j.seen, Reduce(state, event))]
          ELSE [base EXCEPT !.pc = "after", !.rule = NoRule, !.ops = <<>>]
  BY <1>1 DEF ApplyEvent
<1>3. known => Reduce(state, event) \in Rules /\ Reduce(state, event).from = state
               /\ Reduce(state, event).on = event
  BY ReduceAnswers
<1> HIDE DEF state, known
<1>4. /\ k.event = event /\ k.then = then /\ k.seen = j.seen /\ k.applied = known
      /\ IF known
         THEN k.pc = "write" /\ k.rule = Reduce(state, event) /\ k.ops = LabelOps(j.seen, Reduce(state, event))
         ELSE k.pc = "after"
  BY <1>2 DEF JobType
<1>5. Chosen(j.seen, k)
  BY <1>3, <1>4 DEF Chosen, state
<1> QED BY <1>1, <1>5

(* The label of the review fires nothing, and findings are only of a PR    *)
(* under review (graph.ts).                                                *)
LEMMA ReviewRulesSay ==
  ASSUME NEW r \in Rules
  PROVE  /\ r.on = "LABELLED_AI_REVIEWING" => r.run = NoRun
         /\ r.on = "REVIEW_FINDINGS" => r.from = "AI_REVIEWING"
BY DEF Rules, IssueRules, ReleaseRules, MergeRules, ReviewRules, OutcomeRules, StageRules,
     UnlabelRules, WatchdogRules, StuckRules, Labels, NoRun, Rule, Fires, Moves, TakesOff, Closes, Stays

----------------------------------------------------------------------------
(* How a request begins.                                                   *)

HookThens == {"tail", "capped", "review", "findings", "block", "passed"}

(* What a handler makes of a request j that has just begun.                *)
Handling(k) ==
  /\ k.retried = FALSE /\ k.head = 0
  /\ \/ k.pc = "return" /\ k.then = "none" /\ ~k.applied
     \/ k.pc = "facts" /\ k.then \in {"review", "mergeLabel", "checks"}
     \/ k.pc = "after" /\ ~k.applied /\ k.then \in HookThens
     \/ /\ k.pc = "write" /\ k.applied /\ k.then \in HookThens
        /\ k.event \notin Decided
        /\ k.event = "REVIEW_FINDINGS" => k.then = "findings"
        /\ k.then = "review" => k.rule.run = NoRun
  /\ k.then = "review" => ~ReviewOut
  /\ k.then = "findings" => reviewLoop.rounds < BotReviewReworks

HandledAs(j, k) ==
  /\ Handling(k)
  /\ k.src = j.src /\ k.replays = j.replays /\ k.hook = j.hook /\ k.old = j.old /\ k.left = j.left

Begun(j) == j.then = "none" /\ j.retried = FALSE /\ j.head = 0

LEMMA AppliesAs ==
  ASSUME NEW j \in JobType, Begun(j), NEW event, NEW then \in HookThens,
         NEW k, k = ApplyEvent(j, event, then),
         event \notin Decided,
         event = "REVIEW_FINDINGS" => then = "findings" \/ DeriveState(j.seen) # "AI_REVIEWING",
         then = "review" => event = "LABELLED_AI_REVIEWING" /\ ~ReviewOut,
         then = "findings" => reviewLoop.rounds < BotReviewReworks
  PROVE  HandledAs(j, k)
<1>1. /\ k.event = event /\ k.then = then
      /\ k.src = j.src /\ k.replays = j.replays /\ k.hook = j.hook /\ k.old = j.old /\ k.left = j.left
      /\ k.retried = j.retried /\ k.head = j.head
      /\ \/ k.pc = "after" /\ ~k.applied
         \/ /\ k.pc = "write" /\ k.applied
            /\ k.rule \in Rules /\ k.rule.on = event /\ k.rule.from = StateBefore(j.seen, event)
  BY ApplyEventMoves
<1>2. ASSUME k.pc = "write", event = "REVIEW_FINDINGS"  PROVE then = "findings"
  <2>1. StateBefore(j.seen, event) = DeriveState(j.seen)
    <3>1. j.seen \ JustAdded(event) = j.seen
      BY <1>2 DEF JustAdded
    <3> QED BY <3>1, Zenon DEF StateBefore
  <2>2. k.rule.from = "AI_REVIEWING"
    BY <1>1, <1>2, ReviewRulesSay
  <2> QED BY <1>1, <1>2, <2>1, <2>2
<1>3. ASSUME k.pc = "write", then = "review"  PROVE k.rule.run = NoRun
  BY <1>1, <1>3, ReviewRulesSay
<1> QED BY <1>1, <1>2, <1>3 DEF HandledAs, Handling, Begun

(* processEvent, handler by handler.                                       *)
LEMMA HandleEventMoves ==
  ASSUME CountsTypeOK, NEW j \in JobType, Begun(j), j.event \notin Decided, HandleEvent(j)
  PROVE  HandledAs(j, job')
<1> USE DEF HookThens, Decided
<1>r. ASSUME job' = Returns(j, FALSE)  PROVE HandledAs(j, job')
  BY <1>r DEF Returns, JobType, HandledAs, Handling, Begun
<1>f. ASSUME NEW then \in {"review", "mergeLabel", "checks"}, then = "review" => ~ReviewOut,
             job' = [j EXCEPT !.pc = "facts", !.then = then]
      PROVE  HandledAs(j, job')
  BY <1>f DEF JobType, HandledAs, Handling, Begun
<1>1. ASSUME HandleNothing(j)  PROVE HandledAs(j, job')
  BY <1>1, <1>r DEF HandleNothing
<1>2. ASSUME HandleReworkEnd(j)  PROVE HandledAs(j, job')
  <2> DEFINE Good(x) == HandledAs(j, x)
  <2>1. ASSUME NEW flags \in SUBSET {"ciFix", "reviewLoop", "reworkExpired"},
               NEW event \in {j.event, "CI_FIX_PUSHED", "REVIEW_FIX_PUSHED"}
        PROVE  Good(ApplyEvent([j EXCEPT !.late = flags], event, "tail"))
    <3> DEFINE jj == [j EXCEPT !.late = flags]
    <3>1. /\ jj \in JobType /\ Begun(jj)
          /\ jj.src = j.src /\ jj.replays = j.replays /\ jj.hook = j.hook
          /\ jj.old = j.old /\ jj.left = j.left
      BY DEF JobType, Begun
    <3>2. event \notin Decided /\ event # "REVIEW_FINDINGS"
      BY <1>2 DEF HandleReworkEnd
    <3> HIDE DEF jj
    <3>3. HandledAs(jj, ApplyEvent(jj, event, "tail"))
      BY <3>1, <3>2, AppliesAs
    <3>4. HandledAs(j, ApplyEvent(jj, event, "tail"))
      BY <3>1, <3>3 DEF HandledAs
    <3> QED BY <3>4 DEF jj
  <2>2. Good(Returns(j, FALSE))
    BY DEF Returns, JobType, HandledAs, Handling, Begun
  <2> HIDE DEF Good
  <2>3. Good(job')
    BY <1>2, <2>1, <2>2 DEF HandleReworkEnd
  <2> QED BY <2>3 DEF Good
<1>3. ASSUME HandleReworkLabel(j)  PROVE HandledAs(j, job')
  BY <1>3, AppliesAs DEF HandleReworkLabel
<1>4. ASSUME HandleReviewLabel(j)  PROVE HandledAs(j, job')
  BY <1>4, <1>r, AppliesAs DEF HandleReviewLabel
<1>5. ASSUME HandleFindings(j)  PROVE HandledAs(j, job')
  <2>1. reviewLoop.rounds \in Nat /\ BotReviewReworks \in Nat
    BY CapsAssumption DEF CountsTypeOK, ReviewType
  <2>2. CASE reviewLoop.rounds + 1 > BotReviewReworks
    BY <1>5, <2>2, AppliesAs DEF HandleFindings
  <2>3. CASE ~(reviewLoop.rounds + 1 > BotReviewReworks)
    <3>1. reviewLoop.rounds < BotReviewReworks
      BY <2>1, <2>3
    <3>2. job' = ApplyEvent(j, "REVIEW_FINDINGS", "findings")
      BY <1>5, <2>3 DEF HandleFindings
    <3> QED BY <3>1, <3>2, AppliesAs
  <2> QED BY <2>2, <2>3
<1>6. ASSUME HandleMergeLabel(j)  PROVE HandledAs(j, job')
  BY <1>6, <1>r, <1>f DEF HandleMergeLabel
<1>7. ASSUME HandleChecks(j)  PROVE HandledAs(j, job')
  BY <1>7, <1>r, <1>f DEF HandleChecks
<1>8. ASSUME HandleOther(j)  PROVE HandledAs(j, job')
  BY <1>8, AppliesAs DEF HandleOther
<1> QED BY <1>1, <1>2, <1>3, <1>4, <1>5, <1>6, <1>7, <1>8 DEF HandleEvent

(* A handler starts a count again only for a label of a person's.          *)
LEMMA HandleEventCounts ==
  ASSUME CountsTypeOK, NEW j \in JobType, HandleEvent(j)
  PROVE  /\ ciFix'.attempts = ciFix.attempts \/ (ciFix'.attempts = 0 /\ job'.event \in ByLabel)
         /\ reviewLoop'.rounds = reviewLoop.rounds \/ (reviewLoop'.rounds = 0 /\ job'.event \in ByLabel)
         /\ mergeFiredFor' = mergeFiredFor
         /\ job'.event \in ByLabel => j.event \in ByLabel
<1> DEFINE Goal ==
      /\ ciFix'.attempts = ciFix.attempts \/ (ciFix'.attempts = 0 /\ job'.event \in ByLabel)
      /\ reviewLoop'.rounds = reviewLoop.rounds \/ (reviewLoop'.rounds = 0 /\ job'.event \in ByLabel)
      /\ mergeFiredFor' = mergeFiredFor
      /\ job'.event \in ByLabel => j.event \in ByLabel
<1>a. \A event, then : ApplyEvent(j, event, then).event = event
  BY ApplyEventMoves
<1>r. \A b : Returns(j, b).event = j.event
  BY DEF Returns, JobType
<1>f. \A then : [j EXCEPT !.pc = "facts", !.then = then].event = j.event
  BY DEF JobType
<1>1. ASSUME HandleNothing(j)  PROVE Goal
  BY <1>1, <1>r DEF HandleNothing, counts
<1>2. ASSUME HandleReworkEnd(j)  PROVE Goal
  <2>1. /\ ciFix'.attempts = ciFix.attempts
        /\ reviewLoop'.rounds = reviewLoop.rounds
        /\ mergeFiredFor' = mergeFiredFor
    BY <1>2 DEF HandleReworkEnd, CountsTypeOK, CiFixType, ReviewType
  <2> DEFINE Good(x) == x.event \notin ByLabel
  <2>2. ASSUME NEW flags \in SUBSET {"ciFix", "reviewLoop", "reworkExpired"},
               NEW event \in {j.event, "CI_FIX_PUSHED", "REVIEW_FIX_PUSHED"}
        PROVE  Good(ApplyEvent([j EXCEPT !.late = flags], event, "tail"))
    <3>1. [j EXCEPT !.late = flags] \in JobType
      BY DEF JobType
    <3>2. ApplyEvent([j EXCEPT !.late = flags], event, "tail").event = event
      BY <3>1, ApplyEventMoves
    <3> QED BY <1>2, <3>2 DEF HandleReworkEnd, ByLabel
  <2>3. Good(Returns(j, FALSE))
    BY <1>2, <1>r DEF HandleReworkEnd, ByLabel
  <2> HIDE DEF Good
  <2>4. Good(job')
    BY <1>2, <2>2, <2>3 DEF HandleReworkEnd
  <2> QED BY <2>1, <2>4 DEF Good
<1>3. ASSUME HandleReworkLabel(j)  PROVE Goal
  <2>1. job'.event \in {"REWORK_CAP_REACHED", "LABELLED_AUTO_REWORKING"}
    BY <1>3, <1>a DEF HandleReworkLabel
  <2>2. job'.event = "REWORK_CAP_REACHED" => ciFix' = ciFix /\ reviewLoop' = reviewLoop
    <3>1. ApplyEvent(j, j.event, "tail").event = "LABELLED_AUTO_REWORKING"
      BY <1>3, <1>a DEF HandleReworkLabel
    <3> QED BY <1>3, <1>a, <3>1 DEF HandleReworkLabel
  <2>3. /\ ciFix' \in {NoCiFix, ciFix} /\ mergeFiredFor' = mergeFiredFor
        /\ reviewLoop'.rounds = 0 \/ reviewLoop' = reviewLoop
    BY <1>3 DEF HandleReworkLabel, NoReview
  <2> QED BY <1>3, <2>1, <2>2, <2>3 DEF NoCiFix, ByLabel, HandleReworkLabel
<1>4. ASSUME HandleReviewLabel(j)  PROVE Goal
  BY <1>4, <1>a, <1>r DEF HandleReviewLabel, NoCiFix, NoReview, ByLabel
<1>5. ASSUME HandleFindings(j)  PROVE Goal
  BY <1>5, <1>a DEF HandleFindings, counts, ByLabel
<1>6. ASSUME HandleMergeLabel(j)  PROVE Goal
  BY <1>6, <1>r, <1>f DEF HandleMergeLabel, NoCiFix, ByLabel
<1>7. ASSUME HandleChecks(j)  PROVE Goal
  BY <1>7, <1>r, <1>f DEF HandleChecks, counts, ByLabel
<1>8. ASSUME HandleOther(j)  PROVE Goal
  BY <1>8, <1>a DEF HandleOther, counts, ByLabel
<1> QED BY <1>1, <1>2, <1>3, <1>4, <1>5, <1>6, <1>7, <1>8 DEF HandleEvent

LEMMA HandleEventChooses ==
  ASSUME NEW j \in JobType, j.event \notin Derived, ~j.applied, HandleEvent(j)
  PROVE  Chosen(j.seen, job')
<1> USE DEF Derived
<1>r. Chosen(j.seen, Returns(j, FALSE))
  BY DEF Returns, JobType, Chosen
<1>f. \A then : Chosen(j.seen, [j EXCEPT !.pc = "facts", !.then = then])
  BY DEF JobType, Chosen
<1>1. ASSUME HandleReworkEnd(j)  PROVE Chosen(j.seen, job')
  <2> DEFINE Good(x) == Chosen(j.seen, x)
  <2>1. ASSUME NEW flags \in SUBSET {"ciFix", "reviewLoop", "reworkExpired"},
               NEW event \in {j.event, "CI_FIX_PUSHED", "REVIEW_FIX_PUSHED"}
        PROVE  Good(ApplyEvent([j EXCEPT !.late = flags], event, "tail"))
    <3>1. [j EXCEPT !.late = flags] \in JobType /\ [j EXCEPT !.late = flags].seen = j.seen
      BY DEF JobType
    <3>2. event \notin {"REWORK_CAP_REACHED", "WATCHDOG_EXPIRED"}
      BY <1>1 DEF HandleReworkEnd
    <3> QED BY <3>1, <3>2, ApplyEventChooses
  <2>2. Good(Returns(j, FALSE))
    BY <1>r
  <2> HIDE DEF Good
  <2>3. Good(job')
    BY <1>1, <2>1, <2>2 DEF HandleReworkEnd
  <2> QED BY <2>3 DEF Good
<1>2. CASE HandleReworkLabel(j)
  BY <1>2, ApplyEventChooses DEF HandleReworkLabel
<1>3. CASE HandleReviewLabel(j)
  BY <1>3, <1>r, ApplyEventChooses DEF HandleReviewLabel
<1>4. CASE HandleFindings(j)
  BY <1>4, ApplyEventChooses DEF HandleFindings
<1>5. CASE HandleMergeLabel(j) \/ HandleChecks(j) \/ HandleNothing(j)
  BY <1>5, <1>r, <1>f DEF HandleMergeLabel, HandleChecks, HandleNothing
<1>6. CASE HandleOther(j)
  BY <1>6, ApplyEventChooses DEF HandleOther
<1> QED BY <1>1, <1>2, <1>3, <1>4, <1>5, <1>6 DEF HandleEvent

(* The gates: what the facts decide.                                       *)
GateThens == {"block", "mergeFix", "capped", "reviewFix", "done", "tail", "mergeFired"}

GatedAs(k) ==
  /\ k.src = job.src /\ k.replays = job.replays /\ k.hook = job.hook /\ k.old = job.old
  /\ k.left = job.left /\ k.retried = job.retried
  /\ \/ k.pc = "return" /\ k.then = job.then /\ k.head = job.head
     \/ /\ k.then \in GateThens
        /\ (k.pc = "after" /\ ~k.applied) \/ (k.pc = "write" /\ k.applied)
        /\ k.event \in Decided => k.then \in {"mergeFix", "reviewFix"}
        /\ k.event # "REVIEW_FINDINGS"
        /\ k.then \in {"mergeFix", "reviewFix"} => ciFix.attempts < CiFixAttempts
        /\ k.then = "done" => job.then = "review"
        /\ IF k.then = "mergeFired" THEN k.head = head /\ mergeFiredFor # head
                                    ELSE k.head = job.head

LEMMA GateMoves ==
  ASSUME ItemTypeOK, ReadFacts
  PROVE  job.pc = "facts" /\ GatedAs(job')
<1>p. PICK checks : LET facts == Facts(head, checks, mergeable)
                    IN  job' = CASE job.then = "review"     -> ReviewGate(job, facts)
                                 [] job.then = "mergeLabel" -> GateMergeLabel(job, facts)
                                 [] OTHER                   -> GateChecks(job, facts)
  BY DEF ReadFacts
<1> DEFINE facts == Facts(head, checks, mergeable)
<1>j. job \in JobType /\ ciFix.attempts \in Nat /\ CiFixAttempts \in Nat
  BY CapsAssumption DEF ItemTypeOK, CiFixType
<1>a. ASSUME NEW event, NEW then \in GateThens \ {"mergeFired"},
             event \in Decided => then \in {"mergeFix", "reviewFix"},
             event # "REVIEW_FINDINGS",
             then \in {"mergeFix", "reviewFix"} => ciFix.attempts < CiFixAttempts,
             then = "done" => job.then = "review"
      PROVE  GatedAs(ApplyEvent(job, event, then))
  <2>1. PICK k : k = ApplyEvent(job, event, then)
    OBVIOUS
  <2>2. /\ k.event = event /\ k.then = then
        /\ k.src = job.src /\ k.replays = job.replays /\ k.hook = job.hook /\ k.old = job.old /\ k.left = job.left
        /\ k.retried = job.retried /\ k.head = job.head
        /\ (k.pc = "after" /\ ~k.applied) \/ (k.pc = "write" /\ k.applied)
    BY <1>j, <2>1, ApplyEventMoves
  <2>3. GatedAs(k)
    BY <1>a, <2>2 DEF GatedAs
  <2> QED BY <2>1, <2>3
<1>r. ASSUME NEW b  PROVE GatedAs(Returns(job, b))
  BY <1>j DEF GatedAs, Returns, JobType
<1>1. GatedAs(HandReviewToRework(job)) /\ GatedAs(HandToRework(job))
  <2>1. CASE ciFix.attempts >= CiFixAttempts
    BY <1>a, <2>1 DEF HandReviewToRework, HandToRework, GateThens, Decided
  <2>2. CASE ~(ciFix.attempts >= CiFixAttempts)
    <3>1. ciFix.attempts < CiFixAttempts
      BY <1>j, <2>2
    <3> QED BY <1>a, <2>2, <3>1 DEF HandReviewToRework, HandToRework, GateThens, Decided
  <2> QED BY <2>1, <2>2
<1>2. job.then = "review" => GatedAs(ReviewGate(job, facts))
  BY <1>a, <1>r, <1>1 DEF ReviewGate, GateThens, Decided
<1>3. GatedAs(GateMergeLabel(job, facts))
  BY <1>a, <1>1 DEF GateMergeLabel, GateThens, Decided
<1>4. mergeFiredFor # head => GatedAs(ApplyEvent([job EXCEPT !.head = facts.head], "MERGE_GATE_PASSED", "mergeFired"))
  <2> DEFINE jj == [job EXCEPT !.head = facts.head]
  <2>1. /\ jj \in JobType /\ jj.src = job.src /\ jj.replays = job.replays /\ jj.hook = job.hook /\ jj.old = job.old
        /\ jj.left = job.left /\ jj.retried = job.retried /\ jj.head = head
    BY <1>j DEF JobType, Facts, ItemTypeOK
  <2> HIDE DEF jj
  <2>2. PICK k : k = ApplyEvent(jj, "MERGE_GATE_PASSED", "mergeFired")
    OBVIOUS
  <2>3. /\ k.event = "MERGE_GATE_PASSED" /\ k.then = "mergeFired"
        /\ k.src = jj.src /\ k.replays = jj.replays /\ k.hook = jj.hook /\ k.old = jj.old /\ k.left = jj.left
        /\ k.retried = jj.retried /\ k.head = jj.head
        /\ (k.pc = "after" /\ ~k.applied) \/ (k.pc = "write" /\ k.applied)
    BY <2>1, <2>2, ApplyEventMoves
  <2>4. mergeFiredFor # head => GatedAs(k)
    BY <2>1, <2>3 DEF GatedAs, GateThens, Decided
  <2> QED BY <2>2, <2>4 DEF jj
<1>5. GatedAs(GateChecks(job, facts))
  BY <1>a, <1>r, <1>1, <1>4 DEF GateChecks, GateThens, Decided, Facts
<1> HIDE DEF facts
<1>6. GatedAs(job')
  <2>1. job' = CASE job.then = "review"     -> ReviewGate(job, facts)
                 [] job.then = "mergeLabel" -> GateMergeLabel(job, facts)
                 [] OTHER                   -> GateChecks(job, facts)
    BY <1>p DEF facts
  <2> QED BY <1>2, <1>3, <1>5, <2>1
<1> QED BY <1>6 DEF ReadFacts

LEMMA GateChooses ==
  ASSUME ItemTypeOK, ReadFacts
  PROVE  \/ Chosen(job.seen, job')
         \/ /\ job'.seen = job.seen /\ job'.pc = "return" /\ job'.applied \in {job.applied, FALSE}
            /\ job'.rule = job.rule /\ job'.then = job.then
<1>p. PICK checks : LET facts == Facts(head, checks, mergeable)
                    IN  job' = CASE job.then = "review"     -> ReviewGate(job, facts)
                                 [] job.then = "mergeLabel" -> GateMergeLabel(job, facts)
                                 [] OTHER                   -> GateChecks(job, facts)
  BY DEF ReadFacts
<1> DEFINE Good(k) == \/ Chosen(job.seen, k)
                      \/ /\ k.seen = job.seen /\ k.pc = "return" /\ k.applied \in {job.applied, FALSE}
                         /\ k.rule = job.rule /\ k.then = job.then
           facts   == Facts(head, checks, mergeable)
<1>j. job \in JobType
  BY DEF ItemTypeOK
<1>r. Good(Returns(job, job.applied)) /\ Good(Returns(job, FALSE))
  BY <1>j DEF Returns, JobType
<1>a. ASSUME NEW event, NEW then, then # "review", event # "WATCHDOG_EXPIRED",
             event = "REWORK_CAP_REACHED" => then = "capped"
      PROVE  Good(ApplyEvent(job, event, then))
  BY <1>j, <1>a, ApplyEventChooses
<1>h. Good(ApplyEvent([job EXCEPT !.head = facts.head], "MERGE_GATE_PASSED", "mergeFired"))
  <2> DEFINE jj == [job EXCEPT !.head = facts.head]
  <2>1. jj \in JobType /\ jj.seen = job.seen
    BY <1>j DEF JobType, Facts, ItemTypeOK
  <2> HIDE DEF jj
  <2>2. Good(ApplyEvent(jj, "MERGE_GATE_PASSED", "mergeFired"))
    BY <2>1, ApplyEventChooses
  <2> QED BY <2>2 DEF jj
<1> HIDE DEF Good, facts
<1>1. Good(HandReviewToRework(job)) /\ Good(HandToRework(job))
  BY <1>a DEF HandReviewToRework, HandToRework
<1>2. Good(ReviewGate(job, facts)) /\ Good(GateMergeLabel(job, facts)) /\ Good(GateChecks(job, facts))
  BY <1>a, <1>r, <1>h, <1>1 DEF ReviewGate, GateMergeLabel, GateChecks
<1>3. Good(job')
  BY <1>p, <1>2 DEF facts
<1> QED BY <1>3 DEF Good

----------------------------------------------------------------------------
(* The requests' first steps, by what starts them.                         *)

LEMMA NoJobIs ==
  /\ NoJob.pc = "idle" /\ NoJob.src = "none" /\ NoJob.replays = FALSE /\ NoJob.event = "none"
  /\ NoJob.then = "none" /\ NoJob.applied = FALSE /\ NoJob.retried = FALSE
  /\ NoJob.head = 0 /\ NoJob.left = <<>> /\ NoJob.hook = NoHook
BY DEF NoJob

LEMMA BeginMoves ==
  ASSUME NEW h, NEW src
  PROVE  /\ Begun(Begin(h, src))
         /\ Begin(h, src).src = src /\ Begin(h, src).replays = FALSE
         /\ Begin(h, src).left = <<>> /\ Begin(h, src).event = h.event /\ Begin(h, src).hook = h
BY DEF Begin, NoJob, Begun

(* A webhook or an outcome signal.                                         *)
LEMMA HookBegins ==
  ASSUME TypeInv, HeardInv, NEW h \in hooks, TakeHook(h) \/ TakeOutcome(h)
  PROVE  /\ Handling(job')
         /\ job'.src \in {"webhook", "signal"} /\ job'.replays = FALSE /\ job'.left = <<>>
         /\ job'.hook = h /\ job'.old \in {pending, NoFire}
         /\ Chosen(labels, job')
<1>1. PICK src \in {"webhook", "signal"} : HandleEvent(Begin(h, src))
  BY DEF TakeHook, TakeOutcome
<1>2. /\ Begin(h, src) \in JobType /\ CountsTypeOK
  BY BeginType DEF TypeInv, TypeOK, ItemTypeOK, CountsTypeOK, JobSources
<1>3. /\ Begun(Begin(h, src))
      /\ Begin(h, src).src = src /\ Begin(h, src).replays = FALSE
      /\ Begin(h, src).left = <<>> /\ Begin(h, src).event = h.event /\ Begin(h, src).hook = h
  BY BeginMoves, Zenon
<1>4. Begin(h, src).event \notin Derived
  BY <1>3 DEF HeardInv
<1>5. HandledAs(Begin(h, src), job')
  BY <1>1, <1>2, <1>3, <1>4, HandleEventMoves DEF Derived
<1>6. /\ Begin(h, src).seen = labels /\ Begin(h, src).applied = FALSE
      /\ Begin(h, src).old \in {pending, NoFire}
  BY DEF Begin, NoJob
<1>7. Chosen(labels, job')
  BY <1>1, <1>2, <1>4, <1>6, HandleEventChooses
<1> QED BY <1>3, <1>5, <1>6, <1>7 DEF HandledAs

(* A comment the watchdog found.                                           *)
LEMMA ReplayBegins ==
  ASSUME TypeInv, HeardInv, Replay
  PROVE  /\ Handling(job') /\ job.pc = "recover"
         /\ job'.src = job.src /\ job'.replays = TRUE /\ job'.old = pending
         /\ job'.hook = job.left[Len(job.left)]
         /\ job'.left = SubSeq(job.left, 1, Len(job.left) - 1)
         /\ Reported(job'.left)
         /\ job'.event \notin ByLabel
         /\ Chosen(labels, job')
<1>i. ItemTypeOK /\ job \in JobType /\ CountsTypeOK
  BY DEF TypeInv, TypeOK, ItemTypeOK, CountsTypeOK
<1> DEFINE n    == Len(job.left)
           h    == job.left[n]
           rest == SubSeq(job.left, 1, n - 1)
           j    == [Begin(h, job.src) EXCEPT !.replays = TRUE, !.left = rest]
<1>1. j \in JobType /\ HandleEvent(j) /\ job.pc = "recover"
  BY <1>i, ReplayJobType DEF Replay
<1>2. job.left \in Seq(ReportType) /\ job.left # <<>> /\ job.src \in JobSources /\ n \in 1..n
  BY <1>i DEF Replay, JobType
<1>3. h \in HookType /\ h.run # NoRun
  <2>1. h \in ReportType
    BY <1>2
  <2> QED BY <2>1 DEF ReportType, HookType, AnyRun, Routines, NoRun
<1>4. h.event \notin Derived \cup ByLabel
  <2>1. h \in OutcomeReports
    BY <1>2, ElementOfSeq DEF HeardInv, Reported
  <2> QED BY <2>1 DEF OutcomeReports
<1>5. Reported(rest)
  BY <1>2 DEF HeardInv, Reported
<1> HIDE DEF rest, h
<1>6. Begin(h, job.src) \in JobType
  BY <1>i, <1>2, <1>3, BeginType
<1>7. /\ Begun(j) /\ j.src = job.src /\ j.replays = TRUE /\ j.old = pending
      /\ j.left = rest /\ j.event = h.event /\ j.hook = h
      /\ j.seen = labels /\ j.applied = FALSE
  <2>1. Begun(Begin(h, job.src))
    BY DEF Begin, NoJob, Begun
  <2>2. /\ Begin(h, job.src).src = job.src /\ Begin(h, job.src).event = h.event
        /\ Begin(h, job.src).old = pending /\ Begin(h, job.src).hook = h
        /\ Begin(h, job.src).seen = labels /\ Begin(h, job.src).applied = FALSE
    BY <1>3 DEF Begin, NoJob
  <2> QED BY <1>6, <2>1, <2>2 DEF JobType, Begun
<1> HIDE DEF j
<1>8. HandledAs(j, job')
  BY <1>i, <1>1, <1>4, <1>7, HandleEventMoves DEF Derived
<1>9. job'.event \notin ByLabel
  BY <1>i, <1>1, <1>4, <1>7, HandleEventCounts
<1>10. Chosen(labels, job')
  BY <1>1, <1>4, <1>7, HandleEventChooses
<1> QED BY <1>1, <1>5, <1>7, <1>8, <1>9, <1>10 DEF HandledAs, h, rest, n

(* The alarm's own.                                                        *)
LEMMA AlarmJobMoves ==
  ASSUME NEW pc, job' = AlarmJob(pc) \/ job' = [AlarmJob(pc) EXCEPT !.left = posted]
  PROVE  /\ job'.src = "alarm" /\ job'.pc = pc /\ job'.replays = FALSE
         /\ job'.then = "none" /\ job'.event = "none" /\ job'.applied = FALSE
         /\ job'.retried = FALSE /\ job'.head = 0 /\ job'.old = pending /\ job'.hook = NoHook
         /\ job'.left \in {<<>>, posted}
<1>1. CASE job' = AlarmJob(pc)
  BY <1>1 DEF AlarmJob, NoJob
<1>2. CASE job' = [AlarmJob(pc) EXCEPT !.left = posted]
  BY <1>2 DEF AlarmJob, NoJob
<1> QED BY <1>1, <1>2

LEMMA BackMoves ==
  ASSUME NEW pc, job' = BackToExpiry(pc) \/ job' = [BackToExpiry(pc) EXCEPT !.left = <<>>]
  PROVE  /\ job'.src = job.src /\ job'.pc = pc /\ job'.replays = FALSE
         /\ job'.then = "none" /\ job'.event = "none" /\ job'.applied = FALSE
         /\ job'.retried = FALSE /\ job'.head = 0 /\ job'.old = job.old /\ job'.hook = NoHook
         /\ job'.left \in {<<>>, job.left}
<1>1. CASE job' = BackToExpiry(pc)
  BY <1>1 DEF BackToExpiry, NoJob
<1>2. CASE job' = [BackToExpiry(pc) EXCEPT !.left = <<>>]
  BY <1>2 DEF BackToExpiry, NoJob
<1> QED BY <1>1, <1>2

LEMMA FireAgainMoves ==
  ASSUME ItemTypeOK, NEW then, NEW b, job' = FireAgain(then, b)
  PROVE  /\ job'.src = "alarm" /\ job'.pc = "write" /\ job'.replays = FALSE
         /\ job'.then = then /\ job'.applied = TRUE
         /\ job'.retried = b /\ job'.head = 0 /\ job'.left = <<>> /\ job'.hook = NoHook
         /\ job'.rule.run = pending.run
<1>1. pending.run \in AnyRun
  BY DEF ItemTypeOK, FireType
<1>2. FireOf(pending.run).run = pending.run
  BY <1>1, FireOfType
<1> QED BY <1>2 DEF FireAgain, AlarmJob, NoJob

----------------------------------------------------------------------------
(* A request by its step and its continuation: RequestInv, LooksFirst.     *)

JobInv == RequestInv /\ LooksFirst

LEMMA SameJob ==
  ASSUME JobInv, job' = job
  PROVE  JobInv'
BY DEF JobInv, RequestInv, LooksFirst, OfExpiry, Applies

LEMMA NoJobInv ==
  ASSUME job' = NoJob
  PROVE  JobInv'
BY NoJobIs DEF JobInv, RequestInv, LooksFirst, OfExpiry, Applies, OfWatchdog

LEMMA CarriedJob ==
  ASSUME JobInv, Carries,
         job.pc \notin {"recover", "expire"}, job'.pc \notin {"recover", "expire"},
         Applies(job)' => Applies(job),
         job'.pc = "after" => Applies(job),
         job'.pc = "facts" => job.then = "review",
         job'.pc = "count" => job.then = "mergeFix" /\ job.applied
  PROVE  JobInv'
BY DEF JobInv, RequestInv, LooksFirst, OfExpiry, Applies, Carries

(* A webhook's, a signal's or a replayed comment's request.                *)
LEMMA HandlingJob ==
  ASSUME Handling(job'),
         \/ job'.src \in {"webhook", "signal"} /\ job'.replays = FALSE
         \/ job'.src \in {"alarm", "ended"} /\ job'.replays = TRUE /\ Enforced("WATCHDOG_EXPIRED")
  PROVE  JobInv'
<1>1. OfExpiry' = FALSE /\ job'.then \notin OfWatchdog
  BY DEF OfExpiry, Handling, HookThens, OfWatchdog
<1> QED BY <1>1 DEF JobInv, RequestInv, LooksFirst, Applies, OfWatchdog, Handling, HookThens

LEMMA GatedJob ==
  ASSUME JobInv, job.pc = "facts", GatedAs(job')
  PROVE  JobInv'
<1>1. ~OfExpiry /\ job.then \in {"review", "mergeLabel", "checks"} /\ ~job.retried
  BY DEF JobInv, RequestInv, OfWatchdog
<1>2. OfExpiry' = FALSE /\ job'.then \notin OfWatchdog
  BY <1>1 DEF OfExpiry, GatedAs, GateThens, OfWatchdog
<1> QED BY <1>1, <1>2 DEF JobInv, RequestInv, LooksFirst, Applies, OfWatchdog, GatedAs, GateThens

(* The watchdog looks for outcomes, or goes on to the expiry.              *)
LEMMA LookingJob ==
  ASSUME job'.src \in {"alarm", "ended"}, job'.pc \in {"recover", "expire"},
         job'.replays = FALSE, job'.then = "none", job'.retried = FALSE,
         job'.pc = "recover" => Enforced("WATCHDOG_EXPIRED")
  PROVE  JobInv'
BY DEF JobInv, RequestInv, LooksFirst, OfExpiry, Applies, OfWatchdog

(* It sends a fire again.                                                  *)
LEMMA FireAgainJob ==
  ASSUME ItemTypeOK, NEW then \in {"deferred", "retry"}, NEW b \in BOOLEAN,
         job' = FireAgain(then, b), then = "retry" => b /\ Enforced("WATCHDOG_EXPIRED")
  PROVE  JobInv'
<1>1. /\ job'.src = "alarm" /\ job'.pc = "write" /\ job'.replays = FALSE /\ job'.then = then
      /\ job'.retried = b /\ job'.applied = TRUE
  BY FireAgainMoves
<1> QED BY <1>1 DEF JobInv, RequestInv, LooksFirst, OfExpiry, Applies, OfWatchdog

LEMMA WebhookStepJob ==
  ASSUME JobInv, HeardInv, TypeInv, WebhookStep
  PROVE  JobInv'
<1>t. ItemTypeOK /\ job \in JobType
  BY DEF TypeInv, TypeOK, ItemTypeOK
<1>1. ASSUME NEW h \in hooks, TakeHook(h)  PROVE JobInv'
  BY <1>1, HookBegins, HandlingJob
<1>2. CASE ReadFacts
  BY <1>t, <1>2, GateMoves, GatedJob
<1>3. CASE WriteLabel \/ EndWatch \/ ArmFire \/ FireSent \/ AfterMergeFix \/ CountMergeFix \/ Comment
  <2>1. \/ GoesTo("write", "write") \/ GoesTo("write", "after") \/ GoesTo("write", "send")
        \/ GoesTo("send", "after") \/ GoesTo("count", "comment") \/ GoesTo("comment", "return")
        \/ GoesTo("after", "count") /\ job.then = "mergeFix" /\ job.applied
    BY <1>t, <1>3, RuleMoves
  <2> QED BY <2>1, CarriedJob DEF GoesTo, Applies
<1>4. CASE AfterEvent
  <2>1. \/ GoesTo("after", "comment")
        \/ GoesTo("after", "return")
        \/ GoesTo("after", "facts") /\ job.then = "review"
    BY <1>t, <1>4, AfterMoves
  <2> QED BY <2>1, CarriedJob DEF GoesTo, Applies
<1>5. CASE ReturnHook
  BY <1>5, NoJobInv DEF ReturnHook
<1> QED BY <1>1, <1>2, <1>3, <1>4, <1>5 DEF WebhookStep

LEMMA WatchdogStepJob ==
  ASSUME JobInv, HeardInv, TypeInv, WatchdogStep
  PROVE  JobInv'
<1>t. ItemTypeOK /\ job \in JobType /\ pending.retried \in BOOLEAN
  BY DEF TypeInv, TypeOK, ItemTypeOK, FireType
<1>n. ASSUME job' = NoJob  PROVE JobInv'
  BY <1>n, NoJobInv
<1>1. CASE AlarmForNothing \/ DropDeferred
  BY <1>1, SameJob DEF AlarmForNothing, DropDeferred
<1>2. CASE SendDeferred
  BY <1>t, <1>2, FireAgainJob DEF SendDeferred
<1>3. CASE StartExpiry
  <2>1. \/ job' = AlarmJob("expire")
        \/ job' = [AlarmJob("recover") EXCEPT !.left = posted] /\ Enforced("WATCHDOG_EXPIRED")
    BY <1>3 DEF StartExpiry
  <2>2. /\ job'.src = "alarm" /\ job'.pc \in {"recover", "expire"}
        /\ job'.replays = FALSE /\ job'.then = "none" /\ job'.retried = FALSE
        /\ job'.pc = "recover" => Enforced("WATCHDOG_EXPIRED")
    <3>1. CASE job' = AlarmJob("expire")
      BY <3>1 DEF AlarmJob, NoJob
    <3>2. CASE job' = [AlarmJob("recover") EXCEPT !.left = posted] /\ Enforced("WATCHDOG_EXPIRED")
      BY <3>2, AlarmJobMoves
    <3> QED BY <2>1, <3>1, <3>2
  <2> QED BY <2>2, LookingJob
<1>4. CASE Replay
  <2>1. job.src \in {"alarm", "ended"} /\ Enforced("WATCHDOG_EXPIRED")
    BY <1>4 DEF Replay, JobInv, RequestInv, LooksFirst, OfExpiry
  <2> QED BY <1>4, <2>1, ReplayBegins, HandlingJob
<1>5. CASE ReplayApplied \/ AfterExpiry \/ ReturnAlarm
  BY <1>5, <1>n DEF ReplayApplied, AfterExpiry, ReturnAlarm
<1>6. CASE ReplayNotApplied
  <2>1. job.src \in {"alarm", "ended"} /\ Enforced("WATCHDOG_EXPIRED")
    BY <1>6 DEF ReplayNotApplied, JobInv, RequestInv, LooksFirst
  <2>2. job' = BackToExpiry("recover")
    BY <1>6 DEF ReplayNotApplied
  <2> QED BY <2>1, <2>2, BackMoves, LookingJob
<1>7. CASE RetryOnce
  <2>1. job.src \in {"alarm", "ended"} /\ Enforced("WATCHDOG_EXPIRED")
    BY <1>7 DEF RetryOnce, JobInv, RequestInv, LooksFirst, OfExpiry
  <2>2. CASE job' = FireAgain("retry", TRUE)
    BY <1>t, <2>1, <2>2, FireAgainJob
  <2>3. CASE job' = BackToExpiry("expire")
    BY <2>1, <2>3, BackMoves, LookingJob
  <2> QED BY <1>7, <2>2, <2>3 DEF RetryOnce
<1>8. CASE Expire
  <2> DEFINE j == [job EXCEPT !.seen = labels]
  <2>1. /\ j \in JobType /\ j.src = job.src /\ j.replays = job.replays /\ j.retried = job.retried
        /\ job' = ApplyEvent(j, "WATCHDOG_EXPIRED", "expiry") /\ job.pc = "expire"
    BY <1>t, <1>8 DEF Expire, ItemTypeOK, JobType
  <2> HIDE DEF j
  <2>2. /\ job'.event = "WATCHDOG_EXPIRED" /\ job'.then = "expiry"
        /\ job'.src = job.src /\ job'.replays = job.replays /\ job'.retried = job.retried
        /\ (job'.pc = "after" /\ ~job'.applied) \/ (job'.pc = "write" /\ job'.applied)
    BY <2>1, ApplyEventMoves
  <2> QED BY <2>1, <2>2 DEF JobInv, RequestInv, LooksFirst, OfExpiry, Applies, OfWatchdog
<1>9. CASE AfterFiredAgain
  BY <1>t, <1>9, RuleMoves, CarriedJob DEF GoesTo, Applies
<1> QED BY <1>1, <1>2, <1>3, <1>4, <1>5, <1>6, <1>7, <1>8, <1>9 DEF WatchdogStep

LEMMA SignalStepJob ==
  ASSUME JobInv, HeardInv, TypeInv, SignalStep
  PROVE  JobInv'
<1>1. ASSUME NEW s \in hooks, IgnoreSignal(s) \/ Heartbeat(s) \/ Completion(s)  PROVE JobInv'
  BY <1>1, SameJob DEF IgnoreSignal, Heartbeat, Completion
<1>2. ASSUME NEW s \in hooks, TakeOutcome(s)  PROVE JobInv'
  BY <1>2, HookBegins, HandlingJob
<1>3. ASSUME NEW s \in hooks, EndFire(s)  PROVE JobInv'
  <2>1. /\ job'.src = "ended" /\ job'.pc \in {"recover", "expire"}
        /\ job'.replays = FALSE /\ job'.then = "none" /\ job'.retried = FALSE
        /\ job'.pc = "recover" => Enforced("WATCHDOG_EXPIRED")
    BY <1>3 DEF EndFire, NoJob
  <2> QED BY <2>1, LookingJob
<1>4. CASE ReturnOutcome
  BY <1>4, NoJobInv DEF ReturnOutcome
<1> QED BY <1>1, <1>2, <1>3, <1>4 DEF SignalStep

(* People, CI and sessions are no request.                                 *)
LEMMA OutsideJob ==
  ASSUME People \/ GitHubWorks \/ Sessions
  PROVE  UNCHANGED <<storage, fires, history>>
<1>1. CASE People
  BY <1>1 DEF People, PersonAddsLabel, PersonRemovesLabel, PersonPushes, PersonReplies, PersonCloses
<1>2. CASE GitHubWorks
  BY <1>2 DEF GitHubWorks, CiFinishes, MergeableChanges
<1>3. CASE Sessions
  BY <1>3 DEF Sessions, Session, Reports, Pushes, Merges, Dies, Steps
<1> QED BY <1>1, <1>2, <1>3

LEMMA FailuresJob ==
  ASSUME JobInv, TypeInv, Failures
  PROVE  JobInv'
<1>t. ItemTypeOK /\ job \in JobType /\ pending.retried \in BOOLEAN
  BY DEF TypeInv, TypeOK, ItemTypeOK, FireType
<1>n. ASSUME job' = NoJob  PROVE JobInv'
  BY <1>n, NoJobInv
<1>1. CASE Throws
  <2>1. CASE ThrowHook \/ ThrowAlarm
    BY <1>n, <2>1 DEF ThrowHook, ThrowAlarm
  <2>2. CASE ThrowReplay
    <3>1. job.src \in {"alarm", "ended"} /\ Enforced("WATCHDOG_EXPIRED")
      BY <2>2 DEF ThrowReplay, JobInv, RequestInv, LooksFirst
    <3>2. ASSUME job' = [BackToExpiry("recover") EXCEPT !.left = <<>>]  PROVE JobInv'
      BY <3>1, <3>2, BackMoves, LookingJob
    <3> QED BY <1>n, <2>2, <3>2 DEF ThrowReplay
  <2> QED BY <1>1, <2>1, <2>2 DEF Throws
<1>2. CASE Crashes
  BY <1>n, <1>2 DEF Crashes, CrashHook, CrashAlarm
<1>3. CASE Refused
  <2>1. CASE RefuseHook
    BY <1>n, <2>1 DEF RefuseHook
  <2>2. CASE RefuseAlarm
    <3>1. ASSUME job' = BackToExpiry("expire")  PROVE JobInv'
      <4>1. job.src \in {"alarm", "ended"}
        BY <2>2 DEF RefuseAlarm
      <4>2. /\ job'.src = job.src /\ job'.pc = "expire" /\ job'.replays = FALSE
            /\ job'.then = "none" /\ job'.retried = FALSE
        BY <3>1, BackMoves
      <4> QED BY <4>1, <4>2, LookingJob
    <3> QED BY <1>n, <2>2, <3>1 DEF RefuseAlarm
  <2> QED BY <1>3, <2>1, <2>2 DEF Refused
<1>4. CASE Limited
  BY <1>t, <1>4, RuleMoves, CarriedJob DEF Limited, GoesTo, Applies
<1>5. CASE Unheard \/ GivesUp \/ Loses
  BY <1>5, SameJob DEF Unheard, LostAnswer, GivesUp, GiveUp, Loses, storage
<1>6. CASE Unread
  <2>1. CASE SendDeferredUnread
    BY <1>t, <2>1, FireAgainJob DEF SendDeferredUnread
  <2>2. CASE StartExpiryUnread
    BY <2>2, AlarmJobMoves, LookingJob DEF StartExpiryUnread
  <2> QED BY <1>6, <2>1, <2>2 DEF Unread
<1> QED BY <1>1, <1>2, <1>3, <1>4, <1>5, <1>6 DEF Failures

LEMMA JobStep ==
  ASSUME JobInv, HeardInv, TypeInv, [Next]_allVars
  PROVE  JobInv'
<1>1. CASE Worker
  BY <1>1, WebhookStepJob, WatchdogStepJob, SignalStepJob DEF Worker
<1>2. CASE Alarm
  BY <1>2, SameJob DEF Alarm, Ring
<1>3. CASE People \/ GitHubWorks \/ Sessions
  BY <1>3, OutsideJob, SameJob DEF storage
<1>4. CASE Failures
  BY <1>4, FailuresJob
<1>5. CASE UNCHANGED allVars
  BY <1>5, SameJob DEF allVars, vars
<1> QED BY <1>1, <1>2, <1>3, <1>4, <1>5 DEF Next

----------------------------------------------------------------------------
(* What is heard: no webhook, comment or signal is a gate's decision.      *)

LEMMA HeardHooks ==
  ASSUME HeardInv, TypeInv, [Next]_allVars
  PROVE  \A h \in hooks' : h.event \notin Derived
<1> DEFINE Heard(hs) == \A h \in hs : h.event \notin Derived
<1> USE DEF Derived, Decided
<1>1. ASSUME Worker \/ Failures \/ Alarm \/ UNCHANGED allVars
      PROVE  hooks' \subseteq hooks \cup {Hook("ISSUE_CLOSED", NoRun, 0)}
  <2>1. CASE WebhookStep
    BY <2>1
    DEF WebhookStep, TakeHook, ReadFacts, WriteLabel, EndWatch, ArmFire, FireSent, AfterEvent,
        AfterMergeFix, CountMergeFix, Comment, ReturnHook
  <2>2. CASE WatchdogStep
    BY <2>2
    DEF WatchdogStep, AlarmForNothing, DropDeferred, SendDeferred, StartExpiry, Replay, ReplayApplied,
        ReplayNotApplied, RetryOnce, Expire, AfterExpiry, AfterFiredAgain, ReturnAlarm
  <2>3. CASE SignalStep
    BY <2>3
    DEF SignalStep, IgnoreSignal, Heartbeat, Completion, TakeOutcome, EndFire, ReturnOutcome, Handled
  <2>4. CASE Failures
    BY <2>4
    DEF Failures, Throws, ThrowHook, ThrowAlarm, ThrowReplay, Crashes, CrashHook, CrashAlarm, Refused,
        RefuseHook, RefuseAlarm, Limited, FireLimited, Unheard, LostAnswer, Unread, SendDeferredUnread,
        StartExpiryUnread, GivesUp, GiveUp, Loses
  <2>5. CASE Alarm \/ UNCHANGED allVars
    BY <2>5 DEF Alarm, Ring, allVars, vars
  <2> QED BY <1>1, <2>1, <2>2, <2>3, <2>4, <2>5 DEF Worker
<1>2. Hook("ISSUE_CLOSED", NoRun, 0).event = "ISSUE_CLOSED"
  BY DEF Hook
<1>3. CASE Worker \/ Failures \/ Alarm \/ UNCHANGED allVars
  BY <1>1, <1>2, <1>3 DEF HeardInv
<1>4. ASSUME People  PROVE Heard(hooks')
  <2>1. \A l : LabelledEvent(l) \notin Derived /\ UnlabelledEvent(l) \notin Derived
    BY DEF LabelledEvent, UnlabelledEvent
  <2>2. \A e, n : e \notin Derived => Heard(Sent(e, NoRun, n))
    BY DEF Sent, Hook
  <2>3. \A e, n : Hook(e, NoRun, n).event = e
    BY DEF Hook
  <2> QED BY <1>4, <2>1, <2>2, <2>3
    DEF HeardInv, People, PersonAddsLabel, PersonRemovesLabel, PersonPushes, Push, PersonReplies, PersonCloses
<1>5. ASSUME GitHubWorks  PROVE Heard(hooks')
  BY <1>5 DEF HeardInv, GitHubWorks, CiFinishes, MergeableChanges, Hook
<1>6. ASSUME Sessions  PROVE Heard(hooks')
  <2>1. PICK r \in runs : Session(r)
    BY <1>6 DEF Sessions
  <2>2. \A o \in Outcomes(r.run) : o \notin Derived
    BY DEF Outcomes
  <2>3. \A kind, e : e \notin Derived => Heard(Sends(kind, e, r))
    BY DEF Sends, Signal
  <2>4. \A e, run, n : Hook(e, run, n).event = e /\ Signal(e, run, n).event = e
    BY DEF Hook, Signal
  <2>5. ASSUME NEW o \in Outcomes(r.run), Reports(r, o)  PROVE Heard(hooks')
    BY <2>2, <2>3, <2>4, <2>5 DEF HeardInv, Reports
  <2>6. CASE Pushes(r) \/ Merges(r) \/ Dies(r) \/ Steps(r)
    BY <2>3, <2>4, <2>6 DEF HeardInv, Pushes, Push, Merges, Dies, Steps
  <2> QED BY <2>1, <2>5, <2>6 DEF Session
<1> QED BY <1>3, <1>4, <1>5, <1>6 DEF Next

LEMMA HeardPosted ==
  ASSUME HeardInv, TypeInv, [Next]_allVars
  PROVE  Reported(posted')
<1>t. job \in JobType /\ posted \in Seq(OutcomeReports) /\ Len(job.left) + 1 \in Nat
  BY DEF HeardInv, Reported, TypeInv, TypeOK, ItemTypeOK, JobType
<1>w. Reported(Without(posted, Len(job.left) + 1))
  BY <1>t, WithoutType DEF Reported
<1>e. Reported(<<>>)
  BY DEF Reported
<1>1. CASE WebhookStep
  BY <1>1, <1>t, <1>e
  DEF Reported, WebhookStep, TakeHook, ReadFacts, WriteLabel, EndWatch, ArmFire, FireSent, AfterEvent,
      AfterMergeFix, CountMergeFix, Comment, ReturnHook
<1>2. CASE WatchdogStep
  BY <1>2, <1>t, <1>w
  DEF Reported, WatchdogStep, AlarmForNothing, DropDeferred, SendDeferred, StartExpiry, Replay,
      ReplayApplied, ReplayNotApplied, RetryOnce, Expire, AfterExpiry, AfterFiredAgain, ReturnAlarm
<1>3. CASE SignalStep
  BY <1>3, <1>t
  DEF Reported, SignalStep, IgnoreSignal, Heartbeat, Completion, TakeOutcome, EndFire, ReturnOutcome
<1>4. CASE Failures
  BY <1>4, <1>t, <1>w
  DEF Reported, Failures, Throws, ThrowHook, ThrowAlarm, ThrowReplay, Crashes, CrashHook, CrashAlarm,
      Refused, RefuseHook, RefuseAlarm, Limited, FireLimited, Unheard, LostAnswer, Unread,
      SendDeferredUnread, StartExpiryUnread, GivesUp, GiveUp, Loses
<1>5. CASE Alarm \/ UNCHANGED allVars \/ People \/ GitHubWorks
  BY <1>5, <1>t
  DEF Reported, Alarm, Ring, allVars, vars, People, PersonAddsLabel, PersonRemovesLabel, PersonPushes,
      PersonReplies, PersonCloses, GitHubWorks, CiFinishes, MergeableChanges
<1>6. CASE Sessions
  <2>1. PICK r \in runs : Session(r)
    BY <1>6 DEF Sessions
  <2>2. r.run \in Routines /\ r.gen \in Nat
    BY <2>1 DEF TypeInv, TypeOK, ItemTypeOK, SessionType
  <2>3. ASSUME NEW o \in Outcomes(r.run), Reports(r, o)  PROVE Reported(posted')
    <3>1. Hook(o, r.run, r.gen) \in OutcomeReports
      BY <2>2 DEF Outcomes, Hook, OutcomeReports, ReportType, Derived, Decided, ByLabel, AnyEvent, Events
    <3> QED BY <1>t, <2>3, <3>1 DEF Reports, Reported
  <2>4. CASE Pushes(r) \/ Merges(r) \/ Dies(r) \/ Steps(r)
    BY <1>t, <2>4 DEF Reported, Pushes, Merges, Dies, Steps
  <2> QED BY <2>1, <2>3, <2>4 DEF Session
<1> QED BY <1>1, <1>2, <1>3, <1>4, <1>5, <1>6 DEF Next, Worker

LEMMA HeardLeft ==
  ASSUME HeardInv, TypeInv, [Next]_allVars
  PROVE  Reported(job'.left)
<1>t. ItemTypeOK /\ job \in JobType /\ Reported(job.left) /\ Reported(posted)
  BY DEF HeardInv, TypeInv, TypeOK, ItemTypeOK
<1>e. Reported(<<>>)
  BY DEF Reported
<1>n. ASSUME job' = NoJob  PROVE Reported(job'.left)
  BY <1>n, <1>e, NoJobIs
<1>s. ASSUME job' = job  PROVE Reported(job'.left)
  BY <1>s, <1>t
<1>c. ASSUME Carries  PROVE Reported(job'.left)
  BY <1>c, <1>t DEF Carries
<1>h. ASSUME NEW h \in hooks, TakeHook(h) \/ TakeOutcome(h)  PROVE Reported(job'.left)
  BY <1>h, <1>e, HookBegins
<1>1. CASE WebhookStep
  <2>1. CASE ReadFacts
    BY <1>t, <2>1, GateMoves DEF GatedAs
  <2>2. CASE WriteLabel \/ EndWatch \/ ArmFire \/ FireSent \/ AfterMergeFix \/ CountMergeFix \/ Comment
    BY <1>t, <1>c, <2>2, RuleMoves DEF GoesTo
  <2>3. CASE AfterEvent
    BY <1>t, <1>c, <2>3, AfterMoves DEF GoesTo
  <2>4. CASE ReturnHook
    BY <1>n, <2>4 DEF ReturnHook
  <2> QED BY <1>1, <1>h, <2>1, <2>2, <2>3, <2>4 DEF WebhookStep
<1>2. CASE WatchdogStep
  <2>1. CASE AlarmForNothing \/ DropDeferred
    BY <1>s, <2>1 DEF AlarmForNothing, DropDeferred
  <2>2. CASE ReplayApplied \/ AfterExpiry \/ ReturnAlarm
    BY <1>n, <2>2 DEF ReplayApplied, AfterExpiry, ReturnAlarm
  <2>3. CASE SendDeferred
    BY <1>t, <1>e, <2>3, FireAgainMoves DEF SendDeferred
  <2>4. CASE StartExpiry
    <3>1. CASE job' = AlarmJob("expire")
      BY <1>e, <3>1, NoJobIs DEF AlarmJob, NoJob
    <3>2. CASE job' = [AlarmJob("recover") EXCEPT !.left = posted]
      BY <1>t, <3>2 DEF AlarmJob, NoJob
    <3> QED BY <2>4, <3>1, <3>2 DEF StartExpiry
  <2>5. CASE Replay
    BY <2>5, ReplayBegins
  <2>6. CASE ReplayNotApplied
    BY <1>t, <2>6 DEF ReplayNotApplied, BackToExpiry, NoJob
  <2>7. CASE RetryOnce
    <3>1. CASE job' = FireAgain("retry", TRUE)
      BY <1>t, <1>e, <3>1, FireAgainMoves
    <3>2. CASE job' = BackToExpiry("expire")
      BY <1>t, <3>2 DEF BackToExpiry, NoJob
    <3> QED BY <2>7, <3>1, <3>2 DEF RetryOnce
  <2>8. CASE Expire
    <3> DEFINE j == [job EXCEPT !.seen = labels]
    <3>1. j \in JobType /\ j.left = job.left /\ job' = ApplyEvent(j, "WATCHDOG_EXPIRED", "expiry")
      BY <1>t, <2>8 DEF Expire, ItemTypeOK, JobType
    <3> HIDE DEF j
    <3>2. job'.left = job.left
      BY <3>1, ApplyEventMoves
    <3> QED BY <1>t, <3>2
  <2>9. CASE AfterFiredAgain
    BY <1>t, <1>c, <2>9, RuleMoves DEF GoesTo
  <2> QED BY <1>2, <2>1, <2>2, <2>3, <2>4, <2>5, <2>6, <2>7, <2>8, <2>9 DEF WatchdogStep
<1>3. CASE SignalStep
  <2>1. ASSUME NEW s \in hooks, IgnoreSignal(s) \/ Heartbeat(s) \/ Completion(s)
        PROVE  Reported(job'.left)
    BY <1>s, <2>1 DEF IgnoreSignal, Heartbeat, Completion
  <2>2. ASSUME NEW s \in hooks, EndFire(s)  PROVE Reported(job'.left)
    BY <1>t, <1>e, <2>2 DEF EndFire, NoJob
  <2> QED BY <1>3, <1>h, <1>n, <2>1, <2>2 DEF SignalStep, ReturnOutcome
<1>4. CASE Failures
  <2>1. CASE Throws
    BY <1>n, <1>e, <2>1 DEF Throws, ThrowHook, ThrowAlarm, ThrowReplay, BackToExpiry, NoJob
  <2>2. CASE Crashes
    BY <1>n, <2>2 DEF Crashes, CrashHook, CrashAlarm
  <2>3. CASE Refused
    BY <1>n, <1>t, <2>3 DEF Refused, RefuseHook, RefuseAlarm, BackToExpiry, NoJob
  <2>4. CASE Limited
    BY <1>t, <1>c, <2>4, RuleMoves DEF Limited, GoesTo
  <2>5. CASE Unheard \/ GivesUp \/ Loses
    BY <1>s, <2>5 DEF Unheard, LostAnswer, GivesUp, GiveUp, Loses, storage
  <2>6. CASE SendDeferredUnread
    BY <1>t, <1>e, <2>6, FireAgainMoves DEF SendDeferredUnread
  <2>7. CASE StartExpiryUnread
    BY <1>e, <2>7 DEF StartExpiryUnread, AlarmJob, NoJob
  <2> QED BY <1>4, <2>1, <2>2, <2>3, <2>4, <2>5, <2>6, <2>7 DEF Failures, Unread
<1>5. CASE Alarm \/ UNCHANGED allVars
  BY <1>s, <1>5 DEF Alarm, Ring, allVars, vars
<1>6. CASE People \/ GitHubWorks \/ Sessions
  BY <1>s, <1>6, OutsideJob DEF storage
<1> QED BY <1>1, <1>2, <1>3, <1>4, <1>5, <1>6 DEF Next, Worker

LEMMA HeardStep ==
  ASSUME HeardInv, TypeInv, [Next]_allVars
  PROVE  HeardInv'
BY HeardHooks, HeardPosted, HeardLeft DEF HeardInv

----------------------------------------------------------------------------
(* Reviews: ReviewAlone is inductive.                                      *)

(* It looks at the watch through ReviewOut, and only a request of these    *)
(* two continuations has anything to keep.                                 *)
OfReview(then) == then \in {"review", "done"}

LEMMA NoReviewAsked ==
  ASSUME ~OfReview(job'.then)
  PROVE  ReviewAlone'
BY DEF ReviewAlone, OfReview

LEMMA ReviewGoesOn ==
  ASSUME ReviewAlone, Carries, ReviewOut' => ReviewOut,
         Applies(job)' => Applies(job), job'.pc = "write" => job.pc = "write"
  PROVE  ReviewAlone'
BY DEF ReviewAlone, Carries, Applies

LEMMA ReviewBegins ==
  ASSUME Handling(job'), UNCHANGED pending
  PROVE  ReviewAlone'
BY DEF ReviewAlone, ReviewOut, Handling, HookThens, Applies

LEMMA ReviewStands ==
  ASSUME ReviewAlone, job' = job, pending'.run \in {NoRun, pending.run}
  PROVE  ReviewAlone'
BY DEF ReviewAlone, ReviewOut, Applies, NoRun

LEMMA WebhookStepReview ==
  ASSUME ReviewAlone, HeardInv, TypeInv, WebhookStep
  PROVE  ReviewAlone'
<1>t. ItemTypeOK /\ job \in JobType
  BY DEF TypeInv, TypeOK, ItemTypeOK
<1>w. UNCHANGED watch => (ReviewOut' <=> ReviewOut)
  BY DEF watch, ReviewOut
<1>1. ASSUME NEW h \in hooks, TakeHook(h)  PROVE ReviewAlone'
  <2>1. UNCHANGED pending
    BY <1>1 DEF TakeHook, watch
  <2> QED BY <1>1, <2>1, HookBegins, ReviewBegins
<1>2. CASE ReadFacts
  <2>1. job.pc = "facts" /\ GatedAs(job')
    BY <1>t, <1>2, GateMoves
  <2>2. ReviewOut' <=> ReviewOut
    BY <1>w, <1>2 DEF ReadFacts
  <2> QED BY <2>1, <2>2 DEF ReviewAlone, GatedAs, GateThens, Applies
<1>3. CASE WriteLabel
  <2>1. GoesTo("write", "write") /\ UNCHANGED watch
    BY <1>t, <1>3, RuleMoves DEF WriteLabel
  <2> QED BY <1>w, <2>1, ReviewGoesOn DEF GoesTo, Applies
<1>4. CASE EndWatch
  <2>1. GoesTo("write", "after") /\ ~ReviewOut'
    BY <1>t, <1>4, RuleMoves DEF EndWatch, ClearPendingFire, NoFire, NoRun, ReviewOut
  <2> QED BY <2>1, ReviewGoesOn DEF GoesTo, Applies
<1>5. CASE ArmFire
  <2>1. GoesTo("write", "send") /\ job.then # "review"
    BY <1>t, <1>5, RuleMoves DEF ArmFire, ReviewAlone, Applies
  <2> QED BY <2>1 DEF ReviewAlone, GoesTo, Carries
<1>6. CASE FireSent \/ AfterMergeFix \/ CountMergeFix \/ Comment
  <2>1. \/ GoesTo("send", "after") \/ GoesTo("after", "count")
        \/ GoesTo("count", "comment") \/ GoesTo("comment", "return")
    BY <1>t, <1>6, RuleMoves
  <2>2. UNCHANGED watch
    BY <1>6 DEF FireSent, AfterMergeFix, CountMergeFix, Comment
  <2> QED BY <1>w, <2>1, <2>2, ReviewGoesOn DEF GoesTo, Applies
<1>7. CASE AfterEvent
  <2>1. \/ GoesTo("after", "comment") \/ GoesTo("after", "return") \/ GoesTo("after", "facts")
    BY <1>t, <1>7, AfterMoves
  <2>2. UNCHANGED watch
    BY <1>7 DEF AfterEvent
  <2> QED BY <1>w, <2>1, <2>2, ReviewGoesOn DEF GoesTo, Applies
<1>8. CASE ReturnHook
  BY <1>8, NoJobIs, NoReviewAsked DEF ReturnHook, OfReview
<1> QED BY <1>1, <1>2, <1>3, <1>4, <1>5, <1>6, <1>7, <1>8 DEF WebhookStep

LEMMA WatchdogStepReview ==
  ASSUME ReviewAlone, HeardInv, TypeInv, WatchdogStep
  PROVE  ReviewAlone'
<1>t. ItemTypeOK /\ job \in JobType
  BY DEF TypeInv, TypeOK, ItemTypeOK
<1>1. CASE AlarmForNothing \/ DropDeferred
  BY <1>1, ReviewStands DEF AlarmForNothing, DropDeferred, ClearPendingFire, NoFire
<1>2. CASE SendDeferred
  <2>1. job'.then = "deferred"
    BY <1>t, <1>2, FireAgainMoves DEF SendDeferred
  <2> QED BY <2>1, NoReviewAsked DEF OfReview
<1>3. CASE StartExpiry \/ ReplayNotApplied
  <2>1. AlarmJob("expire").then = "none" /\ [AlarmJob("recover") EXCEPT !.left = posted].then = "none"
    BY DEF AlarmJob, NoJob
  <2>2. BackToExpiry("recover").then = "none"
    BY DEF BackToExpiry, NoJob
  <2>3. job'.then = "none"
    BY <1>3, <2>1, <2>2 DEF StartExpiry, ReplayNotApplied
  <2> QED BY <2>3, NoReviewAsked DEF OfReview
<1>4. CASE Replay
  BY <1>4, ReplayBegins, ReviewBegins DEF Replay, watch
<1>5. CASE ReplayApplied \/ AfterExpiry \/ ReturnAlarm
  BY <1>5, NoJobIs, NoReviewAsked DEF ReplayApplied, AfterExpiry, ReturnAlarm, OfReview
<1>6. CASE RetryOnce
  <2>1. job' = FireAgain("retry", TRUE) => job'.then = "retry"
    BY <1>t, FireAgainMoves
  <2>2. job' = BackToExpiry("expire") => job'.then = "none"
    BY DEF BackToExpiry, NoJob
  <2> QED BY <1>6, <2>1, <2>2, NoReviewAsked DEF RetryOnce, OfReview
<1>7. CASE Expire
  <2> DEFINE j == [job EXCEPT !.seen = labels]
  <2>1. j \in JobType /\ job' = ApplyEvent(j, "WATCHDOG_EXPIRED", "expiry")
    BY <1>t, <1>7 DEF Expire, ItemTypeOK, JobType
  <2> HIDE DEF j
  <2>2. job'.then = "expiry"
    BY <2>1, ApplyEventMoves
  <2> QED BY <2>2, NoReviewAsked DEF OfReview
<1>8. CASE AfterFiredAgain
  <2>1. job'.then \in {"deferred", "retry"}
    BY <1>t, <1>8, RuleMoves DEF AfterFiredAgain, GoesTo, Carries
  <2> QED BY <2>1, NoReviewAsked DEF OfReview
<1> QED BY <1>1, <1>2, <1>3, <1>4, <1>5, <1>6, <1>7, <1>8 DEF WatchdogStep

LEMMA SignalStepReview ==
  ASSUME ReviewAlone, HeardInv, TypeInv, SignalStep
  PROVE  ReviewAlone'
<1>1. ASSUME NEW s \in hooks, IgnoreSignal(s) \/ Heartbeat(s) \/ Completion(s)  PROVE ReviewAlone'
  <2>1. job' = job /\ pending'.run \in {NoRun, pending.run}
    <3>1. CASE IgnoreSignal(s) \/ Completion(s)
      BY <3>1 DEF IgnoreSignal, Completion, ClearPendingFire, NoFire, watch
    <3>2. CASE Heartbeat(s)
      BY <3>2 DEF Heartbeat, SetPendingFire, TypeInv, TypeOK, ItemTypeOK, FireType
    <3> QED BY <1>1, <3>1, <3>2
  <2> QED BY <2>1, ReviewStands
<1>2. ASSUME NEW s \in hooks, TakeOutcome(s)  PROVE ReviewAlone'
  <2>1. UNCHANGED pending
    BY <1>2 DEF TakeOutcome, watch
  <2> QED BY <1>2, <2>1, HookBegins, ReviewBegins
<1>3. ASSUME NEW s \in hooks, EndFire(s)  PROVE ReviewAlone'
  BY <1>3, NoReviewAsked DEF EndFire, NoJob, OfReview
<1>4. CASE ReturnOutcome
  BY <1>4, NoJobIs, NoReviewAsked DEF ReturnOutcome, OfReview
<1> QED BY <1>1, <1>2, <1>3, <1>4 DEF SignalStep

LEMMA FailuresReview ==
  ASSUME ReviewAlone, TypeInv, Failures
  PROVE  ReviewAlone'
<1>t. ItemTypeOK /\ job \in JobType
  BY DEF TypeInv, TypeOK, ItemTypeOK
<1>1. CASE Throws \/ Crashes \/ Refused \/ StartExpiryUnread
  <2>1. job'.then = "none"
    BY <1>1, NoJobIs
    DEF Throws, ThrowHook, ThrowAlarm, ThrowReplay, Crashes, CrashHook, CrashAlarm, Refused, RefuseHook,
        RefuseAlarm, StartExpiryUnread, AlarmJob, BackToExpiry, NoJob
  <2> QED BY <2>1, NoReviewAsked DEF OfReview
<1>2. CASE Limited
  <2>1. GoesTo("send", "after") /\ pending'.run = job.rule.run
    BY <1>t, <1>2, RuleMoves DEF Limited, FireLimited, SetPendingFire, Deferral, NoFire
  <2>2. job.then = "review" => ~ReviewOut'
    BY <2>1 DEF ReviewAlone, GoesTo, Applies, ReviewOut, NoRun
  <2> QED BY <2>1, <2>2 DEF ReviewAlone, GoesTo, Carries, Applies
<1>3. CASE Unheard \/ GivesUp \/ Loses
  BY <1>3, ReviewStands DEF Unheard, LostAnswer, GivesUp, GiveUp, Loses, storage, watch
<1>4. CASE SendDeferredUnread
  <2>1. job'.then = "deferred"
    BY <1>t, <1>4, FireAgainMoves DEF SendDeferredUnread
  <2> QED BY <2>1, NoReviewAsked DEF OfReview
<1> QED BY <1>1, <1>2, <1>3, <1>4 DEF Failures, Unread

LEMMA ReviewStep ==
  ASSUME ReviewAlone, HeardInv, TypeInv, [Next]_allVars
  PROVE  ReviewAlone'
<1>1. CASE Worker
  BY <1>1, WebhookStepReview, WatchdogStepReview, SignalStepReview DEF Worker
<1>2. CASE Alarm
  <2>1. job' = job /\ pending'.run = pending.run
    BY <1>2 DEF Alarm, Ring, TypeInv, TypeOK, ItemTypeOK, FireType
  <2> QED BY <2>1, ReviewStands
<1>3. CASE People \/ GitHubWorks \/ Sessions \/ UNCHANGED allVars
  BY <1>3, OutsideJob, ReviewStands DEF storage, watch, allVars, vars
<1>4. CASE Failures
  BY <1>4, FailuresReview
<1> QED BY <1>1, <1>2, <1>3, <1>4 DEF Next

(* Only ArmFire makes a fire.                                              *)
LEMMA OnlyArmFireFires ==
  ASSUME [Next]_allVars, fires' # fires
  PROVE  ArmFire /\ Worker
<1>1. CASE Worker
  BY <1>1
  DEF Worker, WebhookStep, TakeHook, ReadFacts, WriteLabel, EndWatch, FireSent, AfterEvent,
      AfterMergeFix, CountMergeFix, Comment, ReturnHook, WatchdogStep, AlarmForNothing, DropDeferred,
      SendDeferred, StartExpiry, Replay, ReplayApplied, ReplayNotApplied, RetryOnce, Expire, AfterExpiry,
      AfterFiredAgain, ReturnAlarm, SignalStep, IgnoreSignal, Heartbeat, Completion, TakeOutcome,
      EndFire, ReturnOutcome
<1>2. CASE Alarm \/ UNCHANGED allVars
  BY <1>2 DEF Alarm, Ring, allVars, vars
<1>3. CASE People \/ GitHubWorks \/ Sessions
  BY <1>3, OutsideJob
<1>4. CASE Failures
  BY <1>4
  DEF Failures, Throws, ThrowHook, ThrowAlarm, ThrowReplay, Crashes, CrashHook, CrashAlarm, Refused,
      RefuseHook, RefuseAlarm, Limited, FireLimited, Unheard, LostAnswer, Unread, SendDeferredUnread,
      StartExpiryUnread, GivesUp, GiveUp, Loses
<1> QED BY <1>1, <1>2, <1>3, <1>4 DEF Next

----------------------------------------------------------------------------
(* The one retry: RetryInv is inductive, beside JobInv and WatchInv.       *)

(* A step that makes no fire, by what becomes of the request.              *)
LEMMA RetryGoesOn ==
  ASSUME RetryInv, retries' = retries, pending' \in {pending, NoFire}, Carries,
         job'.pc = "write" => job.pc = "write",
         job'.pc # "send", job'.pc = "recover" => job.pc = "recover"
  PROVE  RetryInv'
<1>1. NoFire.run = NoRun /\ NoFire.due = FALSE
  BY DEF NoFire
<1> QED BY <1>1 DEF RetryInv, RetryBudget, Untried, Carries

LEMMA RetryAside ==
  ASSUME RetryInv, retries' = retries, pending' \in {pending, NoFire},
         job'.pc \notin {"write", "send", "recover"}, ~job'.replays
  PROVE  RetryInv'
<1>1. NoFire.run = NoRun /\ NoFire.due = FALSE
  BY DEF NoFire
<1> QED BY <1>1 DEF RetryInv, RetryBudget, Untried

LEMMA RetryNoJob ==
  ASSUME RetryInv, retries' = retries, pending' \in {pending, NoFire}, job' = NoJob
  PROVE  RetryInv'
BY RetryAside, NoJobIs

LEMMA RetryStands ==
  ASSUME RetryInv, retries' = retries, job' = job,
         \/ pending' \in {pending, NoFire}
         \/ /\ pending'.run = pending.run /\ pending'.retried = pending.retried
            /\ pending'.due => pending.run # NoRun
  PROVE  RetryInv'
<1>1. NoFire.run = NoRun /\ NoFire.due = FALSE
  BY DEF NoFire
<1> QED BY <1>1 DEF RetryInv, RetryBudget, Untried

LEMMA RetryBegins ==
  ASSUME RetryInv, retries' = retries, pending' = pending, Handling(job'),
         job'.replays => job'.old = pending
  PROVE  RetryInv'
BY DEF RetryInv, RetryBudget, Untried, Handling, HookThens

(* The comments of the pending fire are looked for.                        *)
LEMMA RetryLooks ==
  ASSUME RetryInv, retries' = retries, pending' = pending,
         job'.pc \in {"recover", "expire"}, ~job'.replays,
         job'.old = pending \/ (job.replays /\ job'.old = job.old)
  PROVE  RetryInv'
BY DEF RetryInv, RetryBudget, Untried

(* ArmFire: what it arms is untried, or is the retry.                      *)
LEMMA ArmFireRetry ==
  ASSUME RetryInv, JobInv, TypeInv, ArmFire, Remember
  PROVE  RetryInv'
<1>t. ItemTypeOK /\ job \in JobType /\ retries \in Nat
  BY DEF TypeInv, TypeOK, ItemTypeOK
<1>1. GoesTo("write", "send")
  BY <1>t, RuleMoves
<1>2. fires' # fires /\ job.rule.run # NoRun
  BY <1>t DEF ArmFire, ItemTypeOK
<1>3. /\ pending'.due = FALSE
      /\ pending'.run # NoRun => pending'.retried = job.retried
  <2> DEFINE fire == [NoFire EXCEPT !.run = job.rule.run, !.gen = fires + 1,
                                    !.cause = job.event, !.retried = job.retried]
  <2>1. CASE Watched(job)
    <3>1. pending' = [fire EXCEPT !.due = FALSE]
      BY <2>1 DEF ArmFire, SetPendingFire
    <3> QED BY <3>1 DEF NoFire
  <2>2. CASE ~Watched(job)
    BY <2>2 DEF ArmFire, ClearPendingFire, NoFire
  <2> QED BY <2>1, <2>2
<1>4. /\ job.then = "retry" => job.retried /\ retries' = retries + 1 /\ retries = 0
      /\ job.then = "deferred" => retries' = retries /\ (~job.retried => retries = 0)
      /\ job.then \notin {"deferred", "retry"} => retries' = 0 /\ ~job.retried
  BY <1>1, <1>2 DEF Remember, RetryInv, Untried, JobInv, RequestInv, GoesTo
<1>5. ~job.retried => retries' = 0
  BY <1>4
<1>6. retries' <= 1
  BY <1>t, <1>4 DEF RetryInv, RetryBudget
<1>7. job.replays => retries' = 0
  BY <1>4 DEF JobInv, RequestInv, OfExpiry, OfWatchdog
<1> QED BY <1>1, <1>3, <1>5, <1>6, <1>7 DEF RetryInv, RetryBudget, Untried, GoesTo, Carries

LEMMA WebhookStepRetry ==
  ASSUME RetryInv, JobInv, HeardInv, TypeInv, WebhookStep, Remember
  PROVE  RetryInv'
<1>t. ItemTypeOK /\ job \in JobType
  BY DEF TypeInv, TypeOK, ItemTypeOK
<1>r. fires' = fires => retries' = retries
  BY DEF Remember
<1>1. ASSUME NEW h \in hooks, TakeHook(h)  PROVE RetryInv'
  <2>1. pending' = pending /\ fires' = fires
    BY <1>1 DEF TakeHook, watch
  <2> QED BY <1>1, <1>r, <2>1, HookBegins, RetryBegins
<1>2. CASE ReadFacts
  <2>1. GatedAs(job') /\ pending' = pending /\ fires' = fires
    BY <1>t, <1>2, GateMoves DEF ReadFacts, watch
  <2>2. /\ job'.pc \notin {"send", "recover"} /\ job'.replays = job.replays /\ job'.old = job.old
        /\ job'.pc = "write" => job'.then \notin {"deferred", "retry"}
    BY <2>1 DEF GatedAs, GateThens
  <2> QED BY <1>r, <2>1, <2>2 DEF RetryInv, RetryBudget, Untried
<1>3. CASE WriteLabel \/ EndWatch \/ FireSent \/ AfterMergeFix \/ CountMergeFix \/ Comment
  <2>1. \/ GoesTo("write", "write") \/ GoesTo("write", "after")
        \/ GoesTo("send", "after") \/ GoesTo("after", "count")
        \/ GoesTo("count", "comment") \/ GoesTo("comment", "return")
    BY <1>t, <1>3, RuleMoves
  <2>2. pending' \in {pending, NoFire} /\ fires' = fires
    BY <1>3 DEF WriteLabel, EndWatch, ClearPendingFire, FireSent, AfterMergeFix, CountMergeFix, Comment, watch
  <2> QED BY <1>r, <2>1, <2>2, RetryGoesOn DEF GoesTo
<1>4. CASE ArmFire
  BY <1>4, ArmFireRetry
<1>5. CASE AfterEvent
  <2>1. \/ GoesTo("after", "comment") \/ GoesTo("after", "return") \/ GoesTo("after", "facts")
    BY <1>t, <1>5, AfterMoves
  <2>2. pending' = pending /\ fires' = fires
    BY <1>5 DEF AfterEvent, watch
  <2> QED BY <1>r, <2>1, <2>2, RetryGoesOn DEF GoesTo
<1>6. CASE ReturnHook
  <2>1. pending' \in {pending, NoFire} /\ fires' = fires /\ job' = NoJob
    BY <1>6 DEF ReturnHook, ClearPendingFire, KeepPendingFire
  <2> QED BY <1>r, <2>1, RetryNoJob
<1> QED BY <1>1, <1>2, <1>3, <1>4, <1>5, <1>6 DEF WebhookStep

(* A deferred fire is taken up: untried, unless it was the retry.          *)
LEMMA TakeUpRetry ==
  ASSUME RetryInv, TypeInv, retries' = retries, pending' = pending, pending.due,
         job' = FireAgain("deferred", pending.retried)
  PROVE  RetryInv'
<1>1. ItemTypeOK
  BY DEF TypeInv, TypeOK
<1>2. /\ job'.pc = "write" /\ job'.replays = FALSE /\ job'.then = "deferred"
      /\ job'.retried = pending.retried
  BY <1>1, FireAgainMoves
<1> QED BY <1>2 DEF RetryInv, RetryBudget, Untried

LEMMA WatchdogStepRetry ==
  ASSUME RetryInv, JobInv, HeardInv, TypeInv, WatchdogStep, Remember
  PROVE  RetryInv'
<1>t. ItemTypeOK /\ job \in JobType
  BY DEF TypeInv, TypeOK, ItemTypeOK
<1>f. fires' = fires
  BY DEF WatchdogStep, AlarmForNothing, DropDeferred, SendDeferred, StartExpiry, Replay, ReplayApplied,
         ReplayNotApplied, RetryOnce, Expire, AfterExpiry, AfterFiredAgain, ReturnAlarm
<1>r. retries' = retries
  BY <1>f DEF Remember
<1>1. CASE AlarmForNothing \/ DropDeferred
  <2>1. job' = job /\ pending' \in {pending, NoFire}
    BY <1>1 DEF AlarmForNothing, DropDeferred, ClearPendingFire
  <2> QED BY <1>r, <2>1, RetryStands
<1>2. CASE SendDeferred
  BY <1>r, <1>2, TakeUpRetry DEF SendDeferred, watch
<1>3. CASE StartExpiry
  <2>1. pending' = pending
    BY <1>3 DEF StartExpiry, watch
  <2>2. job'.pc \in {"recover", "expire"} /\ job'.replays = FALSE /\ job'.old = pending
    <3>1. CASE job' = AlarmJob("expire")
      BY <3>1 DEF AlarmJob, NoJob
    <3>2. CASE job' = [AlarmJob("recover") EXCEPT !.left = posted]
      BY <3>2 DEF AlarmJob, NoJob
    <3> QED BY <1>3, <3>1, <3>2 DEF StartExpiry
  <2> QED BY <1>r, <2>1, <2>2, RetryLooks
<1>4. CASE Replay
  <2>1. pending' = pending
    BY <1>4 DEF Replay, watch
  <2>2. Handling(job') /\ job'.old = pending
    BY <1>4, ReplayBegins
  <2> QED BY <1>r, <2>1, <2>2, RetryBegins
<1>5. CASE ReplayApplied \/ AfterExpiry \/ ReturnAlarm
  <2>1. job' = NoJob /\ pending' \in {pending, NoFire}
    BY <1>5 DEF ReplayApplied, AfterExpiry, ReturnAlarm, ClearPendingFire, KeepPendingFire
  <2> QED BY <1>r, <2>1, RetryNoJob
<1>6. CASE ReplayNotApplied
  <2>1. pending' = pending /\ job.replays /\ job' = BackToExpiry("recover")
    BY <1>6 DEF ReplayNotApplied, watch
  <2>2. job'.pc = "recover" /\ job'.replays = FALSE /\ job'.old = job.old
    BY <2>1, BackMoves
  <2> QED BY <1>r, <2>1, <2>2, RetryLooks
<1>7. CASE RetryOnce
  <2>1. pending' = pending /\ job.pc = "recover"
    BY <1>7 DEF RetryOnce, watch
  <2>2. CASE job' = FireAgain("retry", TRUE) /\ ~job.old.retried
    <3>1. /\ job'.pc = "write" /\ job'.replays = FALSE /\ job'.then = "retry"
          /\ job'.rule.run = pending.run
      BY <1>t, <2>2, FireAgainMoves
    <3> QED BY <1>r, <2>1, <2>2, <3>1 DEF RetryInv, RetryBudget, Untried
  <2>3. CASE job' = BackToExpiry("expire")
    <3>1. job'.pc = "expire" /\ job'.replays = FALSE
      BY <2>3, BackMoves
    <3> QED BY <1>r, <2>1, <3>1, RetryAside
  <2> QED BY <1>7, <2>2, <2>3 DEF RetryOnce
<1>8. CASE Expire
  <2> DEFINE j == [job EXCEPT !.seen = labels]
  <2>1. /\ j \in JobType /\ job' = ApplyEvent(j, "WATCHDOG_EXPIRED", "expiry")
        /\ j.replays = job.replays /\ j.old = job.old
        /\ pending' = pending
    BY <1>t, <1>8 DEF Expire, ItemTypeOK, JobType, watch
  <2> HIDE DEF j
  <2>2. /\ job'.then = "expiry" /\ job'.pc \in {"write", "after"}
        /\ job'.replays = job.replays /\ job'.old = job.old
    BY <2>1, ApplyEventMoves
  <2> QED BY <1>r, <2>1, <2>2 DEF RetryInv, RetryBudget, Untried
<1>9. CASE AfterFiredAgain
  <2>1. GoesTo("after", "comment") \/ GoesTo("after", "return")
    BY <1>t, <1>9, RuleMoves
  <2>2. pending' = pending
    BY <1>9 DEF AfterFiredAgain, watch
  <2> QED BY <1>r, <2>1, <2>2, RetryGoesOn DEF GoesTo
<1> QED BY <1>1, <1>2, <1>3, <1>4, <1>5, <1>6, <1>7, <1>8, <1>9 DEF WatchdogStep

LEMMA SignalStepRetry ==
  ASSUME RetryInv, HeardInv, TypeInv, SignalStep, Remember
  PROVE  RetryInv'
<1>f. fires' = fires
  BY DEF SignalStep, IgnoreSignal, Heartbeat, Completion, TakeOutcome, EndFire, ReturnOutcome
<1>r. retries' = retries
  BY <1>f DEF Remember
<1>1. ASSUME NEW s \in hooks, IgnoreSignal(s) \/ Completion(s)  PROVE RetryInv'
  <2>1. job' = job /\ pending' \in {pending, NoFire}
    BY <1>1 DEF IgnoreSignal, Completion, ClearPendingFire, watch
  <2> QED BY <1>r, <2>1, RetryStands
<1>2. ASSUME NEW s \in hooks, Heartbeat(s)  PROVE RetryInv'
  <2>1. /\ job' = job
        /\ pending'.run = pending.run /\ pending'.retried = pending.retried /\ pending'.due = FALSE
    BY <1>2 DEF Heartbeat, SetPendingFire, TypeInv, TypeOK, ItemTypeOK, FireType
  <2> QED BY <1>r, <2>1, RetryStands
<1>3. ASSUME NEW s \in hooks, TakeOutcome(s)  PROVE RetryInv'
  <2>1. pending' = pending
    BY <1>3 DEF TakeOutcome, watch
  <2> QED BY <1>3, <1>r, <2>1, HookBegins, RetryBegins
<1>4. ASSUME NEW s \in hooks, EndFire(s)  PROVE RetryInv'
  <2>1. job'.pc \in {"recover", "expire"} /\ job'.replays = FALSE /\ job'.old = pending
    BY <1>4 DEF EndFire, NoJob
  <2>2. pending' = pending
    BY <1>4 DEF EndFire, watch
  <2> QED BY <1>r, <2>1, <2>2, RetryLooks
<1>5. CASE ReturnOutcome
  <2>1. job' = NoJob /\ pending' \in {pending, NoFire}
    BY <1>5 DEF ReturnOutcome, ClearPendingFire, KeepPendingFire
  <2> QED BY <1>r, <2>1, RetryNoJob
<1> QED BY <1>1, <1>2, <1>3, <1>4, <1>5 DEF SignalStep

LEMMA FailuresRetry ==
  ASSUME RetryInv, JobInv, TypeInv, Failures
  PROVE  RetryInv'
<1>t. ItemTypeOK /\ job \in JobType /\ retries' = retries
  BY DEF TypeInv, TypeOK, ItemTypeOK, Failures, history
<1>1. CASE ThrowHook \/ ThrowAlarm \/ CrashHook \/ CrashAlarm \/ RefuseHook
  <2>1. job' = NoJob /\ pending' \in {pending, NoFire}
    BY <1>1 DEF ThrowHook, ThrowAlarm, CrashHook, CrashAlarm, RefuseHook, ClearPendingFire, watch
  <2> QED BY <1>t, <2>1, RetryNoJob
<1>2. CASE ThrowReplay
  <2>1. pending' = pending /\ job.replays
    BY <1>2 DEF ThrowReplay, watch
  <2>2. CASE job' = [BackToExpiry("recover") EXCEPT !.left = <<>>]
    <3>1. job'.pc = "recover" /\ job'.replays = FALSE /\ job'.old = job.old
      BY <2>2, BackMoves
    <3> QED BY <1>t, <2>1, <3>1, RetryLooks
  <2>3. CASE job' = NoJob
    BY <1>t, <2>1, <2>3, RetryNoJob
  <2> QED BY <1>2, <2>2, <2>3 DEF ThrowReplay
<1>3. CASE RefuseAlarm
  <2>1. pending' = NoFire
    BY <1>3 DEF RefuseAlarm, ClearPendingFire
  <2>2. CASE job' = BackToExpiry("expire")
    <3>1. job'.pc = "expire" /\ job'.replays = FALSE
      BY <2>2, BackMoves
    <3> QED BY <1>t, <2>1, <3>1, RetryAside
  <2>3. CASE job' = NoJob
    BY <1>t, <2>1, <2>3, RetryNoJob
  <2> QED BY <1>3, <2>2, <2>3 DEF RefuseAlarm
<1>4. CASE Limited
  <2>1. GoesTo("send", "after")
    BY <1>t, <1>4, RuleMoves DEF Limited
  <2>2. pending'.due = FALSE /\ pending'.retried = job.retried
    BY <1>4 DEF Limited, FireLimited, SetPendingFire, Deferral, NoFire
  <2>3. job.replays => ~job.retried
    BY DEF JobInv, RequestInv, OfExpiry, OfWatchdog
  <2> QED BY <1>t, <2>1, <2>2, <2>3 DEF RetryInv, RetryBudget, Untried, GoesTo, Carries
<1>5. CASE Unheard \/ GivesUp \/ Loses
  <2>1. job' = job /\ pending' = pending
    BY <1>5 DEF Unheard, LostAnswer, GivesUp, GiveUp, Loses, storage, watch
  <2> QED BY <1>t, <2>1, RetryStands
<1>6. CASE SendDeferredUnread
  BY <1>t, <1>6, TakeUpRetry DEF SendDeferredUnread, watch
<1>7. CASE StartExpiryUnread
  <2>1. job'.pc = "recover" /\ job'.replays = FALSE /\ job'.old = pending
    BY <1>7 DEF StartExpiryUnread, AlarmJob, NoJob
  <2>2. pending' = pending
    BY <1>7 DEF StartExpiryUnread, watch
  <2> QED BY <1>t, <2>1, <2>2, RetryLooks
<1> QED BY <1>1, <1>2, <1>3, <1>4, <1>5, <1>6, <1>7 DEF Failures, Throws, Crashes, Refused, Unread

LEMMA RetryStep ==
  ASSUME RetryInv, JobInv, HeardInv, WatchInv, TypeInv, [Next]_allVars
  PROVE  RetryInv'
<1>1. CASE Worker
  BY <1>1, WebhookStepRetry, WatchdogStepRetry, SignalStepRetry DEF Worker
<1>2. CASE Alarm
  <2>1. /\ job' = job /\ retries' = retries
        /\ pending'.run = pending.run /\ pending'.retried = pending.retried
    BY <1>2 DEF Alarm, Ring, history, TypeInv, TypeOK, ItemTypeOK, FireType
  <2>2. pending.run # NoRun
    BY <1>2 DEF Alarm, Ring, WatchInv, AlarmForAFire
  <2> QED BY <2>1, <2>2, RetryStands
<1>3. CASE People \/ GitHubWorks \/ Sessions \/ UNCHANGED allVars
  <2>1. job' = job /\ pending' = pending /\ retries' = retries
    BY <1>3, OutsideJob DEF storage, watch, history, allVars, vars
  <2> QED BY <2>1, RetryStands
<1>4. CASE Failures
  BY <1>4, FailuresRetry
<1> QED BY <1>1, <1>2, <1>3, <1>4 DEF Next

----------------------------------------------------------------------------
(* The green commit: MergeInv is inductive, beside JobInv.                 *)

(* A fire of the merge gate's that is not recorded yet.                    *)
Unrecorded == job.then = "mergeFired" /\ job.pc = "after" /\ job.applied

(* No step but Push moves the head; CI's and people's do not move it back. *)
Forward == head' \in Nat /\ head' >= head

LEMMA MergeNumbers ==
  ASSUME TypeInv
  PROVE  /\ head \in Nat /\ mergeFiredFor \in Nat /\ job.head \in Nat /\ faults \in Nat
         /\ \A r \in runs : r.head \in Nat
BY DEF TypeInv, TypeOK, ItemTypeOK, JobType, SessionType

LEMMA MergeStands ==
  ASSUME MergeInv, TypeInv, Forward, job' = job, runs' \subseteq runs,
         mergeFiredFor' = mergeFiredFor, faults' = faults
  PROVE  MergeInv'
BY MergeNumbers DEF MergeInv, Forward, MergeRefiredOnce, JustRefired, Applies, Refired

LEMMA MergeGoesOn ==
  ASSUME MergeInv, TypeInv, Forward, Carries, ~Unrecorded, runs' \subseteq runs,
         Applies(job)' \/ job'.pc = "after" => Applies(job) \/ job.pc = "after",
         mergeFiredFor' = mergeFiredFor, faults' = faults
  PROVE  MergeInv'
BY MergeNumbers DEF MergeInv, Forward, MergeRefiredOnce, JustRefired, Applies, Refired, Carries, Unrecorded

LEMMA MergeAside ==
  ASSUME MergeInv, TypeInv, Forward, job'.head = 0, job'.then # "mergeFired", ~Unrecorded,
         runs' \subseteq runs, mergeFiredFor' = mergeFiredFor, faults' = faults
  PROVE  MergeInv'
BY MergeNumbers DEF MergeInv, Forward, MergeRefiredOnce, JustRefired, Applies, Refired, Unrecorded

LEMMA MergeNoJob ==
  ASSUME MergeInv, TypeInv, job' = NoJob, ~Unrecorded,
         UNCHANGED <<head, runs, mergeFiredFor, faults>>
  PROVE  MergeInv'
<1>1. job'.head = 0 /\ job'.then # "mergeFired"
  BY NoJobIs
<1> QED BY <1>1, MergeAside, MergeNumbers DEF Forward

LEMMA MergeBegins ==
  ASSUME MergeInv, TypeInv, Handling(job'), job.pc # "after",
         UNCHANGED <<head, runs, mergeFiredFor, faults>>
  PROVE  MergeInv'
<1>1. job'.head = 0 /\ job'.then # "mergeFired"
  BY DEF Handling, HookThens
<1> QED BY <1>1, MergeAside, MergeNumbers DEF Forward, Unrecorded

LEMMA WebhookStepMerge ==
  ASSUME MergeInv, JobInv, HeardInv, TypeInv, WebhookStep, faults' = faults
  PROVE  MergeInv'
<1>t. ItemTypeOK /\ job \in JobType /\ CountsTypeOK /\ head \in Nat
  BY DEF TypeInv, TypeOK, ItemTypeOK, CountsTypeOK
<1>f. head' = head => Forward
  BY <1>t DEF Forward
<1>1. ASSUME NEW h \in hooks, TakeHook(h)  PROVE MergeInv'
  <2>1. job.pc = "idle" /\ UNCHANGED <<head, runs>> /\ HandleEvent(Begin(h, "webhook"))
    BY <1>1, NoJobIs DEF TakeHook, Idle, github
  <2>2. mergeFiredFor' = mergeFiredFor
    BY <1>t, <2>1, BeginType, HandleEventCounts DEF ItemTypeOK, JobSources
  <2> QED BY <1>1, <2>1, <2>2, HookBegins, MergeBegins
<1>2. CASE ReadFacts
  <2>1. job.pc = "facts" /\ GatedAs(job') /\ UNCHANGED <<head, runs, mergeFiredFor>>
    BY <1>t, <1>2, GateMoves DEF ReadFacts, github, counts
  <2>2. job.then # "mergeFired" /\ job.head = 0
    BY <2>1 DEF JobInv, RequestInv, MergeInv
  <2> QED BY <2>1, <2>2, MergeNumbers
    DEF GatedAs, MergeInv, MergeRefiredOnce, JustRefired, Applies, Refired
<1>3. CASE WriteLabel \/ EndWatch \/ ArmFire \/ CountMergeFix \/ Comment
  <2>1. \/ GoesTo("write", "write") \/ GoesTo("write", "after") \/ GoesTo("write", "send")
        \/ GoesTo("count", "comment") \/ GoesTo("comment", "return")
    BY <1>t, <1>3, RuleMoves
  <2>2. UNCHANGED <<head, runs, mergeFiredFor>>
    BY <1>3 DEF WriteLabel, EndWatch, ArmFire, CountMergeFix, Comment, github, counts
  <2> QED BY <1>f, <2>1, <2>2, MergeGoesOn DEF GoesTo, Applies, Unrecorded
<1>4. CASE FireSent
  <2>1. GoesTo("send", "after") /\ UNCHANGED <<head, mergeFiredFor>>
    BY <1>t, <1>4, RuleMoves DEF FireSent, github, counts
  <2>2. \A r \in runs' : r \in runs \/ r = Started(FALSE)
    BY <1>4 DEF FireSent
  <2>3. /\ Started(FALSE).cause = job.event /\ Started(FALSE).head = job.head
        /\ job.applied
    BY <2>1 DEF Started, JobInv, RequestInv, GoesTo, Applies
  <2> DEFINE new == Started(FALSE)
  <2>4. new.head = job.head
    BY <2>3
  <2> HIDE DEF new
  <2>5. faults = 0 => \A r \in runs : Refired(r) => r.head <= mergeFiredFor
    BY <2>1 DEF MergeInv, JustRefired, GoesTo
  <2>6. Refired(new) => job.then = "mergeFired"
    BY <2>4 DEF Refired, MergeInv
  <2>7. faults = 0 /\ job.then = "mergeFired" => mergeFiredFor < job.head
    BY <2>1 DEF MergeInv, Applies, GoesTo
  <2>8. ASSUME faults = 0, NEW r \in runs', Refired(r)
        PROVE  r.head <= mergeFiredFor \/ (r = new /\ JustRefired(r)')
    BY <2>1, <2>2, <2>3, <2>4, <2>5, <2>6, <2>8 DEF new, JustRefired, GoesTo, Carries
  <2>9. ASSUME faults = 0, NEW r \in runs', NEW s \in runs', Refired(r), Refired(s), r.head = s.head
        PROVE  r = s
    <3>1. CASE r \in runs /\ s \in runs
      BY <2>9, <3>1 DEF MergeInv, MergeRefiredOnce, Refired
    <3>2. ASSUME NEW q \in runs, Refired(q), Refired(new)  PROVE q.head # new.head
      BY <2>4, <2>5, <2>6, <2>7, <2>9, <3>2, MergeNumbers
    <3> QED BY <2>2, <2>9, <3>1, <3>2 DEF new
  <2>10. job'.head = job.head /\ job'.then = job.then
    BY <2>1 DEF GoesTo, Carries
  <2> QED BY <2>1, <2>7, <2>8, <2>9, <2>10 DEF MergeInv, MergeRefiredOnce, Refired
<1>5. CASE AfterMergeFix
  <2>1. GoesTo("after", "count") /\ job.then = "mergeFix" /\ UNCHANGED <<head, runs, mergeFiredFor>>
    BY <1>t, <1>5, RuleMoves DEF AfterMergeFix, counts
  <2> QED BY <1>f, <2>1, MergeGoesOn DEF GoesTo, Applies, Unrecorded
<1>6. CASE AfterEvent
  <2>1. \/ GoesTo("after", "comment") \/ GoesTo("after", "return") \/ GoesTo("after", "facts")
    BY <1>t, <1>6, AfterMoves
  <2>2. UNCHANGED <<head, runs>>
    BY <1>6 DEF AfterEvent, github
  <2>3. CASE Unrecorded
    <3>1. mergeFiredFor' = job.head
      BY <1>6, <2>3
      DEF AfterEvent, AfterNothingApplied, AfterTail, AfterReviewLabel, AfterReviewFix, AfterFindings,
          AfterCapped, AfterPassed, AfterBlock, AfterMergeFired, AfterDone, After, Unrecorded
    <3>2. /\ job'.pc \notin {"write", "send", "after"} /\ job'.head = job.head /\ job'.then = job.then
      BY <2>1 DEF GoesTo, Carries
    <3>3. faults = 0 => \A r \in runs : Refired(r) => r.head <= job.head
      BY <2>3, MergeNumbers DEF MergeInv, JustRefired, Unrecorded
    <3> QED BY <2>2, <2>3, <3>1, <3>2, <3>3, MergeNumbers
      DEF MergeInv, MergeRefiredOnce, Applies, Refired, Unrecorded
  <2>4. CASE ~Unrecorded
    <3>1. mergeFiredFor' = mergeFiredFor
      BY <1>6, <2>4
      DEF AfterEvent, AfterNothingApplied, AfterTail, AfterReviewLabel, AfterReviewFix, AfterFindings,
          AfterCapped, AfterPassed, AfterBlock, AfterMergeFired, AfterDone, After, Unrecorded, counts
    <3> QED BY <1>f, <2>1, <2>2, <2>4, <3>1, MergeGoesOn DEF GoesTo, Applies
  <2> QED BY <2>3, <2>4
<1>7. CASE ReturnHook
  BY <1>7, MergeNoJob DEF ReturnHook, github, counts, Unrecorded
<1> QED BY <1>1, <1>2, <1>3, <1>4, <1>5, <1>6, <1>7 DEF WebhookStep

LEMMA WatchdogStepMerge ==
  ASSUME MergeInv, JobInv, HeardInv, TypeInv, WatchdogStep, faults' = faults
  PROVE  MergeInv'
<1>t. ItemTypeOK /\ job \in JobType /\ CountsTypeOK /\ head \in Nat
  BY DEF TypeInv, TypeOK, ItemTypeOK, CountsTypeOK
<1>u. UNCHANGED <<head, runs>>
  BY DEF WatchdogStep, AlarmForNothing, DropDeferred, SendDeferred, StartExpiry, Replay, ReplayApplied,
         ReplayNotApplied, RetryOnce, Expire, AfterExpiry, AfterFiredAgain, ReturnAlarm, github
<1>f. Forward
  BY <1>t, <1>u DEF Forward
<1>1. CASE AlarmForNothing \/ DropDeferred
  BY <1>1, <1>f, <1>u, MergeStands DEF AlarmForNothing, DropDeferred, counts
<1>2. CASE SendDeferred
  <2>1. job'.head = 0 /\ job'.then = "deferred"
    BY <1>t, <1>2, FireAgainMoves DEF SendDeferred
  <2>2. job.pc = "idle" /\ mergeFiredFor' = mergeFiredFor
    BY <1>2, NoJobIs DEF SendDeferred, Idle, counts
  <2> QED BY <1>f, <1>u, <2>1, <2>2, MergeAside DEF Unrecorded
<1>3. CASE StartExpiry \/ ReplayNotApplied
  <2>1. /\ AlarmJob("expire").then = "none" /\ AlarmJob("expire").head = 0
        /\ [AlarmJob("recover") EXCEPT !.left = posted].then = "none"
        /\ [AlarmJob("recover") EXCEPT !.left = posted].head = 0
    BY DEF AlarmJob, NoJob
  <2>2. BackToExpiry("recover").then = "none" /\ BackToExpiry("recover").head = 0
    BY DEF BackToExpiry, NoJob
  <2>3. job'.then = "none" /\ job'.head = 0
    BY <1>3, <2>1, <2>2 DEF StartExpiry, ReplayNotApplied
  <2>4. job.pc \in {"idle", "return"} /\ mergeFiredFor' = mergeFiredFor
    BY <1>3, NoJobIs DEF StartExpiry, ReplayNotApplied, Idle, counts
  <2> QED BY <1>f, <1>u, <2>3, <2>4, MergeAside DEF Unrecorded
<1>4. CASE Replay
  <2> DEFINE j == [Begin(job.left[Len(job.left)], job.src)
                     EXCEPT !.replays = TRUE, !.left = SubSeq(job.left, 1, Len(job.left) - 1)]
  <2>1. j \in JobType /\ HandleEvent(j)
    BY <1>t, <1>4, ReplayJobType DEF Replay
  <2> HIDE DEF j
  <2>2. mergeFiredFor' = mergeFiredFor
    BY <1>t, <2>1, HandleEventCounts
  <2>3. Handling(job') /\ job.pc = "recover"
    BY <1>4, ReplayBegins
  <2> QED BY <1>u, <2>2, <2>3, MergeBegins
<1>5. CASE ReplayApplied \/ ReturnAlarm
  BY <1>5, <1>u, MergeNoJob DEF ReplayApplied, ReturnAlarm, Unrecorded, counts
<1>6. CASE AfterExpiry
  BY <1>6, <1>u, MergeNoJob DEF AfterExpiry, Unrecorded
<1>7. CASE RetryOnce
  <2>1. job' = FireAgain("retry", TRUE) => job'.then = "retry" /\ job'.head = 0
    BY <1>t, FireAgainMoves
  <2>2. job' = BackToExpiry("expire") => job'.then = "none" /\ job'.head = 0
    BY DEF BackToExpiry, NoJob
  <2>3. job'.then # "mergeFired" /\ job'.head = 0
    BY <1>7, <2>1, <2>2 DEF RetryOnce
  <2>4. job.pc = "recover" /\ mergeFiredFor' = mergeFiredFor
    BY <1>7 DEF RetryOnce, counts
  <2> QED BY <1>f, <1>u, <2>3, <2>4, MergeAside DEF Unrecorded
<1>8. CASE Expire
  <2> DEFINE j == [job EXCEPT !.seen = labels]
  <2>1. j \in JobType /\ j.head = job.head /\ job' = ApplyEvent(j, "WATCHDOG_EXPIRED", "expiry")
    BY <1>t, <1>8 DEF Expire, ItemTypeOK, JobType
  <2> HIDE DEF j
  <2>2. job.pc = "expire" /\ mergeFiredFor' = mergeFiredFor
    BY <1>8 DEF Expire
  <2>3. job.head = 0
    BY <2>2 DEF MergeInv, JobInv, RequestInv
  <2>4. job'.then = "expiry" /\ job'.head = 0
    BY <2>1, <2>3, ApplyEventMoves
  <2> QED BY <1>f, <1>u, <2>2, <2>4, MergeAside DEF Unrecorded
<1>9. CASE AfterFiredAgain
  <2>1. GoesTo("after", "comment") \/ GoesTo("after", "return")
    BY <1>t, <1>9, RuleMoves
  <2>2. job.then \in {"deferred", "retry"} /\ mergeFiredFor' = mergeFiredFor
    BY <1>9 DEF AfterFiredAgain, counts
  <2> QED BY <1>f, <1>u, <2>1, <2>2, MergeGoesOn DEF GoesTo, Applies, Unrecorded
<1> QED BY <1>1, <1>2, <1>3, <1>4, <1>5, <1>6, <1>7, <1>8, <1>9 DEF WatchdogStep

LEMMA SignalStepMerge ==
  ASSUME MergeInv, JobInv, HeardInv, TypeInv, SignalStep, faults' = faults
  PROVE  MergeInv'
<1>t. ItemTypeOK /\ job \in JobType /\ CountsTypeOK /\ head \in Nat
  BY DEF TypeInv, TypeOK, ItemTypeOK, CountsTypeOK
<1>u. UNCHANGED <<head, runs>>
  BY DEF SignalStep, IgnoreSignal, Heartbeat, Completion, TakeOutcome, EndFire, ReturnOutcome, github
<1>f. Forward
  BY <1>t, <1>u DEF Forward
<1>1. ASSUME NEW s \in hooks, IgnoreSignal(s) \/ Heartbeat(s) \/ Completion(s)  PROVE MergeInv'
  BY <1>1, <1>f, <1>u, MergeStands DEF IgnoreSignal, Heartbeat, Completion, counts
<1>2. ASSUME NEW s \in hooks, TakeOutcome(s)  PROVE MergeInv'
  <2>1. job.pc = "idle" /\ HandleEvent(Begin(s, "signal"))
    BY <1>2, NoJobIs DEF TakeOutcome, Idle
  <2>2. mergeFiredFor' = mergeFiredFor
    BY <1>t, <2>1, BeginType, HandleEventCounts DEF ItemTypeOK, JobSources
  <2> QED BY <1>2, <1>u, <2>1, <2>2, HookBegins, MergeBegins
<1>3. ASSUME NEW s \in hooks, EndFire(s)  PROVE MergeInv'
  <2>1. job'.head = 0 /\ job'.then = "none"
    BY <1>3 DEF EndFire, NoJob
  <2>2. job.pc = "idle" /\ mergeFiredFor' = mergeFiredFor
    BY <1>3, NoJobIs DEF EndFire, Idle, counts
  <2> QED BY <1>f, <1>u, <2>1, <2>2, MergeAside DEF Unrecorded
<1>4. CASE ReturnOutcome
  BY <1>4, <1>u, MergeNoJob DEF ReturnOutcome, counts, Unrecorded
<1> QED BY <1>1, <1>2, <1>3, <1>4 DEF SignalStep

(* A failure is one: nothing is promised of what follows it.               *)
LEMMA FailuresMerge ==
  ASSUME MergeInv, TypeInv, Failures
  PROVE  MergeInv'
<1>t. ItemTypeOK /\ job \in JobType /\ faults \in Nat
  BY DEF TypeInv, TypeOK, ItemTypeOK
<1>1. faults' = faults + 1
  BY DEF Failures, Throws, Crashes, Refused, Limited, Unheard, Unread, GivesUp, Loses, Fails
<1>2. faults' # 0
  BY <1>t, <1>1
<1>3. CASE Throws \/ Crashes \/ Refused \/ StartExpiryUnread
  <2>1. job'.head = 0
    BY <1>3, NoJobIs
    DEF Throws, ThrowHook, ThrowAlarm, ThrowReplay, Crashes, CrashHook, CrashAlarm, Refused, RefuseHook,
        RefuseAlarm, StartExpiryUnread, AlarmJob, BackToExpiry, NoJob
  <2> QED BY <1>2, <2>1 DEF MergeInv, MergeRefiredOnce
<1>4. CASE Limited
  BY <1>t, <1>2, <1>4, RuleMoves DEF Limited, MergeInv, MergeRefiredOnce, GoesTo, Carries
<1>5. CASE Unheard \/ GivesUp \/ Loses
  <2>1. job' = job
    BY <1>5 DEF Unheard, LostAnswer, GivesUp, GiveUp, Loses, storage
  <2> QED BY <1>2, <2>1 DEF MergeInv, MergeRefiredOnce
<1>6. CASE SendDeferredUnread
  <2>1. job'.head = 0
    BY <1>t, <1>6, FireAgainMoves DEF SendDeferredUnread
  <2> QED BY <1>2, <2>1 DEF MergeInv, MergeRefiredOnce
<1> QED BY <1>3, <1>4, <1>5, <1>6 DEF Failures, Unread

LEMMA OutsideForward ==
  ASSUME TypeInv, People \/ GitHubWorks \/ Sessions
  PROVE  Forward /\ runs' \subseteq runs /\ faults' = faults
<1>t. head \in Nat
  BY DEF TypeInv, TypeOK, ItemTypeOK
<1>1. CASE People
  BY <1>t, <1>1
  DEF People, PersonAddsLabel, PersonRemovesLabel, PersonPushes, Push, PersonReplies, PersonCloses, github,
      Forward
<1>2. CASE GitHubWorks
  BY <1>t, <1>2 DEF GitHubWorks, CiFinishes, MergeableChanges, bounds, Forward
<1>3. CASE Sessions
  BY <1>t, <1>3
  DEF Sessions, Session, Reports, Pushes, Push, Merges, Dies, Steps, Ends, github, bounds, Forward
<1> QED BY <1>1, <1>2, <1>3

LEMMA MergeStep ==
  ASSUME MergeInv, JobInv, HeardInv, TypeInv, [Next]_allVars
  PROVE  MergeInv'
<1>1. CASE Worker
  BY <1>1, WebhookStepMerge, WatchdogStepMerge, SignalStepMerge DEF Worker, bounds
<1>2. CASE Alarm \/ UNCHANGED allVars
  BY <1>2, MergeStands, MergeNumbers DEF Alarm, Ring, bounds, counts, github, allVars, vars, Forward
<1>3. CASE People \/ GitHubWorks \/ Sessions
  BY <1>3, OutsideJob, OutsideForward, MergeStands DEF storage, counts
<1>4. CASE Failures
  BY <1>4, FailuresMerge
<1> QED BY <1>1, <1>2, <1>3, <1>4 DEF Next

----------------------------------------------------------------------------
(* The caps: BudgetInv is inductive, beside JobInv.                        *)

SameCounts == ciFix'.attempts = ciFix.attempts /\ reviewLoop'.rounds = reviewLoop.rounds

(* The history's rounds, of a step that makes no fire.                     *)
NoFurtherRound == ciRounds' \in {0, ciRounds} /\ reviewRounds' \in {0, reviewRounds}

HandedOut == {"mergeFix", "reviewFix", "findings"}

LEMMA BudgetNumbers ==
  ASSUME TypeInv
  PROVE  /\ ciFix.attempts \in Nat /\ reviewLoop.rounds \in Nat /\ ciRounds \in Nat /\ reviewRounds \in Nat
         /\ CiFixAttempts \in Nat /\ BotReviewReworks \in Nat /\ faults \in Nat
BY CapsAssumption DEF TypeInv, TypeOK, ItemTypeOK, CiFixType, ReviewType

LEMMA NoFireCounts ==
  ASSUME Remember, fires' = fires
  PROVE  /\ NoFurtherRound
         /\ TakesUpLabel \/ After("passed") => ciRounds' = 0 /\ reviewRounds' = 0
<1>1. \A causes : ~HandsOut(causes)
  BY DEF HandsOut
<1> QED BY <1>1 DEF Remember, Counted, NoFurtherRound

LEMMA BudgetStands ==
  ASSUME BudgetInv, TypeInv, job' = job, SameCounts, NoFurtherRound, faults' = faults
  PROVE  BudgetInv'
BY BudgetNumbers DEF BudgetInv, SameCounts, NoFurtherRound, HandsOutCi, Uncounted, OfExpiry

LEMMA BudgetGoesOn ==
  ASSUME BudgetInv, TypeInv, Carries, SameCounts,
         job'.pc = "write" => job.pc = "write",
         job'.pc \in {"send", "after"} => job.pc \in {"write", "send"},
         job'.pc = "count" => job.pc = "after" /\ job.then = "mergeFix",
         \/ faults' # 0
         \/ /\ faults' = faults /\ NoFurtherRound
            /\ Uncounted(HandedOut) => job'.pc \in {"after", "count"}
  PROVE  BudgetInv'
<1> USE DEF SameCounts, Carries
<1>1. /\ HandsOutCi' <=> HandsOutCi
      /\ OfExpiry' <=> OfExpiry
  BY DEF HandsOutCi, OfExpiry
<1>2. /\ job'.event \in Decided /\ job'.pc = "write" => HandsOutCi' \/ OfExpiry'
      /\ job'.event = "REVIEW_FINDINGS" /\ job'.pc = "write" => job'.then = "findings" \/ OfExpiry'
  BY <1>1 DEF BudgetInv
<1>3. /\ HandsOutCi' /\ job'.pc \in {"write", "send", "after", "count"} => ciFix'.attempts < CiFixAttempts
      /\ job'.then = "findings" /\ job'.pc \in {"write", "send", "after"}
           => reviewLoop'.rounds < BotReviewReworks
  BY <1>1 DEF BudgetInv
<1>4. faults' = 0 =>
        /\ Uncounted({"mergeFix", "reviewFix"}) => Uncounted({"mergeFix", "reviewFix"})'
        /\ Uncounted({"findings"}) => Uncounted({"findings"})'
  BY DEF Uncounted, HandedOut
<1>5. faults' = 0 =>
        /\ ciRounds' <= ciFix'.attempts + (IF Uncounted({"mergeFix", "reviewFix"})' THEN 1 ELSE 0)
        /\ reviewRounds' <= reviewLoop'.rounds + (IF Uncounted({"findings"})' THEN 1 ELSE 0)
  BY <1>4, BudgetNumbers DEF BudgetInv, NoFurtherRound
<1> QED BY <1>2, <1>3, <1>5 DEF BudgetInv

(* The request is of no rework, or of none any more.                       *)
LEMMA BudgetAside ==
  ASSUME BudgetInv, TypeInv, SameCounts,
         job'.then \notin HandedOut,
         job'.pc = "write" => job'.event \notin Decided \cup {"REVIEW_FINDINGS"} \/ OfExpiry',
         \/ faults' # 0
         \/ faults' = faults /\ NoFurtherRound /\ ~Uncounted(HandedOut)
  PROVE  BudgetInv'
<1>1. faults' = 0 => ~Uncounted({"mergeFix", "reviewFix"}) /\ ~Uncounted({"findings"})
  BY DEF Uncounted, HandedOut
<1>2. ~HandsOutCi' /\ job'.then # "findings"
  BY DEF HandsOutCi, HandedOut
<1>3. ~Uncounted({"mergeFix", "reviewFix"})' /\ ~Uncounted({"findings"})'
  BY DEF Uncounted, HandedOut
<1>4. faults' = 0 => ciRounds' <= ciFix'.attempts /\ reviewRounds' <= reviewLoop'.rounds
  BY <1>1, BudgetNumbers DEF BudgetInv, NoFurtherRound, SameCounts
<1>5. ciFix'.attempts \in Nat /\ reviewLoop'.rounds \in Nat
  BY BudgetNumbers DEF SameCounts
<1>6. faults' = 0 =>
        /\ ciRounds' <= ciFix'.attempts + (IF Uncounted({"mergeFix", "reviewFix"})' THEN 1 ELSE 0)
        /\ reviewRounds' <= reviewLoop'.rounds + (IF Uncounted({"findings"})' THEN 1 ELSE 0)
  BY <1>3, <1>4, <1>5
<1>7. ciFix'.attempts <= CiFixAttempts /\ reviewLoop'.rounds <= BotReviewReworks
  BY DEF BudgetInv, SameCounts
<1> QED BY <1>2, <1>6, <1>7 DEF BudgetInv

(* A handler takes up an event: the counts start again with the history.   *)
LEMMA BudgetBegins ==
  ASSUME BudgetInv, TypeInv, Handling(job'), faults' = faults, NoFurtherRound, ~Uncounted(HandedOut),
         ciFix'.attempts = ciFix.attempts \/ (ciFix'.attempts = 0 /\ ciRounds' = 0),
         reviewLoop'.rounds = reviewLoop.rounds \/ (reviewLoop'.rounds = 0 /\ reviewRounds' = 0)
  PROVE  BudgetInv'
<1>1. job'.then \notin {"mergeFix", "reviewFix"}
  BY DEF Handling, HookThens
<1>2. /\ job'.pc = "write" => job'.event \notin Decided
      /\ job'.pc = "write" /\ job'.event = "REVIEW_FINDINGS" => job'.then = "findings"
      /\ job'.then = "findings" => reviewLoop.rounds < BotReviewReworks
      /\ job'.pc \in {"send", "after", "count"} => ~job'.applied
  BY DEF Handling
<1>3. ~Uncounted({"mergeFix", "reviewFix"}) /\ ~Uncounted({"findings"})
  BY DEF Uncounted, HandedOut
<1>4. ~Uncounted({"mergeFix", "reviewFix"})' /\ ~Uncounted({"findings"})'
  BY <1>2 DEF Uncounted
<1>5. ciFix'.attempts \in Nat /\ reviewLoop'.rounds \in Nat
  BY BudgetNumbers
<1>6. faults' = 0 => ciRounds' <= ciFix'.attempts /\ reviewRounds' <= reviewLoop'.rounds
  BY <1>3, BudgetNumbers DEF BudgetInv, NoFurtherRound
<1>7. faults' = 0 =>
        /\ ciRounds' <= ciFix'.attempts + (IF Uncounted({"mergeFix", "reviewFix"})' THEN 1 ELSE 0)
        /\ reviewRounds' <= reviewLoop'.rounds + (IF Uncounted({"findings"})' THEN 1 ELSE 0)
  BY <1>4, <1>5, <1>6
<1>8. ciFix'.attempts <= CiFixAttempts /\ reviewLoop'.rounds <= BotReviewReworks
  BY BudgetNumbers DEF BudgetInv
<1>9. job'.then = "findings" => reviewLoop'.rounds < BotReviewReworks
  BY <1>2, BudgetNumbers
<1> QED BY <1>1, <1>2, <1>7, <1>8, <1>9 DEF BudgetInv, HandsOutCi

(* A webhook's or a signal's request begins.                               *)
LEMMA BudgetHook ==
  ASSUME BudgetInv, HeardInv, TypeInv, NEW h \in hooks, TakeHook(h) \/ TakeOutcome(h), Remember,
         faults' = faults
  PROVE  BudgetInv'
<1>1. /\ job.pc = "idle" /\ Idle /\ fires' = fires
      /\ \E src \in {"webhook", "signal"} : HandleEvent(Begin(h, src))
  BY NoJobIs DEF TakeHook, TakeOutcome, Idle
<1>2. PICK src \in {"webhook", "signal"} : HandleEvent(Begin(h, src))
  BY <1>1
<1>3. /\ ciFix'.attempts = ciFix.attempts \/ (ciFix'.attempts = 0 /\ job'.event \in ByLabel)
      /\ reviewLoop'.rounds = reviewLoop.rounds \/ (reviewLoop'.rounds = 0 /\ job'.event \in ByLabel)
  BY <1>2, BeginType, HandleEventCounts DEF TypeInv, TypeOK, ItemTypeOK, CountsTypeOK, JobSources
<1>4. job'.event \in ByLabel => ciRounds' = 0 /\ reviewRounds' = 0
  BY <1>1, NoFireCounts DEF TakesUpLabel, ByLabel
<1>5. Handling(job') /\ NoFurtherRound /\ ~Uncounted(HandedOut)
  BY <1>1, HookBegins, NoFireCounts DEF Uncounted
<1> QED BY <1>3, <1>4, <1>5, BudgetBegins

(* ArmFire: the rework it hands out is within its cap.                     *)
LEMMA ArmFireBudget ==
  ASSUME BudgetInv, JobInv, TypeInv, ArmFire, Remember, faults' = faults
  PROVE  BudgetInv'
<1>t. ItemTypeOK /\ job \in JobType
  BY DEF TypeInv, TypeOK, ItemTypeOK
<1>1. GoesTo("write", "send") /\ SameCounts /\ fires' # fires
  BY <1>t, RuleMoves DEF ArmFire, counts, SameCounts, ItemTypeOK
<1>2. job.applied /\ ~Uncounted({"mergeFix", "reviewFix"}) /\ ~Uncounted({"findings"})
  BY <1>1 DEF JobInv, RequestInv, Applies, GoesTo, Uncounted
<1>3. OfExpiry => job.then \in {"deferred", "retry"} \/ job.event = "WATCHDOG_EXPIRED"
  BY <1>1 DEF JobInv, RequestInv, Applies, GoesTo, OfWatchdog
<1>4. /\ HandsOut({"MERGE_GATE_FAILED_SOFT", "REVIEW_CI_FAILED"}) => HandsOutCi
      /\ HandsOut({"REVIEW_FINDINGS"}) => job.then = "findings"
  BY <1>1, <1>3 DEF HandsOut, BudgetInv, Decided, GoesTo
<1>5. ~TakesUpLabel /\ ~After("passed")
  BY <1>1, NoJobIs DEF TakesUpLabel, Idle, After, GoesTo
<1>6. /\ ciRounds' = ciRounds \/ (ciRounds' = ciRounds + 1 /\ HandsOutCi)
      /\ reviewRounds' = reviewRounds \/ (reviewRounds' = reviewRounds + 1 /\ job.then = "findings")
  BY <1>4, <1>5 DEF Remember, Counted
<1>7. /\ HandsOutCi => Uncounted({"mergeFix", "reviewFix"})'
      /\ job.then = "findings" => Uncounted({"findings"})'
  BY <1>1, <1>2 DEF HandsOutCi, Uncounted, GoesTo, Carries
<1>8. faults' = 0 =>
        /\ ciRounds' <= ciFix'.attempts + (IF Uncounted({"mergeFix", "reviewFix"})' THEN 1 ELSE 0)
        /\ reviewRounds' <= reviewLoop'.rounds + (IF Uncounted({"findings"})' THEN 1 ELSE 0)
  BY <1>1, <1>2, <1>6, <1>7, BudgetNumbers DEF BudgetInv, SameCounts
<1>9. HandsOutCi' <=> HandsOutCi
  BY <1>1 DEF HandsOutCi, GoesTo, Carries
<1>10. /\ HandsOutCi => ciFix.attempts < CiFixAttempts
       /\ job.then = "findings" => reviewLoop.rounds < BotReviewReworks
       /\ ciFix.attempts <= CiFixAttempts /\ reviewLoop.rounds <= BotReviewReworks
  BY <1>1 DEF BudgetInv, GoesTo
<1>11. job'.pc = "send" /\ job'.then = job.then
  BY <1>1 DEF GoesTo, Carries
<1> QED BY <1>1, <1>8, <1>9, <1>10, <1>11 DEF BudgetInv, SameCounts

(* The rule's own count: it is within its cap, and the round is counted.   *)
LEMMA CountedBudget ==
  ASSUME BudgetInv, TypeInv, faults' = faults, NoFurtherRound,
         job'.pc \in {"comment", "return"},
         \/ /\ HandsOutCi /\ job.pc \in {"after", "count"} /\ ciFix'.attempts = ciFix.attempts + 1
            /\ reviewLoop' = reviewLoop
         \/ /\ job.then = "findings" /\ job.pc = "after" /\ reviewLoop'.rounds = reviewLoop.rounds + 1
            /\ ciFix' = ciFix
         \/ /\ ciFix'.attempts = 0 /\ reviewLoop'.rounds = 0
            /\ ciRounds' = 0 /\ reviewRounds' = 0
  PROVE  BudgetInv'
<1>1. ~Uncounted({"mergeFix", "reviewFix"})' /\ ~Uncounted({"findings"})'
  BY DEF Uncounted
<1>2. /\ HandsOutCi => ~Uncounted({"findings"})
      /\ job.then = "findings" => ~Uncounted({"mergeFix", "reviewFix"})
  BY DEF HandsOutCi, Uncounted
<1>3. /\ ciFix'.attempts <= CiFixAttempts /\ reviewLoop'.rounds <= BotReviewReworks
      /\ faults' = 0 => ciRounds' <= ciFix'.attempts /\ reviewRounds' <= reviewLoop'.rounds
      /\ ciFix'.attempts \in Nat /\ reviewLoop'.rounds \in Nat
  BY <1>2, BudgetNumbers DEF BudgetInv, NoFurtherRound
<1>4. faults' = 0 =>
        /\ ciRounds' <= ciFix'.attempts + (IF Uncounted({"mergeFix", "reviewFix"})' THEN 1 ELSE 0)
        /\ reviewRounds' <= reviewLoop'.rounds + (IF Uncounted({"findings"})' THEN 1 ELSE 0)
  BY <1>1, <1>3
<1> QED BY <1>3, <1>4 DEF BudgetInv

LEMMA AfterEventBudget ==
  ASSUME BudgetInv, JobInv, TypeInv, AfterEvent, Remember, faults' = faults
  PROVE  BudgetInv'
<1>t. ItemTypeOK /\ job \in JobType
  BY DEF TypeInv, TypeOK, ItemTypeOK
<1>1. fires' = fires
  BY DEF AfterEvent
<1>2. NoFurtherRound /\ (After("passed") => ciRounds' = 0 /\ reviewRounds' = 0)
  BY <1>1, NoFireCounts
<1>3. GoesTo("after", "comment") \/ GoesTo("after", "return") \/ GoesTo("after", "facts")
  BY <1>t, AfterMoves
<1>4. CASE AfterReviewFix
  <2>1. HandsOutCi /\ job.pc = "after" /\ ciFix'.attempts = ciFix.attempts + 1 /\ reviewLoop' = reviewLoop
    BY <1>4 DEF AfterReviewFix, After, HandsOutCi
  <2>2. job'.pc = "comment"
    BY <1>t, <1>4, PcCarries DEF AfterReviewFix, Goes
  <2> QED BY <1>2, <2>1, <2>2, CountedBudget
<1>5. CASE AfterFindings
  <2>1. /\ job.then = "findings" /\ job.pc = "after"
        /\ reviewLoop'.rounds = reviewLoop.rounds + 1 /\ ciFix' = ciFix
    BY <1>5 DEF AfterFindings, After
  <2>2. job'.pc = "comment"
    BY <1>t, <1>5, PcCarries DEF AfterFindings, Goes
  <2> QED BY <1>2, <2>1, <2>2, CountedBudget
<1>6. CASE AfterPassed
  <2>1. After("passed") /\ ciFix'.attempts = 0 /\ reviewLoop'.rounds = 0
    BY <1>6 DEF AfterPassed, NoCiFix, NoReview
  <2>2. job'.pc = "return"
    BY <1>t, <1>6, PcCarries DEF AfterPassed, Goes
  <2> QED BY <1>2, <2>1, <2>2, CountedBudget
<1>7. CASE ~AfterReviewFix /\ ~AfterFindings /\ ~AfterPassed
  <2>1. SameCounts
    BY <1>t, <1>7
    DEF AfterEvent, AfterNothingApplied, AfterTail, AfterReviewLabel, AfterCapped, AfterBlock,
        AfterMergeFired, AfterDone, counts, SameCounts, ItemTypeOK, CiFixType, ReviewType
  <2>2. ~Uncounted(HandedOut)
    BY <1>7
    DEF AfterEvent, AfterNothingApplied, AfterTail, AfterReviewLabel, AfterCapped, AfterBlock,
        AfterMergeFired, AfterDone, After, Uncounted, HandedOut
  <2> QED BY <1>2, <1>3, <2>1, <2>2, BudgetGoesOn DEF GoesTo
<1> QED BY <1>4, <1>5, <1>6, <1>7

LEMMA WebhookStepBudget ==
  ASSUME BudgetInv, JobInv, HeardInv, TypeInv, WebhookStep, Remember, faults' = faults
  PROVE  BudgetInv'
<1>t. ItemTypeOK /\ job \in JobType
  BY DEF TypeInv, TypeOK, ItemTypeOK
<1>n. fires' = fires => NoFurtherRound
  BY NoFireCounts
<1>1. ASSUME NEW h \in hooks, TakeHook(h)  PROVE BudgetInv'
  BY <1>1, BudgetHook
<1>2. CASE ReadFacts
  <2>1. job.pc = "facts" /\ GatedAs(job') /\ SameCounts /\ fires' = fires
    BY <1>t, <1>2, GateMoves DEF ReadFacts, counts, SameCounts
  <2>2. /\ job.then \in {"review", "mergeLabel", "checks"}
        /\ ~Uncounted({"mergeFix", "reviewFix"}) /\ ~Uncounted({"findings"})
    BY <2>1 DEF JobInv, RequestInv, Uncounted
  <2>3. /\ job'.pc = "write" => job'.event # "REVIEW_FINDINGS"
        /\ job'.pc = "write" /\ job'.event \in Decided => job'.then \in {"mergeFix", "reviewFix"}
        /\ job'.then \in {"mergeFix", "reviewFix"} => ciFix.attempts < CiFixAttempts
        /\ job'.then # "findings"
        /\ job'.pc \in {"send", "after", "count"} => ~job'.applied
    BY <2>1, <2>2 DEF GatedAs, GateThens
  <2>4. ~Uncounted({"mergeFix", "reviewFix"})' /\ ~Uncounted({"findings"})'
    BY <2>3 DEF Uncounted
  <2>5. faults' = 0 =>
          /\ ciRounds' <= ciFix'.attempts + (IF Uncounted({"mergeFix", "reviewFix"})' THEN 1 ELSE 0)
          /\ reviewRounds' <= reviewLoop'.rounds + (IF Uncounted({"findings"})' THEN 1 ELSE 0)
    BY <1>n, <2>1, <2>2, <2>4, BudgetNumbers DEF BudgetInv, SameCounts, NoFurtherRound
  <2> QED BY <2>1, <2>3, <2>5 DEF BudgetInv, SameCounts, HandsOutCi
<1>3. CASE WriteLabel \/ EndWatch \/ FireSent \/ AfterMergeFix \/ Comment
  <2>1. \/ GoesTo("write", "write")
        \/ GoesTo("write", "after") \/ GoesTo("send", "after")
        \/ GoesTo("after", "count") /\ job.then = "mergeFix"
        \/ GoesTo("comment", "return")
    BY <1>t, <1>3, RuleMoves
  <2>2. SameCounts /\ fires' = fires
    BY <1>3 DEF WriteLabel, EndWatch, FireSent, AfterMergeFix, Comment, counts, SameCounts
  <2>3. Uncounted(HandedOut) => job'.pc \in {"after", "count"}
    BY <2>1 DEF Uncounted, GoesTo
  <2> QED BY <1>n, <2>1, <2>2, <2>3, BudgetGoesOn DEF GoesTo
<1>4. CASE ArmFire
  BY <1>4, ArmFireBudget
<1>5. CASE CountMergeFix
  <2>1. GoesTo("count", "comment") /\ fires' = fires
    BY <1>t, <1>5, RuleMoves DEF CountMergeFix
  <2>2. HandsOutCi /\ ciFix'.attempts = ciFix.attempts + 1 /\ reviewLoop' = reviewLoop
    BY <1>5 DEF CountMergeFix, HandsOutCi, JobInv, RequestInv
  <2> QED BY <1>n, <2>1, <2>2, CountedBudget DEF GoesTo
<1>6. CASE AfterEvent
  BY <1>6, AfterEventBudget
<1>7. CASE ReturnHook
  <2>1. /\ job.pc = "return" /\ job' = NoJob /\ SameCounts /\ fires' = fires
    BY <1>7 DEF ReturnHook, counts, SameCounts
  <2> QED BY <1>n, <2>1, NoJobIs, BudgetAside DEF Uncounted, HandedOut
<1> QED BY <1>1, <1>2, <1>3, <1>4, <1>5, <1>6, <1>7 DEF WebhookStep

LEMMA WatchdogStepBudget ==
  ASSUME BudgetInv, JobInv, HeardInv, TypeInv, WatchdogStep, Remember, faults' = faults
  PROVE  BudgetInv'
<1>t. ItemTypeOK /\ job \in JobType /\ CountsTypeOK
  BY DEF TypeInv, TypeOK, ItemTypeOK, CountsTypeOK
<1>f. fires' = fires
  BY DEF WatchdogStep, AlarmForNothing, DropDeferred, SendDeferred, StartExpiry, Replay, ReplayApplied,
         ReplayNotApplied, RetryOnce, Expire, AfterExpiry, AfterFiredAgain, ReturnAlarm
<1>n. NoFurtherRound
  BY <1>f, NoFireCounts
<1>s. ~Replay => SameCounts
  BY DEF WatchdogStep, AlarmForNothing, DropDeferred, SendDeferred, StartExpiry, ReplayApplied,
         ReplayNotApplied, RetryOnce, Expire, AfterExpiry, AfterFiredAgain, ReturnAlarm, counts, SameCounts
<1>1. CASE AlarmForNothing \/ DropDeferred
  <2>1. job' = job /\ SameCounts
    BY <1>1 DEF AlarmForNothing, DropDeferred, counts, SameCounts
  <2> QED BY <1>n, <2>1, BudgetStands
<1>2. CASE SendDeferred
  <2>1. job'.then = "deferred" /\ job'.src = "alarm" /\ job'.replays = FALSE
    BY <1>t, <1>2, FireAgainMoves DEF SendDeferred
  <2>2. job.pc = "idle" /\ SameCounts
    BY <1>2, NoJobIs DEF SendDeferred, Idle, counts, SameCounts
  <2> QED BY <1>n, <2>1, <2>2, BudgetAside DEF OfExpiry, Uncounted, HandedOut
<1>3. CASE StartExpiry \/ ReplayNotApplied
  <2>1. /\ AlarmJob("expire").then = "none" /\ AlarmJob("expire").pc = "expire"
        /\ [AlarmJob("recover") EXCEPT !.left = posted].then = "none"
        /\ [AlarmJob("recover") EXCEPT !.left = posted].pc = "recover"
    BY DEF AlarmJob, NoJob
  <2>2. BackToExpiry("recover").then = "none" /\ BackToExpiry("recover").pc = "recover"
    BY DEF BackToExpiry, NoJob
  <2>3. job'.then = "none" /\ job'.pc # "write"
    BY <1>3, <2>1, <2>2 DEF StartExpiry, ReplayNotApplied
  <2>4. job.pc \in {"idle", "return"} /\ SameCounts
    BY <1>3, NoJobIs DEF StartExpiry, ReplayNotApplied, Idle, counts, SameCounts
  <2> QED BY <1>n, <2>3, <2>4, BudgetAside DEF Uncounted, HandedOut
<1>4. CASE Replay
  <2> DEFINE j == [Begin(job.left[Len(job.left)], job.src)
                     EXCEPT !.replays = TRUE, !.left = SubSeq(job.left, 1, Len(job.left) - 1)]
  <2>1. j \in JobType /\ HandleEvent(j)
    BY <1>t, <1>4, ReplayJobType DEF Replay
  <2> HIDE DEF j
  <2>2. Handling(job') /\ job.pc = "recover" /\ job'.event \notin ByLabel
    BY <1>4, ReplayBegins
  <2>3. SameCounts
    BY <1>t, <2>1, <2>2, HandleEventCounts DEF SameCounts
  <2> QED BY <1>n, <2>2, <2>3, BudgetBegins DEF SameCounts, Uncounted
<1>5. CASE ReplayApplied \/ ReturnAlarm \/ AfterExpiry
  <2>1. job' = NoJob /\ SameCounts /\ ~Uncounted(HandedOut)
    BY <1>5 DEF ReplayApplied, ReturnAlarm, AfterExpiry, counts, SameCounts, Uncounted, HandedOut
  <2> QED BY <1>n, <2>1, NoJobIs, BudgetAside DEF HandedOut
<1>6. CASE RetryOnce
  <2>1. job' = FireAgain("retry", TRUE) => job'.then = "retry" /\ job'.src = "alarm" /\ job'.replays = FALSE
    BY <1>t, FireAgainMoves
  <2>2. job' = BackToExpiry("expire") => job'.then = "none" /\ job'.pc = "expire"
    BY DEF BackToExpiry, NoJob
  <2>3. job'.then \in {"retry", "none"} /\ (job'.pc = "write" => OfExpiry')
    BY <1>6, <2>1, <2>2 DEF RetryOnce, OfExpiry
  <2>4. job.pc = "recover" /\ SameCounts
    BY <1>6 DEF RetryOnce, counts, SameCounts
  <2> QED BY <1>n, <2>3, <2>4, BudgetAside DEF Uncounted, HandedOut
<1>7. CASE Expire
  <2> DEFINE j == [job EXCEPT !.seen = labels]
  <2>1. j \in JobType /\ job' = ApplyEvent(j, "WATCHDOG_EXPIRED", "expiry")
    BY <1>t, <1>7 DEF Expire, ItemTypeOK, JobType
  <2> HIDE DEF j
  <2>2. job.pc = "expire" /\ SameCounts
    BY <1>7 DEF Expire, SameCounts
  <2>3. job'.then = "expiry" /\ job'.event = "WATCHDOG_EXPIRED"
    BY <2>1, ApplyEventMoves
  <2> QED BY <1>n, <2>2, <2>3, BudgetAside DEF Uncounted, HandedOut, Decided
<1>8. CASE AfterFiredAgain
  <2>1. GoesTo("after", "comment") \/ GoesTo("after", "return")
    BY <1>t, <1>8, RuleMoves
  <2>2. SameCounts /\ ~Uncounted(HandedOut)
    BY <1>8 DEF AfterFiredAgain, counts, SameCounts, Uncounted, HandedOut
  <2> QED BY <1>n, <2>1, <2>2, BudgetGoesOn DEF GoesTo
<1> QED BY <1>1, <1>2, <1>3, <1>4, <1>5, <1>6, <1>7, <1>8 DEF WatchdogStep

LEMMA SignalStepBudget ==
  ASSUME BudgetInv, JobInv, HeardInv, TypeInv, SignalStep, Remember, faults' = faults
  PROVE  BudgetInv'
<1>f. fires' = fires
  BY DEF SignalStep, IgnoreSignal, Heartbeat, Completion, TakeOutcome, EndFire, ReturnOutcome
<1>n. NoFurtherRound
  BY <1>f, NoFireCounts
<1>1. ASSUME NEW s \in hooks, IgnoreSignal(s) \/ Heartbeat(s) \/ Completion(s)  PROVE BudgetInv'
  <2>1. job' = job /\ SameCounts
    BY <1>1 DEF IgnoreSignal, Heartbeat, Completion, counts, SameCounts
  <2> QED BY <1>n, <2>1, BudgetStands
<1>2. ASSUME NEW s \in hooks, TakeOutcome(s)  PROVE BudgetInv'
  BY <1>2, BudgetHook
<1>3. ASSUME NEW s \in hooks, EndFire(s)  PROVE BudgetInv'
  <2>1. job'.pc # "write" /\ job'.then = "none"
    BY <1>3 DEF EndFire, NoJob
  <2>2. job.pc = "idle" /\ SameCounts
    BY <1>3, NoJobIs DEF EndFire, Idle, counts, SameCounts
  <2> QED BY <1>n, <2>1, <2>2, BudgetAside DEF Uncounted, HandedOut
<1>4. CASE ReturnOutcome
  <2>1. job' = NoJob /\ SameCounts /\ ~Uncounted(HandedOut)
    BY <1>4 DEF ReturnOutcome, counts, SameCounts, Uncounted
  <2> QED BY <1>n, <2>1, NoJobIs, BudgetAside DEF HandedOut
<1> QED BY <1>1, <1>2, <1>3, <1>4 DEF SignalStep

(* What fails is counted by no one; the stored counts keep to their caps.  *)
LEMMA FailuresBudget ==
  ASSUME BudgetInv, JobInv, TypeInv, Failures
  PROVE  BudgetInv'
<1>t. ItemTypeOK /\ job \in JobType /\ faults \in Nat
  BY DEF TypeInv, TypeOK, ItemTypeOK
<1>1. faults' = faults + 1
  BY DEF Failures, Throws, Crashes, Refused, Limited, Unheard, Unread, GivesUp, Loses, Fails
<1>2. faults' # 0
  BY <1>t, <1>1
<1>3. SameCounts
  BY DEF Failures, Throws, ThrowHook, ThrowAlarm, ThrowReplay, Crashes, CrashHook, CrashAlarm, Refused,
         RefuseHook, RefuseAlarm, Limited, FireLimited, Unheard, LostAnswer, Unread, SendDeferredUnread,
         StartExpiryUnread, GivesUp, GiveUp, Loses, storage, counts, SameCounts
<1>4. CASE Throws \/ Crashes \/ Refused \/ StartExpiryUnread
  <2>1. CASE Throws \/ Crashes \/ Refused
    <3>1. job' = NoJob \/ job' = BackToExpiry("expire") \/ job' = BackToExpiry("recover")
          \/ job' = [BackToExpiry("recover") EXCEPT !.left = <<>>]
      BY <2>1 DEF Throws, ThrowHook, ThrowAlarm, ThrowReplay, Crashes, CrashHook, CrashAlarm, Refused,
                  RefuseHook, RefuseAlarm
    <3>2. CASE job' = NoJob
      BY <1>2, <1>3, <3>2, NoJobIs, BudgetAside DEF HandedOut
    <3>3. ASSUME NEW pc \in {"expire", "recover"},
                 job' = BackToExpiry(pc) \/ job' = [BackToExpiry(pc) EXCEPT !.left = <<>>]
          PROVE  BudgetInv'
      <4>1. job'.then = "none" /\ job'.pc # "write"
        BY <3>3, BackMoves
      <4> QED BY <1>2, <1>3, <4>1, BudgetAside DEF HandedOut
    <3> QED BY <3>1, <3>2, <3>3
  <2>2. CASE StartExpiryUnread
    <3>1. job' = AlarmJob("recover")
      BY <2>2 DEF StartExpiryUnread
    <3>2. job'.then = "none" /\ job'.pc # "write"
      BY <3>1 DEF AlarmJob, NoJob
    <3> QED BY <1>2, <1>3, <3>2, BudgetAside DEF HandedOut
  <2> QED BY <1>4, <2>1, <2>2
<1>5. CASE Limited
  <2>1. GoesTo("send", "after")
    BY <1>t, <1>5, RuleMoves DEF Limited
  <2> QED BY <1>2, <1>3, <2>1, BudgetGoesOn DEF GoesTo
<1>6. CASE Unheard \/ GivesUp \/ Loses
  <2>1. job' = job
    BY <1>6 DEF Unheard, LostAnswer, GivesUp, GiveUp, Loses, storage
  <2> QED BY <1>2, <1>3, <2>1 DEF BudgetInv, SameCounts, HandsOutCi, OfExpiry
<1>7. CASE SendDeferredUnread
  <2>1. job'.then = "deferred" /\ job'.src = "alarm" /\ job'.replays = FALSE
    BY <1>t, <1>7, FireAgainMoves DEF SendDeferredUnread
  <2> QED BY <1>2, <1>3, <2>1, BudgetAside DEF OfExpiry, HandedOut
<1> QED BY <1>4, <1>5, <1>6, <1>7 DEF Failures, Unread

LEMMA BudgetStep ==
  ASSUME BudgetInv, JobInv, HeardInv, TypeInv, [Next]_allVars
  PROVE  BudgetInv'
<1>1. CASE Worker
  BY <1>1, WebhookStepBudget, WatchdogStepBudget, SignalStepBudget DEF Worker, bounds
<1>2. CASE Alarm \/ UNCHANGED allVars
  <2>1. job' = job /\ SameCounts /\ NoFurtherRound /\ faults' = faults
    BY <1>2 DEF Alarm, Ring, bounds, history, counts, allVars, vars, SameCounts, NoFurtherRound
  <2> QED BY <2>1, BudgetStands
<1>3. CASE People \/ GitHubWorks \/ Sessions
  <2>1. job' = job /\ SameCounts /\ NoFurtherRound /\ faults' = faults
    BY <1>3, OutsideJob, OutsideForward DEF storage, history, counts, SameCounts, NoFurtherRound
  <2> QED BY <2>1, BudgetStands
<1>4. CASE Failures
  BY <1>4, FailuresBudget
<1> QED BY <1>1, <1>2, <1>3, <1>4 DEF Next

----------------------------------------------------------------------------
(* What the invariants come to.                                            *)

RequestsInv == JobInv /\ HeardInv /\ ReviewAlone /\ RetryInv /\ MergeInv /\ BudgetInv

LEMMA RequestsInit == Init => RequestsInv
<1>1. Reported(<<>>)
  BY DEF Reported
<1>2. NoFire.run = NoRun /\ NoFire.due = FALSE /\ NoCiFix.attempts = 0 /\ NoReview.rounds = 0
  BY DEF NoFire, NoCiFix, NoReview
<1> SUFFICES ASSUME Init  PROVE RequestsInv
  OBVIOUS
<1>3. JobInv /\ HeardInv /\ ReviewAlone
  BY <1>1, NoJobIs
  DEF Init, JobInv, RequestInv, LooksFirst, OfExpiry, Applies, OfWatchdog, HeardInv, ReviewAlone
<1>4. RetryInv
  BY <1>2, NoJobIs DEF Init, RetryInv, RetryBudget, Untried
<1>5. MergeInv
  BY NoJobIs DEF Init, MergeInv, MergeRefiredOnce
<1>6. BudgetInv
  BY <1>2, NoJobIs, CapsAssumption DEF Init, BudgetInv, HandsOutCi, Uncounted
<1> QED BY <1>3, <1>4, <1>5, <1>6 DEF RequestsInv

LEMMA RequestsStep ==
  ASSUME RequestsInv, WatchInv, TypeInv, [Next]_allVars
  PROVE  RequestsInv'
BY JobStep, HeardStep, ReviewStep, RetryStep, MergeStep, BudgetStep DEF RequestsInv

LEMMA RequestsInvHolds == Spec => [](TypeInv /\ RequestsInv)
<1>1. Init => TypeInv /\ WatchInv /\ RequestsInv
  BY TypeInit, WatchInit, RequestsInit
<1>2. TypeInv /\ WatchInv /\ RequestsInv /\ [Next]_allVars => (TypeInv /\ WatchInv /\ RequestsInv)'
  BY TypeStep, WatchStep, RequestsStep
<1> QED BY <1>1, <1>2, PTL DEF Spec

(* No review is fired while one is out, however its label's webhook and    *)
(* the check suites' are ordered (the guards of coordinate/webhook.ts and  *)
(* reviewGate): what the gate decided when it looked still holds when it   *)
(* fires.                                                                  *)
THEOREM ReviewFiresOnce == Spec => ReviewOnce
<1>1. TypeInv /\ RequestsInv /\ [Next]_allVars =>
        [fires' # fires /\ job.rule.run = "review-loop" /\ job.then = "done"
           => pending.run # "review-loop"]_allVars
  BY OnlyArmFireFires DEF ArmFire, RequestsInv, ReviewAlone, ReviewOut
<1> QED BY <1>1, RequestsInvHolds, PTL DEF Spec, ReviewOnce

(* A silent run is fired again once, whatever the retry meets: a rate      *)
(* limit, a crash, a refusal, a repeated alarm (retryOnce).                *)
THEOREM RetriedOnce == Spec => []RetryBudget
<1>1. RequestsInv => RetryBudget
  BY DEF RequestsInv, RetryInv
<1> QED BY <1>1, RequestsInvHolds, PTL

(* A green head commit re-fires merge-flow once (MERGE_GATE_PASSED).       *)
THEOREM MergeFiredOnce == Spec => []MergeRefiredOnce
<1>1. RequestsInv => MergeRefiredOnce
  BY DEF RequestsInv, MergeInv, MergeRefiredOnce
<1> QED BY <1>1, RequestsInvHolds, PTL

(* Between two labels of a person's it takes up, or a review's passes, the *)
(* Worker hands out no more reworks than its caps allow.                   *)
THEOREM ReworksCapped == Spec => []ReworkBudget
<1>1. TypeInv /\ RequestsInv => ReworkBudget
  <2> SUFFICES ASSUME TypeInv, RequestsInv, faults = 0
               PROVE  ciRounds <= CiFixAttempts /\ reviewRounds <= BotReviewReworks
    BY DEF ReworkBudget
  <2>1. BudgetInv
    BY DEF RequestsInv
  <2>2. Uncounted({"mergeFix", "reviewFix"}) => ciFix.attempts < CiFixAttempts
    BY <2>1 DEF BudgetInv, Uncounted, HandsOutCi
  <2>3. Uncounted({"findings"}) => reviewLoop.rounds < BotReviewReworks
    <3>1. job.pc = "count" => job.then # "findings"
      BY DEF RequestsInv, JobInv, RequestInv
    <3> QED BY <2>1, <3>1 DEF BudgetInv, Uncounted
  <2> QED BY <2>1, <2>2, <2>3, BudgetNumbers DEF BudgetInv
<1> QED BY <1>1, RequestsInvHolds, PTL

(* In shadow nothing is written to GitHub and no session is started; and a *)
(* watchdog in shadow only looks, though it still sends a fire that waited *)
(* out a rate limit (resolveEnforced, shadowDeps).                         *)
THEOREM ShadowLooksOnly == Spec => ShadowOnlyLooks
<1> DEFINE Writes == /\ labels' # labels \/ runs' \ runs # {}
                     /\ job # NoJob /\ job' # job
           Allowed == /\ ModeEnforced
                      /\ OfExpiry /\ job.then # "deferred" => WatchdogEnforced
                      /\ job.replays => WatchdogEnforced
<1>1. ASSUME TypeInv, RequestsInv, [Next]_allVars, Writes
      PROVE  Allowed
  <2>r. RequestInv /\ LooksFirst
    BY <1>1 DEF RequestsInv, JobInv
  <2>w. ASSUME Enforced(job.event), job.pc \notin {"recover", "expire"},
               OfExpiry /\ job.then = "expiry" => job.event = "WATCHDOG_EXPIRED"
        PROVE  Allowed
    BY <2>r, <2>w DEF RequestInv, LooksFirst, OfExpiry, OfWatchdog, Enforced
  <2>1. WriteLabel \/ FireSent \/ AfterMergeFix
    <3>1. CASE Worker
      BY <1>1, <3>1
      DEF Worker, WebhookStep, TakeHook, ReadFacts, EndWatch, ArmFire, AfterEvent, CountMergeFix, Comment,
          ReturnHook, WatchdogStep, AlarmForNothing, DropDeferred, SendDeferred, StartExpiry, Replay,
          ReplayApplied, ReplayNotApplied, RetryOnce, Expire, AfterExpiry, AfterFiredAgain, ReturnAlarm,
          SignalStep, IgnoreSignal, Heartbeat, Completion, TakeOutcome, EndFire, ReturnOutcome, github
    <3>2. CASE Alarm \/ UNCHANGED allVars
      BY <1>1, <3>2 DEF Alarm, Ring, allVars, vars
    <3>3. CASE People \/ GitHubWorks \/ Sessions
      BY <1>1, <3>3, OutsideJob DEF storage
    <3>4. CASE Failures
      BY <1>1, <3>4
      DEF Failures, Throws, ThrowHook, ThrowAlarm, ThrowReplay, Crashes, CrashHook, CrashAlarm, Refused,
          RefuseHook, RefuseAlarm, Limited, FireLimited, Unheard, LostAnswer, Unread, SendDeferredUnread,
          StartExpiryUnread, GivesUp, GiveUp, Loses, github
    <3> QED BY <1>1, <3>1, <3>2, <3>3, <3>4 DEF Next
  <2>2. CASE WriteLabel
    <3>1. Enforced(job.event) /\ job.pc = "write"
      BY <1>1, <2>2 DEF WriteLabel
    <3> QED BY <2>r, <2>w, <3>1 DEF RequestInv, Applies
  <2>3. CASE FireSent
    <3>1. Enforced(job.event) /\ job.pc = "send"
      BY <1>1, <2>3 DEF FireSent, github
    <3> QED BY <2>r, <2>w, <3>1 DEF RequestInv, Applies
  <2>4. CASE AfterMergeFix
    <3>1. Enforced(job.event) /\ job.pc = "after" /\ job.then = "mergeFix"
      BY <1>1, <2>4 DEF AfterMergeFix, After
    <3> QED BY <2>r, <2>w, <3>1 DEF RequestInv, OfWatchdog
  <2> QED BY <2>1, <2>2, <2>3, <2>4
<1>2. TypeInv /\ RequestsInv /\ [Next]_allVars => [Writes => Allowed]_allVars
  BY <1>1
<1> QED BY <1>2, RequestsInvHolds, PTL DEF Spec, ShadowOnlyLooks
----------------------------------------------------------------------------
(* An outcome is applied once: CarrierInv, SourceInv, FoundInv and         *)
(* AnsweredInv are inductive together, where no answer to a fire is lost   *)
(* (a fire whose answer is lost may have two sessions, each with a report  *)
(* of its own).                                                            *)

(* What a session says of its run, carried by a webhook, a signal, a       *)
(* comment posted, or the request that handles one of them.                *)
Said(s) == {s[i] : i \in 1..Len(s)}

IsOutcome(h) == h.run # NoRun /\ h.event \notin SignalKinds

Carriers == {h \in hooks \cup Said(posted) \cup Said(job.left) \cup {job.hook} : IsOutcome(h)}

(* The fires whose sessions may have started.                              *)
Launched == IF job.pc = "send" THEN fires - 1 ELSE fires

(* One session per fire, of its routine, reporting once: what is still     *)
(* carried is of fires whose sessions are gone, one outcome each.          *)
CarrierInv ==
  /\ \A h \in Carriers :
       /\ h.n \in 1..Launched
       /\ h.event \in Outcomes(h.run)
       /\ \A r \in Routines : newest[r] = h.n => r = h.run
  /\ \A g, h \in Carriers : g.n = h.n => g.run = h.run /\ g.event = h.event
  /\ \A s \in runs :
       /\ s.gen \in 1..Launched
       /\ \A r \in Routines : newest[r] = s.gen => r = s.run
       /\ \A h \in Carriers : h.n # s.gen
       /\ s.gen \notin answered
  /\ \A s, t \in runs : s.gen = t.gen => s = t
  /\ \A r \in Routines : newest[r] <= fires
  /\ answered \subseteq 1..Launched
  /\ job.pc = "send" =>
       fires > 0 /\ \A r \in Routines : newest[r] = fires <=> r = job.rule.run

(* What a report's own request does after its rule.                       *)
OutcomeThens == {"none", "tail", "capped", "findings", "block", "passed"}

(* Whose outcome a request is about, and what it took as the pending fire. *)
SourceInv ==
  /\ \A h \in hooks : h.by = "github" => h.event \notin SignalKinds
  /\ job.hook.run # NoRun =>
       /\ job.hook.event \notin SignalKinds
       /\ job.then \in OutcomeThens
       /\ job.applied => job.pc \in {"write", "send", "after", "comment", "return"}
  /\ job.src = "webhook" => job.hook.by = "github"
  /\ job.src = "signal" \/ job.replays =>
       /\ job.hook.run # NoRun /\ job.old.run = job.hook.run /\ ~job.old.deferred
  /\ job.hook # NoHook => job.src \in {"webhook", "signal"} \/ job.replays

(* The comments found are of the pending fire's routine.                   *)
FoundInv ==
  /\ \A h \in Said(posted) \cup Said(job.left) : IsOutcome(h)
  /\ pending.run # NoRun => \A h \in Said(posted) : h.run = pending.run
  /\ job.pc = "send" =>
       pending.run \in {NoRun, job.rule.run} /\ \A h \in Said(posted) : h.run = job.rule.run
  /\ job.pc = "recover" /\ job.left # <<>> => ~pending.deferred
  /\ job.replays /\ ~job.applied => pending.run = job.old.run /\ ~pending.deferred
  /\ job.pc = "recover" \/ (job.replays /\ ~job.applied) =>
       \A h \in Said(job.left) : h.run = pending.run

(* A routine's newest fire, once answered, is pending no more, and any     *)
(* carrier of its outcome left finds it applied.                           *)
Answered(r) == newest[r] \in answered

(* A request on a report, still to be settled or applied.                 *)
Settles == job.hook.run # NoRun /\ ~(job.pc = "return" /\ ~job.applied)

AnsweredInv ==
  /\ \A r \in Routines : Answered(r) => pending.run # r
  /\ \A h \in hooks :
       h.by = "github" /\ h.run # NoRun /\ h.n = newest[h.run] /\ Answered(h.run)
         => applied[h.run].event = h.event
  /\ Settles /\ job.hook.n = newest[job.hook.run] => ~Answered(job.hook.run)
  /\ job.hook.run # NoRun /\ job.old.run = job.hook.run => ~Answered(job.hook.run)
  /\ Settles /\ job.applied /\ job.pc # "write" /\ job.hook.n = newest[job.hook.run]
       => pending.run # job.hook.run

OnceInv == CarrierInv /\ SourceInv /\ FoundInv /\ AnsweredInv

----------------------------------------------------------------------------
(* What is said, and what carries it.                                      *)

LEMMA SaidIn ==
  ASSUME NEW S, NEW s \in Seq(S)
  PROVE  Said(s) \subseteq S
BY DEF Said

LEMMA SaidOwn ==
  ASSUME NEW S, NEW s \in Seq(S)
  PROVE  s \in Seq(Said(s))
<1>1. s \in [1..Len(s) -> Said(s)] /\ Len(s) \in Nat
  BY DEF Said
<1> QED BY <1>1, SeqDef

LEMMA SaidNothing == Said(<<>>) = {}
BY DEF Said

LEMMA SaidWithout ==
  ASSUME NEW S, NEW s \in Seq(S), NEW i \in Nat
  PROVE  Said(Without(s, i)) \subseteq Said(s)
BY SaidOwn, WithoutType, SaidIn

LEMMA SaidMore ==
  ASSUME NEW S, NEW s \in Seq(S), NEW h
  PROVE  Said(Append(s, h)) = Said(s) \cup {h}
<1>1. Len(Append(s, h)) = Len(s) + 1 /\ Len(s) \in Nat
  OBVIOUS
<1>2. \A i \in 1..Len(s) : Append(s, h)[i] = s[i]
  OBVIOUS
<1>3. Append(s, h)[Len(s) + 1] = h
  OBVIOUS
<1>4. 1..(Len(s) + 1) = 1..Len(s) \cup {Len(s) + 1}
  BY <1>1
<1> QED BY <1>1, <1>2, <1>3, <1>4 DEF Said

(* The last of what is left, and the rest of it.                           *)
LEMMA SaidLast ==
  ASSUME NEW S, NEW s \in Seq(S), s # <<>>
  PROVE  s[Len(s)] \in Said(s) /\ Said(SubSeq(s, 1, Len(s) - 1)) \subseteq Said(s)
<1>1. Len(s) \in Nat \ {0}
  OBVIOUS
<1>2. SubSeq(s, 1, Len(s) - 1) \in Seq(Said(s))
  <2>1. s \in Seq(Said(s))
    BY SaidOwn
  <2> QED BY <1>1, <2>1
<1>3. s[Len(s)] \in Said(s)
  BY <1>1 DEF Said
<1> QED BY <1>2, <1>3, SaidIn

LEMMA NoHookIs == NoHook.run = NoRun /\ NoHook.by = "github" /\ ~IsOutcome(NoHook)
BY DEF NoHook, Hook, IsOutcome

LEMMA NoFireIs == NoFire.run = NoRun /\ NoFire.deferred = FALSE /\ NoRun \notin Routines
BY DEF NoFire, NoRun, Routines

(* What sessions report is no label of a person's, no check suite's end,   *)
(* and no signal of another kind.                                          *)
LEMMA OutcomesAre ==
  ASSUME NEW run, NEW o \in Outcomes(run)
  PROVE  o \notin SignalKinds \cup ByLabel \cup {"CHECKS"}
BY DEF Outcomes, SignalKinds, ByLabel

(* The handlers of an outcome: its rule, or nothing.                       *)
LEMMA OutcomeHandled ==
  ASSUME NEW j \in JobType, j.then = "none", j.event \notin ByLabel \cup {"CHECKS"}, HandleEvent(j)
  PROVE  job'.then \in OutcomeThens
<1> USE DEF OutcomeThens, ByLabel
<1>a. \A event, then : ApplyEvent(j, event, then).then = then
  BY ApplyEventMoves
<1>r. Returns(j, FALSE).then = "none"
  BY DEF Returns, JobType
<1>1. ASSUME HandleReworkEnd(j)  PROVE job'.then \in OutcomeThens
  <2> DEFINE Good(x) == x.then \in OutcomeThens
  <2>1. ASSUME NEW flags \in SUBSET {"ciFix", "reviewLoop", "reworkExpired"}, NEW event
        PROVE  Good(ApplyEvent([j EXCEPT !.late = flags], event, "tail"))
    <3>1. [j EXCEPT !.late = flags] \in JobType
      BY DEF JobType
    <3>2. ApplyEvent([j EXCEPT !.late = flags], event, "tail").then = "tail"
      BY <3>1, ApplyEventMoves
    <3> QED BY <3>2
  <2>2. Good(Returns(j, FALSE))
    BY <1>r
  <2> HIDE DEF Good
  <2>3. Good(job')
    BY <1>1, <2>1, <2>2 DEF HandleReworkEnd
  <2> QED BY <2>3 DEF Good
<1>2. ASSUME HandleOther(j)  PROVE job'.then \in OutcomeThens
  BY <1>2, <1>a DEF HandleOther
<1>3. ASSUME HandleNothing(j)  PROVE job'.then \in OutcomeThens
  BY <1>3, <1>r DEF HandleNothing
<1>4. ASSUME HandleFindings(j)  PROVE job'.then \in OutcomeThens
  BY <1>4, <1>a DEF HandleFindings
<1> QED BY <1>1, <1>2, <1>3, <1>4
        DEF HandleEvent, HandleReworkLabel, HandleReviewLabel, HandleMergeLabel, HandleChecks

----------------------------------------------------------------------------
(* The parts, by what a step does to the carriers and to the request.      *)

(* No carrier is new.                                                      *)
NothingNewSaid ==
  /\ \A h \in hooks' : h \in hooks \/ (h.run = NoRun /\ h.event \notin SignalKinds)
                                 \/ (h.by = "session" /\ h.event \in SignalKinds)
  /\ Said(posted') \subseteq Said(posted)

(* A request's report was carried before it.                               *)
HeardBefore ==
  /\ job'.hook \in {job.hook, NoHook} \cup hooks \cup Said(job.left)
  /\ Said(job'.left) \subseteq Said(job.left) \cup Said(posted)

LEMMA CarriersShrink ==
  ASSUME NothingNewSaid, HeardBefore
  PROVE  Carriers' \subseteq Carriers
<1>1. \A h \in Carriers' : IsOutcome(h)
  BY DEF Carriers
<1>2. \A h \in Carriers' : h \in hooks \cup Said(posted) \cup Said(job.left) \cup {job.hook}
  BY NoHookIs DEF Carriers, NothingNewSaid, HeardBefore, IsOutcome
<1> QED BY <1>1, <1>2 DEF Carriers

(* No fire is new, and only a carrier's is answered.                       *)
NoNewFire == fires' = fires /\ newest' = newest

LEMMA CarrierShrinks ==
  ASSUME TypeInv, CarrierInv, NoNewFire, Carriers' \subseteq Carriers, runs' \subseteq runs,
         answered' \subseteq answered \cup {h.n : h \in Carriers},
         job'.pc = "send" => job.pc = "send" /\ job'.rule = job.rule
  PROVE  CarrierInv'
<1>1. fires \in Nat /\ Launched \in Int /\ Launched <= Launched'
  BY DEF TypeInv, TypeOK, ItemTypeOK, NoNewFire, Launched
<1>2. 1..Launched \subseteq 1..Launched'
  BY <1>1 DEF NoNewFire, Launched
<1>3. \A h \in Carriers :
        /\ h.n \in 1..Launched
        /\ h.event \in Outcomes(h.run)
        /\ \A r \in Routines : newest[r] = h.n => r = h.run
  BY DEF CarrierInv
<1>4. \A s \in runs :
        /\ s.gen \in 1..Launched
        /\ \A r \in Routines : newest[r] = s.gen => r = s.run
        /\ \A h \in Carriers : h.n # s.gen
        /\ s.gen \notin answered
  BY DEF CarrierInv
<1>5. \A s \in runs : s.gen \notin answered'
  BY <1>4
<1>6. answered' \subseteq 1..Launched'
  BY <1>2, <1>3 DEF CarrierInv
<1>7. job'.pc = "send" =>
        fires' > 0 /\ \A r \in Routines : newest'[r] = fires' <=> r = job'.rule.run
  BY DEF CarrierInv, NoNewFire
<1>8. \A r \in Routines : newest'[r] <= fires'
  BY DEF CarrierInv, NoNewFire
<1>9. /\ \A g, h \in Carriers' : g.n = h.n => g.run = h.run /\ g.event = h.event
      /\ \A s, t \in runs' : s.gen = t.gen => s = t
  BY DEF CarrierInv
<1> QED BY <1>2, <1>3, <1>4, <1>5, <1>6, <1>7, <1>8, <1>9, Zenon DEF CarrierInv, NoNewFire

(* The pending fire is left, or dropped.                                   *)
SamePending == pending'.run = pending.run /\ pending'.deferred = pending.deferred

(* ClearPendingFire.                                                       *)
Drops == pending'.run = NoRun /\ pending'.deferred = FALSE

LEMMA HooksHeard ==
  ASSUME SourceInv, NothingNewSaid
  PROVE  \A h \in hooks' : h.by = "github" => h.event \notin SignalKinds
BY DEF SourceInv, NothingNewSaid

(* Nothing is answered: what is, stays so.                                 *)
LEMMA AnsweredStays ==
  ASSUME AnsweredInv, NoNewFire, answered' = answered, applied' = applied, NothingNewSaid,
         SamePending \/ Drops
  PROVE  /\ \A r \in Routines : Answered(r)' <=> Answered(r)
         /\ \A r \in Routines : Answered(r)' => pending'.run # r
         /\ \A h \in hooks' :
              h.by = "github" /\ h.run # NoRun /\ h.n = newest'[h.run] /\ Answered(h.run)'
                => applied'[h.run].event = h.event
BY NoFireIs DEF AnsweredInv, Answered, NoNewFire, SamePending, Drops, NothingNewSaid

(* No request, or one that is about no outcome.                            *)
LEMMA OnceAside ==
  ASSUME TypeInv, OnceInv, NoNewFire, answered' = answered, applied' = applied,
         NothingNewSaid, HeardBefore, runs' = runs, SamePending \/ Drops,
         \/ job'.hook = NoHook
         \/ job'.hook = job.hook /\ job.hook.run = NoRun /\ job'.src = job.src /\ ~job.replays,
         job'.replays = FALSE, job'.src # "signal", job'.pc # "send",
         job'.pc = "recover" /\ job'.left # <<>> => ~pending'.deferred,
         job'.pc = "recover" => \A h \in Said(job'.left) : h.run = pending'.run
  PROVE  OnceInv'
<1>1. CarrierInv'
  BY CarriersShrink, CarrierShrinks DEF OnceInv
<1>2. SourceInv'
  BY HooksHeard, NoHookIs DEF OnceInv, SourceInv
<1>3. FoundInv'
  BY DEF OnceInv, FoundInv, NothingNewSaid, HeardBefore, SamePending, Drops
<1>4. AnsweredInv'
  BY AnsweredStays, NoHookIs DEF OnceInv, AnsweredInv, Settles
<1> QED BY <1>1, <1>2, <1>3, <1>4 DEF OnceInv

(* The request stands still.                                               *)
LEMMA OnceStands ==
  ASSUME TypeInv, OnceInv, NoNewFire, answered' = answered, applied' = applied,
         NothingNewSaid, runs' \subseteq runs, job' = job,
         SamePending \/ (Drops /\ job = NoJob)
  PROVE  OnceInv'
<1>1. CarrierInv'
  BY CarriersShrink, CarrierShrinks DEF OnceInv, HeardBefore
<1>2. SourceInv'
  BY HooksHeard DEF OnceInv, SourceInv
<1>3. FoundInv'
  BY NoJobIs DEF OnceInv, FoundInv, NothingNewSaid, SamePending, Drops
<1>4. AnsweredInv'
  <2>1. job.hook.run \in Routines \cup {NoRun}
    BY DEF TypeInv, TypeOK, ItemTypeOK, JobType, HookType, AnyRun
  <2>2. CASE SamePending
    BY <2>1, <2>2, AnsweredStays DEF OnceInv, AnsweredInv, Settles, NoNewFire, SamePending
  <2>3. CASE Drops /\ job = NoJob
    BY <2>3, AnsweredStays, NoJobIs, NoHookIs DEF OnceInv, AnsweredInv, Settles
  <2> QED BY <2>2, <2>3
<1> QED BY <1>1, <1>2, <1>3, <1>4 DEF OnceInv

(* The request goes on, and sends no fire.                                 *)
LEMMA OnceGoesOn ==
  ASSUME TypeInv, OnceInv, JobInv, NoNewFire, answered' = answered, applied' = applied,
         NothingNewSaid, runs' \subseteq runs, Carries,
         job'.pc \in {"write", "after", "facts", "count", "comment", "return"}, job.pc # "return",
         job'.pc \in {"facts", "count"} => job.then \notin OutcomeThens,
         job'.pc = "write" => job.pc = "write",
         SamePending \/ (Drops /\ job.pc = "write"),
         job.pc = "write" /\ job'.pc # "write" => Drops
  PROVE  OnceInv'
<1>1. CarrierInv'
  BY CarriersShrink, CarrierShrinks DEF OnceInv, HeardBefore, Carries
<1>2. SourceInv'
  BY HooksHeard DEF OnceInv, SourceInv, Carries
<1>3. FoundInv'
  <2>1. job.pc = "write" => job.applied
    BY DEF JobInv, RequestInv, Applies
  <2> QED BY <2>1 DEF OnceInv, FoundInv, NothingNewSaid, SamePending, Drops, Carries
<1>4. AnsweredInv'
  <2>1. job.hook.run \in Routines \cup {NoRun}
    BY DEF TypeInv, TypeOK, ItemTypeOK, JobType, HookType, AnyRun
  <2>2. Settles' => Settles
    BY DEF Settles, Carries
  <2>3. ASSUME Settles', job'.applied, job'.pc # "write", job'.hook.n = newest'[job'.hook.run]
        PROVE  pending'.run # job'.hook.run
    BY <2>2, <2>3 DEF OnceInv, AnsweredInv, NoNewFire, SamePending, Drops, Carries, Settles
  <2>4. ~Answered(job.hook.run) => ~Answered(job.hook.run)'
    BY DEF Answered, NoNewFire, Carries
  <2>5. /\ Settles' /\ job'.hook.n = newest'[job'.hook.run] => ~Answered(job.hook.run)'
        /\ job'.hook.run # NoRun /\ job'.old.run = job'.hook.run => ~Answered(job.hook.run)'
    BY <2>2, <2>4 DEF OnceInv, AnsweredInv, NoNewFire, Carries
  <2> QED BY <2>3, <2>5, AnsweredStays DEF OnceInv, AnsweredInv
<1> QED BY <1>1, <1>2, <1>3, <1>4 DEF OnceInv

----------------------------------------------------------------------------
(* The steps that make a fire of it, and send it.                          *)

LEMMA HookIsCarrier ==
  ASSUME OnceInv, job.hook.run # NoRun
  PROVE  job.hook \in Carriers
BY DEF OnceInv, SourceInv, Carriers, IsOutcome

LEMMA CarrierRuns ==
  ASSUME TypeInv
  PROVE  \A h \in Carriers : h.run \in Routines
<1>1. /\ hooks \subseteq HookType /\ job.hook \in HookType
      /\ posted \in Seq(ReportType) /\ job.left \in Seq(ReportType)
  BY DEF TypeInv, TypeOK, ItemTypeOK, JobType
<1>2. Said(posted) \subseteq ReportType /\ Said(job.left) \subseteq ReportType
  BY <1>1, SaidIn
<1>3. \A h \in HookType \cup ReportType : h.run \in Routines \cup {NoRun}
  BY DEF HookType, ReportType, AnyRun
<1> QED BY <1>1, <1>2, <1>3 DEF Carriers, IsOutcome

LEMMA RuleRuns ==
  ASSUME TypeInv
  PROVE  job.rule.run \in Routines \cup {NoRun}
BY DEF TypeInv, TypeOK, ItemTypeOK, JobType, RuleType, NoRule, Rule, AnyRun

LEMMA SendsAFire ==
  ASSUME TypeInv, job.pc = "send"
  PROVE  job.rule.run \in Routines
BY RuleRuns DEF TypeInv, SendsARun

LEMMA ArmFireOnce ==
  ASSUME TypeInv, OnceInv, JobInv, ArmFire,
         newest' = [newest EXCEPT ![job.rule.run] = fires'], answered' = answered
  PROVE  OnceInv'
<1> DEFINE q == job.rule.run
<1>t. /\ fires \in Nat /\ newest \in [Routines -> Nat] /\ applied \in [Routines -> AppliedType]
      /\ job \in JobType /\ hooks \subseteq HookType
      /\ job.hook.run \in Routines \cup {NoRun}
  BY DEF TypeInv, TypeOK, ItemTypeOK, JobType, HookType, AnyRun
<1>1. /\ job.pc = "write" /\ job'.pc = "send" /\ Carries
      /\ q \in Routines /\ fires' = fires + 1 /\ posted' = <<>>
      /\ runs' = runs /\ hooks' = hooks /\ newest' = [newest EXCEPT ![q] = fires + 1]
  BY <1>t, RuleMoves, RuleRuns DEF ArmFire, GoesTo
<1>2. pending'.run \in {q, NoRun}
  <2>1. CASE Watched(job)
    BY <2>1 DEF ArmFire, SetPendingFire, NoFire
  <2>2. CASE ~Watched(job)
    BY <2>2 DEF ArmFire, ClearPendingFire, NoFire
  <2> QED BY <2>1, <2>2
<1>a. job.applied
  BY <1>1 DEF JobInv, RequestInv, Applies
<1>3. Said(posted') = {}
  BY <1>1, SaidNothing
<1>4. Carriers' \subseteq Carriers
  BY <1>1, <1>3, CarriersShrink DEF NothingNewSaid, HeardBefore, Carries
<1>5. Launched = fires /\ Launched' = fires
  BY <1>t, <1>1 DEF Launched
<1>6. \A h \in Carriers : h.n \in 1..fires
  BY <1>5 DEF OnceInv, CarrierInv
<1>7. /\ answered \subseteq 1..fires
      /\ \A r \in Routines : newest[r] \in Nat /\ newest[r] <= fires
  BY <1>t, <1>5 DEF OnceInv, CarrierInv
<1>8. /\ newest'[q] = fires + 1
      /\ \A r \in Routines \ {q} : newest'[r] = newest[r]
  BY <1>t, <1>1
<1>9. CarrierInv'
  <2>1. \A h \in Carriers' : \A r \in Routines : newest'[r] = h.n => r = h.run
    BY <1>t, <1>4, <1>6, <1>8 DEF OnceInv, CarrierInv
  <2>2. \A s \in runs : s.gen \in 1..fires /\ (\A r \in Routines : newest'[r] = s.gen => r = s.run)
    BY <1>t, <1>5, <1>8 DEF OnceInv, CarrierInv
  <2>3. fires' > 0 /\ \A r \in Routines : newest'[r] = fires' <=> r = job'.rule.run
    BY <1>t, <1>1, <1>7, <1>8 DEF Carries
  <2>4. \A r \in Routines : newest'[r] <= fires'
    BY <1>t, <1>1, <1>7, <1>8
  <2> QED BY <1>1, <1>4, <1>5, <2>1, <2>2, <2>3, <2>4 DEF OnceInv, CarrierInv
<1>10. SourceInv'
  BY <1>1 DEF OnceInv, SourceInv, Carries
<1>11. FoundInv'
  BY <1>1, <1>2, <1>3, <1>a DEF OnceInv, FoundInv, Carries
<1>12. \A r \in Routines : Answered(r)' => r # q /\ Answered(r)
  BY <1>t, <1>7, <1>8 DEF Answered
<1>13. job.hook.run # NoRun /\ job.hook.n = newest'[job.hook.run] => job.hook.run # q
  BY <1>t, <1>6, <1>8, HookIsCarrier
<1>14. AnsweredInv'
  <2>1. \A r \in Routines : Answered(r)' => pending'.run # r
    BY <1>2, <1>12, NoFireIs
  <2>2. ASSUME NEW h \in hooks', h.by = "github", h.run # NoRun, h.n = newest'[h.run], Answered(h.run)'
        PROVE  applied'[h.run].event = h.event
    <3>1. h \in hooks /\ h.run \in Routines
      BY <1>t, <1>1, <2>2 DEF HookType, AnyRun
    <3>2. h.run # q /\ Answered(h.run)
      BY <1>12, <2>2, <3>1
    <3>3. applied'[h.run] = applied[h.run] /\ newest'[h.run] = newest[h.run]
      BY <1>t, <1>8, <3>1, <3>2 DEF ArmFire
    <3> QED BY <2>2, <3>1, <3>2, <3>3 DEF OnceInv, AnsweredInv
  <2>3. ASSUME Settles', job'.hook.n = newest'[job'.hook.run]
        PROVE  ~Answered(job.hook.run)' /\ pending'.run # job'.hook.run
    <3>1. job.hook.run \in Routines /\ job.hook.run # q /\ Settles /\ job'.hook = job.hook
      BY <1>t, <1>1, <1>13, <2>3 DEF Settles, Carries
    <3>2. newest'[job.hook.run] = newest[job.hook.run] /\ job.hook.n = newest[job.hook.run]
      BY <1>8, <2>3, <3>1
    <3>3. ~Answered(job.hook.run)
      BY <3>1, <3>2 DEF OnceInv, AnsweredInv
    <3>4. ~Answered(job.hook.run)'
      BY <3>1, <3>2, <3>3 DEF Answered
    <3> QED BY <1>2, <3>1, <3>4, NoFireIs
  <2>4. ASSUME job'.hook.run # NoRun, job'.old.run = job'.hook.run  PROVE ~Answered(job.hook.run)'
    <3>1. job.hook.run \in Routines /\ ~Answered(job.hook.run) /\ job'.hook = job.hook
      BY <1>t, <1>1, <2>4 DEF OnceInv, AnsweredInv, Carries
    <3>2. newest'[job.hook.run] \in {fires + 1, newest[job.hook.run]} /\ fires + 1 \notin answered
      BY <1>t, <1>7, <1>8, <3>1
    <3>3. newest'[job.hook.run] \notin answered
      BY <3>1, <3>2 DEF Answered
    <3> QED BY <3>1, <3>3 DEF Answered
  <2> QED BY <2>1, <2>2, <2>3, <2>4 DEF AnsweredInv
<1> QED BY <1>9, <1>10, <1>11, <1>14 DEF OnceInv

(* The fire's session starts.                                              *)
LEMMA FireSentOnce ==
  ASSUME TypeInv, OnceInv, JobInv, FireSent, NoNewFire, answered' = answered
  PROVE  OnceInv'
<1>t. /\ fires \in Nat /\ job \in JobType /\ newest \in [Routines -> Nat]
      /\ job.hook.run \in Routines \cup {NoRun}
  BY DEF TypeInv, TypeOK, ItemTypeOK, JobType, HookType, AnyRun
<1>1. /\ job.pc = "send" /\ job'.pc = "after" /\ Carries
      /\ UNCHANGED <<hooks, posted, pending, applied, fires, newest>>
  BY <1>t, RuleMoves DEF FireSent, GoesTo, NoNewFire, watch
<1>2. Carriers' \subseteq Carriers
  BY <1>1, CarriersShrink DEF NothingNewSaid, HeardBefore, Carries
<1>3. Launched = fires - 1 /\ Launched' = fires
  BY <1>1 DEF Launched
<1>4. 1..Launched \subseteq 1..fires /\ fires \notin 1..Launched
  BY <1>t, <1>3
<1>5. runs' \subseteq runs \cup {Started(FALSE)} /\ Started(FALSE).gen = fires /\ Started(FALSE).run = job.rule.run
  BY DEF FireSent, Started
<1>6. /\ fires \in 1..fires
      /\ \A r \in Routines : newest[r] = fires => r = job.rule.run
  BY <1>t, <1>1, SendsAFire DEF OnceInv, CarrierInv
<1>7. CarrierInv'
  <2>1. \A h \in Carriers' : h.n \in 1..Launched /\ h.n \in 1..fires /\ h.n # fires
    BY <1>2, <1>4 DEF OnceInv, CarrierInv
  <2>2. answered \subseteq 1..Launched
    BY DEF OnceInv, CarrierInv
  <2>3. ASSUME NEW s \in runs'
        PROVE  /\ s.gen \in 1..fires
               /\ \A r \in Routines : newest[r] = s.gen => r = s.run
               /\ \A h \in Carriers' : h.n # s.gen
               /\ s.gen \notin answered
    <3>1. CASE s \in runs
      BY <1>2, <1>4, <3>1 DEF OnceInv, CarrierInv
    <3>2. CASE s = Started(FALSE)
      BY <1>1, <1>4, <1>5, <1>6, <2>1, <2>2, <3>2 DEF OnceInv, CarrierInv
    <3> QED BY <1>5, <2>3, <3>1, <3>2
  <2>4. \A s, t \in runs' : s.gen = t.gen => s = t
    BY <1>4, <1>5 DEF OnceInv, CarrierInv
  <2>5. \A h \in Carriers' :
          h.event \in Outcomes(h.run) /\ \A r \in Routines : newest'[r] = h.n => r = h.run
    BY <1>1, <1>2 DEF OnceInv, CarrierInv
  <2>6. \A g, h \in Carriers' : g.n = h.n => g.run = h.run /\ g.event = h.event
    BY <1>2 DEF OnceInv, CarrierInv
  <2>7. \A r \in Routines : newest'[r] <= fires'
    BY <1>1 DEF OnceInv, CarrierInv
  <2> QED BY <1>1, <1>3, <1>4, <2>1, <2>2, <2>3, <2>4, <2>5, <2>6, <2>7 DEF CarrierInv
<1>8. SourceInv'
  BY <1>1 DEF OnceInv, SourceInv, Carries
<1>9. FoundInv'
  BY <1>1 DEF OnceInv, FoundInv, Carries
<1>10. AnsweredInv'
  BY <1>1 DEF OnceInv, AnsweredInv, Settles, Answered, Carries
<1> QED BY <1>7, <1>8, <1>9, <1>10 DEF OnceInv

(* The fire is rate-limited: pending, to be sent later.                    *)
LEMMA FireLimitedOnce ==
  ASSUME TypeInv, OnceInv, JobInv, FireLimited, NoNewFire, answered' = answered
  PROVE  OnceInv'
<1>t. /\ fires \in Nat /\ job \in JobType /\ newest \in [Routines -> Nat]
      /\ job.hook.run \in Routines \cup {NoRun} /\ job.rule.run \in Routines
  BY SendsAFire DEF TypeInv, TypeOK, ItemTypeOK, JobType, HookType, AnyRun, FireLimited
<1>1. /\ job.pc = "send" /\ job'.pc = "after" /\ Carries
      /\ UNCHANGED <<hooks, posted, applied, fires, newest>> /\ runs' = runs
      /\ pending'.run = job.rule.run
  BY <1>t, RuleMoves DEF FireLimited, GoesTo, NoNewFire, SetPendingFire, Deferral, NoFire
<1>2. CarrierInv'
  BY <1>1, CarriersShrink, CarrierShrinks DEF NothingNewSaid, HeardBefore, Carries, OnceInv
<1>3. SourceInv'
  BY <1>1 DEF OnceInv, SourceInv, Carries
<1>4. FoundInv'
  <2>1. job.applied
    BY <1>1 DEF JobInv, RequestInv, Applies
  <2> QED BY <1>1, <2>1 DEF OnceInv, FoundInv, Carries
<1>5. newest[job.rule.run] = fires /\ answered \subseteq 1..(fires - 1)
  BY <1>t, <1>1 DEF OnceInv, CarrierInv, Launched
<1>6. job.hook.run # NoRun /\ job.hook.n = newest[job.hook.run] => job.rule.run # job.hook.run
  <2>1. \A h \in Carriers : h.n \in 1..(fires - 1)
    BY <1>1 DEF OnceInv, CarrierInv, Launched
  <2> QED BY <1>t, <1>5, <2>1, HookIsCarrier
<1>7. AnsweredInv'
  <2>1. \A r \in Routines : Answered(r)' => pending'.run # r
    BY <1>t, <1>1, <1>5 DEF OnceInv, AnsweredInv, Answered
  <2>2. Settles' => Settles
    BY <1>1 DEF Settles, Carries
  <2>3. Settles' /\ job'.hook.n = newest'[job'.hook.run] => pending'.run # job'.hook.run
    BY <1>1, <1>6 DEF Settles, Carries
  <2> QED BY <1>1, <2>1, <2>2, <2>3 DEF OnceInv, AnsweredInv, Answered, Carries
<1> QED BY <1>2, <1>3, <1>4, <1>7 DEF OnceInv

----------------------------------------------------------------------------
(* A carrier is taken up.                                                  *)

(* By the webhook's handler, or the signal's.                              *)
LEMMA CarrierTaken ==
  ASSUME TypeInv, HeardInv, NEW h \in hooks, NEW src \in {"webhook", "signal"},
         HandleEvent(Begin(h, src))
  PROVE  /\ Handling(job')
         /\ job'.src = src /\ job'.replays = FALSE /\ job'.hook = h /\ job'.left = <<>>
         /\ job'.old = IF h.run # NoRun THEN pending ELSE NoFire
         /\ AlreadyApplied(h) => job'.pc = "return" /\ ~job'.applied
         /\ h.event \notin ByLabel \cup {"CHECKS"} => job'.then \in OutcomeThens
<1> DEFINE j == Begin(h, src)
<1>1. j \in JobType /\ CountsTypeOK
  BY BeginType DEF TypeInv, TypeOK, ItemTypeOK, CountsTypeOK, JobSources
<1>2. /\ Begun(j) /\ j.src = src /\ j.replays = FALSE /\ j.left = <<>>
      /\ j.event = h.event /\ j.hook = h /\ j.then = "none"
      /\ j.old = IF h.run # NoRun THEN pending ELSE NoFire
  BY DEF Begin, NoJob, Begun
<1>3. HandleEvent(j)
  OBVIOUS
<1> HIDE DEF j
<1>4. HandledAs(j, job')
  <2>1. j.event \notin Decided
    BY <1>2 DEF HeardInv, Derived
  <2> QED BY <1>1, <1>2, <1>3, <2>1, HandleEventMoves
<1>5. AlreadyApplied(h) => job'.pc = "return" /\ ~job'.applied
  BY <1>1, <1>2, <1>3 DEF HandleEvent, HandleNothing, Returns, JobType
<1>6. h.event \notin ByLabel \cup {"CHECKS"} => job'.then \in OutcomeThens
  BY <1>1, <1>2, <1>3, OutcomeHandled
<1> QED BY <1>2, <1>4, <1>5, <1>6 DEF HandledAs

(* What is left to say of a request on an outcome, from what it takes as   *)
(* the pending fire.                                                       *)
LEMMA OnceTaken ==
  ASSUME TypeInv, OnceInv, NoNewFire, answered' = answered, HeardBefore, Handling(job'),
         UNCHANGED <<hooks, posted, runs, pending, applied>>,
         job'.hook.run # NoRun =>
           /\ job'.hook \in Carriers
           /\ job'.then \in OutcomeThens
           /\ job'.old = pending
           /\ AlreadyApplied(job'.hook) => job'.pc = "return" /\ ~job'.applied
           /\ (job'.hook \in hooks /\ job'.hook.by = "github") \/ job'.hook.run = pending.run,
         job'.src = "webhook" => job'.hook.by = "github",
         job'.src = "signal" \/ job'.replays =>
           job'.hook.run # NoRun /\ job'.hook.run = pending.run /\ ~pending.deferred,
         job'.hook # NoHook => job'.src \in {"webhook", "signal"} \/ job'.replays,
         job'.replays => \A h \in Said(job'.left) : h.run = pending.run
  PROVE  OnceInv'
<1>1. NothingNewSaid
  BY DEF NothingNewSaid
<1>2. job'.pc \in {"return", "facts", "after", "write"} /\ (job'.applied /\ job'.pc # "facts" => job'.pc = "write")
  BY DEF Handling
<1>3. job'.pc = "facts" => job'.then \notin OutcomeThens
  BY DEF Handling, OutcomeThens
<1>4. CarrierInv'
  BY <1>1, <1>2, CarriersShrink, CarrierShrinks DEF OnceInv
<1>5. SourceInv'
  <2>1. job'.hook.run # NoRun => job'.hook.event \notin SignalKinds
    BY DEF Carriers, IsOutcome
  <2> QED BY <1>1, <1>2, <1>3, <2>1, HooksHeard DEF OnceInv, SourceInv
<1>6. FoundInv'
  BY <1>2 DEF OnceInv, FoundInv, HeardBefore
<1>7. AnsweredInv'
  <2>1. \A r : Answered(r)' <=> Answered(r)
    BY DEF Answered, NoNewFire
  <2>2. job'.hook.run # NoRun => job'.hook.run \in Routines
    BY CarrierRuns
  <2>3. ASSUME Settles', job'.hook.n = newest[job'.hook.run], Answered(job'.hook.run)
        PROVE  FALSE
    <3>1. pending.run # job'.hook.run
      BY <2>2, <2>3 DEF OnceInv, AnsweredInv, Settles
    <3>2. job'.hook \in hooks /\ job'.hook.by = "github" /\ job'.hook.run # NoRun
      BY <2>3, <3>1 DEF Settles
    <3>3. applied[job'.hook.run].event = job'.hook.event
      BY <2>3, <3>2 DEF OnceInv, AnsweredInv
    <3>4. AlreadyApplied(job'.hook)
      BY <3>1, <3>2, <3>3 DEF AlreadyApplied
    <3> QED BY <2>3, <3>2, <3>4 DEF Settles
  <2>4. ASSUME job'.hook.run # NoRun, job'.old.run = job'.hook.run  PROVE ~Answered(job'.hook.run)
    BY <2>2, <2>4 DEF OnceInv, AnsweredInv
  <2>5. Settles' /\ job'.applied /\ job'.pc # "write" => FALSE
    BY <1>2, <1>3 DEF Settles
  <2>6. /\ Settles' /\ job'.hook.n = newest'[job'.hook.run] => ~Answered(job.hook.run)'
        /\ job'.hook.run # NoRun /\ job'.old.run = job'.hook.run => ~Answered(job.hook.run)'
    BY <2>3, <2>4 DEF Answered, NoNewFire
  <2>7. \A r \in Routines : Answered(r)' => pending'.run # r
    BY <2>1 DEF OnceInv, AnsweredInv
  <2>8. \A h \in hooks' :
          h.by = "github" /\ h.run # NoRun /\ h.n = newest'[h.run] /\ Answered(h.run)'
            => applied'[h.run].event = h.event
    BY <2>1 DEF OnceInv, AnsweredInv, NoNewFire
  <2> QED BY <2>5, <2>6, <2>7, <2>8 DEF AnsweredInv
<1> QED BY <1>4, <1>5, <1>6, <1>7 DEF OnceInv

LEMMA TakeHookOnce ==
  ASSUME TypeInv, OnceInv, HeardInv, NEW h \in hooks, TakeHook(h) \/ TakeOutcome(h),
         NoNewFire, answered' = answered
  PROVE  OnceInv'
<1>1. PICK src \in {"webhook", "signal"} :
        /\ HandleEvent(Begin(h, src))
        /\ src = "webhook" => h.by = "github"
        /\ src = "signal" => h.by = "session" /\ h.event \notin SignalKinds /\ Live(h)
  BY DEF TakeHook, TakeOutcome
<1>2. UNCHANGED <<hooks, posted, runs, pending, applied>> /\ job = NoJob
  BY DEF TakeHook, TakeOutcome, watch, Idle
<1>3. /\ Handling(job')
      /\ job'.src = src /\ job'.replays = FALSE /\ job'.hook = h /\ job'.left = <<>>
      /\ job'.old = IF h.run # NoRun THEN pending ELSE NoFire
      /\ AlreadyApplied(h) => job'.pc = "return" /\ ~job'.applied
      /\ h.event \notin ByLabel \cup {"CHECKS"} => job'.then \in OutcomeThens
  BY <1>1, CarrierTaken
<1>4. h \in HookType
  BY DEF TypeInv, TypeOK, ItemTypeOK
<1>5. h.by = "github" \/ (h.by = "session" /\ h.run \in Routines)
  BY <1>4 DEF HookType
<1>6. h.run # NoRun => h \in Carriers /\ h.event \in Outcomes(h.run)
  <2>1. h.event \notin SignalKinds
    BY <1>1, <1>5 DEF OnceInv, SourceInv
  <2> QED BY <2>1 DEF Carriers, IsOutcome, OnceInv, CarrierInv
<1>7. HeardBefore
  BY <1>3, SaidNothing DEF HeardBefore
<1>8. h.run # NoRun => job'.then \in OutcomeThens
  BY <1>3, <1>6, OutcomesAre
<1>9. src = "signal" => h.run # NoRun /\ h.run = pending.run /\ ~pending.deferred
  BY <1>1, <1>5, NoFireIs DEF Live
<1> QED BY <1>1, <1>2, <1>3, <1>6, <1>7, <1>8, <1>9, OnceTaken

LEMMA ReplayOnce ==
  ASSUME TypeInv, OnceInv, JobInv, HeardInv, Replay, NoNewFire, answered' = answered
  PROVE  OnceInv'
<1> DEFINE h    == job.left[Len(job.left)]
           rest == SubSeq(job.left, 1, Len(job.left) - 1)
           j    == [Begin(h, job.src) EXCEPT !.replays = TRUE, !.left = rest]
<1>1. /\ Handling(job') /\ job.pc = "recover"
      /\ job'.src = job.src /\ job'.replays = TRUE /\ job'.old = pending
      /\ job'.hook = h /\ job'.left = rest
  BY ReplayBegins
<1>2. job.left \in Seq(ReportType) /\ job.left # <<>>
  BY DEF Replay, TypeInv, TypeOK, ItemTypeOK, JobType
<1>3. h \in Said(job.left) /\ Said(rest) \subseteq Said(job.left)
  BY <1>2, SaidLast
<1>4. j \in JobType /\ HandleEvent(j)
  BY ReplayJobType DEF Replay, TypeInv, TypeOK
<1>5. job.src \in {"alarm", "ended"}
  BY <1>1 DEF JobInv, RequestInv, OfExpiry
<1> HIDE DEF h, rest
<1>6. h.run = pending.run /\ ~pending.deferred /\ \A g \in Said(rest) : g.run = pending.run
  BY <1>1, <1>2, <1>3 DEF OnceInv, FoundInv
<1>8. h \in Carriers /\ h.run # NoRun /\ h.event \in Outcomes(h.run)
  BY <1>3 DEF OnceInv, FoundInv, CarrierInv, Carriers, IsOutcome
<1>9. j.then = "none" /\ j.event = h.event /\ j.hook = h
  BY <1>4 DEF Begin, NoJob
<1>10. job'.then \in OutcomeThens
  <2>1. h.event \notin ByLabel \cup {"CHECKS"}
    BY <1>8, OutcomesAre
  <2> HIDE DEF j
  <2> QED BY <1>4, <1>9, <2>1, OutcomeHandled
<1>11. AlreadyApplied(h) => job'.pc = "return" /\ ~job'.applied
  <2> HIDE DEF j
  <2> QED BY <1>4, <1>9 DEF HandleEvent, HandleNothing, Returns, JobType
<1>12. HeardBefore
  BY <1>1, <1>3 DEF HeardBefore
<1>13. UNCHANGED <<hooks, posted, runs, pending, applied>>
  BY DEF Replay, watch
<1> QED BY <1>1, <1>5, <1>6, <1>8, <1>10, <1>11, <1>12, <1>13, OnceTaken

(* The request of an applied outcome returns: it is remembered for its     *)
(* fire, or was its fire's last carrier.                                   *)
LEMMA OutcomeAnswered ==
  ASSUME TypeInv, OnceInv, NoNewFire, job.pc = "return", job.applied, job.hook.run # NoRun,
         RememberApplied(job), answered' = answered \cup {job.hook.n}, job' = NoJob,
         runs' = runs, hooks' \subseteq hooks, Said(posted') \subseteq Said(posted),
         job.src = "webhook" => job.hook \notin hooks',
         SamePending \/ Drops
  PROVE  OnceInv'
<1> DEFINE q == job.hook.run
           n == job.hook.n
<1>t. /\ job.hook \in HookType /\ hooks \subseteq HookType /\ applied \in [Routines -> AppliedType]
  BY DEF TypeInv, TypeOK, ItemTypeOK, JobType
<1>1. job.hook \in Carriers /\ q \in Routines
  BY HookIsCarrier, CarrierRuns
<1>2. NothingNewSaid /\ HeardBefore
  BY NoJobIs, SaidNothing DEF NothingNewSaid, HeardBefore
<1>3. CarrierInv'
  <2>1. answered' \subseteq answered \cup {h.n : h \in Carriers}
    BY <1>1
  <2> QED BY <1>2, <2>1, NoJobIs, CarriersShrink, CarrierShrinks DEF OnceInv
<1>4. SourceInv'
  BY <1>2, NoJobIs, NoHookIs, HooksHeard DEF OnceInv, SourceInv
<1>5. FoundInv'
  BY <1>2, NoJobIs, SaidNothing DEF OnceInv, FoundInv, NothingNewSaid, SamePending, Drops
<1>6. \A r \in Routines : newest[r] = n => r = q
  BY <1>1 DEF OnceInv, CarrierInv
<1>7. newest[q] = n => pending.run # q
  BY <1>1 DEF OnceInv, AnsweredInv, Settles
<1>8. ASSUME NEW r \in Routines, Answered(r)'  PROVE pending'.run # r
  <2>1. newest[r] \in answered \/ newest[r] = n
    BY <1>8 DEF Answered, NoNewFire
  <2>2. pending.run # r
    BY <1>6, <1>7, <2>1 DEF OnceInv, AnsweredInv, Answered
  <2> QED BY <2>2, NoFireIs DEF SamePending, Drops
<1>9. ASSUME NEW h \in hooks', h.by = "github", h.run # NoRun, h.n = newest'[h.run], Answered(h.run)'
      PROVE  applied'[h.run].event = h.event
  <2> DEFINE remembered == /\ job.old.run = q /\ ~job.old.deferred
                           /\ ~(pending.run = q /\ pending.gen # job.old.gen)
  <2>1. h \in hooks /\ h \in Carriers /\ h.run \in Routines /\ h.n = newest[h.run]
    <3>1. h \in Carriers
      BY <1>9 DEF OnceInv, SourceInv, Carriers, IsOutcome
    <3> QED BY <1>9, <3>1, CarrierRuns DEF NoNewFire
  <2>2. CASE h.n = n
    <3>1. h.run = q /\ h.event = job.hook.event
      BY <1>1, <2>1, <2>2 DEF OnceInv, CarrierInv
    <3>2. job.src # "webhook"
      <4>1. ASSUME job.src = "webhook"  PROVE h = job.hook
        BY <1>t, <1>9, <2>1, <2>2, <3>1, <4>1 DEF OnceInv, SourceInv, HookType
      <4> QED BY <1>9, <4>1
    <3>3. job.old.run = q /\ ~job.old.deferred
      BY <1>1, <3>2, NoHookIs DEF OnceInv, SourceInv
    <3>4. pending.run # q
      BY <1>7, <2>1, <2>2, <3>1
    <3>5. applied' = [applied EXCEPT ![q] = [event |-> job.hook.event, gen |-> job.old.gen]]
      BY <3>3, <3>4 DEF RememberApplied
    <3> QED BY <1>t, <1>1, <3>1, <3>5
  <2>3. CASE h.n # n
    <3>1. Answered(h.run)
      BY <1>9, <2>1, <2>3 DEF Answered, NoNewFire
    <3>2. applied[h.run].event = h.event
      BY <1>9, <2>1, <3>1 DEF OnceInv, AnsweredInv
    <3>3. CASE h.run = q
      <4>1. job.old.run # q
        BY <1>1, <3>1, <3>3 DEF OnceInv, AnsweredInv
      <4> QED BY <3>2, <4>1 DEF RememberApplied
    <3>4. CASE h.run # q
      BY <1>t, <1>1, <2>1, <3>2, <3>4 DEF RememberApplied
    <3> QED BY <3>3, <3>4
  <2> QED BY <2>2, <2>3
<1>10. AnsweredInv'
  BY <1>8, <1>9, NoJobIs, NoHookIs DEF AnsweredInv, Settles
<1> QED BY <1>3, <1>4, <1>5, <1>10 DEF OnceInv

(* A session reports its outcome, and ends.                                *)
LEMMA ReportsOnce ==
  ASSUME TypeInv, OnceInv, NEW r \in runs, NEW o \in Outcomes(r.run) \cap env.reports, Reports(r, o)
  PROVE  OnceInv'
<1> DEFINE new == {Hook(o, r.run, r.gen), Signal(o, r.run, r.gen)}
<1>t. /\ r.run \in Routines /\ posted \in Seq(ReportType)
      /\ job.hook.run \in Routines \cup {NoRun}
  BY DEF TypeInv, TypeOK, ItemTypeOK, SessionType, JobType, HookType, AnyRun
<1>1. /\ hooks' \subseteq hooks \cup new /\ runs' = runs \ {r}
      /\ posted' = IF pending.run = r.run THEN Append(posted, Hook(o, r.run, r.gen)) ELSE posted
      /\ UNCHANGED <<fires, pending, applied, job, newest, answered>>
  BY DEF Reports, Sends, Ends, storage, watch, history
<1>2. o \notin SignalKinds
  BY OutcomesAre
<1>3. \A h \in new : h.event = o /\ h.run = r.run /\ h.n = r.gen /\ IsOutcome(h)
  BY <1>t, <1>2, NoFireIs DEF Hook, Signal, IsOutcome
<1>4. Said(posted') \subseteq Said(posted) \cup new /\ (pending.run # r.run => posted' = posted)
  BY <1>t, <1>1, SaidMore
<1> HIDE DEF new
<1>5. Carriers' \subseteq Carriers \cup new
  BY <1>1, <1>4 DEF Carriers
<1>6. Launched' = Launched
  BY <1>1 DEF Launched
<1>7. /\ r.gen \in 1..Launched /\ r.gen \notin answered
      /\ \A q \in Routines : newest[q] = r.gen => q = r.run
      /\ \A h \in Carriers : h.n # r.gen
      /\ \A s \in runs' : s.gen # r.gen
  BY <1>1 DEF OnceInv, CarrierInv
<1>8. CarrierInv'
  <2>1. \A h \in Carriers' :
          /\ h.n \in 1..Launched
          /\ h.event \in Outcomes(h.run)
          /\ \A q \in Routines : newest[q] = h.n => q = h.run
    BY <1>3, <1>5, <1>7 DEF OnceInv, CarrierInv
  <2>2. \A g, h \in Carriers' : g.n = h.n => g.run = h.run /\ g.event = h.event
    BY <1>3, <1>5, <1>7 DEF OnceInv, CarrierInv
  <2>3. \A s \in runs' : \A h \in Carriers' : h.n # s.gen
    BY <1>1, <1>3, <1>5, <1>7 DEF OnceInv, CarrierInv
  <2> QED BY <1>1, <1>6, <2>1, <2>2, <2>3 DEF OnceInv, CarrierInv
<1>9. SourceInv'
  BY <1>1, <1>2, <1>3 DEF OnceInv, SourceInv
<1>10. FoundInv'
  <2>1. job.pc = "send" /\ pending.run = r.run => r.run = job.rule.run
    BY <1>t, NoFireIs, Zenon DEF OnceInv, FoundInv
  <2> QED BY <1>1, <1>3, <1>4, <2>1 DEF OnceInv, FoundInv
<1>11. AnsweredInv'
  <2>1. ASSUME NEW h \in hooks', h.by = "github", h.run # NoRun, h.n = newest[h.run], Answered(h.run)
        PROVE  applied[h.run].event = h.event
    <3>1. h \in hooks
      BY <1>1, <1>3, <1>7, <2>1 DEF Answered
    <3> QED BY <2>1, <3>1 DEF OnceInv, AnsweredInv
  <2> QED BY <1>1, <2>1 DEF OnceInv, AnsweredInv, Answered, Settles
<1> QED BY <1>8, <1>9, <1>10, <1>11 DEF OnceInv

----------------------------------------------------------------------------
(* The steps.                                                              *)

LEMMA OnceNoJob ==
  ASSUME TypeInv, OnceInv, NoNewFire, answered' = answered, applied' = applied,
         NothingNewSaid, runs' = runs, pending' \in {pending, NoFire}, job' = NoJob
  PROVE  OnceInv'
<1>1. HeardBefore
  BY NoJobIs, SaidNothing DEF HeardBefore
<1>2. SamePending \/ Drops
  BY NoFireIs DEF SamePending, Drops
<1> QED BY <1>1, <1>2, NoJobIs, OnceAside

(* The request that ends has applied a report: the step that answers it.   *)
Answering == job.pc = "return" /\ job.applied /\ job.hook.run # NoRun

LEMMA Remembered ==
  ASSUME Remember
  PROVE  /\ fires' = fires => NoNewFire
         /\ fires' # fires => newest' = [newest EXCEPT ![job.rule.run] = fires']
         /\ answered' = IF Answering THEN answered \cup {job.hook.n} ELSE answered
BY DEF Remember, NoNewFire, Answering

(* A request's steps after its rule is chosen.                             *)
LEMMA RuleStepOnce ==
  ASSUME TypeInv, OnceInv, JobInv, NoNewFire, answered' = answered,
         WriteLabel \/ EndWatch \/ AfterMergeFix \/ CountMergeFix \/ Comment \/ AfterFiredAgain
  PROVE  OnceInv'
<1>t. ItemTypeOK /\ job \in JobType
  BY DEF TypeInv, TypeOK, ItemTypeOK
<1>1. /\ Carries /\ runs' = runs /\ applied' = applied /\ posted' = posted
      /\ job'.pc \in {"write", "after", "count", "comment", "return"} /\ job.pc # "return"
      /\ job'.pc = "count" => job.then = "mergeFix"
      /\ job'.pc = "write" => job.pc = "write"
      /\ pending' = IF job.pc = "write" /\ job'.pc # "write" THEN NoFire ELSE pending
  BY <1>t, RuleMoves
  DEF GoesTo, WriteLabel, EndWatch, AfterMergeFix, CountMergeFix, Comment, AfterFiredAgain, watch,
      ClearPendingFire
<1>2. NothingNewSaid
  BY DEF NothingNewSaid, WriteLabel, EndWatch, AfterMergeFix, CountMergeFix, Comment, AfterFiredAgain,
         Hook, SignalKinds
<1>3. /\ SamePending \/ (Drops /\ job.pc = "write")
      /\ job.pc = "write" /\ job'.pc # "write" => Drops
  BY <1>1, NoFireIs DEF SamePending, Drops
<1> QED BY <1>1, <1>2, <1>3, OnceGoesOn DEF OutcomeThens

LEMMA WebhookStepOnce ==
  ASSUME TypeInv, OnceInv, JobInv, HeardInv, WebhookStep, Remember
  PROVE  OnceInv'
<1>t. ItemTypeOK /\ job \in JobType
  BY DEF TypeInv, TypeOK, ItemTypeOK
<1>r. /\ fires' = fires => NoNewFire
      /\ job.pc # "return" => answered' = answered
  BY Remembered DEF Answering
<1>1. ASSUME NEW h \in hooks, TakeHook(h)  PROVE OnceInv'
  BY <1>r, <1>1, NoJobIs, TakeHookOnce DEF TakeHook, Idle
<1>2. CASE ReadFacts
  <2>1. job.pc = "facts" /\ GatedAs(job')
    BY <1>t, <1>2, GateMoves
  <2>2. job.hook.run = NoRun /\ ~job.replays /\ job.src # "signal"
    BY <2>1 DEF JobInv, RequestInv, OnceInv, SourceInv, OutcomeThens
  <2>3. /\ job'.hook = job.hook /\ job'.src = job.src /\ job'.replays = FALSE /\ job'.left = job.left
        /\ job'.pc \notin {"send", "recover"}
    BY <2>1, <2>2 DEF GatedAs
  <2>4. /\ NothingNewSaid /\ HeardBefore /\ SamePending /\ runs' = runs /\ applied' = applied
        /\ NoNewFire /\ answered' = answered
    BY <1>r, <1>2, <2>3 DEF ReadFacts, watch, NothingNewSaid, HeardBefore, SamePending
  <2> QED BY <2>2, <2>3, <2>4, OnceAside
<1>3. CASE WriteLabel \/ EndWatch \/ AfterMergeFix \/ CountMergeFix \/ Comment
  <2>1. fires' = fires /\ job.pc # "return"
    BY <1>3 DEF WriteLabel, EndWatch, AfterMergeFix, CountMergeFix, Comment, After
  <2> QED BY <1>r, <1>3, <2>1, RuleStepOnce
<1>4. CASE ArmFire
  <2>1. fires' # fires /\ job.pc = "write"
    BY <1>t, <1>4 DEF ArmFire, ItemTypeOK
  <2>2. newest' = [newest EXCEPT ![job.rule.run] = fires']
    BY <2>1, Remembered
  <2> QED BY <1>r, <1>4, <2>1, <2>2, ArmFireOnce
<1>5. CASE FireSent
  BY <1>r, <1>5, FireSentOnce DEF FireSent
<1>6. CASE AfterEvent
  <2>1. \/ GoesTo("after", "comment")
        \/ GoesTo("after", "return")
        \/ GoesTo("after", "facts") /\ job.then = "review"
    BY <1>t, <1>6, AfterMoves
  <2>2. /\ NothingNewSaid /\ SamePending /\ runs' = runs /\ applied' = applied /\ fires' = fires
    BY <1>6 DEF AfterEvent, watch, NothingNewSaid, SamePending
  <2> QED BY <1>r, <2>1, <2>2, OnceGoesOn DEF GoesTo, OutcomeThens
<1>7. CASE ReturnHook
  <2>1. /\ job.pc = "return" /\ job.src = "webhook" /\ RememberApplied(job) /\ job' = NoJob
        /\ hooks' = hooks \ {job.hook} /\ posted' = posted /\ runs' = runs /\ fires' = fires
        /\ pending' \in {pending, NoFire}
    BY <1>7 DEF ReturnHook, ClearPendingFire, KeepPendingFire
  <2>2. SamePending \/ Drops
    BY <2>1, NoFireIs DEF SamePending, Drops
  <2>3. CASE Answering
    BY <1>r, <2>1, <2>2, <2>3, Remembered, OutcomeAnswered DEF Answering
  <2>4. CASE ~Answering
    <3>1. answered' = answered /\ applied' = applied
      BY <2>1, <2>4, Remembered DEF Answering, RememberApplied
    <3> QED BY <1>r, <2>1, <3>1, OnceNoJob DEF NothingNewSaid
  <2> QED BY <2>3, <2>4
<1> QED BY <1>1, <1>2, <1>3, <1>4, <1>5, <1>6, <1>7 DEF WebhookStep

(* The watchdog's own next request: a look for outcomes, an expiry, or a   *)
(* fire sent again.                                                        *)
LEMMA LookOnce ==
  ASSUME TypeInv, OnceInv, NoNewFire, answered' = answered, applied' = applied,
         NothingNewSaid, runs' = runs, pending' \in {pending, NoFire},
         job'.hook = NoHook, job'.replays = FALSE, job'.src \in {"alarm", "ended"}, job'.pc # "send",
         job'.left \in {<<>>, job.left, posted},
         job'.pc = "recover" /\ job'.left # <<>> =>
           /\ pending' = pending /\ ~pending.deferred
           /\ \A h \in Said(job'.left) : h.run = pending.run
  PROVE  OnceInv'
<1>1. HeardBefore
  BY SaidNothing DEF HeardBefore
<1>2. SamePending \/ Drops
  BY NoFireIs DEF SamePending, Drops
<1>3. job'.left = <<>> => \A h \in Said(job'.left) : h.run = pending'.run
  BY SaidNothing
<1> QED BY <1>1, <1>2, <1>3, OnceAside

LEMMA SendAgainOnce ==
  ASSUME TypeInv, OnceInv, NoNewFire, answered' = answered,
         NEW then, NEW b, job' = FireAgain(then, b),
         UNCHANGED <<hooks, posted, runs, pending, applied>>
  PROVE  OnceInv'
<1>1. /\ job'.src = "alarm" /\ job'.pc = "write" /\ job'.replays = FALSE
      /\ job'.left = <<>> /\ job'.hook = NoHook
  BY FireAgainMoves DEF TypeInv, TypeOK
<1> QED BY <1>1, LookOnce DEF NothingNewSaid

LEMMA WatchdogStepOnce ==
  ASSUME TypeInv, OnceInv, RequestsInv, WatchdogStep, Remember
  PROVE  OnceInv'
<1> USE DEF RequestsInv
<1>t. ItemTypeOK /\ job \in JobType
  BY DEF TypeInv, TypeOK, ItemTypeOK
<1>f. fires' = fires
  BY DEF WatchdogStep, AlarmForNothing, DropDeferred, SendDeferred, StartExpiry, Replay, ReplayApplied,
         ReplayNotApplied, RetryOnce, Expire, AfterExpiry, AfterFiredAgain, ReturnAlarm
<1>r. /\ NoNewFire
      /\ ~Answering => answered' = answered
  BY <1>f, Remembered
<1>i. job.pc # "return" => ~Answering
  BY DEF Answering
<1>1. CASE AlarmForNothing \/ DropDeferred
  <2>1. /\ job' = job /\ job = NoJob /\ applied' = applied /\ runs' = runs
        /\ hooks' = hooks /\ posted' = posted /\ pending' \in {pending, NoFire}
    BY <1>1 DEF AlarmForNothing, DropDeferred, Idle, ClearPendingFire
  <2>2. SamePending \/ Drops
    BY <2>1, NoFireIs DEF SamePending, Drops
  <2> QED BY <1>r, <1>i, <2>1, <2>2, NoJobIs, OnceStands DEF NothingNewSaid
<1>2. CASE SendDeferred
  <2>1. job.pc = "idle" /\ UNCHANGED <<hooks, posted, runs, pending, applied>>
    BY <1>2, NoJobIs DEF SendDeferred, Idle, watch
  <2> QED BY <1>r, <1>i, <1>2, <2>1, SendAgainOnce DEF SendDeferred
<1>3. CASE StartExpiry
  <2>1. job.pc = "idle" /\ UNCHANGED <<hooks, posted, runs, pending, applied>>
    BY <1>3, NoJobIs DEF StartExpiry, Idle, watch
  <2>2. PICK pc \in {"recover", "expire"} :
          job' = AlarmJob(pc) \/ job' = [AlarmJob(pc) EXCEPT !.left = posted]
    BY <1>3 DEF StartExpiry
  <2>3. /\ job'.src = "alarm" /\ job'.pc = pc /\ job'.replays = FALSE
        /\ job'.hook = NoHook /\ job'.left \in {<<>>, posted}
    BY <2>2, AlarmJobMoves
  <2>4. ~pending.deferred /\ pending.run # NoRun
    BY <1>3 DEF StartExpiry, RetryInv
  <2> QED BY <1>r, <1>i, <2>1, <2>3, <2>4, LookOnce DEF NothingNewSaid, OnceInv, FoundInv
<1>4. CASE Replay
  BY <1>r, <1>i, <1>4, ReplayOnce DEF Replay
<1>5. CASE ReplayApplied
  <2>1. /\ job.pc = "return" /\ job.replays /\ job.applied /\ RememberApplied(job) /\ job' = NoJob
        /\ hooks' = hooks /\ posted' = posted /\ runs' = runs /\ pending' \in {pending, NoFire}
    BY <1>5 DEF ReplayApplied, ClearPendingFire, KeepPendingFire
  <2>2. SamePending \/ Drops
    BY <2>1, NoFireIs DEF SamePending, Drops
  <2>3. Answering /\ job.src # "webhook"
    BY <2>1 DEF Answering, OnceInv, SourceInv, JobInv, RequestInv
  <2> QED BY <1>r, <2>1, <2>2, <2>3, Remembered, OutcomeAnswered DEF Answering
<1>6. CASE ReplayNotApplied
  <2>1. /\ job.replays /\ ~job.applied /\ job' = BackToExpiry("recover") /\ pending' = pending
        /\ hooks' = hooks /\ runs' = runs /\ applied' = applied
        /\ posted' = Without(posted, Len(job.left) + 1)
    BY <1>6 DEF ReplayNotApplied, watch
  <2>2. /\ job'.src = job.src /\ job'.pc = "recover" /\ job'.replays = FALSE /\ job'.hook = NoHook
        /\ job'.left \in {<<>>, job.left}
    BY <2>1, BackMoves
  <2>3. NothingNewSaid
    <3>1. posted \in Seq(ReportType) /\ Len(job.left) + 1 \in Nat
      BY <1>t DEF ItemTypeOK, JobType
    <3> QED BY <2>1, <3>1, SaidWithout DEF NothingNewSaid
  <2>4. /\ ~pending.deferred /\ \A h \in Said(job.left) : h.run = pending.run
        /\ job.src \in {"alarm", "ended"} /\ ~Answering
    BY <2>1 DEF OnceInv, FoundInv, JobInv, RequestInv, Answering
  <2> QED BY <1>r, <2>1, <2>2, <2>3, <2>4, LookOnce
<1>7. CASE RetryOnce
  <2>1. /\ job.pc = "recover" /\ job.left = <<>>
        /\ UNCHANGED <<hooks, posted, runs, pending, applied>>
        /\ job' = FireAgain("retry", TRUE) \/ job' = BackToExpiry("expire")
    BY <1>7 DEF RetryOnce, watch
  <2>2. CASE job' = FireAgain("retry", TRUE)
    BY <1>r, <1>i, <2>1, <2>2, SendAgainOnce
  <2>3. CASE job' = BackToExpiry("expire")
    <3>1. /\ job'.src = job.src /\ job'.pc = "expire" /\ job'.replays = FALSE /\ job'.hook = NoHook
          /\ job'.left \in {<<>>, job.left}
      BY <2>3, BackMoves
    <3>2. job.src \in {"alarm", "ended"}
      BY <2>1 DEF JobInv, RequestInv, OfExpiry
    <3> QED BY <1>r, <1>i, <2>1, <3>1, <3>2, LookOnce DEF NothingNewSaid
  <2> QED BY <2>1, <2>2, <2>3
<1>8. CASE Expire
  <2> DEFINE j == [job EXCEPT !.seen = labels]
  <2>1. /\ j \in JobType /\ j.src = job.src /\ j.replays = job.replays /\ j.hook = job.hook /\ j.left = job.left
        /\ job' = ApplyEvent(j, "WATCHDOG_EXPIRED", "expiry") /\ job.pc = "expire"
        /\ UNCHANGED <<hooks, posted, runs, pending, applied>>
    BY <1>t, <1>8 DEF Expire, ItemTypeOK, JobType, watch
  <2> HIDE DEF j
  <2>2. /\ job'.src = job.src /\ job'.replays = job.replays /\ job'.hook = job.hook /\ job'.left = job.left
        /\ job'.pc \in {"after", "write"}
    BY <2>1, ApplyEventMoves
  <2>3. job.src \in {"alarm", "ended"} /\ ~job.replays
    BY <2>1 DEF JobInv, RequestInv, OfExpiry
  <2>4. job.hook = NoHook /\ job.replays = FALSE
    BY <1>t, <2>3 DEF OnceInv, SourceInv, JobType
  <2> QED BY <1>r, <1>i, <2>1, <2>2, <2>3, <2>4, LookOnce DEF NothingNewSaid
<1>9. CASE AfterExpiry
  <2>1. /\ job' = NoJob /\ job.pc = "after" /\ pending' = NoFire
        /\ UNCHANGED <<hooks, posted, runs, applied>>
    BY <1>9 DEF AfterExpiry, ClearPendingFire
  <2> QED BY <1>r, <1>i, <2>1, OnceNoJob DEF NothingNewSaid
<1>10. CASE AfterFiredAgain
  BY <1>r, <1>i, <1>10, RuleStepOnce DEF AfterFiredAgain
<1>11. CASE ReturnAlarm
  <2>1. /\ job' = NoJob /\ UNCHANGED <<hooks, posted, runs, applied, pending>>
        /\ job.src = "alarm" /\ ~job.replays
    BY <1>11 DEF ReturnAlarm
  <2>2. ~Answering
    BY <2>1, NoHookIs DEF Answering, OnceInv, SourceInv
  <2> QED BY <1>r, <2>1, <2>2, OnceNoJob DEF NothingNewSaid
<1> QED BY <1>1, <1>2, <1>3, <1>4, <1>5, <1>6, <1>7, <1>8, <1>9, <1>10, <1>11 DEF WatchdogStep

LEMMA SignalStepOnce ==
  ASSUME TypeInv, OnceInv, RequestsInv, SignalStep, Remember
  PROVE  OnceInv'
<1> USE DEF RequestsInv
<1>t. ItemTypeOK /\ job \in JobType
  BY DEF TypeInv, TypeOK, ItemTypeOK
<1>f. fires' = fires
  BY DEF SignalStep, IgnoreSignal, Heartbeat, Completion, TakeOutcome, EndFire, ReturnOutcome
<1>r. /\ NoNewFire
      /\ ~Answering => answered' = answered
  BY <1>f, Remembered
<1>i. job = NoJob => ~Answering
  BY NoJobIs DEF Answering
<1>1. ASSUME NEW s \in hooks, IgnoreSignal(s) \/ Heartbeat(s) \/ Completion(s)  PROVE OnceInv'
  <2>1. /\ job' = job /\ job = NoJob /\ runs' = runs /\ applied' = applied
        /\ hooks' \subseteq hooks /\ posted' = posted
    BY <1>1 DEF IgnoreSignal, Heartbeat, Completion, Idle, Handled
  <2>2. SamePending \/ Drops
    <3>1. CASE IgnoreSignal(s)
      BY <3>1 DEF IgnoreSignal, watch, SamePending
    <3>2. CASE Heartbeat(s)
      BY <1>t, <3>2 DEF Heartbeat, SetPendingFire, SamePending, ItemTypeOK, FireType
    <3>3. CASE Completion(s)
      BY <3>3, NoFireIs DEF Completion, ClearPendingFire, Drops
    <3> QED BY <1>1, <3>1, <3>2, <3>3
  <2> QED BY <1>r, <1>i, <2>1, <2>2, OnceStands DEF NothingNewSaid
<1>2. ASSUME NEW s \in hooks, TakeOutcome(s)  PROVE OnceInv'
  BY <1>r, <1>i, <1>2, TakeHookOnce DEF TakeOutcome, Idle
<1>3. ASSUME NEW s \in hooks, EndFire(s)  PROVE OnceInv'
  <2>1. /\ job = NoJob /\ hooks' \subseteq hooks /\ UNCHANGED <<posted, runs, pending, applied>>
        /\ s.by = "session" /\ pending.run = s.run /\ ~pending.deferred
    BY <1>3 DEF EndFire, Idle, Handled, watch, Live
  <2>2. /\ job'.src = "ended" /\ job'.pc \in {"recover", "expire"} /\ job'.replays = FALSE
        /\ job'.hook = NoHook /\ job'.left \in {<<>>, posted}
    BY <1>3 DEF EndFire, NoJob
  <2>3. pending.run # NoRun
    <3>1. s \in HookType
      BY <1>t DEF ItemTypeOK
    <3> QED BY <2>1, <3>1, NoFireIs DEF HookType
  <2> QED BY <1>r, <1>i, <2>1, <2>2, <2>3, LookOnce DEF NothingNewSaid, OnceInv, FoundInv
<1>4. CASE ReturnOutcome
  <2>1. /\ job.pc = "return" /\ job.src = "signal" /\ RememberApplied(job) /\ job' = NoJob
        /\ hooks' \subseteq hooks /\ posted' = posted /\ runs' = runs
        /\ pending' \in {pending, NoFire}
    BY <1>4 DEF ReturnOutcome, ClearPendingFire, KeepPendingFire, Handled
  <2>2. SamePending \/ Drops
    BY <2>1, NoFireIs DEF SamePending, Drops
  <2>3. CASE Answering
    BY <1>r, <2>1, <2>2, <2>3, Remembered, OutcomeAnswered DEF Answering
  <2>4. CASE ~Answering
    <3>1. answered' = answered /\ applied' = applied
      BY <1>r, <2>1, <2>4 DEF Answering, RememberApplied
    <3> QED BY <1>r, <2>1, <3>1, OnceNoJob DEF NothingNewSaid
  <2> QED BY <2>3, <2>4
<1> QED BY <1>1, <1>2, <1>3, <1>4 DEF SignalStep

(* People, GitHub and the sessions say nothing but outcomes that is an     *)
(* outcome.                                                                *)
LEMMA OutsideOnce ==
  ASSUME TypeInv, OnceInv, People \/ GitHubWorks \/ Sessions
  PROVE  OnceInv'
<1>1. UNCHANGED <<job, pending, applied, fires, newest, answered>>
  BY OutsideJob DEF storage, watch, history
<1>2. ASSUME NothingNewSaid, runs' \subseteq runs  PROVE OnceInv'
  BY <1>1, <1>2, OnceStands DEF NoNewFire, SamePending
<1>3. CASE People
  <2>1. posted' = posted /\ runs' = runs
    BY <1>3 DEF People, PersonAddsLabel, PersonRemovesLabel, PersonPushes, PersonReplies, PersonCloses
  <2>2. \A h \in hooks' : h \in hooks \/ (h.run = NoRun /\ h.event \notin SignalKinds)
    <3>1. ASSUME NEW l, PersonAddsLabel(l) \/ PersonRemovesLabel(l)
          PROVE  \A h \in hooks' : h \in hooks \/ (h.run = NoRun /\ h.event \notin SignalKinds)
      <4>1. LabelledEvent(l) \notin SignalKinds /\ UnlabelledEvent(l) \notin SignalKinds
        BY DEF LabelledEvent, UnlabelledEvent, SignalKinds
      <4> QED BY <3>1, <4>1 DEF PersonAddsLabel, PersonRemovesLabel, Sent, Hook
    <3>2. ASSUME PersonPushes \/ PersonReplies \/ PersonCloses
          PROVE  \A h \in hooks' : h \in hooks \/ (h.run = NoRun /\ h.event \notin SignalKinds)
      BY <3>2 DEF PersonPushes, Push, PersonReplies, PersonCloses, Hook, SignalKinds
    <3> QED BY <1>3, <3>1, <3>2 DEF People
  <2> QED BY <1>2, <2>1, <2>2 DEF NothingNewSaid
<1>4. CASE GitHubWorks
  <2>1. \A h \in hooks' : h \in hooks \/ (h.run = NoRun /\ h.event \notin SignalKinds)
    BY <1>4 DEF GitHubWorks, CiFinishes, MergeableChanges, Hook, SignalKinds
  <2>2. posted' = posted /\ runs' = runs
    BY <1>4 DEF GitHubWorks, CiFinishes, MergeableChanges
  <2> QED BY <1>2, <2>1, <2>2 DEF NothingNewSaid
<1>5. ASSUME NEW r \in runs, Session(r)  PROVE OnceInv'
  <2>1. ASSUME Pushes(r) \/ Merges(r)  PROVE OnceInv'
    <3>1. \A h \in hooks' : h \in hooks \/ (h.run = NoRun /\ h.event \notin SignalKinds)
      BY <2>1 DEF Pushes, Push, Merges, Hook, SignalKinds
    <3>2. posted' = posted /\ runs' \subseteq runs
      BY <2>1 DEF Pushes, Merges, Ends
    <3> QED BY <1>2, <3>1, <3>2 DEF NothingNewSaid
  <2>2. ASSUME Dies(r) \/ Steps(r)  PROVE OnceInv'
    <3>1. \A h \in hooks' : h \in hooks \/ (h.by = "session" /\ h.event \in SignalKinds)
      BY <2>2 DEF Dies, Steps, Sends, Signal, SignalKinds
    <3>2. posted' = posted /\ runs' \subseteq runs
      BY <2>2 DEF Dies, Steps, Ends
    <3> QED BY <1>2, <3>1, <3>2 DEF NothingNewSaid
  <2> QED BY <1>5, <2>1, <2>2, ReportsOnce DEF Session
<1> QED BY <1>3, <1>4, <1>5 DEF Sessions

LEMMA FailuresOnce ==
  ASSUME TypeInv, OnceInv, RequestsInv, Failures, "unheard" \notin Faults
  PROVE  OnceInv'
<1> USE DEF RequestsInv
<1>t. ItemTypeOK /\ job \in JobType
  BY DEF TypeInv, TypeOK, ItemTypeOK
<1>h. answered' = answered /\ newest' = newest
  BY DEF Failures, history
<1>0. ~Unheard
  BY DEF Unheard, Fails
<1>1. CASE ThrowHook \/ ThrowAlarm \/ CrashHook \/ RefuseHook
  <2>1. /\ job' = NoJob /\ pending' \in {pending, NoFire} /\ hooks' \subseteq hooks
        /\ UNCHANGED <<posted, runs, applied, fires>>
    BY <1>1 DEF ThrowHook, ThrowAlarm, CrashHook, RefuseHook, ClearPendingFire, watch
  <2> QED BY <1>h, <2>1, OnceNoJob DEF NoNewFire, NothingNewSaid
<1>2. CASE CrashAlarm
  <2>1. /\ job' = NoJob /\ UNCHANGED <<hooks, runs, applied, fires, pending>>
        /\ posted' \in {posted, Without(posted, Len(job.left) + 1)}
    BY <1>2 DEF CrashAlarm, watch
  <2>2. posted \in Seq(ReportType) /\ Len(job.left) + 1 \in Nat
    BY <1>t DEF ItemTypeOK, JobType
  <2> QED BY <1>h, <2>1, <2>2, SaidWithout, OnceNoJob DEF NoNewFire, NothingNewSaid
<1>3. CASE ThrowReplay
  <2>1. /\ job.replays /\ UNCHANGED <<hooks, posted, runs, applied, fires, pending>>
        /\ job' = NoJob \/ job' = [BackToExpiry("recover") EXCEPT !.left = <<>>]
    BY <1>3 DEF ThrowReplay, watch
  <2>2. CASE job' = NoJob
    BY <1>h, <2>1, <2>2, OnceNoJob DEF NoNewFire, NothingNewSaid
  <2>3. CASE job' = [BackToExpiry("recover") EXCEPT !.left = <<>>]
    <3>1. /\ job'.src = job.src /\ job'.pc = "recover" /\ job'.replays = FALSE /\ job'.hook = NoHook
          /\ job'.left = <<>>
      BY <2>3, BackMoves DEF BackToExpiry, NoJob
    <3>2. job.src \in {"alarm", "ended"}
      BY <2>1 DEF JobInv, RequestInv
    <3> QED BY <1>h, <2>1, <3>1, <3>2, LookOnce DEF NoNewFire, NothingNewSaid
  <2> QED BY <2>1, <2>2, <2>3
<1>4. CASE RefuseAlarm
  <2>1. /\ job.src \in {"alarm", "ended"} /\ pending' = NoFire
        /\ UNCHANGED <<hooks, posted, runs, applied, fires>>
        /\ job' = NoJob \/ job' = BackToExpiry("expire")
    BY <1>4 DEF RefuseAlarm, ClearPendingFire
  <2>2. CASE job' = NoJob
    BY <1>h, <2>1, <2>2, OnceNoJob DEF NoNewFire, NothingNewSaid
  <2>3. CASE job' = BackToExpiry("expire")
    <3>1. /\ job'.src = job.src /\ job'.pc = "expire" /\ job'.replays = FALSE /\ job'.hook = NoHook
          /\ job'.left \in {<<>>, job.left}
      BY <2>3, BackMoves
    <3> QED BY <1>h, <2>1, <3>1, LookOnce DEF NoNewFire, NothingNewSaid
  <2> QED BY <2>1, <2>2, <2>3
<1>5. CASE Limited
  BY <1>h, <1>5, FireLimitedOnce DEF Limited, FireLimited, NoNewFire
<1>6. CASE GivesUp \/ Loses
  <2>1. /\ job' = job /\ pending' = pending /\ hooks' \subseteq hooks
        /\ UNCHANGED <<posted, runs, applied, fires>>
    BY <1>6 DEF GivesUp, GiveUp, Loses, storage, watch
  <2> QED BY <1>h, <2>1, OnceStands DEF NoNewFire, NothingNewSaid, SamePending
<1>7. CASE SendDeferredUnread
  <2>1. UNCHANGED <<hooks, posted, runs, pending, applied, fires>>
    BY <1>7 DEF SendDeferredUnread, watch
  <2> QED BY <1>h, <1>7, <2>1, SendAgainOnce DEF SendDeferredUnread, NoNewFire
<1>8. CASE StartExpiryUnread
  <2>1. /\ UNCHANGED <<hooks, posted, runs, pending, applied, fires>> /\ job' = AlarmJob("recover")
    BY <1>8 DEF StartExpiryUnread, watch
  <2>2. /\ job'.src = "alarm" /\ job'.pc = "recover" /\ job'.replays = FALSE
        /\ job'.hook = NoHook /\ job'.left = <<>>
    BY <2>1 DEF AlarmJob, NoJob
  <2> QED BY <1>h, <2>1, <2>2, LookOnce DEF NoNewFire, NothingNewSaid
<1> QED BY <1>0, <1>1, <1>2, <1>3, <1>4, <1>5, <1>6, <1>7, <1>8
        DEF Failures, Throws, Crashes, Refused, Unread

LEMMA OnceInit == Init => OnceInv
<1> SUFFICES ASSUME Init  PROVE OnceInv
  OBVIOUS
<1>1. Carriers = {} /\ Said(posted) = {} /\ Said(job.left) = {}
  BY SaidNothing, NoJobIs, NoHookIs DEF Init, Carriers
<1>2. CarrierInv
  BY <1>1, NoJobIs DEF Init, CarrierInv
<1>3. SourceInv
  BY NoJobIs, NoHookIs DEF Init, SourceInv
<1>4. FoundInv
  BY <1>1, NoJobIs DEF Init, FoundInv
<1>5. AnsweredInv
  BY NoJobIs, NoHookIs DEF Init, AnsweredInv, Answered, Settles
<1> QED BY <1>2, <1>3, <1>4, <1>5 DEF OnceInv

LEMMA OnceStep ==
  ASSUME TypeInv, RequestsInv, OnceInv, [Next]_allVars, "unheard" \notin Faults
  PROVE  OnceInv'
<1>1. CASE Worker
  BY <1>1, WebhookStepOnce, WatchdogStepOnce, SignalStepOnce DEF Worker, RequestsInv
<1>2. CASE Alarm
  <2>1. /\ UNCHANGED <<job, hooks, posted, runs, applied, fires, newest, answered>>
        /\ pending' = [pending EXCEPT !.due = TRUE]
    BY <1>2 DEF Alarm, Ring, history
  <2>2. SamePending
    BY <2>1 DEF SamePending, TypeInv, TypeOK, ItemTypeOK, FireType
  <2> QED BY <2>1, <2>2, OnceStands DEF NoNewFire, NothingNewSaid
<1>3. CASE UNCHANGED allVars
  BY <1>3, OnceStands DEF allVars, vars, watch, history, NoNewFire, NothingNewSaid, SamePending
<1>4. CASE People \/ GitHubWorks \/ Sessions
  BY <1>4, OutsideOnce
<1>5. CASE Failures
  BY <1>5, FailuresOnce
<1> QED BY <1>1, <1>2, <1>3, <1>4, <1>5 DEF Next

(* The outcome of a routine's newest fire is applied once, by whichever of *)
(* its carriers comes first (outcome-dedupe.ts): its comment's webhook,    *)
(* its session's signal, or the comment the watchdog finds.  But a fire    *)
(* whose answer is lost is asked for again, and its two sessions may each  *)
(* report.                                                                 *)
THEOREM NewestAppliedOnce ==
  ASSUME "unheard" \notin Faults
  PROVE  Spec => NewestOutcomeOnce
<1>1. Init => TypeInv /\ WatchInv /\ RequestsInv /\ OnceInv
  BY TypeInit, WatchInit, RequestsInit, OnceInit
<1>2. TypeInv /\ WatchInv /\ RequestsInv /\ OnceInv /\ [Next]_allVars
        => (TypeInv /\ WatchInv /\ RequestsInv /\ OnceInv)'
  BY TypeStep, WatchStep, RequestsStep, OnceStep
<1>3. OnceInv => [Answers /\ job.hook.n = newest[job.hook.run] => job.hook.n \notin answered]_allVars
  BY DEF OnceInv, AnsweredInv, Answers, Settles, Answered
<1> QED BY <1>1, <1>2, <1>3, PTL DEF Spec, NewestOutcomeOnce

----------------------------------------------------------------------------
(* AI_STUCK and the expiry's claim.                                        *)
(*                                                                         *)
(* Who gets a PR stuck ends its watch in the same request, so that nothing *)
(* expires under AI_STUCK; and whoever finds the label on and stays takes  *)
(* it off before it arms another fire.                                     *)

(* A request that puts AI_STUCK on: a cap's, or an expiry's.               *)
PutsOn(j) ==
  /\ j.applied /\ j.rule.to = "AI_STUCK" /\ j.rule.run = NoRun /\ j.then \in {"capped", "expiry"}
  /\ j.pc \in {"write", "after", "comment", "return"}

Adding == [op |-> "add", label |-> "AI_STUCK"]
Removing == [op |-> "remove", label |-> "AI_STUCK"]

AddsStuck(ops) == \E i \in 1..Len(ops) : ops[i] = Adding

Leaves(rule) == rule.to \notin {"noop", "close"} \/ rule.run # NoRun

(* A request that read the label: its rule leaves the item as it is, or    *)
(* begins by taking the label off.                                         *)
KnowsStuck(j) ==
  /\ "AI_STUCK" \in j.seen
  /\ j.pc # "send"
  /\ j.applied /\ Leaves(j.rule) =>
       j.pc = "write" /\ j.ops # <<>> /\ Head(j.ops) = Removing /\ j.event # "WATCHDOG_EXPIRED"
  /\ j.then = "review" /\ j.applied => Leaves(j.rule)

Stuck == "AI_STUCK" \in labels

StuckInv ==
  /\ Stuck => ModeEnforced
  /\ Stuck => pending.run = NoRun \/ (job.pc = "write" /\ PutsOn(job))
  /\ Stuck => \/ Idle
              \/ PutsOn(job)
              \/ job.src \in {"webhook", "signal"} /\ KnowsStuck(job)
  /\ Stuck /\ reworkExpired =>
       \/ stuckBy = "rework-loop"
       \/ PutsOn(job) /\ job.then = "capped" /\ job.pc \in {"write", "after"}
  /\ job.pc = "write" /\ AddsStuck(job.ops) => PutsOn(job)
  /\ job.then = "expiry" /\ job.pc = "write" /\ Enforced("WATCHDOG_EXPIRED") /\ reworkExpired =>
       job.old.run = "rework-loop"

----------------------------------------------------------------------------
(* AI_STUCK in the table.                                                  *)

(* Only a cap and an expiry lead to it, and fire nothing; no expiry leads  *)
(* out of it, nothing from it to itself, and what fires a run moves it to  *)
(* a label (graph.ts).                                                     *)
LEMMA StuckRulesSay ==
  ASSUME NEW r \in Rules
  PROVE  /\ r.to = "AI_STUCK" => r.run = NoRun /\ r.on \in {"REWORK_CAP_REACHED", "WATCHDOG_EXPIRED"}
         /\ r.from = "AI_STUCK" => r.on # "WATCHDOG_EXPIRED" /\ r.to # "AI_STUCK"
         /\ r.from = "AI_STUCK" /\ r.run # NoRun => r.to \notin {"noop", "close"}
         /\ r.on = "LABELLED_AI_REVIEWING" => r.to \notin {"noop", "close"}
BY SMTT(60) DEF Rules, IssueRules, ReleaseRules, MergeRules, ReviewRules, OutcomeRules, StageRules,
     UnlabelRules, WatchdogRules, StuckRules, Labels, NoRun, Rule, Fires, Moves, TakesOff, Closes, Stays

LEMMA LabelsAreFinite == IsFiniteSet(Labels)
<1>1. \A a, b, c, d : IsFiniteSet({a, b, c, d})
  <2> TAKE a, b, c, d
  <2>1. IsFiniteSet({a}) /\ IsFiniteSet({b}) /\ IsFiniteSet({c}) /\ IsFiniteSet({d})
    BY FS_Singleton
  <2>2. IsFiniteSet({a} \cup {b}) /\ IsFiniteSet({c} \cup {d})
    BY <2>1, FS_Union
  <2>3. IsFiniteSet(({a} \cup {b}) \cup ({c} \cup {d}))
    BY <2>2, FS_Union
  <2>4. ({a} \cup {b}) \cup ({c} \cup {d}) = {a, b, c, d}
    OBVIOUS
  <2> QED BY <2>3, <2>4
<1> DEFINE A == {"AI_READY", "PR_OPEN", "AI_BLOCKED", "AUTO_RELEASING"}
           B == {"AI_DISCUSSING", "AUTO_REWORKING", "AUTO_MERGING", "AI_STUCK"}
           C == {"MERGE_BLOCKED", "AI_REVIEWING", "READY_FOR_RELEASE", "READY_FOR_REVIEW"}
<1>2. Labels = A \cup (B \cup C)
  BY DEF Labels
<1>3. IsFiniteSet(A) /\ IsFiniteSet(B) /\ IsFiniteSet(C)
  BY <1>1
<1> QED BY <1>2, <1>3, FS_Union

(* Labels with AI_STUCK among them read as it, or as nothing: no label's   *)
(* own event takes it for what was just added.                             *)
LEMMA StuckIsSeen ==
  ASSUME NEW seen \in SUBSET Labels, "AI_STUCK" \in seen, NEW event
  PROVE  StateBefore(seen, event) \in {"AI_STUCK", "ambiguous"}
<1> DEFINE left == seen \ JustAdded(event)
           tracked == left \cap Labels
<1>1. "AI_STUCK" \in tracked
  BY DEF JustAdded, Labels
<1>2. IsFiniteSet(tracked)
  BY LabelsAreFinite, FS_Subset
<1>3. Cardinality(tracked) = 1 => tracked = {"AI_STUCK"}
  <2> SUFFICES ASSUME Cardinality(tracked) = 1  PROVE tracked = {"AI_STUCK"}
    OBVIOUS
  <2>1. PICK x : tracked = {x}
    BY <1>2, FS_Singleton
  <2> QED BY <1>1, <2>1
<1>4. Cardinality(tracked) = 1 => (CHOOSE l \in tracked : TRUE) = "AI_STUCK"
  BY <1>3
<1> HIDE DEF left
<1>5. DeriveState(left) \in {"AI_STUCK", "ambiguous"}
  BY <1>1, <1>4 DEF DeriveState
<1> QED BY <1>5 DEF StateBefore, left

LEMMA OneThenOne ==
  ASSUME NEW a, NEW b
  PROVE  <<a>> \o <<b>> = <<a, b>>
<1> DEFINE s == <<a>> \o <<b>>
           t == <<a, b>>
<1>1. <<a>> \in Seq({a, b}) /\ <<b>> \in Seq({a, b}) /\ t \in Seq({a, b})
  OBVIOUS
<1>2. s \in Seq({a, b}) /\ Len(s) = 2 /\ \A i \in 1..2 : s[i] = t[i]
  BY <1>1
<1>3. Len(t) = 2
  OBVIOUS
<1> QED BY <1>1, <1>2, <1>3, SeqEqual

(* The calls of a rule that leaves AI_STUCK begin with its removal, and    *)
(* only a rule to AI_STUCK puts it on (labelOps).                          *)
LEMMA StuckOps ==
  ASSUME NEW seen, NEW rule \in RuleType
  PROVE  /\ AddsStuck(LabelOps(seen, rule)) => rule.to = "AI_STUCK"
         /\ /\ rule.from = "AI_STUCK" /\ "AI_STUCK" \in seen
            /\ rule.to \notin {"noop", "close", "AI_STUCK"}
            => LabelOps(seen, rule) # <<>> /\ Head(LabelOps(seen, rule)) = Removing
<1> DEFINE removes == rule.from # "none" /\ rule.from # Target(rule) /\ rule.from \in seen
           adds    == rule.to \in Labels /\ rule.to # rule.from /\ rule.to \notin seen
           remove  == [op |-> "remove", label |-> rule.from]
           add     == [op |-> "add", label |-> rule.to]
           close   == [op |-> "close", label |-> "none"]
<1>1. LabelOps(seen, rule) =
        CASE rule.to = "noop"  -> <<>>
          [] rule.to = "close" -> <<close>>
          [] OTHER -> (IF removes THEN <<remove>> ELSE <<>>) \o (IF adds THEN <<add>> ELSE <<>>)
  BY DEF LabelOps
<1>c. /\ <<>> \o <<>> = <<>> /\ <<remove>> \o <<>> = <<remove>>
      /\ <<>> \o <<add>> = <<add>> /\ <<remove>> \o <<add>> = <<remove, add>>
  BY OneThenOne
<1> HIDE DEF removes, adds, remove, add, close
<1>2. LabelOps(seen, rule) \in {<<>>, <<close>>, <<remove>>, <<add>>, <<remove, add>>}
  BY <1>1, <1>c
<1>3. add = Adding => rule.to = "AI_STUCK"
  BY DEF Adding, add
<1>4. close # Adding /\ remove # Adding
  BY DEF Adding, close, remove
<1>5. AddsStuck(LabelOps(seen, rule)) => rule.to = "AI_STUCK"
  BY <1>2, <1>3, <1>4 DEF AddsStuck
<1>6. ASSUME rule.from = "AI_STUCK", "AI_STUCK" \in seen, rule.to \notin {"noop", "close", "AI_STUCK"}
      PROVE  LabelOps(seen, rule) # <<>> /\ Head(LabelOps(seen, rule)) = Removing
  <2>1. removes /\ remove = Removing
    BY <1>6 DEF Target, Removing, removes, remove
  <2>2. LabelOps(seen, rule) \in {<<remove>>, <<remove, add>>}
    BY <1>1, <1>c, <1>6, <2>1
  <2> QED BY <2>1, <2>2
<1> QED BY <1>5, <1>6

(* What a request that read the label, and what one that puts it on,       *)
(* chose.                                                                  *)
LEMMA ChosenKnows ==
  ASSUME NEW k \in JobType, NEW seen \in SUBSET Labels, "AI_STUCK" \in seen, Chosen(seen, k)
  PROVE  KnowsStuck(k)
<1>1. CASE ~k.applied
  BY <1>1 DEF Chosen, KnowsStuck
<1>2. CASE k.applied
  <2>1. /\ k.seen = seen /\ k.pc = "write"
        /\ k.rule \in Rules /\ k.rule.on = k.event /\ k.rule.from = StateBefore(seen, k.event)
        /\ k.ops = LabelOps(seen, k.rule)
        /\ k.then = "review" => k.event = "LABELLED_AI_REVIEWING"
    BY <1>2 DEF Chosen
  <2>2. k.rule \in RuleType /\ k.rule.from # "ambiguous"
    BY <2>1, RulesType DEF RuleType, State, Labels
  <2>3. k.rule.from = "AI_STUCK"
    BY <2>1, <2>2, StuckIsSeen
  <2>4. /\ k.event # "WATCHDOG_EXPIRED" /\ k.rule.to # "AI_STUCK"
        /\ k.rule.run # NoRun => k.rule.to \notin {"noop", "close"}
        /\ k.event = "LABELLED_AI_REVIEWING" => k.rule.to \notin {"noop", "close"}
    BY <2>1, <2>3, StuckRulesSay
  <2>5. k.rule.to \notin {"noop", "close"} => k.ops # <<>> /\ Head(k.ops) = Removing
    BY <2>1, <2>2, <2>3, <2>4, StuckOps
  <2> QED BY <2>1, <2>4, <2>5 DEF KnowsStuck, Leaves
<1> QED BY <1>1, <1>2 DEF JobType

LEMMA ChosenPuts ==
  ASSUME NEW k \in JobType, NEW seen, Chosen(seen, k), k.pc = "write", AddsStuck(k.ops)
  PROVE  PutsOn(k)
<1>1. /\ k.applied /\ k.rule \in Rules /\ k.rule.on = k.event /\ k.ops = LabelOps(seen, k.rule)
      /\ k.event = "REWORK_CAP_REACHED" => k.then = "capped"
      /\ k.event = "WATCHDOG_EXPIRED" => k.then = "expiry"
  BY DEF Chosen
<1>2. k.rule \in RuleType
  BY <1>1, RulesType
<1>3. k.rule.to = "AI_STUCK"
  BY <1>1, <1>2, StuckOps
<1> QED BY <1>1, <1>3, StuckRulesSay DEF PutsOn

----------------------------------------------------------------------------
(* The steps, by what becomes of the request: StuckInv is inductive as     *)
(* long as no request is cut off, beside TypeInv, WatchInv, RequestsInv.   *)

(* The alarm's requests, until one applies a rule, and those about to fire *)
(* run with the label off; so does what finds a fire under watch.          *)
LEMMA StuckIsOff ==
  ASSUME StuckInv, JobInv, TypeInv,
         \/ job.pc \in {"recover", "expire", "send"}
         \/ job.replays /\ ~job.applied
         \/ Idle /\ pending.run # NoRun
         \/ ArmFire
  PROVE  ~Stuck
<1>1. CASE job.pc \in {"recover", "expire", "send"} \/ (job.replays /\ ~job.applied)
  <2>1. ~Idle /\ ~PutsOn(job)
    BY <1>1, NoJobIs DEF Idle, PutsOn
  <2>2. job.src \in {"webhook", "signal"} => ~KnowsStuck(job)
    BY <1>1 DEF KnowsStuck, JobInv, RequestInv, OfExpiry
  <2> QED BY <2>1, <2>2 DEF StuckInv
<1>2. CASE Idle /\ pending.run # NoRun
  BY <1>2, NoJobIs DEF StuckInv, Idle
<1>3. CASE ArmFire
  <2>1. job.pc = "write" /\ job.ops = <<>> /\ job.rule.run # NoRun /\ job.applied
    BY <1>3 DEF ArmFire, JobInv, RequestInv, Applies
  <2>2. ~Idle /\ ~PutsOn(job) /\ ~KnowsStuck(job)
    BY <2>1, NoJobIs DEF Idle, PutsOn, KnowsStuck, Leaves
  <2> QED BY <2>2 DEF StuckInv
<1> QED BY <1>1, <1>2, <1>3

LEMMA StuckOff ==
  ASSUME ~Stuck', job'.pc # "write"
  PROVE  StuckInv'
BY DEF StuckInv, Stuck

(* Nothing is done to the request, and the label at most comes off.        *)
LEMMA StuckStands ==
  ASSUME StuckInv, job' = job, Stuck' => Stuck /\ stuckBy' = stuckBy,
         pending'.run \in {NoRun, pending.run}, reworkExpired' = reworkExpired
  PROVE  StuckInv'
BY DEF StuckInv, Idle

(* It is over, and its expiry's claim is settled.                          *)
LEMMA StuckNoJob ==
  ASSUME StuckInv, job' = NoJob, Stuck' => Stuck /\ stuckBy' = stuckBy,
         pending'.run \in {NoRun, pending.run},
         job.pc \in {"write", "after"} => job.then # "capped" /\ pending'.run = NoRun,
         reworkExpired' => reworkExpired
  PROVE  StuckInv'
BY NoJobIs DEF StuckInv, Idle

(* It goes on past its labels.                                             *)
LEMMA StuckGoesOn ==
  ASSUME StuckInv, Carries, job'.seen = job.seen, Stuck' => Stuck /\ stuckBy' = stuckBy,
         job.pc = "write" => job.ops = <<>> /\ pending'.run = NoRun,
         job.pc # "idle", job.pc # "send", job'.pc \in {"after", "count", "comment", "return"},
         job'.pc = "count" => job.then = "mergeFix",
         pending'.run \in {NoRun, pending.run},
         reworkExpired' => reworkExpired,
         PutsOn(job) /\ job.then = "capped" /\ job.pc \in {"write", "after"} =>
           job'.pc = "after" \/ ~reworkExpired'
  PROVE  StuckInv'
<1> SUFFICES ASSUME Stuck'  PROVE StuckInv'
  BY DEF StuckInv, Stuck
<1>1. ModeEnforced /\ Stuck /\ stuckBy' = stuckBy
  BY DEF StuckInv
<1>2. pending'.run = NoRun
  BY <1>1 DEF StuckInv
<1>3. PutsOn(job) \/ (job.src \in {"webhook", "signal"} /\ KnowsStuck(job))
  BY <1>1, NoJobIs DEF StuckInv, Idle
<1>4. PutsOn(job) => PutsOn(job')
  BY DEF PutsOn, Carries
<1>5. KnowsStuck(job) => KnowsStuck(job')
  BY DEF KnowsStuck, Carries
<1>6. job'.src = job.src /\ job'.then = job.then
  BY DEF Carries
<1>7. reworkExpired' => stuckBy = "rework-loop" \/ (PutsOn(job') /\ job'.then = "capped" /\ job'.pc = "after")
  BY <1>1, <1>4, <1>6 DEF StuckInv
<1> QED BY <1>1, <1>2, <1>3, <1>4, <1>5, <1>6, <1>7 DEF StuckInv

(* It begins, or its gate is read.                                         *)
LEMMA StuckBegins ==
  ASSUME StuckInv, TypeInv, TypeInv', UNCHANGED <<labels, pending>>,
         Stuck => /\ Idle /\ job'.src \in {"webhook", "signal"}
                  /\ stuckBy' = stuckBy /\ (reworkExpired' => reworkExpired),
         Chosen(labels, job'), job'.then # "expiry"
  PROVE  StuckInv'
<1>t. job' \in JobType /\ labels \in SUBSET Labels
  BY DEF TypeInv, TypeOK, ItemTypeOK
<1>1. Stuck' = Stuck /\ pending' = pending
  BY DEF Stuck
<1>2. Stuck => KnowsStuck(job')
  BY <1>t, ChosenKnows DEF Stuck
<1>3. job'.pc = "write" /\ AddsStuck(job'.ops) => PutsOn(job')
  BY <1>t, ChosenPuts
<1>4. Stuck => pending.run = NoRun /\ ModeEnforced /\ (reworkExpired => stuckBy = "rework-loop")
  BY NoJobIs DEF StuckInv, Idle
<1> QED BY <1>1, <1>2, <1>3, <1>4 DEF StuckInv

(* A fire is made again, with no label to write.                           *)
LEMMA StuckFiresAgain ==
  ASSUME TypeInv, ~Stuck', NEW then, then # "expiry", NEW b, job' = FireAgain(then, b)
  PROVE  StuckInv'
<1>1. job'.then = then
  BY FireAgainMoves DEF TypeInv, TypeOK
<1>2. job'.ops = <<>>
  BY DEF FireAgain, AlarmJob, NoJob
<1>3. ~AddsStuck(job'.ops)
  BY <1>2 DEF AddsStuck
<1> QED BY <1>1, <1>3 DEF StuckInv, Stuck

LEMMA SeenIsKept ==
  ASSUME ItemTypeOK,
         \/ EndWatch \/ FireSent \/ FireLimited \/ AfterMergeFix \/ CountMergeFix \/ Comment \/ AfterFiredAgain
         \/ AfterEvent /\ job.then # "review"
         \/ AfterEvent /\ ~job.applied
  PROVE  job'.seen = job.seen
BY DEF ItemTypeOK, JobType, EndWatch, FireSent, FireLimited, AfterMergeFix, CountMergeFix, Comment, Goes,
       AfterFiredAgain, AfterEvent, After, AfterNothingApplied, AfterTail, AfterReviewLabel, AfterReviewFix,
       AfterFindings, AfterCapped, AfterPassed, AfterBlock, AfterMergeFired, AfterDone

(* No handler makes the expiry's claim.                                    *)
LEMMA HandlersClaimNothing ==
  ASSUME NEW j, HandleEvent(j)
  PROVE  reworkExpired' => reworkExpired
BY DEF HandleEvent, HandleReworkEnd, HandleReworkLabel, HandleReviewLabel, HandleFindings, HandleMergeLabel,
       HandleChecks, HandleOther, HandleNothing, counts

(* One call for a label: a request takes AI_STUCK off whose rule leaves    *)
(* it, and only one that ends its watch puts it on.                        *)
LEMMA WriteLabelStuck ==
  ASSUME StuckInv, JobInv, TypeInv, WriteLabel, Remember
  PROVE  StuckInv'
<1>t. ItemTypeOK /\ job \in JobType
  BY DEF TypeInv, TypeOK, ItemTypeOK
<1>1. /\ GoesTo("write", "write") /\ job.ops # <<>> /\ job'.ops = Tail(job.ops) /\ job'.seen = job.seen
      /\ job.ops \in Seq(OpType) /\ job.applied
      /\ pending' = pending /\ reworkExpired' = reworkExpired
  BY <1>t, RuleMoves DEF WriteLabel, JobType, JobInv, RequestInv, Applies, watch, counts
<1>2. /\ labels' = IF ~Enforced(job.event) THEN labels
                   ELSE CASE Head(job.ops).op = "remove" -> labels \ {Head(job.ops).label}
                          [] Head(job.ops).op = "add"    -> labels \cup {Head(job.ops).label}
                          [] OTHER                       -> labels
  BY DEF WriteLabel
<1>3. AddsStuck(job'.ops) => AddsStuck(job.ops)
  <2> SUFFICES ASSUME NEW i \in 1..Len(job'.ops), job'.ops[i] = Adding  PROVE AddsStuck(job.ops)
    BY DEF AddsStuck
  <2>1. i + 1 \in 1..Len(job.ops) /\ job.ops[i + 1] = Adding
    BY <1>1
  <2> QED BY <2>1 DEF AddsStuck
<1>4. PutsOn(job) => PutsOn(job')
  BY <1>1 DEF PutsOn, GoesTo, Carries
<1>5. job'.pc = "write" /\ AddsStuck(job'.ops) => PutsOn(job')
  BY <1>1, <1>3, <1>4 DEF StuckInv, GoesTo
<1>6. (job.then = "expiry" => job.event = "WATCHDOG_EXPIRED") /\ ~Idle
  BY <1>1, NoJobIs DEF JobInv, RequestInv, Applies, GoesTo, Idle
<1>7. job'.then = "expiry" /\ Enforced("WATCHDOG_EXPIRED")' /\ reworkExpired' => job'.old.run = "rework-loop"
  BY <1>1 DEF StuckInv, GoesTo, Carries, Enforced
<1>8. CASE ~Stuck'
  BY <1>5, <1>7, <1>8 DEF StuckInv, Stuck
<1>9. CASE Stuck' /\ ~Stuck
  <2>1. Enforced(job.event) /\ Head(job.ops) \in OpType
        /\ Head(job.ops).op = "add" /\ Head(job.ops).label = "AI_STUCK"
    BY <1>1, <1>2, <1>9 DEF Stuck
  <2>2. job.ops[1] = Adding /\ 1 \in 1..Len(job.ops)
    BY <1>1, <2>1 DEF OpType, Adding
  <2>3. PutsOn(job) /\ PutsOn(job') /\ ModeEnforced
    BY <1>1, <1>4, <2>1, <2>2 DEF StuckInv, AddsStuck, GoesTo, Enforced
  <2>4. stuckBy' = IF job.then = "expiry" THEN job.old.run ELSE "cap"
    BY <1>9 DEF Remember, Stuck
  <2>5. reworkExpired' => stuckBy' = "rework-loop" \/ job'.then = "capped"
    BY <1>1, <1>6, <2>1, <2>3, <2>4 DEF StuckInv, PutsOn, GoesTo, Carries
  <2>6. job'.pc = "write"
    BY <1>1 DEF GoesTo
  <2> QED BY <1>5, <1>7, <2>3, <2>5, <2>6 DEF StuckInv
<1>10. CASE Stuck' /\ Stuck
  <2>1. stuckBy' = stuckBy /\ ModeEnforced
    BY <1>10 DEF Remember, Stuck, StuckInv
  <2>2. KnowsStuck(job) => ~Leaves(job.rule)
    <3> SUFFICES ASSUME KnowsStuck(job), Leaves(job.rule)  PROVE FALSE
      OBVIOUS
    <3>1. Head(job.ops) = Removing /\ Enforced(job.event)
      BY <1>1, <2>1 DEF KnowsStuck, Enforced
    <3>2. "AI_STUCK" \notin labels'
      BY <1>2, <3>1 DEF Removing
    <3> QED BY <1>10, <3>2 DEF Stuck
  <2>3. KnowsStuck(job) => KnowsStuck(job')
    BY <1>1, <2>2 DEF KnowsStuck, GoesTo, Carries
  <2>4. PutsOn(job) \/ (job.src \in {"webhook", "signal"} /\ KnowsStuck(job))
    BY <1>6, <1>10 DEF StuckInv
  <2>5. pending'.run = NoRun \/ (job'.pc = "write" /\ PutsOn(job'))
    BY <1>1, <1>4, <1>10 DEF StuckInv, GoesTo
  <2>6. reworkExpired' => stuckBy' = "rework-loop" \/ (PutsOn(job') /\ job'.then = "capped" /\ job'.pc = "write")
    BY <1>1, <1>4, <1>10, <2>1 DEF StuckInv, GoesTo, Carries
  <2>7. job'.src = job.src
    BY <1>1 DEF GoesTo, Carries
  <2> QED BY <1>4, <1>5, <1>7, <2>1, <2>3, <2>4, <2>5, <2>6, <2>7 DEF StuckInv
<1> QED BY <1>8, <1>9, <1>10

LEMMA ReadFactsStuck ==
  ASSUME StuckInv, JobInv, TypeInv, TypeInv', ReadFacts, Remember
  PROVE  StuckInv'
<1>t. ItemTypeOK /\ job \in JobType /\ job' \in JobType /\ job.seen \in SUBSET Labels
  BY DEF TypeInv, TypeOK, ItemTypeOK, JobType
<1>1. /\ job.pc = "facts" /\ Stuck' = Stuck /\ UNCHANGED <<labels, pending, reworkExpired>>
      /\ Stuck => stuckBy' = stuckBy
  BY DEF ReadFacts, Remember, Stuck, github, watch, counts
<1>2. job'.src = job.src /\ job'.then # "expiry" /\ job'.pc # "send"
  BY <1>t, <1>1, GateMoves DEF GatedAs, GateThens, JobInv, RequestInv
<1>3. Stuck => job.src \in {"webhook", "signal"} /\ KnowsStuck(job)
  BY <1>1, NoJobIs DEF StuckInv, Idle, PutsOn
<1>4. CASE Chosen(job.seen, job')
  <2>1. Stuck => KnowsStuck(job')
    BY <1>t, <1>3, <1>4, ChosenKnows DEF KnowsStuck
  <2>2. job'.pc = "write" /\ AddsStuck(job'.ops) => PutsOn(job')
    BY <1>t, <1>4, ChosenPuts
  <2>3. Stuck => ModeEnforced /\ pending.run = NoRun /\ (reworkExpired => stuckBy = "rework-loop")
    BY <1>1 DEF StuckInv
  <2> QED BY <1>1, <1>2, <1>3, <2>1, <2>2, <2>3 DEF StuckInv
<1>5. CASE /\ job'.seen = job.seen /\ job'.pc = "return" /\ job'.applied \in {job.applied, FALSE}
           /\ job'.rule = job.rule /\ job'.then = job.then
  <2>1. KnowsStuck(job) => KnowsStuck(job')
    BY <1>1, <1>5 DEF KnowsStuck
  <2>2. Stuck => ModeEnforced /\ pending.run = NoRun /\ (reworkExpired => stuckBy = "rework-loop")
    BY <1>1 DEF StuckInv
  <2> QED BY <1>1, <1>2, <1>3, <1>5, <2>1, <2>2 DEF StuckInv
<1> QED BY <1>t, <1>4, <1>5, GateChooses

LEMMA WebhookStepStuck ==
  ASSUME StuckInv, JobInv, HeardInv, TypeInv, TypeInv', WebhookStep, Remember
  PROVE  StuckInv'
<1>t. ItemTypeOK /\ job \in JobType
  BY DEF TypeInv, TypeOK, ItemTypeOK
<1>r. Stuck' /\ Stuck => stuckBy' = stuckBy
  BY DEF Remember, Stuck
<1>1. ASSUME NEW h \in hooks, TakeHook(h)  PROVE StuckInv'
  <2>1. /\ Handling(job') /\ job'.src \in {"webhook", "signal"} /\ Chosen(labels, job')
    BY <1>1, HookBegins
  <2>2. Idle /\ UNCHANGED <<labels, pending>> /\ HandleEvent(Begin(h, "webhook"))
    BY <1>1 DEF TakeHook, github, watch
  <2>3. (Stuck => stuckBy' = stuckBy) /\ (reworkExpired' => reworkExpired)
    BY <1>r, <2>2, HandlersClaimNothing DEF Stuck
  <2> QED BY <2>1, <2>2, <2>3, StuckBegins DEF Handling, HookThens
<1>2. CASE ReadFacts
  BY <1>2, ReadFactsStuck
<1>3. CASE WriteLabel
  BY <1>3, WriteLabelStuck
<1>4. CASE EndWatch
  <2>1. GoesTo("write", "after") /\ job'.seen = job.seen
    BY <1>t, <1>4, RuleMoves, SeenIsKept
  <2>2. /\ job.ops = <<>> /\ pending'.run = NoRun /\ Stuck' = Stuck /\ reworkExpired' = reworkExpired
    BY <1>4 DEF EndWatch, ClearPendingFire, NoFire, Stuck, github, counts
  <2> QED BY <1>r, <2>1, <2>2, StuckGoesOn DEF GoesTo
<1>5. CASE ArmFire
  <2>1. GoesTo("write", "send") /\ Stuck' = Stuck
    BY <1>t, <1>5, RuleMoves DEF ArmFire, Stuck, github
  <2> QED BY <1>5, <2>1, StuckIsOff, StuckOff DEF GoesTo
<1>6. CASE FireSent
  <2>1. GoesTo("send", "after") /\ Stuck' = Stuck
    BY <1>t, <1>6, RuleMoves DEF FireSent, Stuck, github
  <2> QED BY <1>6, <2>1, StuckIsOff, StuckOff DEF GoesTo
<1>7. CASE AfterMergeFix \/ CountMergeFix \/ Comment
  <2>1. \/ GoesTo("after", "count") \/ GoesTo("count", "comment") \/ GoesTo("comment", "return")
    BY <1>t, <1>7, RuleMoves
  <2>2. job'.seen = job.seen
    BY <1>t, <1>7, SeenIsKept
  <2>3. (Stuck' => Stuck) /\ pending' = pending /\ reworkExpired' = reworkExpired
    BY <1>7 DEF AfterMergeFix, CountMergeFix, Comment, Stuck, github, watch, counts
  <2>4. PutsOn(job) /\ job.then = "capped" => job.pc \notin {"write", "after"}
    BY <1>7 DEF AfterMergeFix, After, CountMergeFix, Comment
  <2>5. job.pc = "after" => job.then = "mergeFix"
    BY <1>7 DEF AfterMergeFix, After, CountMergeFix, Comment
  <2> QED BY <1>r, <2>1, <2>2, <2>3, <2>4, <2>5, StuckGoesOn DEF GoesTo
<1>8. CASE AfterEvent
  <2>1. \/ GoesTo("after", "comment") \/ GoesTo("after", "return") \/ GoesTo("after", "facts")
    BY <1>t, <1>8, AfterMoves
  <2>2. /\ Stuck' = Stuck /\ pending' = pending
    BY <1>8 DEF AfterEvent, Stuck, github, watch
  <2>3. CASE AfterReviewLabel
    <3>1. job.then = "review" /\ job.applied /\ job.pc = "after"
      BY <2>3 DEF AfterReviewLabel, After
    <3>2. ~Stuck
      BY <3>1, NoJobIs DEF StuckInv, Idle, PutsOn, KnowsStuck
    <3> QED BY <2>1, <2>2, <3>2, StuckOff DEF GoesTo
  <2>4. CASE ~AfterReviewLabel
    <3>1. ~job.applied \/ job.then # "review"
      BY <1>8, <2>4 DEF AfterEvent, After, AfterNothingApplied, AfterTail, AfterReviewFix, AfterFindings,
                       AfterCapped, AfterPassed, AfterBlock, AfterMergeFired, AfterDone
    <3>2. job'.seen = job.seen
      BY <1>t, <1>8, <3>1, SeenIsKept
    <3>3. job'.pc \in {"comment", "return"} /\ Carries /\ job.pc = "after"
      <4>1. job'.pc # "facts"
        BY <1>t, <1>8, <2>4
        DEF AfterEvent, AfterNothingApplied, AfterTail, AfterReviewFix, AfterFindings, AfterCapped,
            AfterPassed, AfterBlock, AfterMergeFired, AfterDone, Goes, ItemTypeOK, JobType
      <4> QED BY <2>1, <4>1 DEF GoesTo
    <3>4. reworkExpired' => reworkExpired
      BY <1>8 DEF AfterEvent, AfterNothingApplied, AfterTail, AfterReviewLabel, AfterReviewFix,
             AfterFindings, AfterCapped, AfterPassed, AfterBlock, AfterMergeFired, AfterDone, counts
    <3>5. PutsOn(job) /\ job.then = "capped" => ~reworkExpired'
      <4>1. ASSUME job.applied, job.then = "capped"  PROVE AfterCapped
        BY <1>8, <4>1 DEF AfterEvent, After, AfterNothingApplied, AfterTail, AfterReviewLabel, AfterReviewFix,
               AfterFindings, AfterPassed, AfterBlock, AfterMergeFired, AfterDone
      <4> QED BY <4>1 DEF PutsOn, AfterCapped
    <3> QED BY <1>r, <2>2, <3>2, <3>3, <3>4, <3>5, StuckGoesOn
  <2> QED BY <2>3, <2>4
<1>9. CASE ReturnHook
  <2>1. job.pc = "return" /\ job' = NoJob /\ Stuck' = Stuck /\ reworkExpired' = reworkExpired
        /\ pending' \in {pending, NoFire} /\ NoFire.run = NoRun
    BY <1>9 DEF ReturnHook, ClearPendingFire, KeepPendingFire, NoFire, Stuck, github, counts
  <2> QED BY <1>r, <2>1, StuckNoJob
<1> QED BY <1>1, <1>2, <1>3, <1>4, <1>5, <1>6, <1>7, <1>8, <1>9 DEF WebhookStep

LEMMA WatchdogStepStuck ==
  ASSUME StuckInv, JobInv, HeardInv, RetryInv, TypeInv, TypeInv', WatchdogStep, Remember
  PROVE  StuckInv'
<1>t. ItemTypeOK /\ job \in JobType /\ job' \in JobType
  BY DEF TypeInv, TypeOK, ItemTypeOK
<1>r. Stuck' /\ Stuck => stuckBy' = stuckBy
  BY DEF Remember, Stuck
<1>l. Stuck' = Stuck /\ labels' = labels
  BY DEF WatchdogStep, AlarmForNothing, DropDeferred, SendDeferred, StartExpiry, Replay, ReplayApplied,
         ReplayNotApplied, RetryOnce, Expire, AfterExpiry, AfterFiredAgain, ReturnAlarm, github, Stuck
<1>n. NoFire.run = NoRun
  BY DEF NoFire
<1>d. pending.due => pending.run # NoRun
  BY DEF RetryInv
<1>1. CASE AlarmForNothing \/ DropDeferred
  <2>1. job' = job /\ pending' \in {pending, NoFire} /\ reworkExpired' = reworkExpired
    BY <1>1 DEF AlarmForNothing, DropDeferred, ClearPendingFire, counts
  <2> QED BY <1>r, <1>l, <1>n, <2>1, StuckStands
<1>2. CASE SendDeferred
  <2>1. ~Stuck'
    BY <1>d, <1>l, <1>2, StuckIsOff DEF SendDeferred
  <2> QED BY <1>2, <2>1, StuckFiresAgain DEF SendDeferred
<1>3. CASE StartExpiry
  <2>1. ~Stuck'
    BY <1>d, <1>l, <1>3, StuckIsOff DEF StartExpiry
  <2>2. job'.pc \in {"recover", "expire"}
    BY <1>3, AlarmJobMoves DEF StartExpiry
  <2> QED BY <2>1, <2>2, StuckOff
<1>4. CASE Replay
  <2>1. job.pc = "recover" /\ Handling(job') /\ Chosen(labels, job')
    BY <1>4, ReplayBegins
  <2>2. ~Stuck /\ UNCHANGED <<labels, pending>>
    BY <1>4, <2>1, StuckIsOff DEF Replay, github, watch
  <2>3. job'.then # "expiry"
    BY <2>1 DEF Handling, HookThens
  <2> QED BY <2>1, <2>2, <2>3, StuckBegins
<1>5. CASE ReplayApplied \/ AfterExpiry \/ ReturnAlarm
  <2>1. /\ job' = NoJob /\ pending' \in {pending, NoFire} /\ (reworkExpired' => reworkExpired)
        /\ job.pc \in {"write", "after"} => job.then # "capped" /\ pending' = NoFire
    <3>1. CASE ReplayApplied
      BY <3>1 DEF ReplayApplied, ClearPendingFire, KeepPendingFire
    <3>2. CASE AfterExpiry
      BY <3>2 DEF AfterExpiry, ClearPendingFire
    <3>3. CASE ReturnAlarm
      BY <3>3 DEF ReturnAlarm, counts
    <3> QED BY <1>5, <3>1, <3>2, <3>3
  <2> QED BY <1>r, <1>l, <1>n, <2>1, StuckNoJob
<1>6. CASE ReplayNotApplied
  <2>1. ~Stuck'
    BY <1>l, <1>6, StuckIsOff DEF ReplayNotApplied
  <2>2. job'.pc = "recover"
    BY <1>6, BackMoves DEF ReplayNotApplied
  <2> QED BY <2>1, <2>2, StuckOff
<1>7. CASE RetryOnce
  <2>1. ~Stuck'
    BY <1>l, <1>7, StuckIsOff DEF RetryOnce
  <2>2. CASE job' = FireAgain("retry", TRUE)
    BY <2>1, <2>2, StuckFiresAgain
  <2>3. CASE job' = BackToExpiry("expire")
    <3>1. job'.pc = "expire"
      BY <2>3 DEF BackToExpiry, NoJob
    <3> QED BY <2>1, <3>1, StuckOff
  <2> QED BY <1>7, <2>2, <2>3 DEF RetryOnce
<1>8. CASE Expire
  <2> DEFINE j == [job EXCEPT !.seen = labels]
  <2>1. /\ j \in JobType /\ job' = ApplyEvent(j, "WATCHDOG_EXPIRED", "expiry")
        /\ j.seen = labels /\ j.old = job.old
        /\ reworkExpired' = IF Enforced("WATCHDOG_EXPIRED") THEN job.old.run = "rework-loop" ELSE reworkExpired
    BY <1>t, <1>8 DEF Expire, ExpiryClaims, ItemTypeOK, JobType
  <2> HIDE DEF j
  <2>2. Chosen(labels, job') /\ job'.old = job.old
    BY <2>1, ApplyEventChooses, ApplyEventMoves
  <2>3. ~Stuck'
    BY <1>l, <1>8, StuckIsOff DEF Expire
  <2>4. job'.pc = "write" /\ AddsStuck(job'.ops) => PutsOn(job')
    BY <1>t, <2>2, ChosenPuts
  <2> QED BY <2>1, <2>2, <2>3, <2>4 DEF StuckInv, Stuck, Enforced
<1>9. CASE AfterFiredAgain
  <2>1. GoesTo("after", "comment") \/ GoesTo("after", "return")
    BY <1>t, <1>9, RuleMoves
  <2>2. /\ job'.seen = job.seen /\ pending' = pending /\ reworkExpired' = reworkExpired
        /\ job.then # "capped"
    BY <1>t, <1>9, SeenIsKept DEF AfterFiredAgain, watch, counts
  <2> QED BY <1>r, <1>l, <2>1, <2>2, StuckGoesOn DEF GoesTo
<1> QED BY <1>1, <1>2, <1>3, <1>4, <1>5, <1>6, <1>7, <1>8, <1>9 DEF WatchdogStep

LEMMA SignalStepStuck ==
  ASSUME StuckInv, JobInv, HeardInv, TypeInv, TypeInv', SignalStep, Remember
  PROVE  StuckInv'
<1>r. Stuck' /\ Stuck => stuckBy' = stuckBy
  BY DEF Remember, Stuck
<1>l. Stuck' = Stuck /\ labels' = labels
  BY DEF SignalStep, IgnoreSignal, Heartbeat, Completion, TakeOutcome, EndFire, ReturnOutcome, github, Stuck
<1>n. NoFire.run = NoRun
  BY DEF NoFire
<1>1. ASSUME NEW s \in hooks, IgnoreSignal(s) \/ Heartbeat(s) \/ Completion(s)  PROVE StuckInv'
  <2>1. job' = job /\ reworkExpired' = reworkExpired
    BY <1>1 DEF IgnoreSignal, Heartbeat, Completion, counts
  <2>2. pending'.run \in {NoRun, pending.run}
    <3>1. CASE IgnoreSignal(s) \/ Completion(s)
      BY <1>n, <3>1 DEF IgnoreSignal, Completion, ClearPendingFire, watch
    <3>2. CASE Heartbeat(s)
      BY <3>2 DEF Heartbeat, SetPendingFire, TypeInv, TypeOK, ItemTypeOK, FireType
    <3> QED BY <1>1, <3>1, <3>2
  <2> QED BY <1>r, <1>l, <2>1, <2>2, StuckStands
<1>2. ASSUME NEW s \in hooks, TakeOutcome(s)  PROVE StuckInv'
  <2>1. /\ Handling(job') /\ job'.src \in {"webhook", "signal"} /\ Chosen(labels, job')
    BY <1>2, HookBegins
  <2>2. Idle /\ UNCHANGED <<labels, pending>> /\ HandleEvent(Begin(s, "signal"))
    BY <1>2 DEF TakeOutcome, github, watch
  <2>3. (Stuck => stuckBy' = stuckBy) /\ (reworkExpired' => reworkExpired)
    BY <1>r, <1>l, <2>2, HandlersClaimNothing
  <2> QED BY <2>1, <2>2, <2>3, StuckBegins DEF Handling, HookThens
<1>3. ASSUME NEW s \in hooks, EndFire(s)  PROVE StuckInv'
  <2>1. pending.run # NoRun
    BY <1>3 DEF EndFire, Live, TypeInv, TypeOK, ItemTypeOK, HookType, Routines, NoRun
  <2>2. ~Stuck'
    BY <1>l, <1>3, <2>1, StuckIsOff DEF EndFire
  <2>3. job'.pc \in {"recover", "expire"}
    BY <1>3 DEF EndFire, NoJob
  <2> QED BY <2>2, <2>3, StuckOff
<1>4. CASE ReturnOutcome
  <2>1. job.pc = "return" /\ job' = NoJob /\ reworkExpired' = reworkExpired
        /\ pending' \in {pending, NoFire}
    BY <1>4 DEF ReturnOutcome, ClearPendingFire, KeepPendingFire, counts
  <2> QED BY <1>r, <1>l, <1>n, <2>1, StuckNoJob
<1> QED BY <1>1, <1>2, <1>3, <1>4 DEF SignalStep

(* Failures that cut no request off.                                       *)
LEMMA FailuresStuck ==
  ASSUME StuckInv, JobInv, RetryInv, TypeInv, Failures, ~Throws, ~Crashes
  PROVE  StuckInv'
<1>t. ItemTypeOK /\ job \in JobType /\ stuckBy' = stuckBy
  BY DEF TypeInv, TypeOK, ItemTypeOK, Failures, history
<1>d. pending.due => pending.run # NoRun
  BY DEF RetryInv
<1>1. CASE Refused
  <2>1. job.pc = "send" /\ Stuck' = Stuck
    BY <1>1 DEF Refused, RefuseHook, RefuseAlarm, Stuck, github
  <2>2. job'.pc # "write"
    <3>1. CASE job' = BackToExpiry("expire")
      BY <3>1 DEF BackToExpiry, NoJob
    <3> QED BY <1>1, <3>1, NoJobIs DEF Refused, RefuseHook, RefuseAlarm
  <2> QED BY <2>1, <2>2, StuckIsOff, StuckOff
<1>2. CASE Limited
  <2>1. GoesTo("send", "after") /\ Stuck' = Stuck
    BY <1>t, <1>2, RuleMoves DEF Limited, FireLimited, Stuck, github
  <2> QED BY <2>1, StuckIsOff, StuckOff DEF GoesTo
<1>3. CASE Unheard \/ GivesUp \/ Loses
  <2>1. job' = job /\ pending' = pending /\ reworkExpired' = reworkExpired /\ Stuck' = Stuck
    BY <1>3 DEF Unheard, LostAnswer, GivesUp, GiveUp, Loses, storage, watch, counts, github, Stuck
  <2> QED BY <1>t, <2>1, StuckStands
<1>4. CASE SendDeferredUnread
  <2>1. ~Stuck'
    BY <1>d, <1>4, StuckIsOff DEF SendDeferredUnread, Stuck, github
  <2> QED BY <1>4, <2>1, StuckFiresAgain DEF SendDeferredUnread
<1>5. CASE StartExpiryUnread
  <2>1. ~Stuck'
    BY <1>d, <1>5, StuckIsOff DEF StartExpiryUnread, Stuck, github
  <2>2. job'.pc = "recover"
    BY <1>5, AlarmJobMoves DEF StartExpiryUnread
  <2> QED BY <2>1, <2>2, StuckOff
<1> QED BY <1>1, <1>2, <1>3, <1>4, <1>5 DEF Failures, Unread

(* A person puts on no label the table has no rule for.                    *)
LEMMA OutsideStuck ==
  ASSUME People \/ GitHubWorks \/ Sessions, TypeInv, Stuck'
  PROVE  Stuck
<1>1. ASSUME NEW l, PersonAddsLabel(l)  PROVE l # "AI_STUCK"
  <2>1. LabelledEvent("AI_STUCK") = "none"
    BY DEF LabelledEvent
  <2>2. \A r \in Rules : r.on # "none"
    BY RulesType DEF RuleType, Events
  <2>3. ~HasRule(DeriveState(labels), "none")
    BY <2>2 DEF HasRule, Matching
  <2> QED BY <1>1, <2>1, <2>3 DEF PersonAddsLabel
<1>2. CASE People
  BY <1>1, <1>2 DEF People, PersonAddsLabel, PersonRemovesLabel, PersonPushes, PersonReplies, PersonCloses,
                    Push, Stuck, github
<1>3. CASE GitHubWorks \/ Sessions
  BY <1>3 DEF GitHubWorks, CiFinishes, MergeableChanges, Sessions, Session, Reports, Pushes, Merges, Dies,
              Steps, Push, Stuck, github
<1> QED BY <1>2, <1>3

(* Once a request has been cut off, one has been.                          *)
LEMMA NothingCutOffBefore ==
  ASSUME TypeInv, [Next]_allVars, NothingCutOff'
  PROVE  NothingCutOff /\ ~Throws /\ ~Crashes
<1>t. faults \in Nat
  BY DEF TypeInv, TypeOK
<1>1. env' = env /\ (faults' = faults \/ faults' = faults + 1)
  <2>1. CASE Worker \/ Alarm \/ UNCHANGED allVars
    BY <2>1 DEF Worker, Alarm, allVars, bounds
  <2>2. CASE People
    BY <2>2 DEF People, PersonAddsLabel, PersonRemovesLabel, PersonPushes, PersonReplies, PersonCloses
  <2>3. CASE GitHubWorks
    BY <2>3 DEF GitHubWorks, CiFinishes, MergeableChanges, bounds
  <2>4. CASE Sessions
    BY <2>4 DEF Sessions, Session, Reports, Pushes, Merges, Dies, Steps, bounds
  <2>5. CASE Failures
    BY <2>5 DEF Failures, Throws, Crashes, Refused, Limited, Unheard, Unread, GivesUp, Loses, Fails
  <2> QED BY <2>1, <2>2, <2>3, <2>4, <2>5 DEF Next
<1>2. NothingCutOff
  BY <1>t, <1>1 DEF NothingCutOff
<1>3. Throws \/ Crashes => faults' # 0 /\ Faults \cap env'.fails \cap {"throw", "crash"} # {}
  BY <1>t, <1>1 DEF Throws, Crashes, Fails
<1> QED BY <1>2, <1>3 DEF NothingCutOff

LEMMA StuckInit == Init => StuckInv
BY NoJobIs DEF Init, StuckInv, Stuck, Idle

LEMMA StuckStep ==
  ASSUME NothingCutOff => StuckInv, RequestsInv, TypeInv, TypeInv', [Next]_allVars
  PROVE  NothingCutOff' => StuckInv'
<1> SUFFICES ASSUME NothingCutOff'  PROVE StuckInv'
  OBVIOUS
<1>1. StuckInv /\ ~Throws /\ ~Crashes
  BY NothingCutOffBefore
<1>2. JobInv /\ HeardInv /\ RetryInv
  BY DEF RequestsInv
<1>3. CASE Worker
  BY <1>1, <1>2, <1>3, WebhookStepStuck, WatchdogStepStuck, SignalStepStuck DEF Worker
<1>4. CASE Alarm
  <2>1. job' = job /\ pending'.run = pending.run /\ reworkExpired' = reworkExpired /\ Stuck' = Stuck
        /\ stuckBy' = stuckBy
    BY <1>4 DEF Alarm, Ring, TypeInv, TypeOK, ItemTypeOK, FireType, counts, github, Stuck, history
  <2> QED BY <1>1, <2>1, StuckStands
<1>5. CASE People \/ GitHubWorks \/ Sessions
  <2>1. job' = job /\ pending' = pending /\ reworkExpired' = reworkExpired /\ stuckBy' = stuckBy
    BY <1>5, OutsideJob DEF storage, watch, counts, history
  <2> QED BY <1>1, <1>5, <2>1, OutsideStuck, StuckStands
<1>6. CASE UNCHANGED allVars
  <2>1. job' = job /\ pending' = pending /\ reworkExpired' = reworkExpired /\ stuckBy' = stuckBy /\ Stuck' = Stuck
    BY <1>6 DEF allVars, vars, watch, counts, history, github, Stuck
  <2> QED BY <1>1, <2>1, StuckStands
<1>7. CASE Failures
  BY <1>1, <1>2, <1>7, FailuresStuck
<1> QED BY <1>3, <1>4, <1>5, <1>6, <1>7 DEF Next

(* reworkExpired is the claim of the expiry that put AI_STUCK on, and of   *)
(* no other, until a request is cut off: whatever is refused, unheard,     *)
(* lost, put off or repeated, and however caps, expiries and late reports  *)
(* follow each other (reworkExpired, watchdog.ts; reworkCap, webhook.ts).  *)
THEOREM ClaimIsTrue == Spec => []ExpiryClaim
<1>1. Init => TypeInv /\ WatchInv /\ RequestsInv /\ (NothingCutOff => StuckInv)
  BY TypeInit, WatchInit, RequestsInit, StuckInit
<1>2. TypeInv /\ WatchInv /\ RequestsInv /\ (NothingCutOff => StuckInv) /\ [Next]_allVars
        => (TypeInv /\ WatchInv /\ RequestsInv /\ (NothingCutOff => StuckInv))'
  BY TypeStep, WatchStep, RequestsStep, StuckStep
<1>3. (NothingCutOff => StuckInv) => ExpiryClaim
  BY NoJobIs DEF ExpiryClaim, ClaimsAnExpiry, StuckInv, Stuck, Idle, PutsOn
<1> QED BY <1>1, <1>2, <1>3, PTL DEF Spec

----------------------------------------------------------------------------
(* The promise: FireWatch.                                                 *)
(*                                                                         *)
(* A step that asks the routines API again rests on what the alarm's       *)
(* request found when it began: that its alarm had rung for this fire, and *)
(* that the fire was waiting, or was no retry.                             *)

AsItRang == pending = job.old /\ pending.due /\ ~pending.deferred

AgainInv ==
  /\ pending.due => ~alarm
  /\ pending.gen <= fires
  /\ job.old.gen <= fires
  /\ job.pc = "send" => job.old.gen < fires
  /\ job.src = "alarm" =>
       /\ job.pc = "recover" \/ (job.replays /\ (~job.applied \/ job.pc \in {"facts", "write"})) =>
            SameFire(job.old)
       /\ job.pc = "recover" \/ job.replays => (SameFire(job.old) => AsItRang)
  /\ job.replays /\ job.applied => job.then # "review"
  /\ job.then \in {"deferred", "retry"} =>
       /\ job.src = "alarm"
       /\ job.pc = "write" =>
            /\ pending.due /\ job.rule.run = pending.run
            /\ pending.deferred <=> job.then = "deferred"
            /\ pending.retried <=> job.then = "deferred" /\ job.retried

LEMMA AgainIdle ==
  ASSUME TypeInv', job' = NoJob, pending'.due => ~alarm', pending'.gen <= fires'
  PROVE  AgainInv'
<1>1. NoJob.old.gen = 0 /\ fires' \in Nat
  BY DEF NoJob, NoFire, TypeInv, TypeOK, ItemTypeOK
<1> QED BY <1>1, NoJobIs DEF AgainInv

LEMMA AgainGoesOn ==
  ASSUME AgainInv, Carries, UNCHANGED <<pending, alarm, fires>>,
         job'.pc \notin {"recover", "send"}, job'.pc = "write" => job.pc = "write",
         job'.pc = "facts" => job.then = "review" /\ job.applied
  PROVE  AgainInv'
<1>1. SameFire(job.old)' = SameFire(job.old) /\ AsItRang' = AsItRang
  BY DEF Carries, SameFire, AsItRang
<1> QED BY <1>1 DEF AgainInv, Carries

LEMMA AgainStands ==
  ASSUME AgainInv, UNCHANGED <<pending, alarm, fires, job>>
  PROVE  AgainInv'
BY DEF AgainInv, SameFire, AsItRang

(* The watch is ended, or moved on.                                        *)
LEMMA AgainMovesOn ==
  ASSUME AgainInv, TypeInv, TypeInv', Carries, job.applied, pending'.due = FALSE,
         pending'.run = NoRun \/ pending'.gen > job.old.gen,
         pending'.gen <= fires', fires \in Nat, fires' >= fires,
         job.src = "alarm" /\ job.replays => job.old.run # NoRun,
         \/ job'.pc = "after"
         \/ job'.pc = "send" /\ fires' > fires
  PROVE  AgainInv'
<1>t. job.old \in FireType /\ job.old.gen \in Nat /\ pending'.gen \in Nat /\ fires' \in Nat
  BY DEF TypeInv, TypeOK, ItemTypeOK, JobType, FireType
<1>o. job'.old = job.old
  BY DEF Carries
<1>1. job'.old.gen <= fires' /\ (job'.pc = "send" => job'.old.gen < fires')
  <2>1. job.old.gen <= fires
    BY DEF AgainInv
  <2> QED BY <1>t, <1>o, <2>1
<1>2. job.src = "alarm" /\ job.replays => ~SameFire(job.old)'
  <2>1. pending'.gen > job.old.gen => pending'.gen # job.old.gen
    BY <1>t
  <2> QED BY <1>o, <2>1 DEF SameFire
<1> QED BY <1>1, <1>2 DEF AgainInv, Carries

(* A request that is no fire made again.                                   *)
LEMMA AgainBegins ==
  ASSUME AgainInv, UNCHANGED <<pending, alarm, fires>>, TypeInv,
         job'.then \notin {"deferred", "retry"}, job'.pc # "send",
         job'.old \in {pending, NoFire, job.old},
         job'.src = "alarm" /\ (job'.pc = "recover" \/ job'.replays) =>
           pending = job'.old /\ pending.due /\ ~pending.deferred,
         job'.replays /\ job'.applied => job'.then # "review"
  PROVE  AgainInv'
<1>1. job'.old.gen <= fires'
  BY DEF AgainInv, NoFire, TypeInv, TypeOK, ItemTypeOK
<1>2. job'.src = "alarm" /\ (job'.pc = "recover" \/ job'.replays) => AsItRang' /\ SameFire(job.old)'
  BY DEF AsItRang, SameFire
<1> QED BY <1>1, <1>2 DEF AgainInv

LEMMA AgainFires ==
  ASSUME AgainInv, TypeInv, UNCHANGED <<pending, alarm, fires>>,
         NEW then \in {"deferred", "retry"}, NEW b \in BOOLEAN, job' = FireAgain(then, b),
         pending.due, pending.deferred <=> then = "deferred",
         pending.retried <=> then = "deferred" /\ b
  PROVE  AgainInv'
<1>1. /\ job'.src = "alarm" /\ job'.pc = "write" /\ job'.replays = FALSE
      /\ job'.then = then /\ job'.retried = b /\ job'.rule.run = pending.run
  BY FireAgainMoves DEF TypeInv, TypeOK
<1>2. job'.old = pending
  BY DEF FireAgain, AlarmJob, NoJob
<1> QED BY <1>1, <1>2 DEF AgainInv

(* What an alarm's replay started from is a routine's fire.                *)
LEMMA ReplaysAFire ==
  ASSUME AgainInv, RetryInv, job.pc = "write", job.src = "alarm", job.replays
  PROVE  job.old.run # NoRun
BY DEF AgainInv, RetryInv, AsItRang, SameFire

LEMMA WebhookStepAgain ==
  ASSUME AgainInv, RetryInv, JobInv, HeardInv, TypeInv, TypeInv', WebhookStep
  PROVE  AgainInv'
<1>t. ItemTypeOK /\ job \in JobType /\ fires \in Nat /\ pending \in FireType
  BY DEF TypeInv, TypeOK, ItemTypeOK
<1>n. NoFire.run = NoRun /\ NoFire.due = FALSE /\ NoFire.gen = 0
  BY DEF NoFire
<1>1. ASSUME NEW h \in hooks, TakeHook(h)  PROVE AgainInv'
  <2>1. /\ Handling(job') /\ job'.src \in {"webhook", "signal"} /\ job'.replays = FALSE
        /\ job'.old \in {pending, NoFire}
    BY <1>1, HookBegins
  <2>2. UNCHANGED <<pending, alarm, fires>>
    BY <1>1 DEF TakeHook, watch
  <2>3. job'.then \notin {"deferred", "retry"} /\ job'.pc # "send"
    BY <2>1 DEF Handling, HookThens
  <2> QED BY <2>1, <2>2, <2>3, AgainBegins
<1>2. CASE ReadFacts
  <2>1. job.pc = "facts" /\ GatedAs(job') /\ UNCHANGED <<pending, alarm, fires>>
    BY <1>t, <1>2, GateMoves DEF ReadFacts, watch
  <2>2. /\ job'.src = job.src /\ job'.replays = job.replays /\ job'.old = job.old
        /\ job'.pc \notin {"send", "recover"} /\ job'.then \notin {"deferred", "retry"}
    BY <2>1 DEF GatedAs, GateThens, JobInv, RequestInv
  <2>3. job.src = "alarm" /\ job.replays => SameFire(job.old) /\ AsItRang
    BY <2>1 DEF AgainInv
  <2>4. job'.replays /\ job'.applied => job'.then # "review"
    <3>1. CASE job'.pc = "return" /\ job'.then = job.then
      <4>1. job'.applied => job.applied
        BY <1>t, <1>2, <3>1, GateChooses DEF Chosen
      <4> QED BY <2>2, <3>1, <4>1 DEF AgainInv
    <3>2. CASE job'.then \in GateThens
      BY <3>2 DEF GateThens
    <3> QED BY <2>1, <3>1, <3>2 DEF GatedAs
  <2> QED BY <2>1, <2>2, <2>3, <2>4, AgainBegins DEF AsItRang
<1>3. CASE WriteLabel \/ FireSent \/ AfterMergeFix \/ CountMergeFix \/ Comment
  <2>1. \/ GoesTo("write", "write") \/ GoesTo("send", "after") \/ GoesTo("after", "count")
        \/ GoesTo("count", "comment") \/ GoesTo("comment", "return")
    BY <1>t, <1>3, RuleMoves
  <2>2. UNCHANGED <<pending, alarm, fires>>
    BY <1>3 DEF WriteLabel, FireSent, AfterMergeFix, CountMergeFix, Comment, watch
  <2> QED BY <2>1, <2>2, AgainGoesOn DEF GoesTo
<1>4. CASE EndWatch
  <2>1. GoesTo("write", "after") /\ job.applied
    BY <1>t, <1>4, RuleMoves DEF EndWatch, JobInv, RequestInv, Applies
  <2>2. pending' = NoFire /\ fires' = fires
    BY <1>4 DEF EndWatch, ClearPendingFire
  <2>3. /\ pending'.due = FALSE /\ pending'.run = NoRun
        /\ pending'.gen <= fires' /\ fires' >= fires
    BY <1>t, <1>n, <2>2
  <2>4. job.src = "alarm" /\ job.replays => job.old.run # NoRun
    BY <2>1, ReplaysAFire DEF GoesTo
  <2> QED BY <1>t, <2>1, <2>3, <2>4, AgainMovesOn DEF GoesTo
<1>5. CASE ArmFire
  <2>1. GoesTo("write", "send") /\ job.applied
    BY <1>t, <1>5, RuleMoves DEF ArmFire, JobInv, RequestInv, Applies
  <2>2. fires' = fires + 1
    BY <1>5 DEF ArmFire
  <2>3. pending'.due = FALSE /\ (pending'.run = NoRun \/ pending'.gen = fires + 1) /\ pending'.gen <= fires + 1
    <3>1. CASE Watched(job)
      <4>1. pending' = [[NoFire EXCEPT !.run = job.rule.run, !.gen = fires + 1,
                                       !.cause = job.event, !.retried = job.retried] EXCEPT !.due = FALSE]
        BY <1>5, <3>1 DEF ArmFire, SetPendingFire
      <4> QED BY <1>t, <4>1 DEF NoFire
    <3>2. CASE ~Watched(job)
      BY <1>t, <1>5, <1>n, <3>2 DEF ArmFire, ClearPendingFire
    <3> QED BY <3>1, <3>2
  <2>4. job.old.gen <= fires /\ job.old.gen \in Nat
    BY <1>t DEF AgainInv, JobType, FireType
  <2>5. pending'.run = NoRun \/ pending'.gen > job.old.gen
    BY <1>t, <2>3, <2>4
  <2>6. pending'.gen <= fires' /\ fires' >= fires /\ fires' > fires
    BY <1>t, <2>2, <2>3
  <2> QED BY <1>t, <2>1, <2>3, <2>5, <2>6, ReplaysAFire, AgainMovesOn DEF GoesTo
<1>6. CASE AfterEvent
  <2>1. \/ GoesTo("after", "comment") \/ GoesTo("after", "return")
        \/ GoesTo("after", "facts") /\ job.then = "review" /\ job.applied
    <3>1. job'.pc = "facts" => job.then = "review" /\ job.applied
      BY <1>t, <1>6
      DEF AfterEvent, AfterNothingApplied, AfterTail, AfterReviewLabel, AfterReviewFix, AfterFindings, AfterCapped,
          AfterPassed, AfterBlock, AfterMergeFired, AfterDone, After, Goes, JobType
    <3> QED BY <1>t, <1>6, <3>1, AfterMoves DEF GoesTo
  <2>2. UNCHANGED <<pending, alarm, fires>>
    BY <1>6 DEF AfterEvent, watch
  <2> QED BY <2>1, <2>2, AgainGoesOn DEF GoesTo
<1>7. CASE ReturnHook
  <2>1. /\ job' = NoJob /\ fires' = fires
        /\ \/ pending' = NoFire
           \/ UNCHANGED <<pending, alarm>>
    BY <1>7 DEF ReturnHook, ClearPendingFire, KeepPendingFire
  <2> QED BY <1>t, <1>n, <2>1, AgainIdle DEF AgainInv
<1> QED BY <1>1, <1>2, <1>3, <1>4, <1>5, <1>6, <1>7 DEF WebhookStep

LEMMA WatchdogStepAgain ==
  ASSUME AgainInv, RetryInv, JobInv, HeardInv, TypeInv, TypeInv', WatchdogStep
  PROVE  AgainInv'
<1>t. ItemTypeOK /\ job \in JobType /\ fires \in Nat /\ pending \in FireType
  BY DEF TypeInv, TypeOK, ItemTypeOK
<1>n. NoFire.run = NoRun /\ NoFire.due = FALSE /\ NoFire.gen = 0
  BY DEF NoFire
<1>1. CASE AlarmForNothing \/ DropDeferred
  <2>1. job' = NoJob /\ fires' = fires /\ (pending' = NoFire \/ UNCHANGED <<pending, alarm>>)
    BY <1>1 DEF AlarmForNothing, DropDeferred, Idle, ClearPendingFire
  <2> QED BY <1>t, <1>n, <2>1, AgainIdle DEF AgainInv
<1>2. CASE SendDeferred
  <2>1. /\ pending.due /\ pending.deferred /\ pending.retried \in BOOLEAN
        /\ job' = FireAgain("deferred", pending.retried)
        /\ UNCHANGED <<pending, alarm, fires>>
    BY <1>t, <1>2 DEF SendDeferred, watch, FireType
  <2> QED BY <2>1, AgainFires
<1>3. CASE StartExpiry
  <2>1. /\ job' = AlarmJob("expire") \/ job' = [AlarmJob("recover") EXCEPT !.left = posted]
        /\ pending.due /\ ~pending.deferred
        /\ UNCHANGED <<pending, alarm, fires>>
    BY <1>3 DEF StartExpiry, watch
  <2>2. /\ job'.then = "none" /\ job'.pc \in {"expire", "recover"} /\ job'.old = pending
        /\ job'.replays = FALSE
    <3>1. CASE job' = AlarmJob("expire")
      BY <3>1, AlarmJobMoves
    <3>2. CASE job' = [AlarmJob("recover") EXCEPT !.left = posted]
      BY <3>2, AlarmJobMoves
    <3> QED BY <2>1, <3>1, <3>2
  <2> QED BY <2>1, <2>2, AgainBegins
<1>4. CASE Replay
  <2>1. /\ Handling(job') /\ job.pc = "recover" /\ job'.src = job.src /\ job'.old = pending
        /\ job'.event \notin ByLabel /\ Chosen(labels, job')
    BY <1>4, ReplayBegins
  <2>2. UNCHANGED <<pending, alarm, fires>>
    BY <1>4 DEF Replay, watch
  <2>3. job'.then \notin {"deferred", "retry"} /\ job'.pc # "send"
    BY <2>1 DEF Handling, HookThens
  <2>4. job'.src = "alarm" => pending.due /\ ~pending.deferred
    BY <2>1 DEF AgainInv, AsItRang
  <2>5. job'.applied => job'.then # "review"
    BY <2>1 DEF Chosen, ByLabel
  <2> QED BY <2>1, <2>2, <2>3, <2>4, <2>5, AgainBegins
<1>5. CASE ReplayApplied \/ AfterExpiry \/ ReturnAlarm
  <2>1. job' = NoJob /\ fires' = fires /\ (pending' = NoFire \/ UNCHANGED <<pending, alarm>>)
    BY <1>5 DEF ReplayApplied, AfterExpiry, ReturnAlarm, ClearPendingFire, KeepPendingFire
  <2> QED BY <1>t, <1>n, <2>1, AgainIdle DEF AgainInv
<1>6. CASE ReplayNotApplied
  <2>1. /\ job.pc = "return" /\ job.replays /\ ~job.applied /\ job' = BackToExpiry("recover")
        /\ UNCHANGED <<pending, alarm, fires>>
    BY <1>6 DEF ReplayNotApplied, watch
  <2>2. /\ job'.src = job.src /\ job'.pc = "recover" /\ job'.replays = FALSE
        /\ job'.then = "none" /\ job'.old = job.old
    BY <2>1, BackMoves
  <2>3. job.src = "alarm" => AsItRang
    BY <2>1 DEF AgainInv
  <2> QED BY <2>1, <2>2, <2>3, AgainBegins DEF AsItRang
<1>7. CASE RetryOnce
  <2>1. job.pc = "recover" /\ UNCHANGED <<pending, alarm, fires>>
    BY <1>7 DEF RetryOnce, watch
  <2>2. CASE job' = FireAgain("retry", TRUE) /\ job.src = "alarm" /\ ~job.old.retried
    <3>1. pending = job.old /\ pending.due /\ ~pending.deferred
      BY <2>1, <2>2 DEF AgainInv, AsItRang
    <3>2. TRUE \in BOOLEAN /\ (pending.retried <=> "retry" = "deferred" /\ TRUE)
      BY <2>2, <3>1
    <3>3. pending.deferred <=> "retry" = "deferred"
      BY <3>1
    <3> QED BY <2>1, <2>2, <3>1, <3>2, <3>3, AgainFires
  <2>3. CASE job' = BackToExpiry("expire")
    <3>1. job'.pc = "expire" /\ job'.replays = FALSE /\ job'.then = "none" /\ job'.old = job.old
      BY <2>3, BackMoves
    <3> QED BY <2>1, <3>1, AgainBegins
  <2> QED BY <1>7, <2>2, <2>3 DEF RetryOnce
<1>8. CASE Expire
  <2> DEFINE j == [job EXCEPT !.seen = labels]
  <2>1. /\ j \in JobType /\ job' = ApplyEvent(j, "WATCHDOG_EXPIRED", "expiry")
        /\ j.replays = job.replays /\ j.old = job.old /\ job.pc = "expire"
        /\ UNCHANGED <<pending, alarm, fires>>
    BY <1>t, <1>8 DEF Expire, ItemTypeOK, JobType, watch
  <2> HIDE DEF j
  <2>2. /\ job'.then = "expiry" /\ job'.pc \in {"write", "after"}
        /\ job'.replays = job.replays /\ job'.old = job.old
    BY <2>1, ApplyEventMoves
  <2>3. ~job.replays
    BY <2>1 DEF JobInv, RequestInv, OfExpiry
  <2> QED BY <2>1, <2>2, <2>3, AgainBegins
<1>9. CASE AfterFiredAgain
  <2>1. GoesTo("after", "comment") \/ GoesTo("after", "return")
    BY <1>t, <1>9, RuleMoves
  <2>2. UNCHANGED <<pending, alarm, fires>>
    BY <1>9 DEF AfterFiredAgain, watch
  <2> QED BY <2>1, <2>2, AgainGoesOn DEF GoesTo
<1> QED BY <1>1, <1>2, <1>3, <1>4, <1>5, <1>6, <1>7, <1>8, <1>9 DEF WatchdogStep

LEMMA SignalStepAgain ==
  ASSUME AgainInv, HeardInv, TypeInv, TypeInv', SignalStep
  PROVE  AgainInv'
<1>t. fires \in Nat /\ pending \in FireType
  BY DEF TypeInv, TypeOK, ItemTypeOK
<1>n. NoFire.run = NoRun /\ NoFire.due = FALSE /\ NoFire.gen = 0
  BY DEF NoFire
<1>1. ASSUME NEW s \in hooks, IgnoreSignal(s) \/ Completion(s)  PROVE AgainInv'
  <2>1. job' = NoJob /\ fires' = fires /\ (pending' = NoFire \/ UNCHANGED <<pending, alarm>>)
    BY <1>1 DEF IgnoreSignal, Completion, Idle, ClearPendingFire, watch
  <2> QED BY <1>t, <1>n, <2>1, AgainIdle DEF AgainInv
<1>2. ASSUME NEW s \in hooks, Heartbeat(s)  PROVE AgainInv'
  <2>1. job' = NoJob /\ fires' = fires /\ pending'.due = FALSE /\ pending'.gen = pending.gen
    BY <1>t, <1>2 DEF Heartbeat, Idle, SetPendingFire, FireType
  <2> QED BY <2>1, AgainIdle DEF AgainInv
<1>3. ASSUME NEW s \in hooks, TakeOutcome(s)  PROVE AgainInv'
  <2>1. /\ Handling(job') /\ job'.src \in {"webhook", "signal"} /\ job'.replays = FALSE
        /\ job'.old \in {pending, NoFire}
    BY <1>3, HookBegins
  <2>2. UNCHANGED <<pending, alarm, fires>>
    BY <1>3 DEF TakeOutcome, watch
  <2>3. job'.then \notin {"deferred", "retry"} /\ job'.pc # "send"
    BY <2>1 DEF Handling, HookThens
  <2> QED BY <2>1, <2>2, <2>3, AgainBegins
<1>4. ASSUME NEW s \in hooks, EndFire(s)  PROVE AgainInv'
  <2>1. /\ job'.src = "ended" /\ job'.replays = FALSE /\ job'.old = pending
        /\ job'.then = "none" /\ job'.pc \in {"recover", "expire"}
    BY <1>4 DEF EndFire, NoJob
  <2>2. UNCHANGED <<pending, alarm, fires>>
    BY <1>4 DEF EndFire, watch
  <2> QED BY <2>1, <2>2, AgainBegins
<1>5. CASE ReturnOutcome
  <2>1. job' = NoJob /\ fires' = fires /\ (pending' = NoFire \/ UNCHANGED <<pending, alarm>>)
    BY <1>5 DEF ReturnOutcome, ClearPendingFire, KeepPendingFire
  <2> QED BY <1>t, <1>n, <2>1, AgainIdle DEF AgainInv
<1> QED BY <1>1, <1>2, <1>3, <1>4, <1>5 DEF SignalStep

LEMMA FailuresAgain ==
  ASSUME AgainInv, RetryInv, JobInv, TypeInv, TypeInv', Failures
  PROVE  AgainInv'
<1>t. ItemTypeOK /\ job \in JobType /\ fires \in Nat /\ pending \in FireType
  BY DEF TypeInv, TypeOK, ItemTypeOK
<1>n. NoFire.run = NoRun /\ NoFire.due = FALSE /\ NoFire.gen = 0
  BY DEF NoFire
<1>i. ASSUME job' = NoJob, fires' = fires, pending' = NoFire \/ UNCHANGED <<pending, alarm>>
      PROVE  AgainInv'
  BY <1>t, <1>n, <1>i, AgainIdle DEF AgainInv
<1>1. CASE ThrowHook \/ ThrowAlarm \/ CrashHook \/ CrashAlarm \/ RefuseHook
  BY <1>1, <1>i DEF ThrowHook, ThrowAlarm, CrashHook, CrashAlarm, RefuseHook, ClearPendingFire, watch
<1>2. CASE ThrowReplay
  <2>1. job.replays /\ UNCHANGED <<pending, alarm, fires>>
    BY <1>2 DEF ThrowReplay, watch
  <2>2. CASE job' = [BackToExpiry("recover") EXCEPT !.left = <<>>] /\ SameFire(job.old)
    <3>1. /\ job'.src = job.src /\ job'.pc = "recover" /\ job'.replays = FALSE
          /\ job'.then = "none" /\ job'.old = job.old
      BY <2>2, BackMoves
    <3>2. job.src = "alarm" => AsItRang
      BY <2>1, <2>2 DEF AgainInv
    <3> QED BY <2>1, <3>1, <3>2, AgainBegins DEF AsItRang
  <2>3. CASE job' = NoJob
    BY <1>i, <2>1, <2>3
  <2> QED BY <1>2, <2>2, <2>3 DEF ThrowReplay
<1>3. CASE RefuseAlarm
  <2>1. pending' = NoFire /\ fires' = fires
    BY <1>3 DEF RefuseAlarm, ClearPendingFire
  <2>2. CASE job' = BackToExpiry("expire")
    <3>1. job'.pc = "expire" /\ job'.replays = FALSE /\ job'.then = "none" /\ job'.old = job.old
      BY <2>2, BackMoves
    <3> QED BY <1>n, <1>t, <2>1, <3>1 DEF AgainInv
  <2>3. CASE job' = NoJob
    BY <1>i, <2>1, <2>3
  <2> QED BY <1>3, <2>2, <2>3 DEF RefuseAlarm
<1>4. CASE Limited
  <2>1. GoesTo("send", "after")
    BY <1>t, <1>4, RuleMoves DEF Limited
  <2>2. pending' = [Deferral EXCEPT !.due = FALSE] /\ fires' = fires
    BY <1>4 DEF Limited, FireLimited, SetPendingFire
  <2>3. pending'.due = FALSE /\ pending'.gen = fires
    BY <2>2 DEF Deferral, NoFire
  <2>4. pending'.gen > job.old.gen
    BY <1>t, <2>1, <2>3 DEF AgainInv, GoesTo, JobType, FireType
  <2>5. job'.old = job.old /\ job.old.gen \in Nat
    BY <1>t, <2>1 DEF GoesTo, Carries, JobType, FireType
  <2>6. ~SameFire(job.old)'
    BY <1>t, <2>3, <2>4, <2>5 DEF SameFire
  <2>7. job.applied
    BY <2>1 DEF GoesTo, JobInv, RequestInv, Applies
  <2> QED BY <1>t, <2>1, <2>2, <2>3, <2>6, <2>7 DEF AgainInv, GoesTo, Carries
<1>5. CASE Unheard \/ Loses
  <2>1. UNCHANGED <<pending, alarm, fires, job>>
    BY <1>5 DEF Unheard, LostAnswer, Loses, storage, watch
  <2> QED BY <2>1, AgainStands
<1>6. CASE GivesUp
  BY <1>6, <1>i DEF GivesUp, GiveUp, Idle
<1>7. CASE SendDeferredUnread
  <2>1. /\ pending.due /\ pending.deferred /\ pending.retried \in BOOLEAN
        /\ job' = FireAgain("deferred", pending.retried)
        /\ UNCHANGED <<pending, alarm, fires>>
    BY <1>t, <1>7 DEF SendDeferredUnread, watch, FireType
  <2> QED BY <2>1, AgainFires
<1>8. CASE StartExpiryUnread
  <2>1. /\ job' = AlarmJob("recover") /\ pending.due /\ ~pending.deferred
        /\ UNCHANGED <<pending, alarm, fires>>
    BY <1>8 DEF StartExpiryUnread, watch
  <2>2. job'.then = "none" /\ job'.pc = "recover" /\ job'.old = pending /\ job'.replays = FALSE
    BY <2>1, AlarmJobMoves
  <2> QED BY <2>1, <2>2, AgainBegins
<1> QED BY <1>1, <1>2, <1>3, <1>4, <1>5, <1>6, <1>7, <1>8 DEF Failures, Throws, Crashes, Refused, Unread

LEMMA AgainInit == Init => AgainInv
<1> SUFFICES ASSUME Init  PROVE AgainInv
  OBVIOUS
<1>1. NoJob.old.gen = 0 /\ NoFire.due = FALSE /\ NoFire.gen = 0
  BY DEF NoJob, NoFire
<1> QED BY <1>1, NoJobIs DEF Init, AgainInv

LEMMA AgainStep ==
  ASSUME AgainInv, RetryInv, JobInv, HeardInv, WatchInv, TypeInv, TypeInv', [Next]_allVars
  PROVE  AgainInv'
<1>1. CASE Worker
  BY <1>1, WebhookStepAgain, WatchdogStepAgain, SignalStepAgain DEF Worker
<1>2. CASE Alarm
  <2>1. /\ job' = job /\ fires' = fires /\ alarm' = FALSE /\ job.src # "alarm"
        /\ pending' = [pending EXCEPT !.due = TRUE]
    BY <1>2 DEF Alarm, Ring, WatchInv, RingsForItsJob
  <2>2. pending'.gen = pending.gen
    BY <2>1 DEF TypeInv, TypeOK, ItemTypeOK, FireType
  <2> QED BY <2>1, <2>2 DEF AgainInv
<1>3. CASE People \/ GitHubWorks \/ Sessions \/ UNCHANGED allVars
  <2>1. UNCHANGED <<pending, alarm, fires, job>>
    BY <1>3, OutsideJob DEF storage, watch, allVars, vars
  <2> QED BY <2>1, AgainStands
<1>4. CASE Failures
  BY <1>4, FailuresAgain
<1> QED BY <1>1, <1>2, <1>3, <1>4 DEF Next

----------------------------------------------------------------------------
(* Every step is one of the promise's, or none of its.                     *)

Keeps == Promise!Next \/ UNCHANGED Promise!vars

LEMMA WatchedIs ==
  ASSUME NEW f \in FireType
  PROVE  AsFire(f) = Promise!Fire(f.run, f.gen, f.retried, f.deferred)
BY DEF AsFire, Promise!Fire

LEMMA NothingIs == AsFire(NoFire) = Promise!Nothing
BY DEF AsFire, NoFire, Promise!Nothing, Promise!Fire

LEMMA NotAsked ==
  ASSUME job.pc # "send"
  PROVE  Asked = Promise!Nothing
BY NothingIs DEF Asked

LEMMA NotAskedNext ==
  ASSUME job'.pc # "send"
  PROVE  Asked' = Promise!Nothing
<1>1. Asked' = AsFire(NoFire)'
  BY DEF Asked
<1>2. AsFire(NoFire)' = AsFire(NoFire)
  BY DEF AsFire, NoFire
<1> QED BY <1>1, <1>2, NothingIs

LEMMA SomeFireIs ==
  ASSUME NEW f, AsFire(f) = Promise!Nothing
  PROVE  f.run = NoRun
BY DEF AsFire, Promise!Nothing, Promise!Fire

(* Nothing is asked of the routines API, and the watch stands.  (An alarm  *)
(* that is dealt with had nothing due, or another is set by now.)          *)
LEMMA PromiseStands ==
  ASSUME job.pc # "send", job'.pc # "send", UNCHANGED <<fires, runs, pending, alarm>>,
         ringing' = ringing \/ alarm \/ ~pending.due
  PROVE  Keeps
<1>1. Asked' = Asked
  BY NotAsked, NotAskedNext
<1>2. Comes' = Comes /\ AsFire(pending)' = AsFire(pending)
  BY DEF Comes, AsFire
<1> QED BY <1>1, <1>2 DEF Keeps, Promise!vars

LEMMA PromiseEnds ==
  ASSUME job'.pc # "send", UNCHANGED <<fires, runs>>, pending' = NoFire, alarm' = FALSE
  PROVE  Keeps
<1>1. AsFire(pending)' = Promise!Nothing
  <2>1. AsFire(pending)' = AsFire(NoFire)
    BY DEF AsFire
  <2> QED BY <2>1, NothingIs
<1>2. Comes' = "nothing"
  BY DEF Comes, NoFire
<1> QED BY <1>1, <1>2, NotAskedNext DEF Keeps, Promise!Next, Promise!End

LEMMA PromiseAbandons ==
  ASSUME job'.pc # "send", UNCHANGED <<fires, runs, pending, alarm, ringing>>
  PROVE  Keeps
<1>1. Comes' = Comes /\ AsFire(pending)' = AsFire(pending)
  BY DEF Comes, AsFire
<1> QED BY <1>1, NotAskedNext DEF Keeps, Promise!Next, Promise!Abandon

(* What is asked for while a fire is sent is that fire.                    *)
LEMMA AskedIs ==
  ASSUME TypeInv, job.pc = "send"
  PROVE  /\ Asked = Promise!Fire(job.rule.run, fires, job.retried, FALSE)
         /\ Asked # Promise!Nothing
<1>1. job.rule.run # NoRun
  BY DEF TypeInv, SendsARun
<1> QED BY <1>1 DEF Asked, Promise!Fire, Promise!Nothing

LEMMA SessionStarts ==
  ASSUME TypeInv, job.pc = "send", NEW twin \in BOOLEAN, runs' = runs \cup {Started(twin)},
         UNCHANGED <<fires, pending, alarm, ringing>>, Asked' \in {Asked, Promise!Nothing}
  PROVE  Keeps
<1>1. Comes' = Comes /\ AsFire(pending)' = AsFire(pending)
  BY DEF Comes, AsFire
<1>2. Started(twin).run = Asked.run /\ Started(twin).gen = Asked.gen
  BY DEF Started, Asked
<1>3. {[run |-> r.run, gen |-> r.gen] : r \in runs'}
        = {[run |-> r.run, gen |-> r.gen] : r \in runs} \cup {[run |-> Asked.run, gen |-> Asked.gen]}
  BY <1>2
<1>4. Promise!Start
  BY <1>1, <1>3, AskedIs DEF Promise!Start
<1> QED BY <1>4 DEF Keeps, Promise!Next

LEMMA ArmFireKeeps ==
  ASSUME AgainInv, JobInv, WatchInv, TypeInv, ArmFire
  PROVE  Keeps
<1>t. ItemTypeOK /\ job \in JobType /\ pending \in FireType /\ fires \in Nat
  BY DEF TypeInv, TypeOK, ItemTypeOK
<1>1. GoesTo("write", "send") /\ fires' = fires + 1 /\ UNCHANGED <<runs, ringing>>
  BY <1>t, RuleMoves DEF ArmFire
<1>2. Asked' = Promise!Fire(job.rule.run, fires + 1, job.retried, FALSE)
  BY <1>1 DEF Asked, GoesTo, Carries, Promise!Fire
<1>3. \/ AsFire(pending)' = Asked' /\ Comes' = "alarm"
      \/ AsFire(pending)' = Promise!Nothing /\ Comes' = "nothing"
  <2>1. CASE Watched(job)
    <3>1. /\ pending' = [[NoFire EXCEPT !.run = job.rule.run, !.gen = fires + 1,
                                       !.cause = job.event, !.retried = job.retried] EXCEPT !.due = FALSE]
          /\ alarm' = TRUE
      BY <2>1 DEF ArmFire, SetPendingFire
    <3>2. /\ pending'.run = job.rule.run /\ pending'.gen = fires + 1
          /\ pending'.retried = job.retried /\ pending'.deferred = FALSE
      BY <3>1 DEF NoFire
    <3> QED BY <1>2, <3>1, <3>2 DEF AsFire, Comes, Promise!Fire
  <2>2. CASE ~Watched(job)
    <3>1. pending' = NoFire /\ alarm' = FALSE
      BY <2>2 DEF ArmFire, ClearPendingFire
    <3>2. AsFire(pending)' = AsFire(NoFire)
      BY <3>1 DEF AsFire
    <3> QED BY <3>1, <3>2, NothingIs DEF Comes, NoFire
  <2> QED BY <2>1, <2>2
<1>4. Asked = Promise!Nothing
  BY <1>1, NotAsked DEF GoesTo
<1>5. job.rule.run \in Routines
  <2>1. job.rule \in RuleType \cup {NoRule} /\ job.rule.run # NoRun
    BY <1>t DEF ArmFire, JobType
  <2> QED BY <2>1 DEF RuleType, NoRule, Rule, AnyRun
<1>6. {[run |-> r.run, gen |-> r.gen] : r \in runs}' = {[run |-> r.run, gen |-> r.gen] : r \in runs}
  BY <1>1
<1>7. Promise!Ask(job.rule.run, job.retried)
  BY <1>1, <1>2, <1>3, <1>4, <1>6 DEF Promise!Ask
<1>8. CASE ~job.retried
  <2>1. job.retried = FALSE
    BY <1>t, <1>8 DEF JobType
  <2>2. Promise!AskFirst(job.rule.run)
    BY <1>7, <2>1 DEF Promise!AskFirst
  <2> QED BY <1>5, <2>2 DEF Keeps, Promise!Next
<1>9. CASE job.retried
  <2>1. /\ job.src = "alarm" /\ ringing /\ pending.due /\ job.rule.run = pending.run
        /\ pending.deferred <=> job.then = "deferred"
        /\ pending.retried <=> job.then = "deferred"
    BY <1>1, <1>9 DEF JobInv, RequestInv, AgainInv, WatchInv, RingsForItsJob, GoesTo
  <2>2. Comes = "ring"
    BY <2>1 DEF AgainInv, Comes
  <2>3. /\ AsFire(pending) # Promise!Nothing
        /\ AsFire(pending).waits <=> AsFire(pending).retried
        /\ AsFire(pending).run = job.rule.run
    <3>1. pending.run # NoRun
      BY <2>1 DEF ArmFire
    <3> QED BY <2>1, <3>1, SomeFireIs DEF AsFire
  <2>4. job.retried = TRUE
    BY <1>t, <1>9 DEF JobType
  <2>5. Promise!AskAgain
    BY <1>7, <2>2, <2>3, <2>4 DEF Promise!AskAgain
  <2> QED BY <2>5 DEF Keeps, Promise!Next
<1> QED BY <1>8, <1>9

LEMMA FireSentKeeps ==
  ASSUME TypeInv, FireSent
  PROVE  Keeps
<1>t. job \in JobType
  BY DEF TypeInv, TypeOK, ItemTypeOK
<1>1. job.pc = "send" /\ job'.pc = "after" /\ UNCHANGED <<fires, pending, alarm, ringing>>
  BY <1>t DEF FireSent, watch, JobType
<1>2. CASE runs' = runs \cup {Started(FALSE)}
  BY <1>1, <1>2, NotAskedNext, SessionStarts
<1>3. CASE runs' = runs
  BY <1>1, <1>3, PromiseAbandons
<1> QED BY <1>2, <1>3 DEF FireSent

LEMMA WebhookStepKeeps ==
  ASSUME AgainInv, JobInv, HeardInv, WatchInv, TypeInv, WebhookStep
  PROVE  Keeps
<1>t. ItemTypeOK /\ job \in JobType
  BY DEF TypeInv, TypeOK, ItemTypeOK
<1>1. ASSUME NEW h \in hooks, TakeHook(h)  PROVE Keeps
  <2>1. job.pc # "send" /\ UNCHANGED <<fires, runs, pending, alarm, ringing>>
    BY <1>1, NoJobIs DEF TakeHook, Idle, watch
  <2>2. job'.pc # "send"
    BY <1>1, HookBegins DEF Handling
  <2> QED BY <2>1, <2>2, PromiseStands
<1>2. CASE ReadFacts
  <2>1. job.pc = "facts" /\ GatedAs(job') /\ UNCHANGED <<fires, runs, pending, alarm, ringing>>
    BY <1>t, <1>2, GateMoves DEF ReadFacts, watch
  <2> QED BY <2>1, PromiseStands DEF GatedAs
<1>3. CASE WriteLabel \/ AfterEvent \/ AfterMergeFix \/ CountMergeFix \/ Comment
  <2>1. job.pc # "send" /\ job'.pc # "send"
    BY <1>t, <1>3, RuleMoves, AfterMoves DEF GoesTo
  <2>2. UNCHANGED <<fires, runs, pending, alarm, ringing>>
    BY <1>3 DEF WriteLabel, AfterEvent, AfterMergeFix, CountMergeFix, Comment, watch
  <2> QED BY <2>1, <2>2, PromiseStands
<1>4. CASE EndWatch
  <2>1. GoesTo("write", "after")
    BY <1>t, <1>4, RuleMoves
  <2> QED BY <1>4, <2>1, PromiseEnds DEF EndWatch, ClearPendingFire, GoesTo
<1>5. CASE ArmFire
  BY <1>5, ArmFireKeeps
<1>6. CASE FireSent
  BY <1>6, FireSentKeeps
<1>7. CASE ReturnHook
  <2>1. job'.pc # "send" /\ job.pc # "send" /\ UNCHANGED <<fires, runs, ringing>>
    BY <1>7, NoJobIs DEF ReturnHook
  <2>2. (pending' = NoFire /\ alarm' = FALSE) \/ UNCHANGED <<pending, alarm>>
    BY <1>7 DEF ReturnHook, ClearPendingFire, KeepPendingFire
  <2> QED BY <2>1, <2>2, PromiseEnds, PromiseStands
<1> QED BY <1>1, <1>2, <1>3, <1>4, <1>5, <1>6, <1>7 DEF WebhookStep

LEMMA WatchdogStepKeeps ==
  ASSUME JobInv, HeardInv, WatchInv, TypeInv, WatchdogStep
  PROVE  Keeps
<1>t. ItemTypeOK /\ job \in JobType
  BY DEF TypeInv, TypeOK, ItemTypeOK
<1>n. NoFire.due = FALSE /\ NoJob.pc # "send"
  BY NoJobIs DEF NoFire
<1>f. UNCHANGED <<fires, runs>>
  BY DEF WatchdogStep, AlarmForNothing, DropDeferred, SendDeferred, StartExpiry, Replay, ReplayApplied,
         ReplayNotApplied, RetryOnce, Expire, AfterExpiry, AfterFiredAgain, ReturnAlarm
<1>1. CASE AlarmForNothing
  BY <1>n, <1>f, <1>1, PromiseStands DEF AlarmForNothing, Idle
<1>2. CASE DropDeferred
  BY <1>n, <1>f, <1>2, PromiseEnds DEF DropDeferred, Idle, ClearPendingFire
<1>3. CASE SendDeferred
  <2>1. job'.pc # "send"
    BY <1>t, <1>3, FireAgainMoves DEF SendDeferred
  <2> QED BY <1>n, <1>f, <1>3, <2>1, PromiseStands DEF SendDeferred, Idle, watch
<1>4. CASE StartExpiry
  <2>1. job'.pc # "send"
    <3>1. CASE job' = AlarmJob("expire")
      BY <3>1 DEF AlarmJob, NoJob
    <3>2. CASE job' = [AlarmJob("recover") EXCEPT !.left = posted]
      BY <3>2 DEF AlarmJob, NoJob
    <3> QED BY <1>4, <3>1, <3>2 DEF StartExpiry
  <2> QED BY <1>n, <1>f, <1>4, <2>1, PromiseStands DEF StartExpiry, Idle, watch
<1>5. CASE Replay
  <2>1. job.pc # "send" /\ job'.pc # "send"
    BY <1>5, ReplayBegins DEF Handling
  <2> QED BY <1>f, <1>5, <2>1, PromiseStands DEF Replay, watch
<1>6. CASE ReplayApplied
  <2>1. job.pc = "return" /\ job.replays /\ job' = NoJob
        /\ ringing' = IF job.src = "alarm" THEN FALSE ELSE ringing
    BY <1>6 DEF ReplayApplied, StopRinging
  <2>2. CASE SameFire(job.old)
    BY <1>n, <1>f, <1>6, <2>1, <2>2, PromiseEnds DEF ReplayApplied, ClearPendingFire
  <2>3. CASE ~SameFire(job.old)
    <3>1. UNCHANGED <<pending, alarm>>
      BY <1>6, <2>3 DEF ReplayApplied, KeepPendingFire
    <3>2. ringing' = ringing \/ alarm \/ ~pending.due
      BY <1>n, <2>1, <2>3 DEF WatchInv, ReplayCovers, Covered
    <3> QED BY <1>n, <1>f, <2>1, <3>1, <3>2, PromiseStands
  <2> QED BY <2>2, <2>3
<1>7. CASE ReplayNotApplied
  <2>1. job'.pc # "send"
    BY <1>7 DEF ReplayNotApplied, BackToExpiry, NoJob
  <2> QED BY <1>f, <1>7, <2>1, PromiseStands DEF ReplayNotApplied, watch
<1>8. CASE RetryOnce
  <2>1. job'.pc # "send"
    <3>1. CASE job' = FireAgain("retry", TRUE)
      BY <1>t, <3>1, FireAgainMoves
    <3>2. CASE job' = BackToExpiry("expire")
      BY <3>2 DEF BackToExpiry, NoJob
    <3> QED BY <1>8, <3>1, <3>2 DEF RetryOnce
  <2> QED BY <1>f, <1>8, <2>1, PromiseStands DEF RetryOnce, watch
<1>9. CASE Expire
  <2> DEFINE j == [job EXCEPT !.seen = labels]
  <2>1. j \in JobType /\ job' = ApplyEvent(j, "WATCHDOG_EXPIRED", "expiry") /\ job.pc = "expire"
    BY <1>t, <1>9 DEF Expire, ItemTypeOK, JobType
  <2> HIDE DEF j
  <2>2. job'.pc \in {"write", "after"}
    BY <2>1, ApplyEventMoves
  <2> QED BY <1>f, <1>9, <2>1, <2>2, PromiseStands DEF Expire, watch
<1>10. CASE AfterExpiry
  BY <1>n, <1>f, <1>10, PromiseEnds DEF AfterExpiry, ClearPendingFire
<1>11. CASE AfterFiredAgain
  <2>1. job.pc # "send" /\ job'.pc # "send"
    BY <1>t, <1>11, RuleMoves DEF GoesTo
  <2> QED BY <1>f, <1>11, <2>1, PromiseStands DEF AfterFiredAgain, watch
<1>12. CASE ReturnAlarm
  <2>1. job.pc = "return" /\ job' = NoJob /\ UNCHANGED <<pending, alarm>>
    BY <1>12 DEF ReturnAlarm
  <2>2. alarm \/ ~pending.due
    BY <1>n, <1>12 DEF ReturnAlarm, WatchInv, AlarmPath, AlarmGoes, Covered
  <2> QED BY <1>n, <1>f, <2>1, <2>2, PromiseStands
<1> QED
  BY <1>1, <1>2, <1>3, <1>4, <1>5, <1>6, <1>7, <1>8, <1>9, <1>10, <1>11, <1>12 DEF WatchdogStep

LEMMA SignalStepKeeps ==
  ASSUME HeardInv, TypeInv, SignalStep
  PROVE  Keeps
<1>n. NoJob.pc # "send"
  BY NoJobIs
<1>f. UNCHANGED <<fires, runs, ringing>>
  BY DEF SignalStep, IgnoreSignal, Heartbeat, Completion, TakeOutcome, EndFire, ReturnOutcome, watch
<1>1. ASSUME NEW s \in hooks, IgnoreSignal(s)  PROVE Keeps
  BY <1>n, <1>f, <1>1, PromiseStands DEF IgnoreSignal, Idle, watch
<1>2. ASSUME NEW s \in hooks, Heartbeat(s)  PROVE Keeps
  <2>1. job.pc # "send" /\ job' = job /\ alarm' = TRUE
        /\ pending' = [[pending EXCEPT !.stepped = TRUE] EXCEPT !.due = FALSE]
    BY <1>n, <1>2 DEF Heartbeat, Idle, SetPendingFire
  <2>2. pending \in FireType /\ s \in HookType
    BY DEF TypeInv, TypeOK, ItemTypeOK
  <2>3. pending.run # NoRun /\ pending.deferred = FALSE
    BY <1>2, <2>2 DEF Heartbeat, Live, HookType, Routines, NoRun, FireType
  <2>4. AsFire(pending)' = AsFire(pending) /\ AsFire(pending).waits = FALSE
    BY <2>1, <2>2, <2>3 DEF AsFire, FireType
  <2>5. AsFire(pending) # Promise!Nothing
    BY <2>3, SomeFireIs
  <2>6. Asked = Promise!Nothing /\ Asked' = Promise!Nothing
    BY <2>1, NotAsked, NotAskedNext
  <2>7. Comes' = "alarm"
    BY <2>1 DEF Comes
  <2>8. Promise!Rearm
    BY <1>f, <2>4, <2>5, <2>6, <2>7 DEF Promise!Rearm
  <2> QED BY <2>8 DEF Keeps, Promise!Next
<1>3. ASSUME NEW s \in hooks, Completion(s)  PROVE Keeps
  BY <1>n, <1>f, <1>3, PromiseEnds DEF Completion, Idle, ClearPendingFire
<1>4. ASSUME NEW s \in hooks, TakeOutcome(s)  PROVE Keeps
  <2>1. job'.pc # "send"
    BY <1>4, HookBegins DEF Handling
  <2> QED BY <1>n, <1>f, <1>4, <2>1, PromiseStands DEF TakeOutcome, Idle, watch
<1>5. ASSUME NEW s \in hooks, EndFire(s)  PROVE Keeps
  <2>1. job'.pc # "send"
    BY <1>5 DEF EndFire, NoJob
  <2> QED BY <1>n, <1>f, <1>5, <2>1, PromiseStands DEF EndFire, Idle, watch
<1>6. CASE ReturnOutcome
  <2>1. job.pc # "send" /\ job'.pc # "send"
    BY <1>n, <1>6 DEF ReturnOutcome
  <2>2. (pending' = NoFire /\ alarm' = FALSE) \/ UNCHANGED <<pending, alarm>>
    BY <1>6 DEF ReturnOutcome, ClearPendingFire, KeepPendingFire
  <2> QED BY <1>f, <2>1, <2>2, PromiseEnds, PromiseStands
<1> QED BY <1>1, <1>2, <1>3, <1>4, <1>5, <1>6 DEF SignalStep

LEMMA FailuresKeep ==
  ASSUME TypeInv, Failures
  PROVE  Keeps
<1>t. ItemTypeOK /\ job \in JobType
  BY DEF TypeInv, TypeOK, ItemTypeOK
<1>n. NoJob.pc # "send"
  BY NoJobIs
<1>1. CASE ThrowHook \/ ThrowAlarm \/ CrashHook \/ CrashAlarm
  BY <1>n, <1>1, PromiseAbandons DEF ThrowHook, ThrowAlarm, CrashHook, CrashAlarm, watch
<1>2. CASE ThrowReplay
  <2>1. job'.pc # "send"
    <3>1. CASE job' = [BackToExpiry("recover") EXCEPT !.left = <<>>]
      BY <3>1 DEF BackToExpiry, NoJob
    <3> QED BY <1>n, <1>2, <3>1 DEF ThrowReplay
  <2> QED BY <1>2, <2>1, PromiseAbandons DEF ThrowReplay, watch
<1>3. CASE RefuseHook \/ RefuseAlarm
  <2>1. job'.pc # "send"
    <3>1. CASE job' = BackToExpiry("expire")
      BY <3>1 DEF BackToExpiry, NoJob
    <3> QED BY <1>n, <1>3, <3>1 DEF RefuseHook, RefuseAlarm
  <2> QED BY <1>3, <2>1, PromiseEnds DEF RefuseHook, RefuseAlarm, ClearPendingFire
<1>4. CASE Limited
  <2>1. GoesTo("send", "after")
    BY <1>t, <1>4, RuleMoves DEF Limited
  <2>2. pending' = [Deferral EXCEPT !.due = FALSE] /\ alarm' = TRUE /\ UNCHANGED <<fires, runs>>
    BY <1>4 DEF Limited, FireLimited, SetPendingFire
  <2>3. /\ pending'.run = job.rule.run /\ pending'.gen = fires
        /\ pending'.retried = job.retried /\ pending'.deferred = TRUE
    BY <2>2 DEF Deferral, NoFire
  <2>4. Asked = Promise!Fire(job.rule.run, fires, job.retried, FALSE) /\ Asked # Promise!Nothing
    BY <2>1, AskedIs DEF GoesTo
  <2>5. AsFire(pending)' = Promise!Fire(Asked.run, Asked.gen, Asked.retried, TRUE)
    BY <2>3, <2>4 DEF AsFire, Promise!Fire
  <2>6. Comes' = "alarm" /\ Asked' = Promise!Nothing
    BY <2>1, <2>2, NotAskedNext DEF Comes, GoesTo
  <2>7. Promise!Defer
    BY <2>2, <2>4, <2>5, <2>6 DEF Promise!Defer
  <2> QED BY <2>7 DEF Keeps, Promise!Next
<1>5. CASE Unheard
  <2>1. job.pc = "send" /\ runs' = runs \cup {Started(TRUE)}
        /\ UNCHANGED <<fires, pending, alarm, ringing, job>>
    BY <1>5 DEF Unheard, LostAnswer, watch
  <2>2. Asked' = Asked
    BY <2>1 DEF Asked, AsFire, NoFire
  <2> QED BY <2>1, <2>2, SessionStarts
<1>6. CASE SendDeferredUnread
  <2>1. job'.pc # "send"
    BY <1>t, <1>6, FireAgainMoves DEF SendDeferredUnread
  <2> QED BY <1>n, <1>6, <2>1, PromiseStands DEF SendDeferredUnread, Idle, watch
<1>7. CASE StartExpiryUnread
  <2>1. job'.pc # "send"
    BY <1>7 DEF StartExpiryUnread, AlarmJob, NoJob
  <2> QED BY <1>n, <1>7, <2>1, PromiseStands DEF StartExpiryUnread, Idle, watch
<1>8. CASE GivesUp
  <2>1. /\ "giveup" \in Faults /\ job.pc # "send" /\ job' = job /\ ringing /\ ringing' = FALSE
        /\ UNCHANGED <<fires, runs, pending, alarm>>
    BY <1>n, <1>8 DEF GivesUp, Fails, GiveUp, Idle
  <2>2. CASE alarm \/ ~pending.due
    BY <2>1, <2>2, PromiseStands
  <2>3. CASE ~alarm /\ pending.due
    <3>1. Comes = "ring" /\ Comes' = "nothing" /\ AsFire(pending)' = AsFire(pending)
      BY <2>1, <2>3 DEF Comes, AsFire
    <3>2. Asked = Promise!Nothing /\ Asked' = Promise!Nothing
      BY <2>1, NotAsked, NotAskedNext
    <3>3. Promise!GiveUp
      BY <2>1, <3>1, <3>2 DEF Promise!GiveUp
    <3> QED BY <3>3 DEF Keeps, Promise!Next
  <2> QED BY <2>2, <2>3
<1>9. CASE Loses
  <2>1. UNCHANGED <<job, runs, fires, pending, alarm, ringing>>
    BY <1>9 DEF Loses, storage, watch
  <2> QED BY <2>1 DEF Keeps, Promise!vars, Asked, Comes, AsFire, NoFire
<1> QED
  BY <1>1, <1>2, <1>3, <1>4, <1>5, <1>6, <1>7, <1>8, <1>9
  DEF Failures, Throws, Crashes, Refused, Limited, Unheard, Unread, GivesUp

LEMMA StepsKeepWatch ==
  ASSUME AgainInv, JobInv, HeardInv, WatchInv, TypeInv, [Next]_allVars
  PROVE  Keeps
<1>1. CASE Worker
  BY <1>1, WebhookStepKeeps, WatchdogStepKeeps, SignalStepKeeps DEF Worker
<1>2. CASE Alarm
  <2>1. /\ alarm /\ alarm' = FALSE /\ ringing' = TRUE /\ UNCHANGED <<runs, fires, job>>
        /\ pending' = [pending EXCEPT !.due = TRUE] /\ pending \in FireType
    BY <1>2 DEF Alarm, Ring, TypeInv, TypeOK, ItemTypeOK
  <2>2. pending'.due /\ AsFire(pending)' = AsFire(pending)
    BY <2>1 DEF AsFire, FireType
  <2>3. Comes = "alarm" /\ Comes' = "ring" /\ Asked' = Asked
    BY <2>1, <2>2 DEF Comes, Asked, AsFire, NoFire
  <2>4. Promise!Ring
    BY <2>1, <2>2, <2>3 DEF Promise!Ring
  <2> QED BY <2>4 DEF Keeps, Promise!Next
<1>3. CASE People \/ GitHubWorks \/ Sessions \/ UNCHANGED allVars
  <2>1. UNCHANGED <<fires, pending, alarm, ringing, job>>
    BY <1>3, OutsideJob DEF storage, watch, allVars, vars
  <2>2. Asked' = Asked /\ Comes' = Comes /\ AsFire(pending)' = AsFire(pending)
    BY <2>1 DEF Asked, Comes, AsFire, NoFire
  <2>3. runs' \subseteq runs
    <3>1. CASE People
      BY <3>1 DEF People, PersonAddsLabel, PersonRemovesLabel, PersonPushes, PersonReplies, PersonCloses
    <3>2. CASE GitHubWorks
      BY <3>2 DEF GitHubWorks, CiFinishes, MergeableChanges
    <3>3. CASE Sessions
      BY <3>3 DEF Sessions, Session, Reports, Pushes, Merges, Dies, Steps, Ends
    <3>4. CASE UNCHANGED allVars
      BY <3>4 DEF allVars, vars
    <3> QED BY <1>3, <3>1, <3>2, <3>3, <3>4
  <2>4. {[run |-> r.run, gen |-> r.gen] : r \in runs'} \subseteq {[run |-> r.run, gen |-> r.gen] : r \in runs}
    BY <2>3
  <2>5. Promise!SessionsEnd
    BY <2>1, <2>2, <2>4 DEF Promise!SessionsEnd
  <2> QED BY <2>5 DEF Keeps, Promise!Next
<1>4. CASE Failures
  BY <1>4, FailuresKeep
<1> QED BY <1>1, <1>2, <1>3, <1>4 DEF Next

(* Whatever overlaps, fails, repeats or restarts: a fire under watch has   *)
(* its alarm or one that rang, a session starts only for the fire the      *)
(* routines API is being asked for, and a fire is made again only after    *)
(* its alarm rang, a silent one once (setPendingFire, clearPendingFire,    *)
(* fireWatched, deferFire, retryOnce, expirePendingFire).                  *)
THEOREM FireWatchIsKept == Spec => KeepsWatch
<1>1. ASSUME Init  PROVE Promise!Init
  <2>1. pending = NoFire /\ alarm = FALSE /\ ringing = FALSE /\ fires = 0 /\ runs = {} /\ job.pc # "send"
    BY <1>1, NoJobIs DEF Init
  <2>2. Asked = Promise!Nothing /\ AsFire(pending) = Promise!Nothing /\ Comes = "nothing"
    BY <2>1, NotAsked, NothingIs DEF Comes
  <2>3. {[run |-> r.run, gen |-> r.gen] : r \in runs} = {}
    BY <2>1
  <2> QED BY <2>1, <2>2, <2>3 DEF Promise!Init
<1>2. Init => TypeInv /\ WatchInv /\ RequestsInv /\ AgainInv
  BY TypeInit, WatchInit, RequestsInit, AgainInit
<1>3. TypeInv /\ WatchInv /\ RequestsInv /\ AgainInv /\ [Next]_allVars
        => (TypeInv /\ WatchInv /\ RequestsInv /\ AgainInv)'
  BY TypeStep, WatchStep, RequestsStep, AgainStep DEF RequestsInv
<1>4. TypeInv /\ WatchInv /\ RequestsInv /\ AgainInv /\ [Next]_allVars => [Promise!Next]_(Promise!vars)
  BY StepsKeepWatch DEF RequestsInv, Keeps
<1> QED BY <1>1, <1>2, <1>3, <1>4, PTL DEF Spec, KeepsWatch, Promise!Spec
----------------------------------------------------------------------------
(* Where a rework's push goes back to.                                     *)
(*                                                                         *)
(* A CI fix that is out keeps one of its labels on, until a request that   *)
(* ends it has begun to take the last one off; and while a rework is the   *)
(* pending fire, nothing ends it but a request that also ends its watch.   *)
(* On a PR nobody takes a label off from outside, that is: a late webhook  *)
(* of such a removal ends a rework it knows nothing of.                    *)

Undisturbed == ModeEnforced /\ env.kind = "pr" /\ env.removes = {} /\ faults = 0

(* A review's block reported late takes AI_STUCK off under a CI fix.       *)
NeverBlocked == "REVIEW_BLOCKED" \notin env.reports

FixLabels == {"AUTO_REWORKING", "AUTO_MERGING", "AI_STUCK", "MERGE_BLOCKED"}

(* The events that hand a rework out.                                      *)
Causes == {"MERGE_GATE_FAILED_SOFT", "REVIEW_CI_FAILED", "REVIEW_FINDINGS"}

(* What such a PR does not hear, and the routines it does not run.         *)
OfIssues == {"LABELLED_AI_READY", "LABELLED_AUTO_RELEASING", "BUILD_SUCCEEDED", "BUILD_BLOCKED",
             "RELEASE_BLOCKED"}
IssueRuns == {"issue-build-loop", "auto-release-loop"}

Foreign(event) ==
  \/ event \in OfIssues \cup {"UNLABELLED_AUTO_REWORKING", "REVIEW_FIX_PUSHED"}
  \/ event = "REVIEW_BLOCKED" /\ NeverBlocked

PathHeard ==
  /\ \A h \in hooks \cup Said(posted) \cup Said(job.left) : ~Foreign(h.event)
  /\ \A r \in runs : r.run \notin IssueRuns
  /\ pending.run \notin IssueRuns /\ ~pending.deferred
  /\ Applies(job) => job.rule.run \notin IssueRuns
  /\ job.then # "deferred"

(* A request by its rule: a rework is handed out by the handler of its     *)
(* event, with its label coming or on; what it armed is of its event; a    *)
(* retry is of the pending fire.                                           *)
On(l)  == [op |-> "add", label |-> l]
Off(l) == [op |-> "remove", label |-> l]

HandedOutBy(then, event) ==
  /\ then = "mergeFix" <=> event = "MERGE_GATE_FAILED_SOFT"
  /\ then = "reviewFix" <=> event = "REVIEW_CI_FAILED"
  /\ then = "findings" <=> event = "REVIEW_FINDINGS"

PathJob ==
  /\ job.pc # "write" => job.ops = <<>>
  /\ job.then = "retry" /\ job.pc = "write" =>
       job.ops = <<>> /\ job.event = pending.cause /\ job.rule.run = pending.run
  /\ job.applied /\ job.then # "retry" => HandedOutBy(job.then, job.event)
  /\ job.applied /\ job.pc \in {"send", "after", "count"} =>
       pending.run = NoRun \/ pending.cause = job.event
  /\ job.then \in HandedOut /\ job.pc = "write" =>
       IF job.ops = <<>> THEN "AUTO_REWORKING" \in labels
                         ELSE job.ops[Len(job.ops)] = On("AUTO_REWORKING")
  /\ Uncounted(HandedOut) => "AUTO_REWORKING" \in labels

(* The labels a request read stay on until it takes them off.              *)
Keyed(rule, op) ==
  /\ op.op = "remove" => op.label = rule.from
  /\ op.op = "add"    => op.label = rule.to
  /\ op.op # "close"  => rule.to # rule.from

BeforeReview == {"none", "AI_STUCK", "AI_BLOCKED", "READY_FOR_REVIEW"}

PathSeen ==
  /\ job.pc = "facts" => job.seen \subseteq labels
  /\ \A i \in 1..Len(job.ops) : Keyed(job.rule, job.ops[i])
  /\ job.pc \in {"write", "after"} /\ job.then = "review" /\ job.applied =>
       job.seen \ {job.rule.from} \subseteq labels /\ job.rule.from \in BeforeReview

(* A call the request has still to make, and what stays on after it.       *)
Due(op) == Enforced(job.event) /\ \E i \in 1..Len(job.ops) : job.ops[i] = op

FixLabelled == \E l \in FixLabels : Due(On(l)) \/ (l \in labels /\ ~Due(Off(l)))

(* The request ends the CI fix once its rule is applied.                   *)
EndsFix ==
  /\ job.applied /\ job.pc \in {"write", "send", "after"}
  /\ job.then = "passed" \/ (job.then = "tail" /\ "ciFix" \in job.late)

PathOpen ==
  /\ ciFix.pending => EndsFix \/ FixLabelled
  /\ job.applied /\ job.then = "findings" /\ job.pc \in {"write", "send", "after"} => ~ciFix.pending

Known(cause) ==
  /\ cause = "MERGE_GATE_FAILED_SOFT" => ciFix.pending /\ ciFix.returnTo = "AUTO_MERGING"
  /\ cause = "REVIEW_CI_FAILED"       => ciFix.pending /\ ciFix.returnTo = "AI_REVIEWING"
  /\ cause = "REVIEW_FINDINGS"        => (NeverBlocked => ~ciFix.pending) /\ reviewLoop.fixPending

(* The request will end the pending fire's watch.                          *)
Ending == job.pc = "write" /\ job.then # "retry"

PathKnown ==
  pending.run = "rework-loop" /\ pending.cause \in Causes =>
    \/ Ending
    \/ labels # {} /\ (labels = {"AUTO_REWORKING"} => Known(pending.cause) \/ Uncounted(HandedOut))

----------------------------------------------------------------------------
(* The table, and what labels are read as.                                 *)

(* What leaves the labels of a CI fix (graph.ts): a rework's end, a review *)
(* passed or begun again, and what only issues hear.                       *)
FixEnds == {"REWORK_PUSHED", "REWORK_NO_CHANGE", "REVIEW_FIX_PUSHED", "REVIEW_PASSED",
            "LABELLED_AI_REVIEWING", "REVIEW_BLOCKED"}

LEMMA FixRulesSay ==
  ASSUME NEW r \in Rules
  PROVE  /\ r.from \in FixLabels /\ r.to \notin FixLabels \cup {"noop", "close"} =>
              /\ r.from \in {"AUTO_REWORKING", "AI_STUCK"}
              /\ r.on \in FixEnds \cup OfIssues
              /\ r.on = "REVIEW_FIX_PUSHED" => r.from = "AUTO_REWORKING"
         /\ r.run \in IssueRuns => r.on \in OfIssues
         /\ r.on = "MERGE_GATE_FAILED_SOFT" => r.from = "AUTO_MERGING" /\ r.to = "AUTO_REWORKING"
         /\ r.on \in {"REVIEW_CI_FAILED", "REVIEW_FINDINGS"} =>
              r.from = "AI_REVIEWING" /\ r.to = "AUTO_REWORKING"
         /\ r.on = "LABELLED_AI_REVIEWING" => r.from \in BeforeReview
         /\ r.on = "WATCHDOG_EXPIRED" => r.to = "AI_STUCK"
BY SMTT(60) DEF Rules, IssueRules, ReleaseRules, MergeRules, ReviewRules, OutcomeRules, StageRules,
     UnlabelRules, WatchdogRules, StuckRules, Labels, NoRun, Rule, Fires, Moves, TakesOff, Closes, Stays,
     FixLabels, FixEnds, OfIssues, IssueRuns, BeforeReview

(* Every end of a rework has a rule under its label, and so does the label *)
(* itself, and its cap.                                                    *)
LEMMA ReworkRulesAre ==
  /\ \A e \in {"REWORK_PUSHED", "CI_FIX_PUSHED", "REVIEW_FIX_PUSHED", "REWORK_NO_CHANGE", "REWORK_CAP_REACHED"} :
       HasRule("AUTO_REWORKING", e)
  /\ HasRule("none", "LABELLED_AUTO_REWORKING")
<1>1. /\ TakesOff("AUTO_REWORKING", "REWORK_PUSHED") \in Rules
      /\ Fires("AUTO_REWORKING", "CI_FIX_PUSHED", "AUTO_MERGING", "merge-flow") \in Rules
      /\ Moves("AUTO_REWORKING", "REVIEW_FIX_PUSHED", "AI_REVIEWING") \in Rules
      /\ TakesOff("AUTO_REWORKING", "REWORK_NO_CHANGE") \in Rules
      /\ Moves("AUTO_REWORKING", "REWORK_CAP_REACHED", "AI_STUCK") \in Rules
      /\ Fires("none", "LABELLED_AUTO_REWORKING", "AUTO_REWORKING", "rework-loop") \in Rules
  BY DEF Rules, MergeRules, ReviewRules, OutcomeRules
<1> QED BY <1>1 DEF HasRule, Matching, TakesOff, Fires, Moves, Rule

LEMMA OneLabelReads ==
  ASSUME NEW l \in Labels
  PROVE  DeriveState({l}) = l
<1>1. Cardinality({l} \cap Labels) = 1
  <2>1. {l} \cap Labels = {l}
    OBVIOUS
  <2> QED BY <2>1, FS_Singleton
<1> QED BY <1>1 DEF DeriveState

LEMMA NoLabelReads == DeriveState({}) = "none"
BY DEF DeriveState

(* A label that is read as the state is on, and but for AI_STUCK and       *)
(* AUTO_MERGING alone.                                                     *)
LEMMA StateIsOn ==
  ASSUME NEW s \in SUBSET Labels, DeriveState(s) \in Labels
  PROVE  /\ DeriveState(s) \in s
         /\ s = {DeriveState(s)} \/ DeriveState(s) = "AI_STUCK" \/ s = {"MERGE_BLOCKED", "AUTO_MERGING"}
<1>f. IsFiniteSet(s) /\ s \cap Labels = s
  BY LabelsAreFinite, FS_Subset
<1>1. CASE s = {}
  BY <1>1, NoLabelReads DEF Labels
<1>2. CASE Cardinality(s) = 1
  <2>1. PICK l : s = {l}
    BY <1>f, <1>2, FS_Singleton
  <2> QED BY <2>1, OneLabelReads
<1>3. CASE s # {} /\ Cardinality(s) # 1 /\ Cardinality(s) = 2 /\ "AI_STUCK" \in s
  BY <1>f, <1>3 DEF DeriveState
<1>4. CASE /\ s # {} /\ Cardinality(s) # 1 /\ ~(Cardinality(s) = 2 /\ "AI_STUCK" \in s)
          /\ s = {"MERGE_BLOCKED", "AUTO_MERGING"}
  BY <1>f, <1>4 DEF DeriveState
<1>5. CASE /\ s # {} /\ Cardinality(s) # 1 /\ ~(Cardinality(s) = 2 /\ "AI_STUCK" \in s)
          /\ s # {"MERGE_BLOCKED", "AUTO_MERGING"}
  <2>1. DeriveState(s) = "ambiguous"
    BY <1>f, <1>5 DEF DeriveState
  <2> QED BY <2>1 DEF Labels
<1> QED BY <1>1, <1>2, <1>3, <1>4, <1>5

(* The calls of a rule: its state's label off, its target's on, unless it  *)
(* is on already (labelOps).                                               *)
LEMMA OpsAreKeyed ==
  ASSUME NEW seen, NEW rule \in RuleType, NEW ops, ops = LabelOps(seen, rule)
  PROVE  /\ \A i \in 1..Len(ops) : Keyed(rule, ops[i])
         /\ rule.to \in Labels /\ rule.to # rule.from /\ rule.to \notin seen =>
              ops # <<>> /\ ops[Len(ops)] = On(rule.to)
         /\ rule.to \in {"noop", "close"} => \A i \in 1..Len(ops) : ops[i].op = "close"
<1> DEFINE removes == rule.from # "none" /\ rule.from # Target(rule) /\ rule.from \in seen
           adds    == rule.to \in Labels /\ rule.to # rule.from /\ rule.to \notin seen
           remove  == [op |-> "remove", label |-> rule.from]
           add     == [op |-> "add", label |-> rule.to]
           close   == [op |-> "close", label |-> "none"]
<1>1. LabelOps(seen, rule) =
        CASE rule.to = "noop"  -> <<>>
          [] rule.to = "close" -> <<close>>
          [] OTHER -> (IF removes THEN <<remove>> ELSE <<>>) \o (IF adds THEN <<add>> ELSE <<>>)
  BY DEF LabelOps
<1>c. /\ <<>> \o <<>> = <<>> /\ <<remove>> \o <<>> = <<remove>>
      /\ <<>> \o <<add>> = <<add>> /\ <<remove>> \o <<add>> = <<remove, add>>
  BY OneThenOne
<1>l. rule.to \in Labels => rule.to \notin {"noop", "close"}
  BY DEF Labels
<1>d. adds => rule.to # rule.from
  OBVIOUS
<1>e. removes => rule.to # rule.from
  BY DEF Target, RuleType, State, Effects
<1>k. Keyed(rule, close) /\ (removes => Keyed(rule, remove)) /\ (adds => Keyed(rule, add))
  BY <1>e DEF Keyed
<1>o. add = On(rule.to) /\ close.op = "close"
  BY DEF On
<1>a. rule.to \in Labels /\ rule.to # rule.from /\ rule.to \notin seen => adds
  OBVIOUS
<1> HIDE DEF removes, adds, remove, add, close
<1>2. \/ ops = <<>> /\ (~adds \/ rule.to = "noop")
      \/ ops = <<close>> /\ rule.to = "close"
      \/ ops = <<remove>> /\ removes /\ ~adds /\ rule.to \notin {"noop", "close"}
      \/ ops = <<add>> /\ adds /\ rule.to \notin {"noop", "close"}
      \/ ops = <<remove, add>> /\ removes /\ adds /\ rule.to \notin {"noop", "close"}
  BY <1>1, <1>c
<1>3. \A i \in 1..Len(ops) : Keyed(rule, ops[i])
  BY <1>2, <1>k
<1>4. rule.to \in {"noop", "close"} => \A i \in 1..Len(ops) : ops[i].op = "close"
  BY <1>2, <1>o
<1>5. rule.to \in Labels /\ adds => ops # <<>> /\ ops[Len(ops)] = On(rule.to)
  <2> SUFFICES ASSUME rule.to \in Labels, adds  PROVE ops # <<>> /\ ops[Len(ops)] = add
    BY <1>o
  <2>1. ops = <<add>> \/ ops = <<remove, add>>
    BY <1>2, <1>l
  <2>2. \A x, y : <<x>> # <<>> /\ Len(<<x>>) = 1 /\ <<x>>[1] = x
                /\ <<x, y>> # <<>> /\ Len(<<x, y>>) = 2 /\ <<x, y>>[2] = y
    OBVIOUS
  <2>3. CASE ops = <<add>>
    BY <2>2, <2>3, Zenon
  <2>4. CASE ops = <<remove, add>>
    <3>1. <<remove, add>> # <<>> /\ Len(<<remove, add>>) = 2 /\ <<remove, add>>[2] = add
      BY <2>2
    <3> QED BY <2>4, <3>1, Zenon
  <2> QED BY <2>1, <2>3, <2>4
<1> QED BY <1>3, <1>4, <1>5, <1>a

----------------------------------------------------------------------------
(* What the handlers and the gates make of a CI fix.                       *)

LEMMA ApplyEventKeeps ==
  ASSUME NEW j \in JobType, NEW event, NEW then, NEW k, k = ApplyEvent(j, event, then)
  PROVE  /\ k.late = j.late
         /\ k.pc = "write" \/ k.ops = <<>>
         /\ StateBefore(j.seen, event) # "ambiguous" /\ HasRule(StateBefore(j.seen, event), event)
              => k.pc = "write" /\ k.applied
<1> DEFINE state == StateBefore(j.seen, event)
           known == state # "ambiguous" /\ HasRule(state, event)
           base  == [j EXCEPT !.event = event, !.then = then, !.applied = known]
<1>1. k = IF known
          THEN [base EXCEPT !.pc = "write", !.rule = Reduce(state, event),
                            !.ops = LabelOps(j.seen, Reduce(state, event))]
          ELSE [base EXCEPT !.pc = "after", !.rule = NoRule, !.ops = <<>>]
  BY DEF ApplyEvent
<1>2. StateBefore(j.seen, event) # "ambiguous" /\ HasRule(StateBefore(j.seen, event), event) => known
  OBVIOUS
<1> HIDE DEF state, known
<1> QED BY <1>1, <1>2 DEF JobType

(* Only the handlers of a rework's end and of a label touch what a rework  *)
(* goes back to, and only findings hand one out.                           *)
LEMMA HandlersSay ==
  ASSUME CountsTypeOK, NEW j \in JobType, j.then = "none", j.ops = <<>>, HandleEvent(j)
  PROVE  /\ job'.event \in {j.event, "CI_FIX_PUSHED", "REVIEW_FIX_PUSHED", "REWORK_CAP_REACHED"}
         /\ ciFix'.pending => ciFix.pending
         /\ job'.then = "findings" =>
              job'.event = "REVIEW_FINDINGS" /\ DeriveState(j.seen) = "AI_REVIEWING" /\ ciFix' = ciFix
         /\ job'.pc = "write" \/ job'.ops = <<>>
         /\ job'.pc = "facts" => job'.seen = j.seen
<1> DEFINE Says(k) ==
      /\ k.event \in {j.event, "CI_FIX_PUSHED", "REVIEW_FIX_PUSHED", "REWORK_CAP_REACHED"}
      /\ k.then = "findings" =>
              k.event = "REVIEW_FINDINGS" /\ DeriveState(j.seen) = "AI_REVIEWING"
      /\ k.pc = "write" \/ k.ops = <<>>
      /\ k.pc = "facts" => k.seen = j.seen
<1>a. ASSUME NEW jj \in JobType, NEW event \in {j.event, "CI_FIX_PUSHED", "REVIEW_FIX_PUSHED", "REWORK_CAP_REACHED"},
             NEW then, then # "findings" \/ (event = "REVIEW_FINDINGS" /\ DeriveState(j.seen) = "AI_REVIEWING")
      PROVE  Says(ApplyEvent(jj, event, then))
  <2>1. PICK k : k = ApplyEvent(jj, event, then)
    OBVIOUS
  <2>2. /\ k.event = event /\ k.then = then /\ k.pc \in {"write", "after"}
        /\ k.pc = "write" \/ k.ops = <<>>
    BY <2>1, ApplyEventMoves, ApplyEventKeeps
  <2> QED BY <1>a, <2>1, <2>2
<1>r. Says(Returns(j, FALSE))
  BY DEF Returns, JobType
<1>f. \A then : then # "findings" => Says([j EXCEPT !.pc = "facts", !.then = then])
  BY DEF JobType
<1>l. \A flags \in SUBSET {"ciFix", "reviewLoop", "reworkExpired"} : [j EXCEPT !.late = flags] \in JobType
  BY DEF JobType
<1>c. ciFix \in CiFixType
  BY DEF CountsTypeOK
<1> HIDE DEF Says
<1>1. ASSUME HandleReworkEnd(j)  PROVE Says(job') /\ (ciFix'.pending => ciFix.pending)
  <2>1. ciFix'.pending => ciFix.pending
    BY <1>1, <1>c DEF HandleReworkEnd, CiFixType
  <2>2. ASSUME NEW flags \in SUBSET {"ciFix", "reviewLoop", "reworkExpired"},
               NEW event \in {j.event, "CI_FIX_PUSHED", "REVIEW_FIX_PUSHED"}
        PROVE  Says(ApplyEvent([j EXCEPT !.late = flags], event, "tail"))
    BY <1>a, <1>l
  <2>3. Says(job')
    BY <1>1, <1>r, <2>2 DEF HandleReworkEnd
  <2> QED BY <2>1, <2>3
<1>2. ASSUME HandleReworkLabel(j)  PROVE Says(job') /\ (ciFix'.pending => ciFix.pending)
  BY <1>2, <1>a DEF HandleReworkLabel, NoCiFix
<1>3. ASSUME HandleReviewLabel(j)  PROVE Says(job') /\ (ciFix'.pending => ciFix.pending)
  BY <1>3, <1>a, <1>r DEF HandleReviewLabel, NoCiFix
<1>4. ASSUME HandleFindings(j)  PROVE Says(job') /\ ciFix' = ciFix
  BY <1>4, <1>a DEF HandleFindings, counts
<1>5. ASSUME HandleMergeLabel(j)  PROVE Says(job') /\ (ciFix'.pending => ciFix.pending)
  BY <1>5, <1>r, <1>f DEF HandleMergeLabel, NoCiFix
<1>6. ASSUME HandleChecks(j)  PROVE Says(job') /\ ciFix' = ciFix
  BY <1>6, <1>r, <1>f DEF HandleChecks, counts
<1>7. ASSUME HandleOther(j)  PROVE Says(job') /\ ciFix' = ciFix
  BY <1>7, <1>a DEF HandleOther, counts
<1>8. ASSUME HandleNothing(j)  PROVE Says(job') /\ ciFix' = ciFix
  BY <1>8, <1>r DEF HandleNothing, counts
<1>9. Says(job') /\ (ciFix'.pending => ciFix.pending)
  BY <1>1, <1>2, <1>3, <1>4, <1>5, <1>6, <1>7, <1>8 DEF HandleEvent
<1>10. job'.then = "findings" => ciFix' = ciFix
  <2> SUFFICES ASSUME job'.then = "findings", ciFix' # ciFix  PROVE FALSE
    OBVIOUS
  <2>1. HandleReworkEnd(j) \/ HandleReworkLabel(j) \/ HandleReviewLabel(j) \/ HandleMergeLabel(j)
    BY <1>4, <1>6, <1>7, <1>8 DEF HandleEvent
  <2>2. j.event # "REVIEW_FINDINGS"
    BY <2>1 DEF HandleReworkEnd, HandleReworkLabel, HandleReviewLabel, HandleMergeLabel
  <2> QED BY <1>9, <2>2 DEF Says
<1> QED BY <1>9, <1>10 DEF Says

(* Under AUTO_REWORKING alone they touch it in a request that ends the     *)
(* rework's watch too.                                                     *)
LEMMA ReworkEndsWatch ==
  ASSUME NEW j \in JobType, j.seen = {"AUTO_REWORKING"}, j.event # "UNLABELLED_AUTO_REWORKING", HandleEvent(j)
  PROVE  job'.pc = "write" \/ UNCHANGED <<ciFix, reviewLoop>>
<1>s. /\ DeriveState(j.seen) = "AUTO_REWORKING" /\ DeriveState(j.seen \ {"AUTO_REWORKING"}) = "none"
      /\ DeriveState(j.seen \ {}) = "AUTO_REWORKING"
      /\ j.seen \ {"AI_REVIEWING"} = j.seen
  BY OneLabelReads, NoLabelReads DEF Labels
<1>a. ASSUME NEW jj \in JobType, jj.seen = j.seen, NEW then,
             NEW event \in {"REWORK_PUSHED", "CI_FIX_PUSHED", "REVIEW_FIX_PUSHED", "REWORK_NO_CHANGE",
                            "REWORK_CAP_REACHED", "LABELLED_AUTO_REWORKING"}
      PROVE  ApplyEvent(jj, event, then).pc = "write"
  <2>1. StateBefore(jj.seen, event) = IF event = "LABELLED_AUTO_REWORKING" THEN "none" ELSE "AUTO_REWORKING"
    BY <1>s, <1>a DEF StateBefore, JustAdded
  <2>2. HasRule(StateBefore(jj.seen, event), event)
    BY <2>1, ReworkRulesAre
  <2> QED BY <2>1, <2>2, ApplyEventKeeps
<1>1. ASSUME HandleReworkEnd(j)  PROVE job'.pc = "write"
  <2> DEFINE Good(k) == k.pc = "write"
  <2>1. ASSUME NEW flags \in SUBSET {"ciFix", "reviewLoop", "reworkExpired"},
               NEW event \in {j.event, "CI_FIX_PUSHED", "REVIEW_FIX_PUSHED"}
        PROVE  Good(ApplyEvent([j EXCEPT !.late = flags], event, "tail"))
    <3> DEFINE noted == [j EXCEPT !.late = flags]
    <3>1. noted \in JobType /\ noted.seen = j.seen
      BY DEF JobType
    <3>2. event \in {"REWORK_PUSHED", "CI_FIX_PUSHED", "REVIEW_FIX_PUSHED", "REWORK_NO_CHANGE"}
      BY <1>1 DEF HandleReworkEnd
    <3> HIDE DEF noted
    <3>3. ApplyEvent(noted, event, "tail").pc = "write"
      BY <1>a, <3>1, <3>2
    <3> QED BY <3>3 DEF noted
  <2>2. ~(j.event = "REWORK_PUSHED" /\ DeriveState(j.seen) = "AI_STUCK")
    BY <1>s
  <2> HIDE DEF Good
  <2>3. Good(job')
    BY <1>1, <2>1, <2>2 DEF HandleReworkEnd
  <2> QED BY <2>3 DEF Good
<1>2. ASSUME HandleReworkLabel(j)  PROVE job'.pc = "write"
  BY <1>2, <1>a DEF HandleReworkLabel
<1>3. ASSUME HandleReviewLabel(j)  PROVE UNCHANGED <<ciFix, reviewLoop>>
  BY <1>3 DEF HandleReviewLabel
<1>4. ASSUME HandleMergeLabel(j)  PROVE UNCHANGED <<ciFix, reviewLoop>>
  BY <1>4 DEF HandleMergeLabel
<1> QED BY <1>1, <1>2, <1>3, <1>4 DEF HandleEvent, HandleFindings, HandleChecks, HandleOther, HandleNothing, counts

(* A rule that leaves the labels of a CI fix is a fix's end: it is over, or *)
(* will be once the rule is applied.                                       *)
LEMMA FixIsEnded ==
  ASSUME CountsTypeOK, NEW j \in JobType, j.event \notin Derived, ~j.applied, j.then = "none", j.ops = <<>>,
         NeverBlocked, ~Foreign(j.event), HandleEvent(j), job'.pc = "write",
         job'.rule.from \in FixLabels, job'.rule.to \notin FixLabels \cup {"noop", "close"}, ciFix'.pending
  PROVE  EndsFix'
<1>1. /\ job'.applied /\ job'.rule \in Rules /\ job'.rule.on = job'.event
      /\ job'.rule.from = StateBefore(j.seen, job'.event)
  BY HandleEventChooses DEF Chosen
<1>2. /\ job'.event \in {j.event, "CI_FIX_PUSHED", "REVIEW_FIX_PUSHED", "REWORK_CAP_REACHED"}
      /\ ciFix.pending
  BY HandlersSay
<1>3. /\ job'.rule.from \in {"AUTO_REWORKING", "AI_STUCK"}
      /\ job'.event \in FixEnds \ {"REVIEW_BLOCKED"}
      /\ job'.event = "REVIEW_FIX_PUSHED" => job'.rule.from = "AUTO_REWORKING"
  BY <1>1, <1>2, FixRulesSay DEF Foreign, FixEnds, OfIssues
<1>r. Returns(j, FALSE).pc = "return"
  BY DEF Returns, JobType
<1>4. CASE HandleReworkEnd(j)
  <2> DEFINE state == DeriveState(j.seen)
             late  == j.event = "REWORK_PUSHED" /\ state = "AI_STUCK"
             fix   == (j.event = "REWORK_NO_CHANGE" => state \in {"AUTO_REWORKING", "AI_STUCK"}) /\ ciFix.pending
             Good(k) == k.then = "tail" /\ "ciFix" \in k.late
  <2>1. job'.event \in {"REWORK_PUSHED", "REWORK_NO_CHANGE", "REVIEW_FIX_PUSHED"} /\ job'.rule.from = state
    <3>1. job'.event \in {"REWORK_PUSHED", "REWORK_NO_CHANGE", "REVIEW_FIX_PUSHED"}
      BY <1>2, <1>3, <1>4 DEF HandleReworkEnd, FixEnds, Foreign
    <3>2. j.seen \ JustAdded(job'.event) = j.seen
      BY <3>1 DEF JustAdded
    <3> QED BY <1>1, <3>1, <3>2, Zenon DEF StateBefore
  <2>2. fix
    BY <1>2, <1>3, <2>1
  <2>3. late
    <3> SUFFICES ASSUME ~late  PROVE FALSE
      OBVIOUS
    <3>1. ciFix' = [ciFix EXCEPT !.pending = FALSE]
      BY <1>4, <2>2 DEF HandleReworkEnd
    <3> QED BY <3>1 DEF CountsTypeOK, CiFixType
  <2>4. ASSUME NEW flags \in SUBSET {"ciFix", "reviewLoop", "reworkExpired"}, "ciFix" \in flags,
               NEW event
        PROVE  Good(ApplyEvent([j EXCEPT !.late = flags], event, "tail"))
    <3> DEFINE jj == [j EXCEPT !.late = flags]
    <3>1. jj \in JobType /\ jj.late = flags
      BY DEF JobType
    <3> HIDE DEF jj
    <3>2. PICK k : k = ApplyEvent(jj, event, "tail")
      OBVIOUS
    <3>3. k.late = flags /\ k.then = "tail"
      BY <3>1, <3>2, ApplyEventKeeps, ApplyEventMoves
    <3>4. Good(ApplyEvent(jj, event, "tail"))
      BY <2>4, <3>2, <3>3
    <3> QED BY <3>4 DEF jj
  <2> HIDE DEF Good
  <2>5. Good(job')
    BY <1>4, <2>2, <2>3, <2>4 DEF HandleReworkEnd
  <2> QED BY <1>1, <2>5 DEF Good, EndsFix
<1>5. CASE HandleReviewLabel(j)
  <2>1. ~("AI_REVIEWING" \notin j.seen \/ ReviewOut)
    <3> SUFFICES ASSUME job' = Returns(j, FALSE)  PROVE FALSE
      BY <1>5 DEF HandleReviewLabel
    <3> QED BY <1>r
  <2>2. job'.event = "LABELLED_AI_REVIEWING" /\ j.event = "LABELLED_AI_REVIEWING"
    <3>1. job' = ApplyEvent(j, j.event, "review") /\ j.event = "LABELLED_AI_REVIEWING"
      BY <1>5, <2>1 DEF HandleReviewLabel
    <3> QED BY <3>1, ApplyEventMoves
  <2>3. job'.rule.from = "AI_STUCK"
    BY <1>1, <1>3, <2>2, FixRulesSay DEF BeforeReview
  <2>4. ciFix' = NoCiFix
    BY <1>1, <1>5, <2>2, <2>3, <2>1 DEF HandleReviewLabel
  <2> QED BY <2>4 DEF NoCiFix
<1>6. CASE HandleOther(j)
  <2>1. job' = ApplyEvent(j, j.event, CASE j.event = "MERGE_BLOCKED" -> "block"
                                        [] j.event = "REVIEW_PASSED" -> "passed"
                                        [] OTHER -> "tail")
    BY <1>6 DEF HandleOther
  <2>2. job'.event = j.event /\ (j.event = "REVIEW_PASSED" => job'.then = "passed")
    BY <2>1, ApplyEventMoves
  <2>3. j.event = "REVIEW_PASSED"
    BY <1>3, <1>6, <2>2 DEF HandleOther, FixEnds, Foreign
  <2> QED BY <1>1, <2>2, <2>3 DEF EndsFix
<1>7. CASE HandleReworkLabel(j) \/ HandleFindings(j)
  <2>1. \/ job' = ApplyEvent(j, "REWORK_CAP_REACHED", "capped")
        \/ job' = ApplyEvent(j, j.event, "tail") /\ j.event = "LABELLED_AUTO_REWORKING"
        \/ job' = ApplyEvent(j, "REVIEW_FINDINGS", "findings")
    BY <1>7 DEF HandleReworkLabel, HandleFindings
  <2>2. job'.event \in {"REWORK_CAP_REACHED", "LABELLED_AUTO_REWORKING", "REVIEW_FINDINGS"}
    BY <2>1, ApplyEventMoves
  <2> QED BY <1>3, <2>2 DEF FixEnds
<1>8. CASE HandleMergeLabel(j) \/ HandleChecks(j) \/ HandleNothing(j)
  <2>1. job' = Returns(j, FALSE) \/ \E then : job' = [j EXCEPT !.pc = "facts", !.then = then]
    BY <1>8 DEF HandleMergeLabel, HandleChecks, HandleNothing
  <2>2. \A then : [j EXCEPT !.pc = "facts", !.then = then].pc = "facts"
    BY DEF JobType
  <2> QED BY <1>r, <2>1, <2>2
<1> QED BY <1>4, <1>5, <1>6, <1>7, <1>8 DEF HandleEvent

(* The gates hand a rework out, block, fire or do nothing: none of it ends *)
(* a CI fix.                                                               *)
Asks == {<<"capped", "REWORK_CAP_REACHED">>, <<"reviewFix", "REVIEW_CI_FAILED">>,
         <<"mergeFix", "MERGE_GATE_FAILED_SOFT">>, <<"block", "MERGE_GATE_FAILED_HARD">>,
         <<"done", "REVIEW_CI_PASSED">>, <<"tail", "LABELLED_AUTO_MERGING">>,
         <<"mergeFired", "MERGE_GATE_PASSED">>}

LEMMA GateAsks ==
  ASSUME ItemTypeOK, ReadFacts, job.ops = <<>>
  PROVE  \/ /\ <<job'.then, job'.event>> \in Asks
            /\ job'.pc = "write" \/ job'.ops = <<>>
         \/ /\ job'.pc = "return" /\ job'.then = job.then /\ job'.event = job.event /\ job'.ops = <<>>
            /\ job'.applied => job.applied
<1>p. PICK checks : LET facts == Facts(head, checks, mergeable)
                    IN  job' = CASE job.then = "review"     -> ReviewGate(job, facts)
                                 [] job.then = "mergeLabel" -> GateMergeLabel(job, facts)
                                 [] OTHER                   -> GateChecks(job, facts)
  BY DEF ReadFacts
<1> DEFINE Good(k) == \/ /\ <<k.then, k.event>> \in Asks
                         /\ k.pc = "write" \/ k.ops = <<>>
                      \/ /\ k.pc = "return" /\ k.then = job.then /\ k.event = job.event /\ k.ops = <<>>
                         /\ k.applied => job.applied
           facts   == Facts(head, checks, mergeable)
<1>j. job \in JobType
  BY DEF ItemTypeOK
<1>r. Good(Returns(job, job.applied)) /\ Good(Returns(job, FALSE))
  BY <1>j DEF Returns, JobType
<1>a. ASSUME NEW jj \in JobType, NEW event, NEW then, <<then, event>> \in Asks
      PROVE  Good(ApplyEvent(jj, event, then))
  <2>1. PICK k : k = ApplyEvent(jj, event, then)
    OBVIOUS
  <2>2. k.event = event /\ k.then = then /\ (k.pc = "write" \/ k.ops = <<>>)
    BY <2>1, ApplyEventMoves, ApplyEventKeeps
  <2>3. Good(k)
    BY <1>a, <2>2
  <2> QED BY <2>1, <2>3
<1>h. Good(ApplyEvent([job EXCEPT !.head = facts.head], "MERGE_GATE_PASSED", "mergeFired"))
  <2>1. [job EXCEPT !.head = facts.head] \in JobType
    BY <1>j DEF JobType, Facts, ItemTypeOK
  <2> HIDE DEF Good, facts
  <2> QED BY <1>a, <2>1 DEF Asks
<1> HIDE DEF Good, facts
<1>1. Good(HandReviewToRework(job)) /\ Good(HandToRework(job))
  BY <1>j, <1>a DEF HandReviewToRework, HandToRework, Asks
<1>g. /\ Good(ApplyEvent(job, "REVIEW_CI_PASSED", "done"))
      /\ Good(ApplyEvent(job, "MERGE_GATE_FAILED_HARD", "block"))
      /\ Good(ApplyEvent(job, "LABELLED_AUTO_MERGING", "tail"))
  BY <1>j, <1>a DEF Asks
<1>2. Good(ReviewGate(job, facts)) /\ Good(GateMergeLabel(job, facts)) /\ Good(GateChecks(job, facts))
  BY <1>g, <1>r, <1>h, <1>1 DEF ReviewGate, GateMergeLabel, GateChecks
<1>3. Good(job')
  BY <1>p, <1>2 DEF facts
<1> QED BY <1>3 DEF Good

----------------------------------------------------------------------------
(* The parts that relate the request, the labels and the fix, by the kinds *)
(* of step.                                                                *)

PathCore == PathJob /\ PathSeen /\ (NeverBlocked => PathOpen) /\ PathKnown

(* The watch is of the same fire, or there is none.                        *)
NoOtherFire == pending'.run = NoRun \/ (pending'.run = pending.run /\ pending'.cause = pending.cause)

SameFix == ciFix' = ciFix /\ reviewLoop' = reviewLoop

(* No request, or one that is only looking.                                *)
Looking(j) ==
  /\ j.pc \in {"idle", "return", "recover", "expire"}
  /\ j.then = "none" /\ ~j.applied /\ j.ops = <<>>

LEMMA NoJobLooks == Looking(NoJob)
BY NoJobIs DEF Looking, NoJob

(* The request stays, and no label goes.                                   *)
LEMMA PathStands ==
  ASSUME PathCore, job' = job, labels \subseteq labels', SameFix, env' = env,
         NoOtherFire, pending'.run = NoRun => job.pc = "idle" /\ job.then = "none"
  PROVE  PathCore'
<1>n. NoRun # "rework-loop"
  BY DEF NoRun
<1>1. PathJob'
  BY DEF PathCore, PathJob, HandedOutBy, Uncounted, HandedOut, NoOtherFire
<1>2. PathSeen'
  BY DEF PathCore, PathSeen, Keyed
<1>3. (NeverBlocked => PathOpen)'
  BY DEF PathCore, PathOpen, NeverBlocked, EndsFix, FixLabelled, Due, Enforced, On, Off, SameFix
<1>4. PathKnown'
  BY <1>n DEF PathCore, PathKnown, Ending, Known, NeverBlocked, Uncounted, HandedOut, SameFix, NoOtherFire
<1> QED BY <1>1, <1>2, <1>3, <1>4 DEF PathCore

(* A request ends, or goes back to the watchdog's.                         *)
LEMMA PathEnds ==
  ASSUME PathCore, Looking(job'), labels' = labels, SameFix, env' = env, NoOtherFire,
         job.pc \notin {"write", "send", "count"}, job.pc = "after" => job.then = "expiry"
  PROVE  PathCore'
<1>n. NoRun # "rework-loop"
  BY DEF NoRun
<1>1. job'.ops = <<>> /\ job.ops = <<>> /\ Len(job'.ops) = 0
  BY DEF Looking, PathCore, PathJob
<1>2. PathJob'
  BY DEF Looking, PathJob, HandedOutBy, Uncounted, HandedOut
<1>3. PathSeen'
  BY <1>1 DEF Looking, PathSeen
<1>4. ~EndsFix /\ ~Uncounted(HandedOut) /\ ~Ending
  BY DEF EndsFix, Uncounted, HandedOut, Ending
<1>5. FixLabelled => FixLabelled'
  BY <1>1 DEF FixLabelled, Due
<1>6. (NeverBlocked => PathOpen)'
  BY <1>4, <1>5 DEF PathCore, PathOpen, NeverBlocked, SameFix, Looking
<1>7. PathKnown'
  BY <1>n, <1>4 DEF PathCore, PathKnown, Known, NeverBlocked, SameFix, NoOtherFire
<1> QED BY <1>2, <1>3, <1>6, <1>7 DEF PathCore

(* It goes on with no label to write, and what is left of the fix and of   *)
(* the watch is known.                                                     *)
LEMMA PathGoesOn ==
  ASSUME PathCore, Carries, job'.late = job.late, labels' = labels, pending' = pending, env' = env,
         job.pc \notin {"write", "facts"}, job'.pc \notin {"write", "facts"}, job'.ops = job.ops,
         job'.pc \in {"send", "after", "count"} => job.pc \in {"send", "after"},
         job'.pc = "after" => job.then # "review",
         Uncounted(HandedOut) => Uncounted(HandedOut)' \/ (pending.run = "rework-loop" => Known(pending.cause)'),
         \/ SameFix /\ (EndsFix => EndsFix')
         \/ "AUTO_REWORKING" \in labels /\ (pending.run = "rework-loop" => Known(pending.cause)')
         \/ /\ pending.cause \notin Causes \/ pending.run = NoRun
            /\ ciFix'.pending => ciFix.pending /\ (EndsFix => EndsFix'),
         job'.then = "findings" /\ job'.pc \in {"send", "after"} => ciFix' = ciFix
  PROVE  PathCore'
<1>n. NoRun # "rework-loop"
  BY DEF NoRun
<1>1. job'.ops = <<>> /\ job.ops = <<>> /\ Len(job'.ops) = 0
  BY DEF PathCore, PathJob
<1>2. PathJob'
  BY <1>1 DEF PathCore, PathJob, HandedOutBy, Uncounted, HandedOut, Carries
<1>3. PathSeen'
  BY <1>1 DEF PathSeen, Carries
<1>4. FixLabelled => FixLabelled'
  BY <1>1 DEF FixLabelled, Due
<1>5. "AUTO_REWORKING" \in labels => FixLabelled'
  BY <1>1 DEF FixLabelled, Due, FixLabels
<1>6. (NeverBlocked => PathOpen)'
  BY <1>4, <1>5 DEF PathCore, PathOpen, NeverBlocked, SameFix, Carries
<1>7. PathKnown'
  BY <1>n DEF PathCore, PathKnown, Known, NeverBlocked, SameFix, Ending
<1> QED BY <1>2, <1>3, <1>6, <1>7 DEF PathCore

(* It has looked at the item and chosen: a CI fix whose label it takes off *)
(* gets another of its labels, or is ended.                                *)
LEMMA PathChosen ==
  ASSUME PathCore, TypeInv', NEW seen \in SUBSET Labels, Chosen(seen, job'), seen \subseteq labels,
         labels' = labels, pending' = pending, env' = env,
         job.pc \notin {"write", "send", "after", "count"},
         job'.pc # "write" => job'.ops = <<>>,
         job'.then # "retry", job'.applied => HandedOutBy(job'.then, job'.event),
         job'.then = "findings" => seen = labels,
         ciFix'.pending => ciFix.pending,
         NeverBlocked /\ ciFix'.pending /\ job'.pc = "write" /\ job'.rule.from \in FixLabels
           /\ job'.rule.to \notin FixLabels \cup {"noop", "close"} => EndsFix',
         labels = {"AUTO_REWORKING"} => job'.pc = "write" \/ SameFix
  PROVE  PathCore'
<1>t. job' \in JobType /\ (job'.pc = "write" => job'.rule \in RuleType)
  BY RulesType DEF TypeInv, TypeOK, ItemTypeOK, Chosen
<1>1. job.ops = <<>> /\ ~EndsFix /\ ~Uncounted(HandedOut) /\ ~Ending /\ Len(job.ops) = 0
  BY DEF PathCore, PathJob, EndsFix, Uncounted, HandedOut, Ending
<1>2. job'.applied => job'.pc = "write"
  BY DEF Chosen
<1>o. job'.pc = "write" =>
        /\ \A i \in 1..Len(job'.ops) : Keyed(job'.rule, job'.ops[i])
        /\ job'.rule.to \in Labels /\ job'.rule.to # job'.rule.from /\ job'.rule.to \notin seen =>
              job'.ops # <<>> /\ job'.ops[Len(job'.ops)] = On(job'.rule.to)
        /\ job'.rule.to \in {"noop", "close"} => \A i \in 1..Len(job'.ops) : job'.ops[i].op = "close"
  BY <1>t, OpsAreKeyed DEF Chosen
<1>l. Len(job'.ops) \in Nat /\ (job'.ops # <<>> => Len(job'.ops) \in 1..Len(job'.ops))
  <2>1. job'.ops \in Seq(OpType)
    BY <1>t DEF JobType
  <2> QED BY <2>1
<1>h. ASSUME job'.then \in HandedOut, job'.pc = "write"
      PROVE  /\ job'.rule.to = "AUTO_REWORKING" /\ job'.rule.from \in {"AUTO_MERGING", "AI_REVIEWING"}
             /\ "AUTO_REWORKING" \notin seen
             /\ job'.then = "findings" => seen = {"AI_REVIEWING"}
  <2>1. job'.rule \in Rules /\ job'.rule.on = job'.event /\ job'.rule.from = StateBefore(seen, job'.event)
        /\ job'.applied
    BY <1>h DEF Chosen
  <2>2. /\ job'.event \in {"MERGE_GATE_FAILED_SOFT", "REVIEW_CI_FAILED", "REVIEW_FINDINGS"}
        /\ job'.then = "findings" => job'.event = "REVIEW_FINDINGS"
    BY <1>h, <2>1 DEF HandedOutBy, HandedOut
  <2>3. /\ job'.rule.to = "AUTO_REWORKING" /\ job'.rule.from \in {"AUTO_MERGING", "AI_REVIEWING"}
        /\ job'.then = "findings" => job'.rule.from = "AI_REVIEWING"
    BY <2>1, <2>2, FixRulesSay
  <2>4. StateBefore(seen, job'.event) = DeriveState(seen)
    <3>1. JustAdded(job'.event) = {}
      BY <2>2 DEF JustAdded
    <3>2. seen \ {} = seen
      OBVIOUS
    <3> QED BY <3>1, <3>2 DEF StateBefore
  <2>5. DeriveState(seen) \in {"AUTO_MERGING", "AI_REVIEWING"}
        /\ (job'.then = "findings" => DeriveState(seen) = "AI_REVIEWING")
    BY <2>1, <2>3, <2>4
  <2>6. seen = {DeriveState(seen)} \/ seen = {"MERGE_BLOCKED", "AUTO_MERGING"}
    BY <2>5, StateIsOn DEF Labels
  <2>7. DeriveState(seen) = "AI_REVIEWING" => seen = {"AI_REVIEWING"}
    <3>1. DeriveState(seen) \in Labels => DeriveState(seen) \in seen
      BY StateIsOn
    <3> QED BY <2>6, <3>1 DEF Labels
  <2> QED BY <2>3, <2>5, <2>6, <2>7
<1>3. PathJob'
  <2>1. job'.then \in HandedOut /\ job'.pc = "write" =>
          job'.ops # <<>> /\ job'.ops[Len(job'.ops)] = On("AUTO_REWORKING")
    BY <1>h, <1>o DEF Labels
  <2>2. ~Uncounted(HandedOut)'
    BY <1>2 DEF Uncounted, HandedOut
  <2> QED BY <1>2, <2>1, <2>2 DEF PathJob, HandedOutBy, On
<1>4. PathSeen'
  <2>1. \A i \in 1..Len(job'.ops) : Keyed(job'.rule, job'.ops[i])
    <3>1. job'.pc # "write" => Len(job'.ops) = 0
      OBVIOUS
    <3> QED BY <1>o, <3>1
  <2>2. job'.seen = seen
    BY DEF Chosen
  <2>3. job'.then = "review" /\ job'.applied => job'.rule.from \in BeforeReview
    BY FixRulesSay DEF Chosen
  <2> QED BY <2>1, <2>2, <2>3 DEF PathSeen, Keyed
<1>5. ASSUME NeverBlocked, ciFix'.pending  PROVE EndsFix' \/ FixLabelled'
  <2>1. PICK l \in FixLabels : l \in labels
    BY <1>1, <1>5 DEF PathCore, PathOpen, FixLabelled, Due
  <2>2. CASE job'.pc # "write"
    BY <2>1, <2>2 DEF FixLabelled, Due
  <2>3. CASE job'.pc = "write" /\ ~Due(Off(l))'
    BY <2>1, <2>3 DEF FixLabelled, Off
  <2>4. CASE job'.pc = "write" /\ Due(Off(l))'
    <3>0. PICK to : to = job'.rule.to
      OBVIOUS
    <3>1. Enforced(job'.event) /\ \E i \in 1..Len(job'.ops) : job'.ops[i] = Off(l)
      BY <2>4 DEF Due, Off, Enforced
    <3>2. job'.rule.from = l /\ to \notin {"noop", "close"}
      BY <1>o, <2>4, <3>0, <3>1 DEF Keyed, Off
    <3>3. CASE to \notin FixLabels
      BY <1>5, <2>1, <2>4, <3>0, <3>2, <3>3
    <3>4. CASE to \in FixLabels
      <4>1. to # l
        BY <1>o, <2>4, <3>0, <3>1, <3>2 DEF Keyed, Off
      <4>2. CASE to \notin seen
        <5>1. job'.ops # <<>> /\ job'.ops[Len(job'.ops)] = On(to)
          BY <1>o, <2>4, <3>0, <3>2, <3>4, <4>1, <4>2 DEF FixLabels, Labels
        <5>2. Due(On(to))'
          BY <1>l, <3>1, <5>1 DEF Due, On, Enforced
        <5> QED BY <3>4, <5>2 DEF FixLabelled, On
      <4>3. CASE to \in seen
        <5>1. ~Due(Off(to))'
          BY <1>o, <2>4, <3>0, <3>2, <4>1 DEF Due, Keyed, Off
        <5> QED BY <3>4, <4>3, <5>1 DEF FixLabelled, Off
      <4> QED BY <4>2, <4>3
    <3> QED BY <3>3, <3>4
  <2> QED BY <2>2, <2>3, <2>4
<1>6. (NeverBlocked => PathOpen)'
  <2>1. NeverBlocked' <=> NeverBlocked
    BY DEF NeverBlocked
  <2>2. ASSUME NeverBlocked, job'.applied, job'.then = "findings", ciFix'.pending  PROVE FALSE
    <3>1. PICK l \in FixLabels : l \in labels
      BY <1>1, <2>2 DEF PathCore, PathOpen, FixLabelled, Due
    <3>2. labels = {"AI_REVIEWING"}
      BY <1>2, <1>h, <2>2 DEF HandedOut
    <3> QED BY <3>1, <3>2 DEF FixLabels
  <2> QED BY <1>5, <2>1, <2>2 DEF PathOpen
<1>7. PathKnown'
  BY <1>1 DEF PathCore, PathKnown, Known, NeverBlocked, SameFix, Ending
<1> QED BY <1>3, <1>4, <1>6, <1>7 DEF PathCore

(* One call of the rule: what it leaves on, and what is still to come.     *)
LEMMA PathWrites ==
  ASSUME ModeEnforced, PathCore, JobInv, TypeInv, WriteLabel, env' = env
  PROVE  PathCore'
<1>t. job \in JobType /\ job.ops \in Seq(OpType) /\ job.ops # <<>> /\ job.pc = "write"
  BY DEF TypeInv, TypeOK, ItemTypeOK, JobType, WriteLabel
<1> DEFINE n == Len(job.ops)
<1>1. /\ Carries /\ job'.pc = "write" /\ job'.late = job.late /\ job'.seen = job.seen
      /\ job'.ops = Tail(job.ops)
  BY <1>t DEF WriteLabel, JobType, Carries
<1>2. /\ n \in Nat \ {0} /\ Len(job'.ops) = n - 1
      /\ \A i \in 1..(n - 1) : job'.ops[i] = job.ops[i + 1]
      /\ Head(job.ops) = job.ops[1]
      /\ job'.ops = <<>> <=> n = 1
  <2>1. n \in Nat \ {0} /\ job'.ops \in Seq(OpType)
    BY <1>t, <1>1
  <2>2. Len(job'.ops) = n - 1 /\ \A i \in 1..(n - 1) : job'.ops[i] = job.ops[i + 1]
    BY <1>t, <1>1
  <2>3. Head(job.ops) = job.ops[1]
    BY <1>t
  <2>4. job'.ops = <<>> <=> n = 1
    <3>1. \A s \in Seq(OpType) : s = <<>> <=> Len(s) = 0
      OBVIOUS
    <3>2. n - 1 = 0 <=> n = 1
      BY <2>1
    <3> HIDE DEF n
    <3> QED BY <2>1, <2>2, <3>1, <3>2
  <2> QED BY <2>1, <2>2, <2>3, <2>4
<1>3. PICK op : op = Head(job.ops)
  OBVIOUS
<1>4. labels' = IF ~Enforced(job.event) THEN labels
                ELSE CASE op.op = "remove" -> labels \ {op.label}
                       [] op.op = "add"    -> labels \cup {op.label}
                       [] OTHER            -> labels
  BY <1>3 DEF WriteLabel
<1>5. UNCHANGED <<ciFix, reviewLoop, pending>>
  BY DEF WriteLabel, watch, counts
<1>6. Keyed(job.rule, op) /\ \A i \in 1..(n - 1) : Keyed(job.rule, job'.ops[i])
  <2>1. \A i \in 1..n : Keyed(job.rule, job.ops[i])
    BY DEF PathCore, PathSeen
  <2>2. 1 \in 1..n /\ \A i \in 1..(n - 1) : i + 1 \in 1..n
    BY <1>2
  <2> QED BY <1>2, <1>3, <2>1, <2>2
<1>7. op.op = "remove" \/ op.op = "add" \/ op.op = "close"
  <2>1. op \in OpType
    BY <1>t, <1>3
  <2> QED BY <2>1 DEF OpType
<1>8. job.then # "retry" /\ job.applied
  BY <1>t DEF PathCore, PathJob, JobInv, RequestInv, Applies
<1>9. Ending'
  BY <1>1, <1>8 DEF Ending, Carries
<1> HIDE DEF n
<1>10. PathJob'
  <2>1. ASSUME job.then \in HandedOut
        PROVE  IF job'.ops = <<>> THEN "AUTO_REWORKING" \in labels'
                                  ELSE job'.ops[Len(job'.ops)] = On("AUTO_REWORKING")
    <3>1. job.ops[n] = On("AUTO_REWORKING")
      BY <1>t, <2>1 DEF PathCore, PathJob, n
    <3>2. CASE n = 1
      <4>1. Enforced(job.event)
        BY <1>8, <2>1 DEF PathCore, PathJob, HandedOutBy, HandedOut, Enforced
      <4>2. op.op = "add" /\ op.label = "AUTO_REWORKING"
        BY <1>2, <1>3, <3>1, <3>2 DEF On
      <4> QED BY <1>2, <1>4, <3>2, <4>1, <4>2
    <3>3. CASE n # 1
      BY <1>2, <3>1, <3>3
    <3> QED BY <3>2, <3>3
  <2>2. HandedOutBy(job.then, job.event)
    BY <1>8 DEF PathCore, PathJob
  <2> QED BY <1>1, <1>8, <2>1, <2>2 DEF PathJob, Carries, HandedOutBy, Uncounted, On
<1>11. PathSeen'
  <2>1. \A i \in 1..Len(job'.ops) : Keyed(job'.rule, job'.ops[i])
    BY <1>1, <1>2, <1>6 DEF Carries
  <2>2. op.op = "remove" => op.label = job.rule.from
    BY <1>6 DEF Keyed
  <2>3. labels \ {job.rule.from} \subseteq labels'
    BY <1>4, <1>7, <2>2
  <2>4. job'.then = "review" /\ job'.applied =>
          job'.seen \ {job'.rule.from} \subseteq labels' /\ job'.rule.from \in BeforeReview
    <3>1. job.then = "review" /\ job.applied =>
            job.seen \ {job.rule.from} \subseteq labels /\ job.rule.from \in BeforeReview
      BY <1>t DEF PathCore, PathSeen
    <3> QED BY <1>1, <2>3, <3>1 DEF Carries
  <2> QED BY <1>1, <2>1, <2>4 DEF PathSeen, Keyed
<1>12. FixLabelled => FixLabelled'
  <2> SUFFICES ASSUME NEW l \in FixLabels, Due(On(l)) \/ (l \in labels /\ ~Due(Off(l)))
               PROVE  Due(On(l))' \/ (l \in labels' /\ ~Due(Off(l))')
    BY DEF FixLabelled
  <2>1. Enforced(job'.event) <=> Enforced(job.event)
    BY <1>1 DEF Carries
  <2>2. \A i \in 1..(n - 1) : i + 1 \in 1..n
    BY <1>2
  <2>3. ~Due(Off(l)) => ~Due(Off(l))'
    <3>1. Due(Off(l))' => Due(Off(l))
      BY <1>2, <2>1, <2>2 DEF Due, n, Off, Enforced
    <3> QED BY <3>1
  <2>4. CASE l \in labels /\ ~Due(Off(l))
    <3>1. Enforced(job.event) => op # Off(l)
      BY <1>2, <1>3, <2>4 DEF Due, n
    <3>2. op.op = "remove" => op = [op |-> "remove", label |-> op.label]
      <4>1. op \in OpType
        BY <1>t, <1>3
      <4> QED BY <4>1 DEF OpType
    <3>3. l \in labels'
      BY <1>4, <2>4, <3>1, <3>2 DEF Off
    <3> QED BY <2>3, <2>4, <3>3
  <2>5. CASE Due(On(l))
    <3>1. PICK i \in 1..n : job.ops[i] = On(l)
      BY <2>5 DEF Due, n
    <3>2. CASE i # 1
      <4>1. i - 1 \in 1..(n - 1) /\ job'.ops[i - 1] = On(l)
        BY <1>2, <3>1, <3>2
      <4>2. Due(On(l))'
        BY <1>2, <2>1, <2>5, <4>1 DEF Due, On, Enforced
      <4> QED BY <4>2
    <3>3. CASE i = 1
      <4>1. op = On(l)
        BY <1>2, <1>3, <3>1, <3>3
      <4>2. l \in labels' /\ job.rule.to # job.rule.from /\ job.rule.to = l
        BY <1>4, <1>6, <2>5, <4>1 DEF Due, On, Keyed
      <4>3. ~Due(Off(l))'
        <5>1. \A k \in 1..(n - 1) : job'.ops[k] # Off(l)
          BY <1>6, <4>2 DEF Off, Keyed
        <5> QED BY <1>2, <5>1 DEF Due, Off
      <4> QED BY <4>2, <4>3
    <3> QED BY <3>2, <3>3
  <2> QED BY <2>4, <2>5
<1>13. (NeverBlocked => PathOpen)'
  <2>1. EndsFix => EndsFix'
    BY <1>1 DEF EndsFix, Carries
  <2> QED BY <1>1, <1>5, <1>12, <2>1, <1>t DEF PathCore, PathOpen, NeverBlocked, Carries
<1> QED BY <1>9, <1>10, <1>11, <1>13 DEF PathCore, PathKnown

(* The labels are written, and nothing is fired: the watch ends.           *)
LEMMA PathEndsWatch ==
  ASSUME PathCore, JobInv, TypeInv, EndWatch, env' = env
  PROVE  PathCore'
<1>t. job \in JobType /\ job.ops = <<>> /\ job.pc = "write" /\ job.applied
  BY DEF TypeInv, TypeOK, ItemTypeOK, EndWatch, JobInv, RequestInv, Applies
<1>1. /\ Carries /\ job'.pc = "after" /\ job'.late = job.late /\ job'.seen = job.seen /\ job'.ops = <<>>
      /\ Len(job'.ops) = 0 /\ Len(job.ops) = 0
  BY <1>t DEF EndWatch, JobType, Carries
<1>2. pending'.run = NoRun /\ labels' = labels /\ SameFix /\ NoRun # "rework-loop"
  BY NoFireIs DEF EndWatch, ClearPendingFire, github, counts, SameFix, NoRun
<1>3. PathJob'
  BY <1>t, <1>1, <1>2 DEF PathCore, PathJob, HandedOutBy, Uncounted, HandedOut, Carries
<1>4. PathSeen'
  BY <1>t, <1>1, <1>2 DEF PathCore, PathSeen, Carries
<1>5. (FixLabelled => FixLabelled') /\ (EndsFix => EndsFix')
  BY <1>1, <1>2 DEF FixLabelled, Due, EndsFix, Carries
<1>6. (NeverBlocked => PathOpen)'
  BY <1>t, <1>1, <1>2, <1>5 DEF PathCore, PathOpen, NeverBlocked, SameFix, Carries
<1> QED BY <1>2, <1>3, <1>4, <1>6 DEF PathCore, PathKnown

(* Armed: a rework's own handler counts it next; a retry is of a rework    *)
(* that is known already.                                                  *)
LEMMA PathArms ==
  ASSUME PathCore, JobInv, TypeInv, ArmFire, job.then # "deferred", env' = env
  PROVE  PathCore'
<1>t. job \in JobType /\ job.ops = <<>> /\ job.pc = "write" /\ job.applied
  BY DEF TypeInv, TypeOK, ItemTypeOK, ArmFire, JobInv, RequestInv, Applies
<1>1. /\ Carries /\ job'.pc = "send" /\ job'.late = job.late /\ job'.seen = job.seen /\ job'.ops = <<>>
      /\ Len(job'.ops) = 0 /\ Len(job.ops) = 0
  BY <1>t DEF ArmFire, JobType, Carries
<1>2. labels' = labels /\ SameFix /\ NoRun # "rework-loop"
  BY DEF ArmFire, github, counts, SameFix, NoRun
<1>3. pending'.run = NoRun \/ (pending'.run = job.rule.run /\ pending'.cause = job.event)
  BY NoFireIs DEF ArmFire, ClearPendingFire, SetPendingFire, NoFire
<1>4. PathJob'
  BY <1>t, <1>1, <1>2, <1>3 DEF PathCore, PathJob, HandedOutBy, Uncounted, HandedOut, Carries
<1>5. PathSeen'
  BY <1>t, <1>1, <1>2 DEF PathCore, PathSeen, Carries
<1>6. (FixLabelled => FixLabelled') /\ (EndsFix => EndsFix')
  BY <1>1, <1>2 DEF FixLabelled, Due, EndsFix, Carries
<1>7. (NeverBlocked => PathOpen)'
  BY <1>t, <1>1, <1>2, <1>6 DEF PathCore, PathOpen, NeverBlocked, SameFix, Carries
<1>8. ASSUME pending'.run = "rework-loop", NEW cause \in Causes, pending'.cause = cause
      PROVE  labels # {} /\ (labels = {"AUTO_REWORKING"} => Known(cause)' \/ Uncounted(HandedOut)')
  <2>1. pending'.run = job.rule.run /\ pending'.cause = job.event
    BY <1>2, <1>3, <1>8
  <2>2. CASE job.then = "retry"
    <3>1. pending.run = "rework-loop" /\ pending.cause = cause
      BY <1>t, <1>8, <2>1, <2>2 DEF PathCore, PathJob
    <3>2. ~Ending /\ ~Uncounted(HandedOut)
      BY <1>t, <2>2 DEF Ending, Uncounted, HandedOut
    <3>3. labels # {} /\ (labels = {"AUTO_REWORKING"} => Known(cause))
      BY <1>8, <3>1, <3>2 DEF PathCore, PathKnown
    <3> QED BY <1>2, <3>1, <3>3 DEF Known, SameFix, NeverBlocked
  <2>3. CASE job.then # "retry"
    <3>1. job.then \in HandedOut
      BY <1>t, <1>8, <2>1, <2>3 DEF PathCore, PathJob, HandedOutBy, HandedOut, Causes
    <3>2. "AUTO_REWORKING" \in labels
      BY <1>t, <3>1 DEF PathCore, PathJob
    <3> QED BY <1>t, <1>1, <3>1, <3>2 DEF Uncounted, Carries
  <2> QED BY <2>2, <2>3
<1>9. PathKnown'
  BY <1>2, <1>8 DEF PathKnown
<1> QED BY <1>4, <1>5, <1>7, <1>9 DEF PathCore

(* MERGE_BLOCKED off, under a rework being handed out.                     *)
LEMMA PathUnblocks ==
  ASSUME PathCore, TypeInv, AfterMergeFix, env' = env
  PROVE  PathCore'
<1>t. job \in JobType /\ job.pc = "after" /\ job.then = "mergeFix" /\ job.applied
  BY DEF TypeInv, TypeOK, ItemTypeOK, AfterMergeFix, After
<1>1. /\ Carries /\ job'.pc = "count" /\ job'.ops = job.ops /\ job.ops = <<>> /\ Len(job'.ops) = 0
  BY <1>t DEF AfterMergeFix, JobType, Carries, PathCore, PathJob
<1>2. labels \ {"MERGE_BLOCKED"} \subseteq labels' /\ UNCHANGED pending /\ SameFix
  BY DEF AfterMergeFix, watch, counts, SameFix
<1>3. "AUTO_REWORKING" \in labels /\ Uncounted(HandedOut)
  BY <1>t DEF PathCore, PathJob, Uncounted, HandedOut
<1>4. "AUTO_REWORKING" \in labels' /\ Uncounted(HandedOut)'
  BY <1>t, <1>1, <1>2, <1>3 DEF Uncounted, HandedOut, Carries
<1>5. PathJob'
  BY <1>t, <1>1, <1>2, <1>4 DEF PathCore, PathJob, HandedOutBy, Carries
<1>6. PathSeen'
  BY <1>1 DEF PathSeen, Carries
<1>7. FixLabelled'
  BY <1>1, <1>4 DEF FixLabelled, Due, FixLabels
<1>8. (NeverBlocked => PathOpen)' /\ PathKnown'
  BY <1>t, <1>1, <1>4, <1>7 DEF PathOpen, PathKnown, Carries
<1> QED BY <1>5, <1>6, <1>8 DEF PathCore

----------------------------------------------------------------------------
(* The rest of a request's steps, and what starts one.                     *)

LEMMA PathFollows ==
  ASSUME PathCore, JobInv, TypeInv, AfterEvent, env' = env
  PROVE  PathCore'
<1>t. job \in JobType /\ job.pc = "after" /\ job.ops = <<>>
  BY DEF TypeInv, TypeOK, ItemTypeOK, AfterEvent, AfterNothingApplied, AfterTail, AfterReviewLabel, AfterReviewFix,
         AfterFindings, AfterCapped, AfterPassed, AfterBlock, AfterMergeFired, AfterDone, After, PathCore, PathJob
<1>s. labels' = labels /\ pending' = pending
  BY DEF AfterEvent, github, watch
<1>c. ciFix \in CiFixType
  BY DEF TypeInv, TypeOK, ItemTypeOK
<1>g. \A pc : Goes(pc) => Carries /\ job'.pc = pc /\ job'.late = job.late /\ job'.ops = job.ops
  BY <1>t DEF Goes, Carries, JobType
<1>k. job.applied =>
        /\ pending.run = NoRun \/ pending.cause = job.event
        /\ job.then # "retry" => HandedOutBy(job.then, job.event)
        /\ job.then \in HandedOut => "AUTO_REWORKING" \in labels
  BY <1>t DEF PathCore, PathJob, Uncounted
<1>n. NoRun # "rework-loop"
  BY DEF NoRun
<1>1. CASE AfterNothingApplied
  BY <1>t, <1>s, <1>g, <1>1, PathGoesOn DEF AfterNothingApplied, counts, SameFix, EndsFix, Uncounted
<1>2. CASE AfterTail
  <2>1. /\ job.then = "tail" /\ job.applied /\ Carries /\ job'.pc = "return" /\ job'.late = job.late
        /\ job'.ops = job.ops
    BY <1>g, <1>2 DEF AfterTail, After
  <2>2. pending.cause \notin Causes \/ pending.run = NoRun
    BY <1>k, <2>1 DEF HandedOutBy, Causes
  <2>3. ciFix'.pending => ciFix.pending /\ ~EndsFix
    BY <1>c, <1>2, <2>1 DEF AfterTail, EndsFix, CiFixType
  <2> QED BY <1>t, <1>s, <2>1, <2>2, <2>3, PathGoesOn DEF Uncounted, HandedOut
<1>3. CASE AfterReviewLabel
  <2>1. /\ Carries /\ job'.pc = "facts" /\ job'.ops = <<>> /\ Len(job'.ops) = 0 /\ Len(job.ops) = 0
        /\ job'.seen = job.seen \ {"AI_STUCK", "AI_BLOCKED", "READY_FOR_REVIEW"}
        /\ job.then = "review" /\ job.applied
    BY <1>t, <1>3 DEF AfterReviewLabel, After, Carries, JobType
  <2>2. SameFix
    BY <1>3 DEF AfterReviewLabel, counts, SameFix
  <2>3. PathJob'
    BY <1>k, <2>1 DEF PathJob, HandedOutBy, Uncounted, HandedOut, Carries
  <2>4. PathSeen'
    <3>1. job.seen \ {job.rule.from} \subseteq labels /\ job.rule.from \in BeforeReview
      BY <1>t, <2>1 DEF PathCore, PathSeen
    <3>2. "none" \notin job.seen
      BY <1>t DEF JobType, Labels
    <3>3. job'.seen \subseteq labels'
      BY <1>s, <2>1, <3>1, <3>2 DEF BeforeReview
    <3> QED BY <2>1, <3>3 DEF PathSeen
  <2>5. ~EndsFix /\ (FixLabelled => FixLabelled')
    BY <1>s, <2>1 DEF EndsFix, FixLabelled, Due
  <2>6. (NeverBlocked => PathOpen)'
    BY <2>1, <2>2, <2>5 DEF PathCore, PathOpen, NeverBlocked, SameFix
  <2>7. PathKnown'
    BY <1>s, <1>t, <2>1, <2>2 DEF PathCore, PathKnown, Known, NeverBlocked, SameFix, Uncounted, HandedOut, Ending
  <2> QED BY <2>3, <2>4, <2>6, <2>7 DEF PathCore
<1>4. CASE AfterReviewFix
  <2>1. /\ job.then = "reviewFix" /\ job.applied /\ Carries /\ job'.pc = "comment" /\ job'.late = job.late
        /\ job'.ops = job.ops /\ ciFix'.pending /\ ciFix'.returnTo = "AI_REVIEWING"
    BY <1>g, <1>4 DEF AfterReviewFix, After
  <2>2. pending.run = "rework-loop" => Known(pending.cause)'
    BY <1>k, <1>n, <1>s, <2>1 DEF Known, HandedOutBy
  <2> QED BY <1>k, <1>t, <1>s, <2>1, <2>2, PathGoesOn DEF HandedOut
<1>5. CASE AfterFindings
  <2>1. /\ job.then = "findings" /\ job.applied /\ Carries /\ job'.pc = "comment" /\ job'.late = job.late
        /\ job'.ops = job.ops /\ ciFix' = ciFix /\ reviewLoop'.fixPending
    BY <1>g, <1>5 DEF AfterFindings, After
  <2>2. NeverBlocked => ~ciFix.pending
    BY <1>t, <2>1 DEF PathCore, PathOpen
  <2>3. pending.run = "rework-loop" => Known(pending.cause)'
    BY <1>k, <1>n, <1>s, <2>1, <2>2 DEF Known, HandedOutBy, NeverBlocked
  <2> QED BY <1>k, <1>t, <1>s, <2>1, <2>3, PathGoesOn DEF HandedOut
<1>6. CASE AfterPassed
  <2>1. /\ job.then = "passed" /\ job.applied /\ Carries /\ job'.pc = "return" /\ job'.late = job.late
        /\ job'.ops = job.ops /\ ~ciFix'.pending
    BY <1>g, <1>6 DEF AfterPassed, After, NoCiFix
  <2>2. pending.cause \notin Causes \/ pending.run = NoRun
    BY <1>k, <2>1 DEF HandedOutBy, Causes
  <2> QED BY <1>t, <1>s, <2>1, <2>2, PathGoesOn DEF Uncounted, HandedOut
<1>7. CASE AfterCapped \/ AfterBlock \/ AfterMergeFired \/ AfterDone
  <2>1. job.then \in {"capped", "block", "mergeFired", "done"} /\ (Goes("comment") \/ Goes("return")) /\ SameFix
    BY <1>7 DEF AfterCapped, AfterBlock, AfterMergeFired, AfterDone, After, counts, SameFix
  <2>2. ~EndsFix /\ ~Uncounted(HandedOut)
    BY <2>1 DEF EndsFix, Uncounted, HandedOut
  <2>3. /\ Carries /\ job'.pc \in {"comment", "return"} /\ job'.late = job.late /\ job'.ops = job.ops
    BY <1>g, <2>1
  <2> QED BY <1>t, <1>s, <2>1, <2>2, <2>3, PathGoesOn
<1> QED BY <1>1, <1>2, <1>3, <1>4, <1>5, <1>6, <1>7 DEF AfterEvent

LEMMA PathGoes ==
  ASSUME PathCore, JobInv, ReviewAlone, TypeInv, FireSent \/ CountMergeFix \/ Comment \/ AfterFiredAgain, env' = env
  PROVE  PathCore'
<1>t. job \in JobType
  BY DEF TypeInv, TypeOK, ItemTypeOK
<1>s. labels' = labels /\ pending' = pending
  BY DEF FireSent, CountMergeFix, Comment, AfterFiredAgain, github, watch
<1>g. Carries /\ job'.late = job.late /\ job'.ops = job.ops
  BY <1>t DEF FireSent, CountMergeFix, Comment, AfterFiredAgain, Goes, Carries, JobType
<1>1. CASE FireSent
  <2>1. job.pc = "send" /\ job'.pc = "after" /\ SameFix /\ job.applied
    BY <1>t, <1>1, RuleMoves DEF GoesTo, FireSent, counts, SameFix, JobInv, RequestInv, Applies
  <2>2. job.then # "review"
    BY <2>1 DEF ReviewAlone, Applies, TypeInv, SendsARun
  <2> QED BY <1>s, <1>g, <2>1, <2>2, PathGoesOn DEF SameFix, Uncounted, EndsFix, Carries
<1>2. CASE CountMergeFix
  <2>1. /\ job.pc = "count" /\ job'.pc = "comment" /\ job.then = "mergeFix" /\ job.applied
        /\ ciFix'.pending /\ ciFix'.returnTo = "AUTO_MERGING"
    BY <1>t, <1>2, RuleMoves DEF GoesTo, CountMergeFix, JobInv, RequestInv
  <2>2. /\ "AUTO_REWORKING" \in labels
        /\ pending.run = NoRun \/ pending.cause = "MERGE_GATE_FAILED_SOFT"
    BY <2>1 DEF PathCore, PathJob, Uncounted, HandedOut, HandedOutBy
  <2>3. pending.run = "rework-loop" => Known(pending.cause)'
    BY <1>s, <2>1, <2>2 DEF Known, NoRun
  <2> QED BY <1>s, <1>g, <2>1, <2>2, <2>3, PathGoesOn
<1>3. CASE Comment \/ AfterFiredAgain
  <2>1. /\ job.pc = "comment" \/ (job.pc = "after" /\ job.then \in {"deferred", "retry"})
        /\ job'.pc \in {"comment", "return"} /\ SameFix
    BY <1>t, <1>3, RuleMoves DEF GoesTo, Comment, AfterFiredAgain, counts, SameFix
  <2>2. ~EndsFix /\ ~Uncounted(HandedOut)
    BY <2>1 DEF EndsFix, Uncounted, HandedOut
  <2> QED BY <1>s, <1>g, <2>1, <2>2, PathGoesOn
<1> QED BY <1>1, <1>2, <1>3

LEMMA PathGates ==
  ASSUME PathCore, JobInv, TypeInv, TypeInv', ReadFacts, env' = env
  PROVE  PathCore'
<1>t. /\ ItemTypeOK /\ job.pc = "facts" /\ job.ops = <<>> /\ job.seen \in SUBSET Labels
      /\ job.seen \subseteq labels /\ job.then \in {"review", "mergeLabel", "checks"}
  BY DEF TypeInv, TypeOK, ItemTypeOK, JobType, ReadFacts, PathCore, PathJob, PathSeen, JobInv, RequestInv
<1>s. labels' = labels /\ pending' = pending /\ SameFix
  BY DEF ReadFacts, github, watch, counts, SameFix
<1>1. CASE /\ <<job'.then, job'.event>> \in Asks
           /\ job'.pc = "write" \/ job'.ops = <<>>
  <2>1. /\ job'.then \notin {"review", "mergeLabel", "checks", "findings", "retry"}
        /\ HandedOutBy(job'.then, job'.event)
        /\ job'.event \notin FixEnds \cup OfIssues
    BY <1>1 DEF Asks, HandedOutBy, FixEnds, OfIssues
  <2>2. Chosen(job.seen, job')
    BY <1>t, <2>1, GateChooses
  <2>3. job'.pc = "write" /\ job'.rule.from \in FixLabels
          /\ job'.rule.to \notin FixLabels \cup {"noop", "close"} => FALSE
    BY <2>1, <2>2, FixRulesSay DEF Chosen
  <2>4. /\ job.pc \notin {"write", "send", "after", "count"}
        /\ job'.pc # "write" => job'.ops = <<>>
        /\ job'.then # "retry" /\ job'.then # "findings"
        /\ ciFix'.pending => ciFix.pending
    BY <1>1, <1>t, <1>s, <2>1 DEF SameFix
  <2> QED BY <1>t, <1>s, <2>1, <2>2, <2>3, <2>4, PathChosen
<1>2. CASE /\ job'.pc = "return" /\ job'.then = job.then /\ job'.event = job.event /\ job'.ops = <<>>
           /\ job'.applied => job.applied
  <2>1. PathJob'
    BY <1>t, <1>2 DEF PathCore, PathJob, HandedOutBy, Uncounted, HandedOut
  <2>2. PathSeen' /\ (FixLabelled => FixLabelled')
    BY <1>t, <1>s, <1>2 DEF PathSeen, FixLabelled, Due
  <2>3. ~EndsFix /\ ~Uncounted(HandedOut) /\ ~Ending
    BY <1>t DEF EndsFix, Uncounted, HandedOut, Ending
  <2>4. (NeverBlocked => PathOpen)' /\ PathKnown'
    BY <1>s, <1>2, <2>2, <2>3 DEF PathCore, PathOpen, PathKnown, Known, NeverBlocked, SameFix
  <2> QED BY <2>1, <2>2, <2>4 DEF PathCore
<1> QED BY <1>t, <1>1, <1>2, GateAsks

(* A silent fire again: of the same rework.                                *)
LEMMA PathRetries ==
  ASSUME PathCore, TypeInv, RetryOnce, env' = env
  PROVE  PathCore'
<1>t. ItemTypeOK /\ job.pc = "recover"
  BY DEF TypeInv, TypeOK, ItemTypeOK, RetryOnce
<1>s. labels' = labels /\ pending' = pending /\ SameFix
  BY DEF RetryOnce, github, watch, counts, SameFix
<1>1. CASE job' = FireAgain("retry", TRUE)
  <2>1. /\ job'.pc = "write" /\ job'.then = "retry" /\ job'.applied /\ job'.rule.run = pending.run
        /\ job'.ops = <<>> /\ job'.event = pending.cause
    <3>1. job'.pc = "write" /\ job'.then = "retry" /\ job'.applied /\ job'.rule.run = pending.run
      BY <1>t, <1>1, FireAgainMoves
    <3>2. job'.ops = <<>> /\ job'.event = pending.cause
      BY <1>1 DEF FireAgain, AlarmJob, NoJob
    <3> QED BY <3>1, <3>2
  <2>2. PathJob'
    BY <1>s, <2>1 DEF PathJob, Uncounted, HandedOut
  <2>3. PathSeen'
    BY <2>1 DEF PathSeen
  <2>4. ~EndsFix /\ ~Uncounted(HandedOut) /\ ~Ending /\ job.ops = <<>>
    BY <1>t DEF EndsFix, Uncounted, HandedOut, Ending, PathCore, PathJob
  <2>5. FixLabelled => FixLabelled'
    BY <1>s, <2>1, <2>4 DEF FixLabelled, Due
  <2>6. (NeverBlocked => PathOpen)' /\ PathKnown'
    BY <1>s, <2>1, <2>4, <2>5 DEF PathCore, PathOpen, PathKnown, Known, NeverBlocked, SameFix
  <2> QED BY <2>2, <2>3, <2>6 DEF PathCore
<1>2. CASE job' = BackToExpiry("expire")
  <2>1. Looking(job')
    BY <1>2 DEF Looking, BackToExpiry, NoJob
  <2> QED BY <1>t, <1>s, <2>1, PathEnds DEF NoOtherFire
<1> QED BY <1>1, <1>2 DEF RetryOnce

(* The expiry puts AI_STUCK in the place of the label it takes off.        *)
LEMMA PathExpires ==
  ASSUME PathCore, TypeInv, TypeInv', Expire, env' = env
  PROVE  PathCore'
<1> DEFINE j == [job EXCEPT !.seen = labels]
<1>1. j \in JobType /\ j.seen = labels /\ labels \in SUBSET Labels
  BY DEF TypeInv, TypeOK, ItemTypeOK, JobType
<1>2. job' = ApplyEvent(j, "WATCHDOG_EXPIRED", "expiry") /\ job.pc = "expire"
  BY DEF Expire
<1> HIDE DEF j
<1>3. Chosen(labels, job')
  BY <1>1, <1>2, ApplyEventChooses
<1>4. job'.event = "WATCHDOG_EXPIRED" /\ job'.then = "expiry" /\ (job'.pc = "write" \/ job'.ops = <<>>)
  BY <1>1, <1>2, ApplyEventMoves, ApplyEventKeeps
<1>5. HandedOutBy(job'.then, job'.event)
  BY <1>4 DEF HandedOutBy
<1>6. job'.pc = "write" => job'.rule.to \in FixLabels
  BY <1>3, <1>4, FixRulesSay DEF Chosen, FixLabels
<1>7. labels' = labels /\ pending' = pending /\ SameFix
  BY DEF Expire, github, watch, SameFix
<1>8. /\ job.pc \notin {"write", "send", "after", "count"}
      /\ job'.pc # "write" => job'.ops = <<>>
      /\ job'.then # "retry" /\ job'.then # "findings"
      /\ ciFix'.pending => ciFix.pending
  BY <1>2, <1>4, <1>7 DEF SameFix
<1>9. job'.pc = "write" /\ job'.rule.from \in FixLabels /\ job'.rule.to \notin FixLabels \cup {"noop", "close"}
        => FALSE
  BY <1>6
<1> QED BY <1>1, <1>3, <1>5, <1>7, <1>8, <1>9, PathChosen

(* A webhook, a signal or a comment is taken up.                           *)
LEMMA PathTakesUp ==
  ASSUME PathCore, TypeInv, TypeInv', NEW j \in JobType, j.seen = labels, j.event \notin Derived, ~j.applied,
         j.then = "none", j.ops = <<>>, ~Foreign(j.event), HandleEvent(j), Handling(job'), Chosen(labels, job'),
         job.pc \in {"idle", "recover"}, labels' = labels, pending' = pending, env' = env
  PROVE  PathCore'
<1>t. CountsTypeOK /\ labels \in SUBSET Labels
  BY DEF TypeInv, TypeOK, ItemTypeOK, CountsTypeOK
<1>1. /\ ciFix'.pending => ciFix.pending
      /\ job'.then = "findings" => job'.event = "REVIEW_FINDINGS"
      /\ job'.pc = "write" \/ job'.ops = <<>>
  BY <1>t, HandlersSay
<1>2. job'.then \in HookThens \cup {"none", "mergeLabel", "checks"}
      /\ (job'.pc = "write" => job'.then \in HookThens /\ job'.event \notin Decided
                                /\ (job'.event = "REVIEW_FINDINGS" => job'.then = "findings"))
  BY DEF Handling, HookThens
<1>3. job'.applied => HandedOutBy(job'.then, job'.event)
  BY <1>1, <1>2 DEF Chosen, HandedOutBy, HookThens, Decided
<1>4. job'.then # "retry"
  BY <1>2 DEF HookThens
<1>5. labels = {"AUTO_REWORKING"} => job'.pc = "write" \/ SameFix
  BY ReworkEndsWatch DEF Foreign, SameFix
<1>6. NeverBlocked /\ ciFix'.pending /\ job'.pc = "write" /\ job'.rule.from \in FixLabels
        /\ job'.rule.to \notin FixLabels \cup {"noop", "close"} => EndsFix'
  <2> SUFFICES ASSUME NeverBlocked, ciFix'.pending, job'.pc = "write", job'.rule.from \in FixLabels,
                      job'.rule.to \notin FixLabels \cup {"noop", "close"}
               PROVE  EndsFix'
    OBVIOUS
  <2>1. CountsTypeOK /\ j \in JobType /\ j.event \notin Derived /\ ~j.applied /\ j.then = "none" /\ j.ops = <<>>
    BY <1>t
  <2>2. ~Foreign(j.event) /\ HandleEvent(j)
    OBVIOUS
  <2> QED BY <2>1, <2>2, FixIsEnded
<1> QED BY <1>t, <1>1, <1>3, <1>4, <1>5, <1>6, PathChosen

LEMMA PathBegins ==
  ASSUME PathCore, PathHeard, HeardInv, TypeInv, TypeInv', env' = env,
         Replay \/ \E h \in hooks : TakeHook(h) \/ TakeOutcome(h)
  PROVE  PathCore'
<1>1. ASSUME NEW h \in hooks, TakeHook(h) \/ TakeOutcome(h)  PROVE PathCore'
  <2>1. PICK src \in {"webhook", "signal"} : HandleEvent(Begin(h, src))
    BY <1>1 DEF TakeHook, TakeOutcome
  <2>2. Begin(h, src) \in JobType
    BY BeginType DEF TypeInv, TypeOK, ItemTypeOK, JobSources
  <2>3. /\ Begin(h, src).seen = labels /\ Begin(h, src).event = h.event /\ ~Begin(h, src).applied
        /\ Begin(h, src).then = "none" /\ Begin(h, src).ops = <<>>
    BY DEF Begin, NoJob
  <2>4. h.event \notin Derived /\ ~Foreign(h.event)
    BY DEF HeardInv, PathHeard
  <2>5. Handling(job') /\ Chosen(labels, job')
    BY <1>1, HookBegins
  <2>6. job.pc = "idle" /\ labels' = labels /\ pending' = pending
    BY <1>1, NoJobIs DEF TakeHook, TakeOutcome, Idle, github, watch
  <2> QED BY <2>1, <2>2, <2>3, <2>4, <2>5, <2>6, PathTakesUp
<1>2. CASE Replay
  <2> DEFINE h == job.left[Len(job.left)]
             j == [Begin(h, job.src) EXCEPT !.replays = TRUE, !.left = SubSeq(job.left, 1, Len(job.left) - 1)]
  <2>1. j \in JobType /\ HandleEvent(j) /\ job.left # <<>> /\ job.left \in Seq(ReportType)
    BY <1>2, ReplayJobType DEF Replay, TypeInv, TypeOK, ItemTypeOK, JobType
  <2>2. /\ j.seen = labels /\ j.event = h.event /\ ~j.applied /\ j.then = "none" /\ j.ops = <<>>
    BY DEF Begin, NoJob
  <2>3. h \in Said(job.left)
    BY <2>1, SaidLast
  <2>4. h.event \notin Derived
    <3>1. job.left \in Seq(OutcomeReports)
      BY DEF HeardInv, Reported
    <3>2. h \in OutcomeReports
      BY <2>3, <3>1, SaidIn
    <3> QED BY <3>2 DEF OutcomeReports
  <2>5. ~Foreign(h.event)
    BY <2>3 DEF PathHeard
  <2>6. Handling(job') /\ Chosen(labels, job') /\ job.pc = "recover"
    BY <1>2, ReplayBegins
  <2>7. labels' = labels /\ pending' = pending
    BY <1>2 DEF Replay, github, watch
  <2> HIDE DEF j, h
  <2> QED BY <2>1, <2>2, <2>4, <2>5, <2>6, <2>7, PathTakesUp
<1> QED BY <1>1, <1>2

LEMMA PathCoreStep ==
  ASSUME Undisturbed, PathCore, PathHeard, RequestsInv, TypeInv, TypeInv', [Next]_allVars, faults' = 0
  PROVE  PathCore'
<1>e. env' = env
  BY DEF Next, Worker, bounds, Alarm, People, PersonAddsLabel, PersonRemovesLabel, PersonPushes, PersonReplies,
         PersonCloses, GitHubWorks, CiFinishes, MergeableChanges, Sessions, Session, Reports, Pushes, Merges, Dies,
         Steps, Failures, Throws, Crashes, Refused, Limited, Unheard, Unread, GivesUp, Loses, Fails, allVars
<1>i. ModeEnforced /\ env.removes = {} /\ faults = 0 /\ JobInv /\ HeardInv /\ ReviewAlone
  BY DEF Undisturbed, RequestsInv
<1>n. NoFire.run = NoRun /\ NoJob.pc = "idle" /\ NoJob.then = "none"
  BY NoJobIs, NoFireIs
<1>1. CASE WebhookStep
  <2>1. ASSUME ReturnHook  PROVE PathCore'
    <3>1. /\ job.pc = "return" /\ job' = NoJob /\ labels' = labels /\ SameFix /\ NoOtherFire
      BY <1>n, <2>1 DEF ReturnHook, github, counts, SameFix, NoOtherFire, ClearPendingFire, KeepPendingFire
    <3> QED BY <1>e, <3>1, NoJobLooks, PathEnds
  <2> QED BY <1>1, <1>e, <1>i, <2>1, PathBegins, PathGates, PathWrites, PathEndsWatch, PathArms, PathGoes, PathFollows,
             PathUnblocks DEF WebhookStep, PathHeard
<1>2. CASE WatchdogStep
  <2>1. CASE AlarmForNothing \/ DropDeferred
    <3>1. /\ Idle /\ job' = job /\ labels' = labels /\ SameFix /\ NoOtherFire
      BY <1>n, <2>1 DEF AlarmForNothing, DropDeferred, github, counts, SameFix, NoOtherFire, ClearPendingFire
    <3> QED BY <1>e, <1>n, <3>1, PathStands DEF Idle
  <2>2. CASE SendDeferred
    BY <2>2 DEF SendDeferred, PathHeard
  <2>3. CASE StartExpiry
    <3>1. Looking(AlarmJob("expire")) /\ Looking([AlarmJob("recover") EXCEPT !.left = posted])
      BY DEF Looking, AlarmJob, NoJob
    <3>2. Looking(job') /\ job.pc = "idle" /\ labels' = labels /\ SameFix /\ NoOtherFire
      BY <1>n, <2>3, <3>1 DEF StartExpiry, Idle, github, watch, counts, SameFix, NoOtherFire
    <3> QED BY <1>e, <3>2, PathEnds
  <2>4. CASE ReplayApplied \/ AfterExpiry \/ ReturnAlarm
    <3>1. /\ job.pc = "return" \/ (job.pc = "after" /\ job.then = "expiry")
          /\ job' = NoJob /\ labels' = labels /\ SameFix /\ NoOtherFire
      BY <1>n, <2>4
      DEF ReplayApplied, AfterExpiry, ReturnAlarm, github, counts, SameFix, NoOtherFire, ClearPendingFire,
          KeepPendingFire
    <3> QED BY <1>e, <3>1, NoJobLooks, PathEnds
  <2>5. CASE ReplayNotApplied
    <3>1. Looking(job')
      BY <2>5 DEF ReplayNotApplied, BackToExpiry, Looking, NoJob
    <3>2. job.pc = "return" /\ labels' = labels /\ SameFix /\ NoOtherFire
      BY <2>5 DEF ReplayNotApplied, github, watch, counts, SameFix, NoOtherFire
    <3> QED BY <1>e, <3>1, <3>2, PathEnds
  <2> QED BY <1>2, <1>e, <1>i, <2>1, <2>2, <2>3, <2>4, <2>5, PathBegins, PathRetries, PathExpires, PathGoes
          DEF WatchdogStep
<1>3. CASE SignalStep
  <2>1. ASSUME NEW s \in hooks, IgnoreSignal(s) \/ Heartbeat(s) \/ Completion(s)  PROVE PathCore'
    <3>1. pending \in FireType
      BY DEF TypeInv, TypeOK, ItemTypeOK
    <3>2. /\ Idle /\ job' = job /\ labels' = labels /\ SameFix /\ NoOtherFire
      BY <1>n, <2>1, <3>1 DEF IgnoreSignal, Heartbeat, Completion, github, watch, counts, SameFix, NoOtherFire,
                         ClearPendingFire, SetPendingFire, FireType
    <3> QED BY <1>e, <1>n, <3>2, PathStands DEF Idle
  <2>2. ASSUME NEW s \in hooks, EndFire(s)  PROVE PathCore'
    <3>1. Looking(job') /\ job.pc = "idle" /\ labels' = labels /\ SameFix /\ NoOtherFire
      BY <1>n, <2>2 DEF EndFire, Looking, NoJob, Idle, github, watch, counts, SameFix, NoOtherFire
    <3> QED BY <1>e, <3>1, PathEnds
  <2>3. CASE ReturnOutcome
    <3>1. /\ job.pc = "return" /\ job' = NoJob /\ labels' = labels /\ SameFix /\ NoOtherFire
      BY <1>n, <2>3 DEF ReturnOutcome, github, counts, SameFix, NoOtherFire, ClearPendingFire, KeepPendingFire
    <3> QED BY <1>e, <3>1, NoJobLooks, PathEnds
  <2> QED BY <1>3, <1>e, <1>i, <2>1, <2>2, <2>3, PathBegins DEF SignalStep
<1>4. CASE Alarm \/ UNCHANGED allVars \/ GitHubWorks \/ Sessions \/ People
  <2>1. job' = job /\ SameFix /\ pending'.run = pending.run /\ pending'.cause = pending.cause
    <3>1. CASE Alarm \/ UNCHANGED allVars
      <4>1. pending \in FireType
        BY DEF TypeInv, TypeOK, ItemTypeOK
      <4> QED BY <3>1, <4>1 DEF Alarm, Ring, allVars, vars, watch, counts, SameFix, FireType
    <3>2. CASE GitHubWorks \/ Sessions \/ People
      BY <3>2, OutsideJob DEF storage, watch, counts, SameFix
    <3> QED BY <1>4, <3>1, <3>2
  <2>2. labels \subseteq labels'
    <3>1. CASE Alarm \/ UNCHANGED allVars
      BY <3>1 DEF Alarm, Ring, github, allVars, vars
    <3>2. CASE GitHubWorks
      BY <3>2 DEF GitHubWorks, CiFinishes, MergeableChanges
    <3>3. CASE Sessions
      BY <3>3 DEF Sessions, Session, Reports, Pushes, Push, Merges, Dies, Steps, github
    <3>4. CASE People
      BY <1>i, <3>4
      DEF People, PersonAddsLabel, PersonRemovesLabel, PersonPushes, Push, PersonReplies, PersonCloses, github
    <3> QED BY <1>4, <3>1, <3>2, <3>3, <3>4
  <2>3. pending'.run = NoRun => PathCore'
    <3> SUFFICES ASSUME pending'.run = NoRun  PROVE PathCore'
      OBVIOUS
    <3>1. PathJob' /\ PathSeen'
      BY <2>1, <2>2 DEF PathCore, PathJob, PathSeen, HandedOutBy, Uncounted, HandedOut, Keyed
    <3>2. (NeverBlocked => PathOpen)'
      BY <1>e, <2>1, <2>2 DEF PathCore, PathOpen, NeverBlocked, EndsFix, FixLabelled, Due, Enforced, On, Off, SameFix
    <3>3. PathKnown'
      BY DEF PathKnown, NoRun
    <3> QED BY <3>1, <3>2, <3>3 DEF PathCore
  <2> QED BY <1>e, <2>1, <2>2, <2>3, PathStands DEF NoOtherFire
<1>5. CASE Failures
  <2>1. faults' = faults + 1
    BY <1>5 DEF Failures, Throws, Crashes, Refused, Limited, Unheard, Unread, GivesUp, Loses, Fails
  <2> QED BY <1>i, <2>1
<1> QED BY <1>1, <1>2, <1>3, <1>4, <1>5 DEF Next, Worker

----------------------------------------------------------------------------
(* What such a PR hears: PathHeard.                                        *)

LEMMA NothingFails ==
  ASSUME TypeInv, [Next]_allVars, faults' = 0
  PROVE  env' = env /\ faults = 0 /\ ~Failures
<1>t. faults \in Nat
  BY DEF TypeInv, TypeOK
<1>1. CASE Worker \/ Alarm \/ UNCHANGED allVars
  BY <1>1, <1>t DEF Worker, Alarm, allVars, bounds, Failures, Throws, Crashes, Refused, Limited, Unheard, Unread,
                    GivesUp, Loses, Fails
<1>2. CASE Failures
  BY <1>2, <1>t DEF Failures, Throws, Crashes, Refused, Limited, Unheard, Unread, GivesUp, Loses, Fails
<1>3. CASE People \/ GitHubWorks \/ Sessions
  <2>1. env' = env /\ faults' = faults
    BY <1>3 DEF People, PersonAddsLabel, PersonRemovesLabel, PersonPushes, PersonReplies, PersonCloses, GitHubWorks,
                CiFinishes, MergeableChanges, Sessions, Session, Reports, Pushes, Merges, Dies, Steps, bounds
  <2> QED BY <1>t, <2>1 DEF Failures, Throws, Crashes, Refused, Limited, Unheard, Unread, GivesUp, Loses, Fails
<1> QED BY <1>1, <1>2, <1>3 DEF Next

LEMMA SameEars ==
  ASSUME env' = env, NEW e
  PROVE  Foreign(e)' <=> Foreign(e)
BY DEF Foreign, NeverBlocked

(* A session reports no block where none is reported.                      *)
LEMMA OutcomesHeard ==
  ASSUME NEW run, run \notin IssueRuns, NEW o \in Outcomes(run) \cap env.reports
  PROVE  ~Foreign(o)
BY DEF Outcomes, IssueRuns, Foreign, NeverBlocked, OfIssues

LEMMA PathHearsHooks ==
  ASSUME PathHeard, JobInv, TypeInv, Undisturbed, [Next]_allVars, ~Failures
  PROVE  \A h \in hooks' : ~Foreign(h.event)
<1> DEFINE Heard(hs) == \A h \in hs : ~Foreign(h.event)
<1>h. Heard(hooks)
  BY DEF PathHeard
<1>s. ~Foreign("outcome") /\ ~Foreign("ended") /\ ~Foreign("completion") /\ ~Foreign("process")
      /\ ~Foreign("CHECKS") /\ ~Foreign("MERGED") /\ ~Foreign("CLOSED") /\ ~Foreign("ISSUE_CLOSED")
      /\ ~Foreign("REWORK_PUSHED")
  BY DEF Foreign, OfIssues
<1>e. \A e, run, n : Hook(e, run, n).event = e /\ Signal(e, run, n).event = e
  BY DEF Hook, Signal
<1>1. ASSUME Worker \/ Alarm \/ UNCHANGED allVars
      PROVE  hooks' \subseteq hooks \cup {Hook("ISSUE_CLOSED", NoRun, 0)}
  <2>1. CASE WebhookStep
    BY <2>1
    DEF WebhookStep, TakeHook, ReadFacts, WriteLabel, EndWatch, ArmFire, FireSent, AfterEvent,
        AfterMergeFix, CountMergeFix, Comment, ReturnHook
  <2>2. CASE WatchdogStep
    BY <2>2
    DEF WatchdogStep, AlarmForNothing, DropDeferred, SendDeferred, StartExpiry, Replay, ReplayApplied,
        ReplayNotApplied, RetryOnce, Expire, AfterExpiry, AfterFiredAgain, ReturnAlarm
  <2>3. CASE SignalStep
    BY <2>3
    DEF SignalStep, IgnoreSignal, Heartbeat, Completion, TakeOutcome, EndFire, ReturnOutcome, Handled
  <2>4. CASE Alarm \/ UNCHANGED allVars
    BY <2>4 DEF Alarm, Ring, allVars, vars
  <2> QED BY <1>1, <2>1, <2>2, <2>3, <2>4 DEF Worker
<1>2. CASE Worker \/ Alarm \/ UNCHANGED allVars
  BY <1>1, <1>2, <1>h, <1>s, <1>e
<1>3. ASSUME People  PROVE Heard(hooks')
  <2>1. env.kind = "pr" /\ env.removes = {}
    BY DEF Undisturbed
  <2>2. \A l : ~Foreign(LabelledEvent(l))
    BY <2>1 DEF LabelledEvent, Foreign, OfIssues
  <2>3. ASSUME NEW l, NEW n  PROVE Heard(Sent(LabelledEvent(l), NoRun, n))
    BY <2>2, <1>e DEF Sent
  <2> HIDE DEF Heard
  <2>4. \A hs, gs : Heard(hs) /\ Heard(gs) => Heard(hs \cup gs)
    BY DEF Heard
  <2>5. Heard({Hook("REWORK_PUSHED", NoRun, head + 1)})
        /\ \A e \in {"MERGED", "CLOSED", "ISSUE_CLOSED"} : Heard({Hook(e, NoRun, 0)})
    BY <1>s, <1>e DEF Heard
  <2>6. ASSUME NEW l, PersonAddsLabel(l)  PROVE Heard(hooks')
    BY <1>h, <2>3, <2>4, <2>6 DEF PersonAddsLabel
  <2>7. CASE PersonPushes
    BY <1>h, <2>4, <2>5, <2>7 DEF PersonPushes, Push
  <2>8. CASE PersonCloses
    BY <1>h, <2>1, <2>4, <2>5, <2>8 DEF PersonCloses
  <2> QED BY <1>3, <2>1, <2>6, <2>7, <2>8 DEF People, PersonReplies
<1>4. ASSUME GitHubWorks  PROVE Heard(hooks')
  BY <1>4, <1>h, <1>s, <1>e DEF GitHubWorks, CiFinishes, MergeableChanges
<1>5. ASSUME Sessions  PROVE Heard(hooks')
  <2>1. PICK r \in runs : Session(r)
    BY <1>5 DEF Sessions
  <2>2. r.run \notin IssueRuns
    BY DEF PathHeard
  <2>3. \A kind, e : ~Foreign(e) => Heard(Sends(kind, e, r))
    BY <1>e DEF Sends
  <2>4. ASSUME NEW o \in Outcomes(r.run) \cap env.reports, Reports(r, o)  PROVE Heard(hooks')
    <3>1. ~Foreign(o)
      BY <2>2, OutcomesHeard
    <3>2. Heard(Sends("outcome", o, r))
      BY <2>3, <3>1
    <3> QED BY <1>h, <1>e, <2>4, <3>1, <3>2 DEF Reports
  <2>5. CASE Pushes(r) \/ Merges(r)
    BY <1>h, <1>s, <1>e, <2>5 DEF Pushes, Push, Merges
  <2>6. CASE Dies(r)
    BY <1>h, <1>s, <2>3, <2>6 DEF Dies
  <2>7. CASE Steps(r)
    BY <1>h, <1>s, <1>e, <2>7 DEF Steps
  <2> QED BY <2>1, <2>4, <2>5, <2>6, <2>7 DEF Session
<1> QED BY <1>2, <1>3, <1>4, <1>5 DEF Next

LEMMA PathHearsPosted ==
  ASSUME PathHeard, HeardInv, TypeInv, [Next]_allVars, ~Failures
  PROVE  \A h \in Said(posted') : ~Foreign(h.event)
<1>t. /\ job \in JobType /\ posted \in Seq(OutcomeReports) /\ Len(job.left) + 1 \in Nat
      /\ \A h \in Said(posted) : ~Foreign(h.event)
  BY DEF HeardInv, Reported, TypeInv, TypeOK, ItemTypeOK, JobType, PathHeard
<1>1. CASE posted' \in {posted, <<>>, Without(posted, Len(job.left) + 1)}
  BY <1>1, <1>t, SaidNothing, SaidWithout
<1>2. CASE WebhookStep
  BY <1>1, <1>2
  DEF WebhookStep, TakeHook, ReadFacts, WriteLabel, EndWatch, ArmFire, FireSent, AfterEvent,
      AfterMergeFix, CountMergeFix, Comment, ReturnHook
<1>3. CASE WatchdogStep
  BY <1>1, <1>3
  DEF WatchdogStep, AlarmForNothing, DropDeferred, SendDeferred, StartExpiry, Replay,
      ReplayApplied, ReplayNotApplied, RetryOnce, Expire, AfterExpiry, AfterFiredAgain, ReturnAlarm
<1>4. CASE SignalStep
  BY <1>1, <1>4
  DEF SignalStep, IgnoreSignal, Heartbeat, Completion, TakeOutcome, EndFire, ReturnOutcome
<1>5. CASE Alarm \/ UNCHANGED allVars \/ People \/ GitHubWorks
  BY <1>1, <1>5
  DEF Alarm, Ring, allVars, vars, People, PersonAddsLabel, PersonRemovesLabel, PersonPushes,
      PersonReplies, PersonCloses, GitHubWorks, CiFinishes, MergeableChanges
<1>6. CASE Sessions
  <2>1. PICK r \in runs : Session(r)
    BY <1>6 DEF Sessions
  <2>2. ASSUME NEW o \in Outcomes(r.run) \cap env.reports, Reports(r, o), posted' # posted
        PROVE  \A h \in Said(posted') : ~Foreign(h.event)
    <3>1. posted' = Append(posted, Hook(o, r.run, r.gen))
      BY <2>2 DEF Reports
    <3>2. ~Foreign(o) /\ Hook(o, r.run, r.gen).event = o
      BY OutcomesHeard DEF PathHeard, Hook
    <3>3. Said(posted') = Said(posted) \cup {Hook(o, r.run, r.gen)}
      BY <1>t, <3>1, SaidMore
    <3> QED BY <1>t, <3>2, <3>3
  <2>3. CASE Pushes(r) \/ Merges(r) \/ Dies(r) \/ Steps(r)
    BY <1>1, <2>3 DEF Pushes, Merges, Dies, Steps
  <2> QED BY <1>1, <2>1, <2>2, <2>3 DEF Session
<1> QED BY <1>2, <1>3, <1>4, <1>5, <1>6 DEF Next, Worker

Listens(k) ==
  /\ \A h \in Said(k.left) : ~Foreign(h.event)
  /\ Applies(k) => k.rule.run \notin IssueRuns
  /\ k.then # "deferred"

(* An event the PR does hear fires no routine of an issue's.               *)
LEMMA ChosenListens ==
  ASSUME NEW seen, NEW k, Chosen(seen, k), k.event \notin OfIssues, k.then # "deferred",
         \A h \in Said(k.left) : ~Foreign(h.event)
  PROVE  Listens(k)
BY FixRulesSay DEF Chosen, Listens, Applies

LEMMA BegunListens ==
  ASSUME TypeInv, NEW j \in JobType, ~Foreign(j.event), j.then = "none", j.ops = <<>>, HandleEvent(j),
         NEW seen, Chosen(seen, job'), Handling(job'), \A h \in Said(job'.left) : ~Foreign(h.event)
  PROVE  Listens(job')
<1>1. CountsTypeOK
  BY DEF TypeInv, TypeOK, ItemTypeOK, CountsTypeOK
<1>2. job'.event \in {j.event, "CI_FIX_PUSHED", "REVIEW_FIX_PUSHED", "REWORK_CAP_REACHED"}
  BY <1>1, HandlersSay
<1>3. job'.event \notin OfIssues /\ job'.then # "deferred"
  BY <1>2 DEF Foreign, OfIssues, Handling, HookThens
<1> QED BY <1>3, ChosenListens

LEMMA PathListens ==
  ASSUME PathCore, PathHeard, HeardInv, TypeInv, [Next]_allVars, ~Failures
  PROVE  Listens(job')
<1>t. ItemTypeOK /\ job \in JobType /\ Listens(job)
  BY DEF TypeInv, TypeOK, ItemTypeOK, PathHeard, Listens
<1>e. Said(<<>>) = {}
  BY SaidNothing
<1>n. ASSUME job' = NoJob  PROVE Listens(job')
  BY <1>n, <1>e, NoJobIs DEF Listens, Applies
<1>c. ASSUME Carries, job'.pc \in {"write", "send"} => job.pc \in {"write", "send"}  PROVE Listens(job')
  BY <1>c, <1>t DEF Carries, Listens, Applies
<1>b. \A pc \in {"recover", "expire"} : Listens(BackToExpiry(pc))
  BY <1>t DEF Listens, BackToExpiry, NoJob, Applies
<1>h. ASSUME NEW h \in hooks, TakeHook(h) \/ TakeOutcome(h)  PROVE Listens(job')
  <2>1. PICK src \in {"webhook", "signal"} : HandleEvent(Begin(h, src))
    BY <1>h DEF TakeHook, TakeOutcome
  <2>2. Begin(h, src) \in JobType
    BY BeginType DEF TypeInv, TypeOK, ItemTypeOK, JobSources
  <2>3. Begin(h, src).event = h.event /\ Begin(h, src).then = "none" /\ Begin(h, src).ops = <<>>
    BY DEF Begin, NoJob
  <2>4. ~Foreign(h.event)
    BY DEF PathHeard
  <2>5. Handling(job') /\ Chosen(labels, job') /\ job'.left = <<>>
    BY <1>h, HookBegins
  <2> QED BY <1>e, <2>1, <2>2, <2>3, <2>4, <2>5, BegunListens
<1>1. CASE WebhookStep
  <2>1. CASE ReadFacts
    <3>1. GatedAs(job') /\ job.ops = <<>> /\ job.pc = "facts"
      BY <1>t, <2>1, GateMoves DEF PathCore, PathJob
    <3>2. \A h \in Said(job'.left) : ~Foreign(h.event)
      BY <1>t, <3>1 DEF GatedAs, Listens
    <3>3. CASE <<job'.then, job'.event>> \in Asks
      <4>1. job'.then \notin {"deferred", "review", "mergeLabel", "checks"} /\ job'.event \notin OfIssues
        BY <3>3 DEF Asks, OfIssues
      <4>2. job'.pc = "return" \/ Chosen(job.seen, job')
        BY <1>t, <2>1, GateChooses
      <4> QED BY <3>2, <4>1, <4>2, ChosenListens DEF Listens, Applies
    <3>4. CASE job'.pc = "return" /\ job'.then = job.then
      BY <1>t, <3>2, <3>4 DEF Listens, Applies
    <3> QED BY <1>t, <2>1, <3>1, <3>3, <3>4, GateAsks
  <2>2. CASE WriteLabel \/ EndWatch \/ ArmFire \/ FireSent \/ AfterMergeFix \/ CountMergeFix \/ Comment
    BY <1>t, <1>c, <2>2, RuleMoves DEF GoesTo
  <2>3. CASE AfterEvent
    BY <1>t, <1>c, <2>3, AfterMoves DEF GoesTo
  <2>4. CASE ReturnHook
    BY <1>n, <2>4 DEF ReturnHook
  <2> QED BY <1>1, <1>h, <2>1, <2>2, <2>3, <2>4 DEF WebhookStep
<1>2. CASE WatchdogStep
  <2>1. CASE AlarmForNothing \/ DropDeferred
    BY <1>t, <2>1 DEF AlarmForNothing, DropDeferred
  <2>2. CASE ReplayApplied \/ AfterExpiry \/ ReturnAlarm
    BY <1>n, <2>2 DEF ReplayApplied, AfterExpiry, ReturnAlarm
  <2>3. CASE SendDeferred
    BY <2>3 DEF SendDeferred, PathHeard
  <2>4. CASE StartExpiry
    <3>1. Listens(AlarmJob("expire")) /\ Listens([AlarmJob("recover") EXCEPT !.left = posted])
      BY <1>e DEF AlarmJob, NoJob, Listens, Applies, PathHeard
    <3> QED BY <2>4, <3>1 DEF StartExpiry
  <2>5. CASE Replay
    <3> DEFINE h == job.left[Len(job.left)]
               j == [Begin(h, job.src) EXCEPT !.replays = TRUE, !.left = SubSeq(job.left, 1, Len(job.left) - 1)]
    <3>1. j \in JobType /\ HandleEvent(j) /\ job.left # <<>> /\ job.left \in Seq(ReportType)
      BY <2>5, ReplayJobType DEF Replay, TypeInv, TypeOK, ItemTypeOK, JobType
    <3>2. j.event = h.event /\ j.then = "none" /\ j.ops = <<>>
      BY DEF Begin, NoJob
    <3>3. h \in Said(job.left) /\ Said(SubSeq(job.left, 1, Len(job.left) - 1)) \subseteq Said(job.left)
      BY <3>1, SaidLast
    <3>4. ~Foreign(h.event)
      BY <3>3 DEF PathHeard
    <3>5. Handling(job') /\ Chosen(labels, job') /\ job'.left = SubSeq(job.left, 1, Len(job.left) - 1)
      BY <2>5, ReplayBegins
    <3>6. \A g \in Said(job'.left) : ~Foreign(g.event)
      BY <3>3, <3>5 DEF PathHeard
    <3> HIDE DEF j, h
    <3> QED BY <3>1, <3>2, <3>4, <3>5, <3>6, BegunListens
  <2>6. CASE ReplayNotApplied
    BY <1>b, <2>6 DEF ReplayNotApplied
  <2>7. CASE RetryOnce
    <3>1. CASE job' = FireAgain("retry", TRUE)
      <4>1. job'.then = "retry" /\ job'.rule.run = pending.run /\ job'.left = <<>>
        BY <1>t, <3>1, FireAgainMoves
      <4> QED BY <1>e, <4>1 DEF Listens, PathHeard
    <3>2. CASE job' = BackToExpiry("expire")
      BY <1>b, <3>2
    <3> QED BY <2>7, <3>1, <3>2 DEF RetryOnce
  <2>8. CASE Expire
    <3> DEFINE j == [job EXCEPT !.seen = labels]
    <3>1. /\ j \in JobType /\ j.left = job.left /\ j.seen = labels
          /\ job' = ApplyEvent(j, "WATCHDOG_EXPIRED", "expiry")
      BY <1>t, <2>8 DEF Expire, ItemTypeOK, JobType
    <3> HIDE DEF j
    <3>2. job'.left = job.left /\ job'.event = "WATCHDOG_EXPIRED" /\ job'.then = "expiry"
      BY <3>1, ApplyEventMoves
    <3>3. Chosen(labels, job')
      BY <3>1, ApplyEventChooses
    <3>4. job'.event \notin OfIssues
      BY <3>2 DEF OfIssues
    <3> QED BY <1>t, <3>2, <3>3, <3>4, ChosenListens DEF Listens
  <2>9. CASE AfterFiredAgain
    BY <1>t, <1>c, <2>9, RuleMoves DEF GoesTo
  <2> QED BY <1>2, <2>1, <2>2, <2>3, <2>4, <2>5, <2>6, <2>7, <2>8, <2>9 DEF WatchdogStep
<1>3. CASE SignalStep
  <2>1. ASSUME NEW s \in hooks, IgnoreSignal(s) \/ Heartbeat(s) \/ Completion(s)
        PROVE  Listens(job')
    BY <1>t, <2>1 DEF IgnoreSignal, Heartbeat, Completion
  <2>2. ASSUME NEW s \in hooks, EndFire(s)  PROVE Listens(job')
    <3>1. Said(job'.left) \in {{}, Said(posted)} /\ job'.pc \in {"recover", "expire"} /\ job'.then = "none"
      BY <1>e, <2>2 DEF EndFire, NoJob
    <3> QED BY <3>1 DEF Listens, Applies, PathHeard
  <2> QED BY <1>3, <1>h, <1>n, <2>1, <2>2 DEF SignalStep, ReturnOutcome
<1>4. CASE Alarm \/ UNCHANGED allVars
  BY <1>t, <1>4 DEF Alarm, Ring, allVars, vars
<1>5. CASE People \/ GitHubWorks \/ Sessions
  BY <1>t, <1>5, OutsideJob DEF storage
<1> QED BY <1>1, <1>2, <1>3, <1>4, <1>5 DEF Next, Worker

(* The sessions it starts, and the fire under watch.                       *)
LEMMA PathRuns ==
  ASSUME PathHeard, TypeInv, [Next]_allVars, ~Failures
  PROVE  /\ \A r \in runs' : r.run \notin IssueRuns
         /\ pending'.run \notin IssueRuns /\ ~pending'.deferred
<1>t. pending \in FireType /\ NoRun \notin IssueRuns
  BY DEF TypeInv, TypeOK, ItemTypeOK, NoRun, IssueRuns
<1> DEFINE RunsOK    == \A r \in runs' : r.run \notin IssueRuns
           PendingOK == pending'.run \notin IssueRuns /\ ~pending'.deferred
<1>k. ASSUME runs' \subseteq runs  PROVE RunsOK
  BY <1>k DEF PathHeard
<1>p. ASSUME pending' = pending \/ pending' = NoFire  PROVE PendingOK
  BY <1>p, <1>t, NoFireIs DEF PathHeard
<1> HIDE DEF RunsOK, PendingOK
<1>1. CASE WebhookStep
  <2>1. CASE FireSent
    <3>1. job.rule.run \notin IssueRuns /\ Started(FALSE).run = job.rule.run
      BY <2>1 DEF FireSent, PathHeard, Applies, Started
    <3>2. RunsOK
      BY <2>1, <3>1 DEF FireSent, PathHeard, RunsOK
    <3> QED BY <2>1, <3>2, <1>p DEF FireSent, watch, RunsOK, PendingOK
  <2>2. CASE ArmFire
    <3>1. job.rule.run \notin IssueRuns
      BY <2>2 DEF ArmFire, PathHeard, Applies
    <3>2. pending' = NoFire \/ (pending'.run = job.rule.run /\ pending'.deferred = FALSE)
      BY <2>2, NoFireIs DEF ArmFire, ClearPendingFire, SetPendingFire, NoFire
    <3>3. PendingOK
      BY <1>p, <3>1, <3>2 DEF PendingOK
    <3> QED BY <2>2, <3>3, <1>k DEF ArmFire, RunsOK, PendingOK
  <2>3. CASE ~FireSent /\ ~ArmFire
    <3>1. runs' \subseteq runs /\ (pending' = pending \/ pending' = NoFire)
      BY <1>1, <2>3
      DEF WebhookStep, TakeHook, ReadFacts, WriteLabel, EndWatch, AfterEvent, AfterMergeFix, CountMergeFix,
          Comment, ReturnHook, watch, ClearPendingFire, KeepPendingFire
    <3> QED BY <3>1, <1>k, <1>p DEF RunsOK, PendingOK
  <2> QED BY <2>1, <2>2, <2>3
<1>2. CASE WatchdogStep
  <2>1. runs' \subseteq runs /\ (pending' = pending \/ pending' = NoFire)
    BY <1>2
    DEF WatchdogStep, AlarmForNothing, DropDeferred, SendDeferred, StartExpiry, Replay, ReplayApplied,
        ReplayNotApplied, RetryOnce, Expire, AfterExpiry, AfterFiredAgain, ReturnAlarm, watch,
        ClearPendingFire, KeepPendingFire
  <2> QED BY <2>1, <1>k, <1>p DEF RunsOK, PendingOK
<1>3. CASE SignalStep
  <2>1. runs' \subseteq runs
    BY <1>3 DEF SignalStep, IgnoreSignal, Heartbeat, Completion, TakeOutcome, EndFire, ReturnOutcome
  <2>2. \/ pending' = pending \/ pending' = NoFire
        \/ pending' = [[pending EXCEPT !.stepped = TRUE] EXCEPT !.due = FALSE]
    BY <1>3 DEF SignalStep, IgnoreSignal, Heartbeat, Completion, TakeOutcome, EndFire, ReturnOutcome, watch,
                ClearPendingFire, KeepPendingFire, SetPendingFire
  <2>3. PendingOK
    BY <1>p, <1>t, <2>2 DEF PendingOK, PathHeard, FireType
  <2> QED BY <2>1, <2>3, <1>k DEF RunsOK, PendingOK
<1>4. CASE Alarm \/ UNCHANGED allVars
  <2>1. runs' \subseteq runs /\ pending'.run = pending.run /\ pending'.deferred = pending.deferred
    BY <1>4, <1>t DEF Alarm, Ring, allVars, vars, watch, FireType
  <2> QED BY <2>1, <1>k DEF RunsOK, PathHeard
<1>5. CASE People \/ GitHubWorks \/ Sessions
  <2>1. pending' = pending
    BY <1>5, OutsideJob DEF storage, watch
  <2>2. runs' \subseteq runs
    BY <1>5 DEF People, PersonAddsLabel, PersonRemovesLabel, PersonPushes, PersonReplies, PersonCloses, GitHubWorks,
                CiFinishes, MergeableChanges, Sessions, Session, Reports, Pushes, Merges, Dies, Steps, Ends
  <2> QED BY <2>1, <2>2, <1>k, <1>p DEF RunsOK, PendingOK
<1> QED BY <1>1, <1>2, <1>3, <1>4, <1>5 DEF Next, Worker

LEMMA PathHeardStep ==
  ASSUME Undisturbed, PathCore, PathHeard, RequestsInv, TypeInv, [Next]_allVars, faults' = 0
  PROVE  PathHeard'
<1>1. env' = env /\ ~Failures /\ JobInv /\ HeardInv
  BY NothingFails DEF RequestsInv
<1>2. \A e : Foreign(e)' <=> Foreign(e)
  BY <1>1, SameEars
<1>3. /\ \A h \in hooks' : ~Foreign(h.event)
      /\ \A h \in Said(posted') : ~Foreign(h.event)
      /\ Listens(job')
      /\ \A r \in runs' : r.run \notin IssueRuns
      /\ pending'.run \notin IssueRuns /\ ~pending'.deferred
  BY <1>1, PathHearsHooks, PathHearsPosted, PathListens, PathRuns
<1>4. \A h \in hooks' \cup Said(posted') \cup Said(job'.left) : ~Foreign(h.event)'
  BY <1>2, <1>3 DEF Listens
<1> QED BY <1>3, <1>4 DEF PathHeard, Listens, Said, Applies

LEMMA PathInit ==
  ASSUME Init, Undisturbed
  PROVE  PathHeard /\ PathCore
<1>1. /\ job = NoJob /\ labels = {} /\ hooks = {} /\ posted = <<>> /\ runs = {} /\ pending = NoFire
      /\ ciFix = NoCiFix /\ job.ops = <<>> /\ job.left = <<>> /\ job.pc = "idle" /\ job.then = "none"
      /\ job.applied = FALSE /\ Len(job.ops) = 0
  BY NoJobIs DEF Init, NoJob
<1>2. PathHeard
  BY <1>1, SaidNothing, NoFireIs DEF PathHeard, Applies, IssueRuns, NoRun
<1>3. PathJob /\ PathSeen
  BY <1>1 DEF PathJob, PathSeen, HandedOutBy, Uncounted, HandedOut
<1>4. PathOpen /\ PathKnown
  BY <1>1, NoFireIs DEF PathOpen, PathKnown, NoCiFix, NoRun
<1> QED BY <1>2, <1>3, <1>4 DEF PathCore

LEMMA PathStep ==
  ASSUME Undisturbed => PathHeard /\ PathCore, RequestsInv, TypeInv, TypeInv', [Next]_allVars
  PROVE  Undisturbed' => PathHeard' /\ PathCore'
<1> SUFFICES ASSUME Undisturbed'  PROVE PathHeard' /\ PathCore'
  OBVIOUS
<1>1. faults' = 0
  BY DEF Undisturbed
<1>2. env' = env /\ faults = 0
  BY <1>1, NothingFails
<1>3. Undisturbed
  BY <1>2 DEF Undisturbed
<1> QED BY <1>1, <1>3, PathHeardStep, PathCoreStep

(* On a PR nobody takes a label off from outside, with nothing failing, a  *)
(* rework under watch knows where its push goes back to; one for a         *)
(* review's findings as well, unless a review's block is reported, which   *)
(* late may take AI_STUCK off a CI fix left behind (handToRework,          *)
(* handReviewToRework, reviewFindings and the ends of a rework).           *)
THEOREM ReworkReturns == Spec => [](Undisturbed => FixReturns /\ (NeverBlocked => ReturnPath))
<1>1. Init => TypeInv /\ WatchInv /\ RequestsInv /\ (Undisturbed => PathHeard /\ PathCore)
  BY TypeInit, WatchInit, RequestsInit, PathInit
<1>2. TypeInv /\ WatchInv /\ RequestsInv /\ (Undisturbed => PathHeard /\ PathCore) /\ [Next]_allVars
        => (TypeInv /\ WatchInv /\ RequestsInv /\ (Undisturbed => PathHeard /\ PathCore))'
  BY TypeStep, WatchStep, RequestsStep, PathStep
<1>3. TypeInv /\ (Undisturbed => PathHeard /\ PathCore)
        => (Undisturbed => FixReturns /\ (NeverBlocked => ReturnPath))
  <2> SUFFICES ASSUME TypeInv, PathCore  PROVE FixReturns /\ (NeverBlocked => ReturnPath)
    OBVIOUS
  <2>1. ReworkOut /\ pending.cause \in Causes => Known(pending.cause)
    <3> SUFFICES ASSUME ReworkOut, pending.cause \in Causes  PROVE Known(pending.cause)
      OBVIOUS
    <3>1. labels \in SUBSET Labels /\ DeriveState(labels) = "AUTO_REWORKING"
      BY DEF TypeInv, TypeOK, ItemTypeOK, ReworkOut
    <3>2. labels = {"AUTO_REWORKING"}
      BY <3>1, StateIsOn DEF Labels
    <3>3. ~Ending /\ ~Uncounted(HandedOut)
      BY NoJobIs DEF ReworkOut, Idle, Ending, Uncounted, HandedOut
    <3> QED BY <3>2, <3>3 DEF ReworkOut, PathCore, PathKnown
  <2> QED BY <2>1 DEF FixReturns, FindingsReturn, ReturnPath, ReworkOut, Known, Causes
<1> QED BY <1>1, <1>2, <1>3, PTL DEF Spec
=============================================================================
