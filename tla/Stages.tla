------------------------------- MODULE Stages -------------------------------
(***************************************************************************)
(* The hand-offs between items (coordinate/stages.ts).  Every issue and    *)
(* every PR is a Durable Object with a serial queue: one request at a      *)
(* time, start to finish.  A request may hand its event on to other items, *)
(* one after the other, and waits for each of their answers while its own  *)
(* queue waits for it:                                                     *)
(*                                                                         *)
(*   an issue's build_succeeded  -> review_requested, to the PR built      *)
(*   a PR's merge                -> pr_merged, to each issue it closes     *)
(*   a release_published         -> released, to each issue ready for one  *)
(*                                                                         *)
(* A delivery is identified by what it reports, a hand-off of it by the    *)
(* delivery and the item it is for: both claim with that pair (seen).      *)
(* The rules are the table's; what a routine's fire and its watch do is    *)
(* Coordinator's, and here only the review's fire is told.                 *)
(***************************************************************************)
EXTENDS Graph

CONSTANTS
  Issues, Pulls, Releases,  \* the items; a release is the issue of one
  Closing,                  \* the issues each PR's description closes
  Building,                 \* the issues whose build is out at the start
  Acts,                     \* what people, GitHub and sessions do
  Faults,                   \* which failures there are
  MaxFaults, MaxRedeliveries, MaxEdits

Items == Issues \cup Pulls \cup Releases

ActKinds   == {"report", "signal", "merge", "label", "release", "edit"}
FaultKinds == {"throw", "evict"}

ASSUME StagesAssumption ==
  /\ Issues \cap Pulls = {} /\ Issues \cap Releases = {} /\ Pulls \cap Releases = {}
  /\ Closing \in [Pulls -> SUBSET Issues]
  /\ Building \subseteq Issues
  /\ Acts \subseteq ActKinds
  /\ Faults \subseteq FaultKinds
  /\ MaxFaults \in Nat /\ MaxRedeliveries \in Nat /\ MaxEdits \in Nat

Nobody     == "nobody"
NoDelivery == [item |-> Nobody, event |-> "none", pr |-> Nobody, by |-> Nobody]
NoMerge    == Nobody
NotCut     == {Nobody}

ASSUME NobodyAssumption == Nobody \notin Items

OwnEvents == {"BUILD_SUCCEEDED", "MERGED", "RELEASE_PUBLISHED", "LABELLED_AI_REVIEWING", "CHECKS"}

(* What GitHub delivers to an item; a report names a PR and has a carrier. *)
Delivery  == [item : Items, event : OwnEvents, pr : Pulls \cup {Nobody}, by : {"webhook", "signal"}]
Request   == [d : Delivery, to : Items, awaited : BOOLEAN]

PCs == {"idle", "read", "open", "add", "write", "clear", "log", "gate", "tag", "list", "forward", "wait",
        "return", "thrown"}

Job == [pc : PCs, d : Delivery \cup {NoDelivery}, event : Events \cup OwnEvents \cup {"none"},
        found : SUBSET Labels, ops : Seq(OpType), todo : SUBSET Items,
        at : Items \cup {Nobody}, awaited : BOOLEAN]

IdleJob == [pc |-> "idle", d |-> NoDelivery, event |-> "none", found |-> {}, ops |-> <<>>,
            todo |-> {}, at |-> Nobody, awaited |-> FALSE]

VARIABLES
  labels, closed,   \* GitHub's: labels on each item, items closed by a rule
  merged, green,    \* GitHub's: PRs merged, PRs whose CI is green
  tag,              \* the merges in each release, once its branch is cut
  sent,             \* deliveries GitHub has made
  waiting,          \* requests on their way or queued at an item
  job,              \* each item's request in progress
  seen,             \* storage: the deliveries each item has claimed
  shipped,          \* storage: the merge an issue was moved on by
  review,           \* storage: PRs with a review-loop fire pending
  known,            \* storage: issues whose build's outcome is remembered
  acked, failed,    \* what GitHub was answered last
  faults, redelivered, edits,  \* how many of each there were
  owed, done,       \* history: hand-offs owed, requests handled to the end
  fires             \* history: reviews fired on each PR

github  == <<labels, closed, merged, green, tag>>
storage == <<seen, shipped, review, known>>
counters == <<faults, redelivered, edits>>
history == <<owed, done, fires>>
vars == <<github, storage, history, sent, waiting, job, acked, failed, counters>>

Init ==
  /\ labels \in [Items -> {{}, {"AI_READY"}, {"PR_OPEN"}, {"AUTO_RELEASING"}}]
  /\ \A i \in Issues : IF i \in Building THEN labels[i] = {"AI_READY"}
                                         ELSE labels[i] \in {{}, {"PR_OPEN"}}
  /\ \A p \in Pulls : labels[p] = {}
  /\ \A r \in Releases : labels[r] = {"AUTO_RELEASING"}
  /\ closed = {} /\ merged = {} /\ green = {}
  /\ tag = [r \in Releases |-> NotCut]
  /\ sent = {} /\ waiting = {} /\ acked = {} /\ failed = {}
  /\ job = [x \in Items |-> IdleJob]
  /\ seen = {} /\ shipped = [i \in Issues |-> NoMerge] /\ review = {} /\ known = {}
  /\ faults = 0 /\ redelivered = 0 /\ edits = 0
  /\ owed = {} /\ done = {} /\ fires = [p \in Pulls |-> 0]

----------------------------------------------------------------------------
(* What an item makes of a request.                                        *)

Untranslated(d, x) == IF x = d.item THEN d.event ELSE "orchestrator"

(* The item's own event, or what the item it comes from hands on.          *)
EventFor(d, x) ==
  IF x = d.item THEN d.event
  ELSE CASE d.event = "BUILD_SUCCEEDED"   -> "LABELLED_AI_REVIEWING"
         [] d.event = "MERGED"            -> "PR_MERGED"
         [] d.event = "RELEASE_PUBLISHED" -> "RELEASED"
         [] OTHER                         -> "none"

Returns(j) == [j EXCEPT !.pc = "return"]

OnlyWithRule(j) == Returns(j)

(* A merge is handed on whatever its rule came to.                         *)
Without(j) ==
  IF j.event = "MERGED" THEN [j EXCEPT !.pc = "forward", !.todo = Closing[j.d.item]]
                        ELSE Returns(j)

(* The rule of the labels read, and the calls it needs; a rule that fires  *)
(* nothing ends the pending fire's watch once they are made.               *)
ApplyEvent(j) ==
  LET state == StateBefore(j.found, j.event)
      ops   == LabelOps(j.found, Reduce(state, j.event))
  IN  IF HasRule(state, j.event)
      THEN [j EXCEPT !.pc = IF ops = <<>> THEN "clear" ELSE "write", !.ops = ops]
      ELSE Without(j)

ReviewOut(x) == x \in review

StartReviewAgain(x, j) == ApplyEvent(j)

(* The label's rule, which would end the watch of a review fired already:  *)
(* CI may have ended, and been handled, before the label was.              *)
StartReview(x, j) == IF ReviewOut(x) THEN Returns(j) ELSE ApplyEvent(j)

(* AI_REVIEWING, added by a person or asked for by the issue whose build   *)
(* made the PR.  Asked for, it is added to an open PR with nothing tracked;*)
(* alone on the PR it is a half-done hand-off, which is carried on.        *)
Labelled(x, j) ==
  LET asked == x # j.d.item
      on    == "AI_REVIEWING" \in j.found
  IN  CASE asked /\ ~on -> [j EXCEPT !.pc = "open"]
        [] asked /\ on /\ StateBefore(j.found, j.event) # "none" -> Returns(j)
        [] ~asked /\ ~on -> Returns(j)
        [] OTHER -> StartReview(x, j)

Handle(x, j) ==
  CASE j.event = "LABELLED_AI_REVIEWING" -> Labelled(x, j)
    [] j.event = "RELEASED" -> [j EXCEPT !.pc = "tag"]
    [] j.event = "CHECKS"   -> IF DeriveState(j.found) = "AI_REVIEWING"
                               THEN [j EXCEPT !.pc = "gate"]
                               ELSE Returns(j)
    [] OTHER -> ApplyEvent(j)

Begin(w) ==
  [IdleJob EXCEPT !.pc = "read", !.d = w.d, !.event = EventFor(w.d, w.to), !.awaited = w.awaited]

----------------------------------------------------------------------------
(* The answer to a request: GitHub's, or the waiting item's.               *)

NotWaitedFor(y, x, d, awaited) == FALSE

(* An item waits for another's answer about a delivery.                    *)
CallOf(y, x, d) == job[y].pc = "wait" /\ job[y].at = x /\ job[y].d = d

HearsOf(y, x, d, awaited) == awaited /\ CallOf(y, x, d)

Answer(x, d, awaited, ok) ==
  /\ job' = [y \in Items |->
       CASE y = x -> IdleJob
         [] y # x /\ HearsOf(y, x, d, awaited) ->
              IF ok THEN [job[y] EXCEPT !.pc = "forward", !.todo = @ \ {x}, !.at = Nobody]
                    ELSE [job[y] EXCEPT !.pc = "thrown", !.at = Nobody]
         [] OTHER -> job[y]]
  /\ acked'  = IF x = d.item /\ ok THEN acked \cup {d} ELSE acked
  /\ failed' = IF x = d.item /\ ~ok THEN failed \cup {d} ELSE failed

(* A request is taken up, and claimed.                                     *)
Take(x) ==
  /\ job[x].pc = "idle"
  /\ \E w \in waiting :
       /\ w.to = x
       /\ <<w.d, x>> \notin seen
       /\ ~(x \in known /\ w.d.item = x /\ w.d.event = "BUILD_SUCCEEDED")
       /\ waiting' = waiting \ {w}
       /\ seen' = seen \cup {<<w.d, x>>}
       /\ job' = [job EXCEPT ![x] = Begin(w)]
  /\ UNCHANGED <<github, shipped, review, known, history, sent, acked, failed, counters>>

(* The labels are read, once.                                              *)
ReadLabels(x) ==
  /\ job[x].pc = "read"
  /\ job' = [job EXCEPT ![x] = Handle(x, [@ EXCEPT !.found = labels[x]])]
  /\ UNCHANGED <<github, storage, history, sent, waiting, acked, failed, counters>>

(* A delivery this item has claimed already.                               *)
Dedupe(x) ==
  /\ job[x].pc = "idle"
  /\ \E w \in waiting :
       /\ w.to = x
       /\ <<w.d, x>> \in seen
       /\ waiting' = waiting \ {w}
       /\ Answer(x, w.d, w.awaited, TRUE)
  /\ UNCHANGED <<github, storage, history, sent, counters>>

(* A report whose other carrier was applied, and is remembered.            *)
KnownOutcome(x) ==
  /\ job[x].pc = "idle"
  /\ x \in known
  /\ \E w \in waiting :
       /\ w.to = x /\ w.d.item = x /\ w.d.event = "BUILD_SUCCEEDED"
       /\ <<w.d, x>> \notin seen
       /\ waiting' = waiting \ {w}
       /\ seen' = seen \cup {<<w.d, x>>}
       /\ Answer(x, w.d, w.awaited, TRUE)
  /\ UNCHANGED <<github, shipped, review, known, history, sent, counters>>

(* Whether the PR a review is asked for is open, and has nothing tracked.  *)
ReadPull(x) ==
  /\ job[x].pc = "open"
  /\ job' = [job EXCEPT ![x] =
       IF x \notin merged /\ DeriveState(@.found) = "none"
       THEN [@ EXCEPT !.pc = "add"]
       ELSE Returns(@)]
  /\ UNCHANGED <<github, storage, history, sent, waiting, acked, failed, counters>>

(* The label is added for the issue, and carried on from as a person's.    *)
AddReviewing(x) ==
  /\ job[x].pc = "add"
  /\ labels' = [labels EXCEPT ![x] = @ \cup {"AI_REVIEWING"}]
  /\ LET found == job[x].found \cup {"AI_REVIEWING"}
     IN  job' = [job EXCEPT ![x] = StartReview(x, [@ EXCEPT !.found = found])]
  /\ UNCHANGED <<closed, merged, green, tag, storage, history, sent, waiting, acked, failed, counters>>

Untagged(i, r) == TRUE

(* Whether a release's tag contains the merge an issue was moved on by.    *)
InTag(i, r) == shipped[i] # NoMerge /\ tag[r] # NotCut /\ shipped[i] \in tag[r]

(* released: only an issue whose merge is in the tag is closed.            *)
ReadTag(x) ==
  /\ job[x].pc = "tag"
  /\ job' = [job EXCEPT ![x] = IF InTag(x, @.d.item) THEN ApplyEvent(@) ELSE Returns(@)]
  /\ UNCHANGED <<github, storage, history, sent, waiting, acked, failed, counters>>

(* The rule's calls to GitHub, one at a time.                              *)
Write(x) ==
  /\ job[x].pc = "write"
  /\ LET op   == Head(job[x].ops)
         rest == Tail(job[x].ops)
     IN  /\ labels' = [labels EXCEPT ![x] =
              CASE op.op = "add"    -> @ \cup {op.label}
                [] op.op = "remove" -> @ \ {op.label}
                [] OTHER            -> @]
         /\ closed' = IF op.op = "close" THEN closed \cup {x} ELSE closed
         /\ job' = [job EXCEPT ![x].ops = rest,
                               ![x].pc = IF rest = <<>> THEN "clear" ELSE "write"]
  /\ UNCHANGED <<merged, green, tag, storage, history, sent, waiting, acked, failed, counters>>

(* The rule fired nothing: whatever was pending is watched no more.        *)
ClearPendingFire(x) ==
  /\ job[x].pc = "clear"
  /\ review' = review \ {x}
  /\ job' = [job EXCEPT ![x].pc = "log"]
  /\ UNCHANGED <<github, seen, shipped, known, history, sent, waiting, acked, failed, counters>>

(* The rule's row is logged, and the event is applied.  What follows it:   *)
(* an issue keeps the merge it was moved on by, the review's gate is read, *)
(* the event is handed on.                                                 *)
Log(x) ==
  /\ job[x].pc = "log"
  /\ LET j == job[x]
         to == CASE j.event = "BUILD_SUCCEEDED" -> {j.d.pr}
                 [] j.event = "MERGED"          -> Closing[x]
                 [] OTHER                       -> {}
     IN  /\ shipped' = IF j.event = "PR_MERGED" THEN [shipped EXCEPT ![x] = j.d.item] ELSE shipped
         /\ owed' = owed \cup {<<j.d, y>> : y \in to}
         /\ job' = [job EXCEPT ![x] =
              CASE j.event \in {"BUILD_SUCCEEDED", "MERGED"} -> [j EXCEPT !.pc = "forward", !.todo = to]
                [] j.event = "RELEASE_PUBLISHED"     -> [j EXCEPT !.pc = "list"]
                [] j.event = "LABELLED_AI_REVIEWING" -> [j EXCEPT !.pc = "gate"]
                [] OTHER                             -> Returns(j)]
  /\ UNCHANGED <<github, seen, review, known, done, fires, sent, waiting, acked, failed, counters>>

(* The review's gate: green CI fires review-loop.                          *)
Gate(x) ==
  /\ job[x].pc = "gate"
  /\ LET goes == x \in green /\ ~ReviewOut(x)
     IN  /\ review' = IF goes THEN review \cup {x} ELSE review
         /\ fires' = IF goes THEN [fires EXCEPT ![x] = @ + 1] ELSE fires
         /\ job' = [job EXCEPT ![x] =
              IF goes THEN [@ EXCEPT !.pc = "log", !.event = "REVIEW_CI_PASSED"] ELSE Returns(@)]
  /\ UNCHANGED <<github, seen, shipped, known, owed, done, sent, waiting, acked, failed, counters>>

ReadyIssues == {i \in Issues : "READY_FOR_RELEASE" \in labels[i] /\ i \notin closed}

(* The open issues waiting for a release are listed.                       *)
List(x) ==
  /\ job[x].pc = "list"
  /\ owed' = owed \cup {<<job[x].d, i>> : i \in ReadyIssues}
  /\ job' = [job EXCEPT ![x].pc = "forward", ![x].todo = ReadyIssues]
  /\ UNCHANGED <<github, storage, done, fires, sent, waiting, acked, failed, counters>>

(* The next item the event is handed on to.  A report handed on may be     *)
(* remembered against the fire it ended, if that is still the pending one. *)
Forward(x) ==
  /\ job[x].pc = "forward"
  /\ IF job[x].todo = {}
     THEN /\ job' = [job EXCEPT ![x] = Returns(@)]
          /\ known' \in IF job[x].event = "BUILD_SUCCEEDED" THEN {known, known \cup {x}} ELSE {known}
          /\ UNCHANGED waiting
     ELSE \E y \in job[x].todo :
            /\ waiting' = waiting \cup {[d |-> job[x].d, to |-> y, awaited |-> TRUE]}
            /\ job' = [job EXCEPT ![x].pc = "wait", ![x].at = y]
            /\ UNCHANGED known
  /\ UNCHANGED <<github, seen, shipped, review, history, sent, acked, failed, counters>>

Finish(x) ==
  /\ job[x].pc = "return"
  /\ done' = done \cup {<<job[x].d, x>>}
  /\ Answer(x, job[x].d, job[x].awaited, TRUE)
  /\ UNCHANGED <<github, storage, owed, fires, sent, waiting, counters>>

KeepsClaim(x) == seen

Unclaimed(x) == seen \ {<<job[x].d, x>>}

(* A handler that threw releases its claim, and the request has failed.    *)
Unwind(x) ==
  /\ job[x].pc = "thrown"
  /\ seen' = Unclaimed(x)
  /\ Answer(x, job[x].d, job[x].awaited, FALSE)
  /\ UNCHANGED <<github, shipped, review, known, history, sent, waiting, counters>>

Step(x) ==
  \/ Take(x) \/ Dedupe(x) \/ KnownOutcome(x) \/ ReadLabels(x) \/ ReadPull(x) \/ ReadTag(x)
  \/ AddReviewing(x) \/ Write(x) \/ ClearPendingFire(x) \/ Log(x) \/ Gate(x) \/ List(x) \/ Forward(x)
  \/ Finish(x) \/ Unwind(x)

----------------------------------------------------------------------------
(* Failures.                                                               *)

(* Any call out of the object may throw.                                   *)
Throw(x) ==
  /\ "throw" \in Faults /\ faults < MaxFaults
  /\ job[x].pc \notin {"idle", "wait", "return", "thrown"}
  /\ job' = [job EXCEPT ![x].pc = "thrown"]
  /\ faults' = faults + 1
  /\ UNCHANGED <<github, storage, history, sent, waiting, acked, failed, redelivered, edits>>

ForgetsQueue(y, x, gone) ==
  job[y].pc = "wait" /\ job[y].at = x /\ job[x].d = job[y].d /\ job[x].awaited

(* The object is evicted: the request in progress is gone, and what of its *)
(* queue had arrived; whoever waits for those is told, and what the lost   *)
(* request waited for goes on alone.                                       *)
LosesCall(y, x, gone) ==
  /\ job[y].pc = "wait" /\ job[y].at = x
  /\ \/ job[x].d = job[y].d /\ job[x].awaited
     \/ [d |-> job[y].d, to |-> x, awaited |-> TRUE] \in gone

Evict(x) ==
  /\ "evict" \in Faults /\ faults < MaxFaults
  /\ job[x].pc # "idle"
  /\ \E gone \in SUBSET {w \in waiting : w.to = x} :
       /\ job' = [y \in Items |->
            CASE y = x -> IdleJob
              [] y # x /\ LosesCall(y, x, gone) -> [job[y] EXCEPT !.pc = "thrown", !.at = Nobody]
              [] y # x /\ ~LosesCall(y, x, gone) /\ CallOf(x, y, job[y].d) ->
                   [job[y] EXCEPT !.awaited = FALSE]
              [] OTHER -> job[y]]
       /\ waiting' = {IF CallOf(x, w.to, w.d) THEN [w EXCEPT !.awaited = FALSE] ELSE w :
                      w \in waiting \ gone}
       /\ failed' = failed \cup {w.d : w \in {v \in gone : v.d.item = x}}
                           \cup (IF job[x].d.item = x THEN {job[x].d} ELSE {})
  /\ faults' = faults + 1
  /\ UNCHANGED <<github, storage, history, sent, acked, redelivered, edits>>

----------------------------------------------------------------------------
(* People, GitHub and sessions.                                            *)

Deliver(d) ==
  /\ d \notin sent
  /\ sent' = sent \cup {d}
  /\ waiting' = waiting \cup {[d |-> d, to |-> d.item, awaited |-> TRUE]}
  /\ UNCHANGED <<storage, history, job, acked, failed, counters>>

Of(x, event) == [item |-> x, event |-> event, pr |-> Nobody, by |-> "webhook"]

(* The build's session reports the one PR it made, in a comment and        *)
(* perhaps by a signal.                                                    *)
Report(i, p, by) ==
  /\ "report" \in Acts
  /\ by = "signal" => "signal" \in Acts
  /\ i \in Building /\ i \in Closing[p]
  /\ \A d \in sent : d.event = "BUILD_SUCCEEDED" /\ d.item = i => d.pr = p
  /\ Deliver([item |-> i, event |-> "BUILD_SUCCEEDED", pr |-> p, by |-> by])
  /\ UNCHANGED github

Merge(p) ==
  /\ "merge" \in Acts
  /\ merged' = merged \cup {p}
  /\ Deliver(Of(p, "MERGED"))
  /\ UNCHANGED <<labels, closed, green, tag>>

(* CI of a PR ends well.                                                   *)
Checks(p) ==
  /\ "label" \in Acts
  /\ green' = green \cup {p}
  /\ Deliver(Of(p, "CHECKS"))
  /\ UNCHANGED <<labels, closed, merged, tag>>

LabelPull(p) ==
  /\ "label" \in Acts
  /\ labels' = [labels EXCEPT ![p] = @ \cup {"AI_REVIEWING"}]
  /\ Deliver(Of(p, "LABELLED_AI_REVIEWING"))
  /\ UNCHANGED <<closed, merged, green, tag>>

(* The release's branch is cut from what is merged by then.                *)
Cut(r) ==
  /\ "release" \in Acts
  /\ tag[r] = NotCut
  /\ tag' = [tag EXCEPT ![r] = merged]
  /\ UNCHANGED <<labels, closed, merged, green, storage, history, sent, waiting, job, acked, failed,
                 counters>>

(* release-publish reports the release, which has its tag.                 *)
Publish(r) ==
  /\ "release" \in Acts
  /\ tag[r] # NotCut
  /\ Deliver(Of(r, "RELEASE_PUBLISHED"))
  /\ UNCHANGED github

(* A delivery is made again, with the same id.                             *)
Redeliver(d) ==
  /\ redelivered < MaxRedeliveries
  /\ waiting' = waiting \cup {[d |-> d, to |-> d.item, awaited |-> TRUE]}
  /\ redelivered' = redelivered + 1
  /\ failed' = failed \ {d}
  /\ UNCHANGED <<github, storage, history, sent, job, acked, faults, edits>>

(* A person puts a stage's label on an issue or takes it off.  Neither is  *)
(* an event of the table.                                                  *)
Edit(i, l) ==
  /\ "edit" \in Acts /\ edits < MaxEdits
  /\ labels' = [labels EXCEPT ![i] = IF l \in @ THEN @ \ {l} ELSE @ \cup {l}]
  /\ edits' = edits + 1
  /\ UNCHANGED <<closed, merged, green, tag, storage, history, sent, waiting, job, acked, failed,
                 faults, redelivered>>

Environment ==
  \/ \E i \in Issues, p \in Pulls, by \in {"webhook", "signal"} : Report(i, p, by)
  \/ \E p \in Pulls : Merge(p) \/ Checks(p) \/ LabelPull(p)
  \/ \E r \in Releases : Cut(r) \/ Publish(r)
  \/ \E i \in Issues, l \in {"PR_OPEN", "READY_FOR_RELEASE"} : Edit(i, l)
  \/ \E d \in sent : Redeliver(d)

Next ==
  \/ \E x \in Items : Step(x) \/ Throw(x) \/ Evict(x)
  \/ Environment

Spec == Init /\ [][Next]_vars

(* The platform runs the requests it has accepted: some item goes on       *)
(* whenever one can.  A behaviour has finitely many requests, so every     *)
(* item that can go on does.                                               *)
Fairness == WF_vars(\E x \in Items : Step(x))

FairSpec == Spec /\ Fairness

----------------------------------------------------------------------------
(* Properties.                                                             *)

(* Every variable has its type.                                            *)
TypeOK ==
  /\ labels \in [Items -> SUBSET Labels]
  /\ closed \subseteq Items /\ merged \subseteq Pulls /\ green \subseteq Pulls
  /\ tag \in [Releases -> (SUBSET Pulls) \cup {NotCut}]
  /\ sent \subseteq Delivery /\ waiting \subseteq Request
  /\ job \in [Items -> Job]
  /\ seen \subseteq Delivery \X Items
  /\ shipped \in [Issues -> Pulls \cup {NoMerge}]
  /\ review \subseteq Pulls /\ known \subseteq Issues
  /\ acked \subseteq sent /\ failed \subseteq sent
  /\ faults \in Nat /\ redelivered \in Nat /\ edits \in Nat
  /\ owed \subseteq Delivery \X Items /\ done \subseteq Delivery \X Items
  /\ fires \in [Pulls -> Nat]

(* A merge that was answered well was handed on to every issue it closes,  *)
(* and each of them handled it to its end: a failure on the way fails the  *)
(* delivery, and its redelivery makes up for it (coordinate/webhook.ts's   *)
(* claim, stages.ts).                                                      *)
MergesHandedOn ==
  \A d \in acked : d.event = "MERGED" => \A i \in Closing[d.item] : <<d, i>> \in done

(* So are the other hand-offs that are still owed: a build's review, by    *)
(* one of its reports, until the PR is merged or a person takes the issue  *)
(* out of PR_OPEN, and a release to an issue while it waits for one        *)
(* (coordinate/stages.ts, webhook.ts's claim).                             *)
Reported(i, p) == {[item |-> i, event |-> "BUILD_SUCCEEDED", pr |-> p, by |-> by] :
                     by \in {"webhook", "signal"}}

HandOffsDone ==
  \A d \in acked :
    IF d.event = "BUILD_SUCCEEDED"
    THEN <<d, d.pr>> \in owed /\ d.pr \notin merged /\ DeriveState(labels[d.item]) = "PR_OPEN" =>
           \E e \in Reported(d.item, d.pr) : <<e, d.pr>> \in done
    ELSE \A o \in owed : o[1] = d => o \in done \/ o[2] \notin ReadyIssues

(* A PR asked for by its issue and labelled by a person, whose CI may end  *)
(* before either is handled and whose deliveries fail and are made again,  *)
(* has its review fired once: no label's rule ends the watch of a review   *)
(* that is out, and no gate fires one beside it (coordinate/webhook.ts:    *)
(* "Applying the label's rule now would clear that pending fire and fire a *)
(* second review"; review-gate.ts).                                        *)
ReviewOnce == \A p \in Pulls : fires[p] <= 1

(* An item waits for an answer that is on its way: the item it waits for   *)
(* has the request, in progress or queued, and will answer it              *)
(* (issue-coordinator.ts's forward).                                       *)
WaitsForAnswer ==
  \A x \in Items : job[x].pc = "wait" =>
    LET y == job[x].at
    IN  \/ job[y].pc # "idle" /\ job[y].d = job[x].d /\ job[y].awaited
        \/ [d |-> job[x].d, to |-> y, awaited |-> TRUE] \in waiting

(* A merge whose delivery was answered well has moved its issues on with   *)
(* the merge recorded, what failed before notwithstanding                  *)
(* (coordinate/webhook.ts: "so it can be redelivered").                    *)
MergeRecorded ==
  \A d \in acked : d.event = "MERGED" =>
    \A i \in Closing[d.item] : "READY_FOR_RELEASE" \in labels[i] => shipped[i] # NoMerge

(* A merge that was handed on has moved its issues on, those whose build   *)
(* made the PR and has been reported: the two deliveries come in either    *)
(* order (coordinate/webhook.ts: "Merged (by anyone, labelled or not): the *)
(* issues its description closes move to their next stage").               *)
MergeCarried ==
  \A p \in Pulls : \A i \in Closing[p] :
    Of(p, "MERGED") \in acked /\ (i \in Building => Reported(i, p) \cap acked # {})
      => "READY_FOR_RELEASE" \in labels[i] \/ i \in closed

(* A release closes an issue only if it has every merge of the issue that  *)
(* was handed on by then: one that came after the branch was cut waits for *)
(* the next (coordinate/stages.ts, released).                              *)
Shipped(p) == \E r \in Releases : tag[r] # NotCut /\ p \in tag[r]

AllMergesShipped ==
  [][\A i \in (closed' \ closed) \cap Issues : \A p \in merged :
       i \in Closing[p] /\ Of(p, "MERGED") \in acked => Shipped(p)]_vars

(* The stages keep what they promise, through failures, redeliveries and   *)
(* people's edits: an issue is closed by a published release that contains *)
(* the merge it was moved on by (coordinate/stages.ts, released).          *)
Published == {r \in Releases : Of(r, "RELEASE_PUBLISHED") \in sent}

Promise == INSTANCE Shipping WITH published <- Published, moved <- shipped,
                                  closed <- closed \cap Issues

KeepsPromise == Promise!Spec

(* Every request an item takes up ends, though it waits for other items    *)
(* that have queues of their own (issue-coordinator.ts's serial and        *)
(* forward; index.ts: "else 202 while it finishes in the background").     *)
RequestsEnd == \A x \in Items : job[x].pc # "idle" ~> job[x].pc = "idle"

(* A merged PR's issues move to their next stage, if nothing fails         *)
(* (coordinate/webhook.ts: "Merged (by anyone, labelled or not)").         *)
MergedMovesOn ==
  \A p \in Pulls : \A i \in Closing[p] :
    p \in merged ~> ("READY_FOR_RELEASE" \in labels[i] \/ i \in closed \/ faults > 0)
=============================================================================
