---------------------------- MODULE StagesProofs ----------------------------
(***************************************************************************)
(* The hand-offs keep what the stages promise (Shipping), for any items,   *)
(* PRs' descriptions, failures, redeliveries and people's edits.  An       *)
(* invariant says where a request may come from (HandOffInv): a delivery   *)
(* GitHub made, at the item it is about or at one it is handed on to.      *)
(* Over it, three more: on calls and their answers (CallInv), on merges    *)
(* handed on (HandedInv) and on whatever else is owed (OwedInv).           *)
(***************************************************************************)
EXTENDS Stages, GraphProofs, FiniteSetTheorems

----------------------------------------------------------------------------
(* The invariant.                                                          *)

(* A delivery is one of those GitHub makes.                                *)
Proper(d) ==
  /\ d \in Delivery
  /\ d.event = "BUILD_SUCCEEDED" => d.item \in Issues /\ d.pr \in Pulls
  /\ d.event = "RELEASE_PUBLISHED" => d = Of(d.item, "RELEASE_PUBLISHED") /\ d.item \in Releases
  /\ d.event \in {"MERGED", "LABELLED_AI_REVIEWING", "CHECKS"} => d.item \in Pulls

(* The items a delivery may be handled at.                                 *)
HandedOn(d, x) ==
  \/ x = d.item
  \/ d.event = "BUILD_SUCCEEDED" /\ x = d.pr
  \/ d.event = "MERGED" /\ x \in Closing[d.item]
  \/ d.event = "RELEASE_PUBLISHED" /\ x \in Issues

(* A request in progress handles its delivery as its item's.               *)
Sound(x, j) ==
  /\ HandedOn(j.d, x)
  /\ j.event = EventFor(j.d, x) \/ (j.event = "REVIEW_CI_PASSED" /\ x \notin Issues)
  /\ \A y \in j.todo : HandedOn(j.d, y)
  /\ j.pc \in {"open", "add", "gate"} => x \notin Issues
  /\ j.pc = "tag" => j.event = "RELEASED"
  /\ j.pc = "list" => j.d.event = "RELEASE_PUBLISHED"
  /\ j.pc = "write" => j.ops # <<>>

NoClose(ops) == \A k \in 1..Len(ops) : ops[k].op # "close"

Sent    == \A d \in sent : Proper(d) /\ (d.event = "MERGED" => d.item \in merged)
Queued  == \A w \in waiting : w.d \in sent /\ HandedOn(w.d, w.to)
InHand  == \A x \in Items : job[x].pc # "idle" => job[x].d \in sent /\ Sound(x, job[x])

(* An issue is being closed only for a release with its merge.             *)
MayClose(x, j) == NoClose(j.ops) \/ (j.event = "RELEASED" /\ InTag(x, j.d.item))

ClosesShipped == \A x \in Issues : job[x].pc = "write" => MayClose(x, job[x])

HandOffInv == TypeOK /\ Sent /\ Queued /\ InHand /\ ClosesShipped

AnyOf == Events \cup OwnEvents \cup {"none"}

----------------------------------------------------------------------------
(* What a request's event is.                                              *)

(* A request's event is one of the lists.                                  *)
LEMMA EventForType ==
  ASSUME NEW x, NEW d \in Delivery
  PROVE  EventFor(d, x) \in AnyOf
<1>1. d.event \in OwnEvents
  BY DEF Delivery
<1>2. {"LABELLED_AI_REVIEWING", "PR_MERGED", "RELEASED"} \in SUBSET Events
  BY DEF Events
<1> QED BY <1>1, <1>2 DEF EventFor, AnyOf

(* An issue handles its build's report, its PR's merge or a release, and   *)
(* the last two come from where they should.                               *)
LEMMA IssueEvents ==
  ASSUME NEW x \in Issues, NEW d, Proper(d), HandedOn(d, x)
  PROVE  /\ EventFor(d, x) \in {"BUILD_SUCCEEDED", "PR_MERGED", "RELEASED"}
         /\ EventFor(d, x) = "PR_MERGED" => d.event = "MERGED" /\ x \in Closing[d.item]
         /\ EventFor(d, x) = "RELEASED" =>
              d = Of(d.item, "RELEASE_PUBLISHED") /\ d.item \in Releases
<1>1. d.event \in OwnEvents /\ d.item \in Items
  BY DEF Proper, Delivery
<1>2. CASE x = d.item
  <2>1. d.event = "BUILD_SUCCEEDED"
    BY <1>1, <1>2, StagesAssumption DEF Proper, OwnEvents
  <2> QED BY <1>2, <2>1 DEF EventFor
<1>3. CASE x # d.item
  <2>1. x \notin Pulls
    BY StagesAssumption
  <2>2. \/ d.event = "MERGED" /\ x \in Closing[d.item]
        \/ d.event = "RELEASE_PUBLISHED"
    BY <1>3, <2>1 DEF HandedOn, Proper
  <2> QED BY <1>3, <2>2 DEF EventFor, Proper
<1> QED BY <1>2, <1>3

(* PR_MERGED is an issue's event, and BUILD_SUCCEEDED and MERGED are the   *)
(* item's own.                                                             *)
LEMMA EventNames ==
  ASSUME NEW x, NEW d \in Delivery
  PROVE  /\ EventFor(d, x) \in {"BUILD_SUCCEEDED", "MERGED", "RELEASE_PUBLISHED", "CHECKS"} =>
               x = d.item /\ d.event = EventFor(d, x)
         /\ EventFor(d, x) = "PR_MERGED" => x # d.item /\ d.event = "MERGED"
         /\ EventFor(d, x) # "REVIEW_CI_PASSED"
<1>1. d.event \in OwnEvents
  BY DEF Delivery
<1> QED BY <1>1 DEF EventFor, OwnEvents

(* No rule of a build's report or a merge's hand-off closes the issue.     *)
LEMMA OnlyReleasesClose ==
  ASSUME NEW r \in Rules, r.on \in {"BUILD_SUCCEEDED", "PR_MERGED"}
  PROVE  r.to # "close"
BY SMT DEF Rules, IssueRules, ReleaseRules, MergeRules, ReviewRules, OutcomeRules, StageRules,
     UnlabelRules, WatchdogRules, StuckRules, Labels, NoRun, Rule, Fires, Moves, TakesOff, Closes, Stays

(* Only a closing rule makes a closing call.                               *)
LEMMA LabelCalls ==
  ASSUME NEW found, NEW rule, rule.to # "close"
  PROVE  NoClose(LabelOps(found, rule))
<1> DEFINE remove == IF rule.from # "none" /\ rule.from # Target(rule) /\ rule.from \in found
                     THEN <<[op |-> "remove", label |-> rule.from]>> ELSE <<>>
           add    == IF rule.to \in Labels /\ rule.to # rule.from /\ rule.to \notin found
                     THEN <<[op |-> "add", label |-> rule.to]>> ELSE <<>>
<1>1. LabelOps(found, rule) \in {<<>>, remove \o add}
  BY DEF LabelOps
<1>2. NoClose(<<>>)
  BY DEF NoClose
<1>3. NoClose(remove \o add)
  BY DEF NoClose
<1> QED BY <1>1, <1>2, <1>3

----------------------------------------------------------------------------
(* What a request in progress goes on to.                                  *)

(* Moving on keeps a request sound, but to the steps of one event.         *)
LEMMA GoesOn ==
  ASSUME NEW x, NEW j \in Job, Sound(x, j),
         NEW pc \in {"read", "clear", "log", "forward", "wait", "return", "thrown"}
  PROVE  [j EXCEPT !.pc = pc] \in Job /\ Sound(x, [j EXCEPT !.pc = pc])
BY DEF Job, PCs, Sound

(* Applying a request's event keeps it sound, and closes an issue for      *)
(* nothing but a release.                                                  *)
LEMMA ApplyEventGoes ==
  ASSUME NEW x \in Items, NEW j \in Job, Proper(j.d), Sound(x, j)
  PROVE  LET a == ApplyEvent(j)
         IN  /\ a \in Job /\ Sound(x, a) /\ a.d = j.d /\ a.event = j.event /\ a.pc # "idle"
             /\ a.pc = "write" /\ x \in Issues => NoClose(a.ops) \/ a.event = "RELEASED"
<1> DEFINE state == StateBefore(j.found, j.event)
           rule  == Reduce(state, j.event)
           ops   == LabelOps(j.found, rule)
<1>1. CASE HasRule(state, j.event)
  <2>1. rule \in Rules /\ rule.on = j.event
    BY <1>1, ReduceAnswers
  <2>2. ops \in Seq(OpType)
    BY <2>1, RulesType, LabelOpsType DEF Job
  <2>3. x \in Issues => NoClose(ops) \/ j.event = "RELEASED"
    <3> SUFFICES ASSUME x \in Issues, j.event # "RELEASED"  PROVE NoClose(ops)
      OBVIOUS
    <3>1. j.event \in {"BUILD_SUCCEEDED", "PR_MERGED"}
      BY IssueEvents DEF Sound
    <3> QED BY <2>1, <3>1, OnlyReleasesClose, LabelCalls
  <2>4. ApplyEvent(j) = [j EXCEPT !.pc = IF ops = <<>> THEN "clear" ELSE "write", !.ops = ops]
    BY <1>1 DEF ApplyEvent
  <2> HIDE DEF ops
  <2> QED BY <2>2, <2>3, <2>4 DEF Job, PCs, Sound
<1>2. CASE ~HasRule(state, j.event)
  <2>1. ApplyEvent(j) = Without(j)
    BY <1>2 DEF ApplyEvent
  <2>2. CASE j.event = "MERGED"
    <3>1. j.d.event = "MERGED" /\ j.d.item \in Pulls
      BY <2>2, EventNames DEF Sound, Proper
    <3>2. Closing[j.d.item] \in SUBSET Items
      BY <3>1, StagesAssumption DEF Items
    <3> DEFINE a == [j EXCEPT !.pc = "forward", !.todo = Closing[j.d.item]]
    <3>3. ApplyEvent(j) = a
      BY <2>1, <2>2 DEF Without
    <3>4. a \in Job
      BY <3>2 DEF Job, PCs
    <3>5. a.d = j.d /\ a.event = j.event /\ a.pc = "forward" /\ a.todo = Closing[j.d.item]
      BY DEF Job
    <3>6. \A y \in Closing[j.d.item] : HandedOn(j.d, y)
      BY <3>1 DEF HandedOn
    <3> HIDE DEF a
    <3> QED BY <3>3, <3>4, <3>5, <3>6 DEF Sound
  <2>3. CASE j.event # "MERGED"
    BY <2>1, <2>3 DEF Without, Returns, Job, PCs, Sound
  <2> QED BY <2>2, <2>3
<1> QED BY <1>1, <1>2

(* Handling a request keeps it sound, and no issue is closed before the    *)
(* release's tag is read.                                                  *)
LEMMA HandleGoes ==
  ASSUME NEW x \in Items, NEW j \in Job, Proper(j.d), Sound(x, j)
  PROVE  LET a == Handle(x, j)
         IN  /\ a \in Job /\ Sound(x, a) /\ a.d = j.d /\ a.pc # "idle"
             /\ a.pc = "write" /\ x \in Issues => NoClose(a.ops)
<1>1. CASE j.event = "LABELLED_AI_REVIEWING"
  <2>1. x \notin Issues
    BY <1>1, IssueEvents DEF Sound
  <2>2. Handle(x, j) = Labelled(x, j)
    BY <1>1 DEF Handle
  <2>3. Labelled(x, j) \in {[j EXCEPT !.pc = "open"], Returns(j), ApplyEvent(j)}
    BY DEF Labelled, StartReview
  <2>4. [j EXCEPT !.pc = "open"] \in Job /\ Sound(x, [j EXCEPT !.pc = "open"])
    BY <2>1 DEF Job, PCs, Sound
  <2>5. Returns(j) \in Job /\ Sound(x, Returns(j)) /\ Returns(j).pc = "return" /\ Returns(j).d = j.d
    BY GoesOn DEF Returns, Job
  <2>6. [j EXCEPT !.pc = "open"].d = j.d /\ [j EXCEPT !.pc = "open"].pc = "open"
    BY DEF Job
  <2>7. CASE Handle(x, j) = [j EXCEPT !.pc = "open"]
    BY <2>1, <2>4, <2>6, <2>7
  <2>8. CASE Handle(x, j) = Returns(j)
    BY <2>1, <2>5, <2>8
  <2>9. CASE Handle(x, j) = ApplyEvent(j)
    BY <2>1, <2>9, ApplyEventGoes
  <2> QED BY <2>2, <2>3, <2>7, <2>8, <2>9
<1>2. CASE j.event = "RELEASED"
  <2>1. Handle(x, j) = [j EXCEPT !.pc = "tag"]
    BY <1>2 DEF Handle
  <2> QED BY <1>2, <2>1 DEF Job, PCs, Sound
<1>3. CASE j.event = "CHECKS"
  <2>1. x \notin Issues
    BY <1>3, IssueEvents DEF Sound
  <2>2. Handle(x, j) \in {[j EXCEPT !.pc = "gate"], [j EXCEPT !.pc = "return"]}
    BY <1>3 DEF Handle, Returns
  <2> QED BY <2>1, <2>2 DEF Job, PCs, Sound
<1>4. CASE j.event \notin {"LABELLED_AI_REVIEWING", "RELEASED", "CHECKS"}
  <2>1. Handle(x, j) = ApplyEvent(j)
    BY <1>4 DEF Handle
  <2> QED BY <1>4, <2>1, ApplyEventGoes
<1> QED BY <1>1, <1>2, <1>3, <1>4

----------------------------------------------------------------------------
(* What the steps leave alone.                                             *)

(* One item's request going on keeps the others'.                          *)
LEMMA OneJob ==
  ASSUME HandOffInv, NEW x \in Items, NEW new \in Job,
         new.pc # "idle" => new.d \in sent /\ Sound(x, new),
         x \in Issues /\ new.pc = "write" => MayClose(x, new)',
         job' = [job EXCEPT ![x] = new], UNCHANGED <<sent, tag>>,
         \A y \in Issues \ {x} : shipped'[y] = shipped[y]
  PROVE  job' \in [Items -> Job] /\ InHand' /\ ClosesShipped'
<1> USE DEF HandOffInv
<1>1. job \in [Items -> Job]
  BY DEF TypeOK
<1>2. job'[x] = new /\ \A y \in Items \ {x} : job'[y] = job[y]
  BY <1>1
<1>3. job' \in [Items -> Job]
  BY <1>1
<1>4. InHand'
  BY <1>2 DEF InHand
<1>5. ClosesShipped'
  <2> SUFFICES ASSUME NEW y \in Issues, job'[y].pc = "write"  PROVE MayClose(y, job[y])'
    BY DEF ClosesShipped
  <2>1. CASE y = x
    BY <1>2, <2>1 DEF MayClose, InTag
  <2>2. CASE y # x
    <3>1. y \in Items  BY DEF Items
    <3>2. job'[y] = job[y]  BY <1>2, <2>2, <3>1
    <3>3. MayClose(y, job[y])  BY <3>2 DEF ClosesShipped
    <3> QED BY <2>2, <3>2, <3>3 DEF MayClose, InTag
  <2> QED BY <2>1, <2>2
<1> QED BY <1>3, <1>4, <1>5

(* An answer ends one request, and sets those who waited for it going.     *)
LEMMA AnswerGoes ==
  ASSUME HandOffInv, NEW x \in Items, NEW d \in sent, NEW awaited \in BOOLEAN, NEW ok \in BOOLEAN,
         Answer(x, d, awaited, ok), UNCHANGED <<sent, tag, shipped>>
  PROVE  /\ job' \in [Items -> Job] /\ InHand' /\ ClosesShipped'
         /\ acked' \subseteq sent' /\ failed' \subseteq sent'
<1> USE DEF HandOffInv
<1>1. job \in [Items -> Job] /\ acked \subseteq sent /\ failed \subseteq sent
  BY DEF TypeOK
<1> DEFINE goes(y) == [job[y] EXCEPT !.pc = "forward", !.todo = @ \ {x}, !.at = Nobody]
           fails(y) == [job[y] EXCEPT !.pc = "thrown", !.at = Nobody]
<1>2. ASSUME NEW y \in Items
      PROVE  \/ job'[y] = IdleJob \/ job'[y] = job[y]
             \/ CallOf(y, x, d) /\ job'[y] \in {goes(y), fails(y)}
  BY DEF Answer, HearsOf
<1>3. IdleJob \in Job /\ IdleJob.pc = "idle"
  BY DEF IdleJob, Job, PCs
<1>4. ASSUME NEW y \in Items, job[y].pc = "wait"
      PROVE  /\ goes(y) \in Job /\ goes(y).pc = "forward" /\ goes(y).d = job[y].d
             /\ fails(y) \in Job /\ fails(y).pc = "thrown" /\ fails(y).d = job[y].d
             /\ Sound(y, goes(y)) /\ Sound(y, fails(y))
  <2>1. job[y] \in Job /\ Sound(y, job[y])
    BY <1>1, <1>4 DEF InHand
  <2>2. goes(y) \in Job /\ fails(y) \in Job
    BY <2>1 DEF Job, PCs
  <2>3. /\ goes(y).pc = "forward" /\ goes(y).d = job[y].d /\ goes(y).event = job[y].event
        /\ goes(y).todo = job[y].todo \ {x}
    BY <2>1 DEF Job
  <2>4. /\ fails(y).pc = "thrown" /\ fails(y).d = job[y].d /\ fails(y).event = job[y].event
        /\ fails(y).todo = job[y].todo
    BY <2>1 DEF Job
  <2> HIDE DEF goes, fails
  <2> QED BY <2>1, <2>2, <2>3, <2>4 DEF Sound
<1>5. ASSUME NEW y \in Items
      PROVE  job'[y] \in Job /\ (job'[y].pc # "idle" => job'[y].d \in sent /\ Sound(y, job'[y]))
  <2>1. CASE job'[y] = IdleJob
    BY <1>3, <2>1
  <2>2. CASE job'[y] = job[y]
    BY <1>1, <2>2 DEF InHand
  <2>3. CASE CallOf(y, x, d) /\ job'[y] \in {goes(y), fails(y)}
    <3>1. job[y].pc = "wait"  BY <2>3 DEF CallOf
    <3>2. job[y].d \in sent  BY <3>1 DEF InHand
    <3> HIDE DEF goes, fails
    <3> QED BY <1>4, <2>3, <3>1, <3>2
  <2> QED BY <1>2, <2>1, <2>2, <2>3
<1>6. ClosesShipped'
  <2> SUFFICES ASSUME NEW y \in Issues, job'[y].pc = "write"  PROVE MayClose(y, job[y])'
    BY DEF ClosesShipped
  <2>1. y \in Items  BY DEF Items
  <2>2. job'[y] = job[y]
    <3> HIDE DEF goes, fails
    <3> QED BY <1>2, <1>3, <1>4, <2>1 DEF CallOf
  <2> QED BY <2>2 DEF ClosesShipped, MayClose, InTag
<1>7. job' \in [Items -> Job]
  <2>1. job' = [y \in Items |-> job'[y]]
    BY DEF Answer
  <2> QED BY <1>5, <2>1
<1>8. InHand'
  BY <1>5 DEF InHand
<1>9. acked' \subseteq sent' /\ failed' \subseteq sent'
  BY <1>1 DEF Answer
<1> QED BY <1>6, <1>7, <1>8, <1>9

----------------------------------------------------------------------------
(* One lemma per action.                                                   *)

(* A request in progress has a delivery GitHub made.                       *)
LEMMA JobInHand ==
  ASSUME HandOffInv, NEW x \in Items, job[x].pc # "idle"
  PROVE  /\ job[x] \in Job /\ job[x].d \in sent /\ job[x].d \in Delivery
         /\ Proper(job[x].d) /\ Sound(x, job[x])
BY DEF HandOffInv, TypeOK, InHand, Sent

LEMMA TakeKeeps ==
  ASSUME HandOffInv, NEW x \in Items, Take(x)
  PROVE  HandOffInv'
<1> PICK w \in waiting : /\ w.to = x /\ waiting' = waiting \ {w}
                         /\ seen' = seen \cup {<<w.d, x>>}
                         /\ job' = [job EXCEPT ![x] = Begin(w)]
  BY DEF Take
<1>0. UNCHANGED <<github, shipped, review, known, history, sent, acked, failed, counters>>
  BY DEF Take
<1>1. w \in Request /\ w.d \in sent /\ HandedOn(w.d, x) /\ Proper(w.d)
  BY DEF HandOffInv, TypeOK, Queued, Sent
<1>2. EventFor(w.d, w.to) \in AnyOf
  BY <1>1, EventForType DEF Request
<1>3. Begin(w) \in Job /\ Begin(w).d = w.d /\ Begin(w).pc = "read"
  <2>1. IdleJob \in Job
    BY DEF IdleJob, Job, PCs
  <2> QED BY <1>1, <1>2, <2>1 DEF Begin, Job, PCs, AnyOf, Request
<1>4. Sound(x, Begin(w))
  BY <1>1 DEF Begin, IdleJob, Sound
<1>5. job' \in [Items -> Job] /\ InHand' /\ ClosesShipped'
  <2> HIDE DEF Begin
  <2> QED BY <1>0, <1>1, <1>3, <1>4, OneJob DEF github
<1>6. TypeOK'
  BY <1>0, <1>1, <1>5 DEF HandOffInv, TypeOK, github, history, counters, Request
<1>7. Sent' /\ Queued'
  BY <1>0 DEF HandOffInv, Sent, Queued, github
<1> QED BY <1>5, <1>6, <1>7 DEF HandOffInv

LEMMA ReadLabelsKeeps ==
  ASSUME HandOffInv, NEW x \in Items, ReadLabels(x)
  PROVE  HandOffInv'
<1> DEFINE j == [job[x] EXCEPT !.found = labels[x]]
<1>0. UNCHANGED <<github, storage, history, sent, waiting, acked, failed, counters>>
  BY DEF ReadLabels
<1>1. j \in Job /\ j.d = job[x].d /\ Sound(x, j) /\ j.d \in sent /\ Proper(j.d)
  BY JobInHand DEF ReadLabels, Job, Sound, HandOffInv, TypeOK
<1>2. job' = [job EXCEPT ![x] = Handle(x, j)]
  BY DEF ReadLabels
<1> HIDE DEF j
<1>3. job' \in [Items -> Job] /\ InHand' /\ ClosesShipped'
  <2>0. PICK a : a = Handle(x, j)
    OBVIOUS
  <2>1. /\ a \in Job /\ Sound(x, a) /\ a.d = j.d
        /\ a.pc = "write" /\ x \in Issues => NoClose(a.ops)
    BY <1>1, <2>0, HandleGoes
  <2>2. a.pc # "idle" => a.d \in sent /\ Sound(x, a)
    BY <1>1, <2>1
  <2>3. x \in Issues /\ a.pc = "write" => MayClose(x, a)'
    BY <2>1 DEF MayClose
  <2>4. job' = [job EXCEPT ![x] = a]
    BY <1>2, <2>0
  <2> QED BY <1>0, <2>1, <2>2, <2>3, <2>4, OneJob DEF github, storage
<1>4. TypeOK'
  BY <1>0, <1>3 DEF HandOffInv, TypeOK, github, storage, history, counters
<1>5. Sent' /\ Queued'
  BY <1>0 DEF HandOffInv, Sent, Queued, github
<1> QED BY <1>3, <1>4, <1>5 DEF HandOffInv

LEMMA DedupeKeeps ==
  ASSUME HandOffInv, NEW x \in Items, Dedupe(x) \/ KnownOutcome(x)
  PROVE  HandOffInv'
<1> PICK w \in waiting : /\ waiting' = waiting \ {w} /\ w.to = x /\ seen' \in {seen, seen \cup {<<w.d, x>>}}
                         /\ Answer(x, w.d, w.awaited, TRUE)
  BY DEF Dedupe, KnownOutcome, storage
<1>0. UNCHANGED <<github, shipped, review, known, history, sent, counters>>
  BY DEF Dedupe, KnownOutcome, storage
<1>1. w.d \in sent /\ w.d \in Delivery /\ w.awaited \in BOOLEAN
  BY DEF HandOffInv, TypeOK, Queued, Request
<1>2. /\ job' \in [Items -> Job] /\ InHand' /\ ClosesShipped'
      /\ acked' \subseteq sent' /\ failed' \subseteq sent'
  BY <1>0, <1>1, AnswerGoes DEF github
<1>3. TypeOK'
  BY <1>0, <1>1, <1>2 DEF HandOffInv, TypeOK, github, history, counters
<1>4. Sent' /\ Queued'
  BY <1>0 DEF HandOffInv, Sent, Queued, github
<1> QED BY <1>2, <1>3, <1>4 DEF HandOffInv

LEMMA ReadPullKeeps ==
  ASSUME HandOffInv, NEW x \in Items, ReadPull(x)
  PROVE  HandOffInv'
<1> DEFINE added == [job[x] EXCEPT !.pc = "add"]
<1>0. UNCHANGED <<github, storage, history, sent, waiting, acked, failed, counters>>
  BY DEF ReadPull
<1>1. PICK new \in {added, Returns(job[x])} : job' = [job EXCEPT ![x] = new]
  BY DEF ReadPull
<1>2. job[x] \in Job /\ job[x].d \in sent /\ Sound(x, job[x]) /\ x \notin Issues
  BY JobInHand DEF ReadPull, Sound
<1>4. added \in Job /\ Sound(x, added) /\ added.d = job[x].d
  BY <1>2 DEF Job, PCs, Sound
<1>5. Returns(job[x]) \in Job /\ Sound(x, Returns(job[x])) /\ Returns(job[x]).d = job[x].d
  BY <1>2 DEF Returns, Job, PCs, Sound
<1> HIDE DEF added
<1>6. job' \in [Items -> Job] /\ InHand' /\ ClosesShipped'
  BY <1>0, <1>1, <1>2, <1>4, <1>5, OneJob DEF github, storage
<1>7. TypeOK'
  BY <1>0, <1>6 DEF HandOffInv, TypeOK, github, storage, history, counters
<1>8. Sent' /\ Queued'
  BY <1>0 DEF HandOffInv, Sent, Queued, github
<1> QED BY <1>6, <1>7, <1>8 DEF HandOffInv

(* Carrying a review on keeps a request sound.                             *)
LEMMA StartReviewGoes ==
  ASSUME NEW x \in Items \ Issues, NEW j \in Job, Proper(j.d), Sound(x, j)
  PROVE  LET a == StartReview(x, j)
         IN  a \in Job /\ Sound(x, a) /\ a.d = j.d /\ a.pc # "idle"
<1>1. CASE StartReview(x, j) = ApplyEvent(j)
  BY <1>1, ApplyEventGoes
<1>2. CASE StartReview(x, j) = [j EXCEPT !.pc = "return"]
  <2> DEFINE a == [j EXCEPT !.pc = "return"]
  <2>1. a \in Job /\ Sound(x, a) /\ a.d = j.d /\ a.pc = "return"
    BY DEF Job, PCs, Sound
  <2> HIDE DEF a
  <2> QED BY <1>2, <2>1 DEF a
<1> QED BY <1>1, <1>2 DEF StartReview, Returns

LEMMA AddReviewingKeeps ==
  ASSUME HandOffInv, NEW x \in Items, AddReviewing(x)
  PROVE  HandOffInv'
<1> DEFINE j == [job[x] EXCEPT !.found = job[x].found \cup {"AI_REVIEWING"}]
<1>0. UNCHANGED <<closed, merged, green, tag, storage, history, sent, waiting, acked, failed, counters>>
  BY DEF AddReviewing
<1>1. job[x] \in Job /\ Sound(x, job[x]) /\ x \notin Issues /\ job[x].d \in sent /\ Proper(job[x].d)
  BY JobInHand DEF AddReviewing, Sound
<1>2. j \in Job /\ Sound(x, j) /\ j.d = job[x].d
  BY <1>1 DEF Job, Labels, Sound
<1>3. PICK new : new = StartReview(x, j) /\ job' = [job EXCEPT ![x] = new]
  BY DEF AddReviewing
<1> HIDE DEF j
<1>4. new \in Job /\ Sound(x, new) /\ new.d \in sent
  BY <1>1, <1>2, <1>3, StartReviewGoes
<1>5. job' \in [Items -> Job] /\ InHand' /\ ClosesShipped'
  BY <1>0, <1>1, <1>3, <1>4, OneJob DEF storage
<1>6. labels' \in [Items -> SUBSET Labels]
  BY DEF AddReviewing, HandOffInv, TypeOK, Labels
<1>7. TypeOK'
  BY <1>0, <1>5, <1>6 DEF HandOffInv, TypeOK, storage, history, counters
<1>8. Sent' /\ Queued'
  BY <1>0 DEF HandOffInv, Sent, Queued
<1> QED BY <1>5, <1>7, <1>8 DEF HandOffInv

LEMMA ClearKeeps ==
  ASSUME HandOffInv, NEW x \in Items, ClearPendingFire(x)
  PROVE  HandOffInv'
<1>0. /\ UNCHANGED <<github, seen, shipped, known, history, sent, waiting, acked, failed, counters>>
      /\ review' = review \ {x}
  BY DEF ClearPendingFire
<1>1. job[x] \in Job /\ job[x].d \in sent /\ Sound(x, job[x])
  BY JobInHand DEF ClearPendingFire
<1>2. PICK new : new = [job[x] EXCEPT !.pc = "log"] /\ job' = [job EXCEPT ![x] = new]
  BY DEF ClearPendingFire
<1>3. new \in Job /\ new.d = job[x].d /\ new.pc = "log" /\ Sound(x, new)
  BY <1>1, <1>2, GoesOn DEF Job
<1>4. job' \in [Items -> Job] /\ InHand' /\ ClosesShipped'
  BY <1>0, <1>1, <1>2, <1>3, OneJob DEF github
<1>5. TypeOK'
  BY <1>0, <1>4 DEF HandOffInv, TypeOK, github, history, counters
<1>6. Sent' /\ Queued'
  BY <1>0 DEF HandOffInv, Sent, Queued, github
<1> QED BY <1>4, <1>5, <1>6 DEF HandOffInv

LEMMA ReadTagKeeps ==
  ASSUME HandOffInv, NEW x \in Items, ReadTag(x)
  PROVE  HandOffInv'
<1> DEFINE j == job[x]
<1>0. UNCHANGED <<github, storage, history, sent, waiting, acked, failed, counters>>
  BY DEF ReadTag
<1>1. j \in Job /\ j.d \in sent /\ Sound(x, j) /\ Proper(j.d) /\ j.event = "RELEASED"
  BY JobInHand DEF ReadTag, Sound
<1>2. PICK new : new = (IF InTag(x, j.d.item) THEN ApplyEvent(j) ELSE Returns(j)) /\ job' = [job EXCEPT ![x] = new]
  BY DEF ReadTag
<1>3. new \in Job /\ Sound(x, new) /\ new.d = j.d
      /\ (x \in Issues /\ new.pc = "write" => MayClose(x, new))
  <2>1. CASE InTag(x, j.d.item)
    <3>1. new \in Job /\ Sound(x, new) /\ new.d = j.d /\ new.event = j.event
      BY <1>1, <1>2, <2>1, ApplyEventGoes
    <3> QED BY <1>1, <2>1, <3>1 DEF MayClose
  <2>2. CASE ~InTag(x, j.d.item)
    <3>1. new = [j EXCEPT !.pc = "return"]  BY <1>2, <2>2 DEF Returns
    <3>2. new \in Job /\ Sound(x, new)  BY <1>1, <3>1, GoesOn
    <3> QED BY <1>1, <3>1, <3>2 DEF Job
  <2> QED BY <2>1, <2>2
<1>4. x \in Issues /\ new.pc = "write" => MayClose(x, new)'
  BY <1>0, <1>3 DEF MayClose, InTag, github, storage
<1>5. job' \in [Items -> Job] /\ InHand' /\ ClosesShipped'
  BY <1>0, <1>1, <1>2, <1>3, <1>4, OneJob DEF github, storage
<1>6. TypeOK'
  BY <1>0, <1>5 DEF HandOffInv, TypeOK, github, storage, history, counters
<1>7. Sent' /\ Queued'
  BY <1>0 DEF HandOffInv, Sent, Queued, github
<1> QED BY <1>5, <1>6, <1>7 DEF HandOffInv

LEMMA WriteKeeps ==
  ASSUME HandOffInv, NEW x \in Items, Write(x)
  PROVE  HandOffInv'
<1> DEFINE j == job[x]
<1>0. UNCHANGED <<merged, green, tag, storage, history, sent, waiting, acked, failed, counters>>
  BY DEF Write
<1>1. j \in Job /\ j.d \in sent /\ Sound(x, j) /\ j.pc = "write" /\ j.ops # <<>> /\ j.ops \in Seq(OpType)
  BY JobInHand DEF Write, Sound, Job
<1>2. Head(j.ops) \in OpType /\ Tail(j.ops) \in Seq(OpType)
  BY <1>1
<1>3. PICK new : /\ new = [j EXCEPT !.ops = Tail(j.ops), !.pc = IF Tail(j.ops) = <<>> THEN "clear" ELSE "write"]
                 /\ job' = [job EXCEPT ![x] = new]
  BY DEF Write
<1>4. new \in Job /\ new.d = j.d /\ new.event = j.event /\ new.ops = Tail(j.ops)
  BY <1>1, <1>2, <1>3 DEF Job, PCs
<1>5. Sound(x, new)
  BY <1>1, <1>3 DEF Sound, Job
<1>6. x \in Issues => MayClose(x, new)'
  <2> SUFFICES ASSUME x \in Issues  PROVE MayClose(x, new)'
    OBVIOUS
  <2>1. MayClose(x, j)
    BY <1>1 DEF HandOffInv, ClosesShipped
  <2>2. NoClose(j.ops) => NoClose(Tail(j.ops))
    BY <1>1 DEF NoClose
  <2> QED BY <1>0, <1>4, <2>1, <2>2 DEF MayClose, InTag, storage
<1>7. job' \in [Items -> Job] /\ InHand' /\ ClosesShipped'
  BY <1>0, <1>1, <1>3, <1>4, <1>5, <1>6, OneJob DEF storage
<1>8. labels' \in [Items -> SUBSET Labels] /\ closed' \subseteq Items
  <2>1. Head(j.ops).op = "add" => Head(j.ops).label \in Labels
    BY <1>2 DEF OpType
  <2> QED BY <2>1 DEF Write, HandOffInv, TypeOK
<1>9. TypeOK'
  BY <1>0, <1>7, <1>8 DEF HandOffInv, TypeOK, storage, history, counters
<1>10. Sent' /\ Queued'
  BY <1>0 DEF HandOffInv, Sent, Queued
<1> QED BY <1>7, <1>9, <1>10 DEF HandOffInv

(* The items a rule's event is handed on to are the delivery's.            *)
LEMMA LogTo ==
  ASSUME NEW x \in Items, NEW j \in Job, Proper(j.d), Sound(x, j)
  PROVE  /\ j.event = "BUILD_SUCCEEDED" => j.d.pr \in Items /\ HandedOn(j.d, j.d.pr)
         /\ j.event = "MERGED" => /\ Closing[x] \in SUBSET Items
                                  /\ \A y \in Closing[x] : HandedOn(j.d, y)
         /\ j.event = "RELEASE_PUBLISHED" => j.d.event = "RELEASE_PUBLISHED"
         /\ j.event = "LABELLED_AI_REVIEWING" => x \notin Issues
         /\ j.event = "PR_MERGED" => x \in Closing[j.d.item] /\ j.d.event = "MERGED" /\ j.d.item \in Pulls
<1>1. j.d \in Delivery
  BY DEF Proper
<1>2. j.event = "BUILD_SUCCEEDED" => j.d.pr \in Items /\ HandedOn(j.d, j.d.pr)
  BY <1>1, EventNames DEF Sound, Proper, HandedOn, Items
<1>3. ASSUME j.event = "MERGED"
      PROVE  Closing[x] \in SUBSET Items /\ \A y \in Closing[x] : HandedOn(j.d, y)
  <2>1. j.d.event = "MERGED" /\ x = j.d.item /\ x \in Pulls
    BY <1>1, <1>3, EventNames DEF Sound, Proper
  <2> QED BY <2>1, StagesAssumption DEF HandedOn, Items
<1>4. j.event = "RELEASE_PUBLISHED" => j.d.event = "RELEASE_PUBLISHED"
  BY <1>1, EventNames DEF Sound
<1>5. j.event = "LABELLED_AI_REVIEWING" => x \notin Issues
  BY IssueEvents DEF Sound
<1>6. ASSUME j.event = "PR_MERGED"
      PROVE  x \in Closing[j.d.item] /\ j.d.event = "MERGED" /\ j.d.item \in Pulls
  <2>1. x # j.d.item /\ j.d.event = "MERGED"
    BY <1>1, <1>6, EventNames DEF Sound
  <2> QED BY <2>1 DEF Sound, HandedOn, Proper
<1> QED BY <1>2, <1>3, <1>4, <1>5, <1>6

LEMMA LogKeeps ==
  ASSUME HandOffInv, NEW x \in Items, Log(x)
  PROVE  HandOffInv'
<1> DEFINE j  == job[x]
           to == CASE j.event = "BUILD_SUCCEEDED" -> {j.d.pr}
                   [] j.event = "MERGED"          -> Closing[x]
                   [] OTHER                       -> {}
<1>0. UNCHANGED <<github, seen, review, known, done, fires, sent, waiting, acked, failed, counters>>
  BY DEF Log
<1>1. j \in Job /\ j.d \in sent /\ j.d \in Delivery /\ Sound(x, j) /\ Proper(j.d) /\ j.pc = "log"
  BY JobInHand DEF Log
<1>2. to \in SUBSET Items /\ \A y \in to : HandedOn(j.d, y)
  BY <1>1, LogTo
<1>3. PICK new :
        /\ new = CASE j.event \in {"BUILD_SUCCEEDED", "MERGED"} -> [j EXCEPT !.pc = "forward", !.todo = to]
                   [] j.event = "RELEASE_PUBLISHED"     -> [j EXCEPT !.pc = "list"]
                   [] j.event = "LABELLED_AI_REVIEWING" -> [j EXCEPT !.pc = "gate"]
                   [] OTHER                             -> Returns(j)
        /\ job' = [job EXCEPT ![x] = new]
  BY DEF Log
<1>4. new \in Job /\ new.d = j.d /\ new.pc \notin {"write", "idle"}
  <2> HIDE DEF to
  <2> QED BY <1>1, <1>2, <1>3 DEF Job, PCs, Returns
<1>5. Sound(x, new)
  <2>1. j.event = "RELEASE_PUBLISHED" => j.d.event = "RELEASE_PUBLISHED"
    BY <1>1, LogTo
  <2>2. j.event = "LABELLED_AI_REVIEWING" => x \notin Issues
    BY <1>1, LogTo
  <2> HIDE DEF to
  <2> QED BY <1>1, <1>2, <1>3, <2>1, <2>2 DEF Sound, Job, Returns
<1>6. shipped' \in [Issues -> Pulls \cup {NoMerge}] /\ \A y \in Issues \ {x} : shipped'[y] = shipped[y]
  <2>1. j.event = "PR_MERGED" => j.d.item \in Pulls
    BY <1>1, LogTo
  <2> QED BY <2>1 DEF Log, HandOffInv, TypeOK
<1>7. job' \in [Items -> Job] /\ InHand' /\ ClosesShipped'
  BY <1>0, <1>1, <1>3, <1>4, <1>5, <1>6, OneJob DEF github
<1>8. owed' \subseteq Delivery \X Items
  <2>1. owed' = owed \cup {<<j.d, y>> : y \in to}
    BY DEF Log
  <2> HIDE DEF to
  <2> QED BY <1>1, <1>2, <2>1 DEF HandOffInv, TypeOK
<1>9. TypeOK'
  <2> HIDE DEF to
  <2> QED BY <1>0, <1>6, <1>7, <1>8 DEF HandOffInv, TypeOK, github, counters
<1>10. Sent' /\ Queued'
  BY <1>0 DEF HandOffInv, Sent, Queued, github
<1> QED BY <1>7, <1>9, <1>10 DEF HandOffInv

LEMMA GateKeeps ==
  ASSUME HandOffInv, NEW x \in Items, Gate(x)
  PROVE  HandOffInv'
<1>0. UNCHANGED <<github, seen, shipped, known, owed, done, sent, waiting, acked, failed, counters>>
  BY DEF Gate
<1>1. job[x] \in Job /\ job[x].d \in sent /\ Sound(x, job[x]) /\ x \notin Issues /\ x \in Items
  BY JobInHand DEF Gate, Sound
<1>2. PICK new : /\ new \in {[job[x] EXCEPT !.pc = "log", !.event = "REVIEW_CI_PASSED"], Returns(job[x])}
                 /\ job' = [job EXCEPT ![x] = new]
  BY DEF Gate
<1>3. "REVIEW_CI_PASSED" \in Events
  BY DEF Events
<1>4. new \in Job /\ new.d = job[x].d /\ Sound(x, new)
  BY <1>1, <1>2, <1>3 DEF Returns, Job, PCs, Sound
<1>5. job' \in [Items -> Job] /\ InHand' /\ ClosesShipped'
  BY <1>0, <1>1, <1>2, <1>4, OneJob DEF github
<1>6. review' \subseteq Pulls /\ fires' \in [Pulls -> Nat]
  <2>1. x \in green => x \in Pulls
    BY DEF HandOffInv, TypeOK
  <2> QED BY <2>1 DEF Gate, HandOffInv, TypeOK
<1>7. TypeOK'
  BY <1>0, <1>5, <1>6 DEF HandOffInv, TypeOK, github, counters
<1>8. Sent' /\ Queued'
  BY <1>0 DEF HandOffInv, Sent, Queued, github
<1> QED BY <1>5, <1>7, <1>8 DEF HandOffInv

LEMMA ListKeeps ==
  ASSUME HandOffInv, NEW x \in Items, List(x)
  PROVE  HandOffInv'
<1>0. UNCHANGED <<github, storage, done, fires, sent, waiting, acked, failed, counters>>
  BY DEF List
<1>1. /\ job[x] \in Job /\ job[x].d \in sent /\ job[x].d \in Delivery /\ Sound(x, job[x])
      /\ job[x].d.event = "RELEASE_PUBLISHED"
  BY JobInHand DEF List, Sound
<1>2. PICK new : /\ new = [job[x] EXCEPT !.pc = "forward", !.todo = ReadyIssues]
                 /\ job' = [job EXCEPT ![x] = new]
  BY DEF List
<1>3. ReadyIssues \in SUBSET Items /\ \A y \in ReadyIssues : HandedOn(job[x].d, y)
  BY <1>1 DEF ReadyIssues, Items, HandedOn
<1>4. new \in Job /\ new.d = job[x].d /\ new.pc = "forward" /\ Sound(x, new)
  BY <1>1, <1>2, <1>3 DEF Job, PCs, Sound
<1>5. job' \in [Items -> Job] /\ InHand' /\ ClosesShipped'
  BY <1>0, <1>1, <1>2, <1>4, OneJob DEF github, storage
<1>6. owed' \subseteq Delivery \X Items
  BY <1>1, <1>3 DEF List, HandOffInv, TypeOK
<1>7. TypeOK'
  BY <1>0, <1>5, <1>6 DEF HandOffInv, TypeOK, github, storage, counters
<1>8. Sent' /\ Queued'
  BY <1>0 DEF HandOffInv, Sent, Queued, github
<1> QED BY <1>5, <1>7, <1>8 DEF HandOffInv

LEMMA ForwardKeeps ==
  ASSUME HandOffInv, NEW x \in Items, Forward(x)
  PROVE  HandOffInv'
<1>0. UNCHANGED <<github, seen, shipped, review, history, sent, acked, failed, counters>>
  BY DEF Forward
<1>1. /\ job[x] \in Job /\ job[x].d \in sent /\ job[x].d \in Delivery /\ Proper(job[x].d)
      /\ Sound(x, job[x]) /\ job[x].todo \in SUBSET Items
  BY JobInHand DEF Forward, Job
<1>2. CASE job[x].todo = {}
  <2>1. PICK new : new = Returns(job[x]) /\ job' = [job EXCEPT ![x] = new]
    BY <1>2 DEF Forward
  <2>2. new \in Job /\ new.d = job[x].d /\ new.pc = "return" /\ Sound(x, new)
    BY <1>1, <2>1, GoesOn DEF Returns, Job
  <2>3. job' \in [Items -> Job] /\ InHand' /\ ClosesShipped'
    BY <1>0, <1>1, <2>1, <2>2, OneJob DEF github
  <2>4. known' \subseteq Issues
    <3>1. job[x].event = "BUILD_SUCCEEDED" => x \in Issues
      BY <1>1, EventNames DEF Sound, Proper
    <3> QED BY <1>2, <3>1 DEF Forward, HandOffInv, TypeOK
  <2>5. waiting' = waiting
    BY <1>2 DEF Forward
  <2>6. TypeOK'
    BY <1>0, <2>3, <2>4, <2>5 DEF HandOffInv, TypeOK, github, history, counters
  <2>7. Sent' /\ Queued'
    BY <1>0, <2>5 DEF HandOffInv, Sent, Queued, github
  <2> QED BY <2>3, <2>6, <2>7 DEF HandOffInv
<1>3. CASE job[x].todo # {}
  <2>1. PICK y \in job[x].todo :
          /\ waiting' = waiting \cup {[d |-> job[x].d, to |-> y, awaited |-> TRUE]}
          /\ job' = [job EXCEPT ![x].pc = "wait", ![x].at = y]
          /\ known' = known
    BY <1>3 DEF Forward
  <2>2. PICK new : new = [job[x] EXCEPT !.pc = "wait", !.at = y] /\ job' = [job EXCEPT ![x] = new]
    BY <2>1
  <2>3. new \in Job /\ new.d = job[x].d /\ new.pc = "wait" /\ Sound(x, new)
    BY <1>1, <2>1, <2>2 DEF Job, PCs, Sound
  <2>4. job' \in [Items -> Job] /\ InHand' /\ ClosesShipped'
    BY <1>0, <1>1, <2>2, <2>3, OneJob DEF github
  <2>5. waiting' \subseteq Request
    <3>1. y \in Items
      BY <1>1, <2>1
    <3>2. [d |-> job[x].d, to |-> y, awaited |-> TRUE] \in Request
      BY <1>1, <3>1 DEF Request
    <3> QED BY <2>1, <3>2 DEF HandOffInv, TypeOK
  <2>6. TypeOK'
    BY <1>0, <2>1, <2>4, <2>5 DEF HandOffInv, TypeOK, github, history, counters
  <2>7. HandedOn(job[x].d, y)
    BY <1>1, <2>1 DEF Sound
  <2>8. Sent' /\ Queued'
    BY <1>0, <1>1, <2>1, <2>7 DEF HandOffInv, Sent, Queued, github
  <2> QED BY <2>4, <2>6, <2>8 DEF HandOffInv
<1> QED BY <1>2, <1>3

LEMMA FinishKeeps ==
  ASSUME HandOffInv, NEW x \in Items, Finish(x) \/ Unwind(x)
  PROVE  HandOffInv'
<1>0. UNCHANGED <<github, shipped, review, known, owed, fires, sent, waiting, counters>>
  BY DEF Finish, Unwind, storage, history
<1>1. job[x].d \in sent /\ job[x].d \in Delivery /\ job[x] \in Job
  BY JobInHand DEF Finish, Unwind
<1>2. job[x].awaited \in BOOLEAN
  BY <1>1 DEF Job
<1>3. PICK ok \in BOOLEAN : Answer(x, job[x].d, job[x].awaited, ok)
  BY DEF Finish, Unwind
<1>4. /\ job' \in [Items -> Job] /\ InHand' /\ ClosesShipped'
      /\ acked' \subseteq sent' /\ failed' \subseteq sent'
  BY <1>0, <1>1, <1>2, <1>3, AnswerGoes DEF github
<1>5. seen' \subseteq Delivery \X Items /\ done' \subseteq Delivery \X Items
  <2>1. seen \subseteq Delivery \X Items /\ done \subseteq Delivery \X Items
    BY DEF HandOffInv, TypeOK
  <2>2. <<job[x].d, x>> \in Delivery \X Items
    BY <1>1
  <2>3. /\ seen' \in {seen, seen \ {<<job[x].d, x>>}}
        /\ done' \in {done, done \cup {<<job[x].d, x>>}}
    BY DEF Finish, Unwind, Unclaimed, storage, history
  <2> QED BY <2>1, <2>2, <2>3
<1>6. TypeOK'
  BY <1>0, <1>4, <1>5 DEF HandOffInv, TypeOK, github, counters
<1>7. Sent' /\ Queued'
  BY <1>0 DEF HandOffInv, Sent, Queued, github
<1> QED BY <1>4, <1>6, <1>7 DEF HandOffInv

LEMMA ThrowKeeps ==
  ASSUME HandOffInv, NEW x \in Items, Throw(x)
  PROVE  HandOffInv'
<1>0. UNCHANGED <<github, storage, history, sent, waiting, acked, failed, redelivered, edits>>
  BY DEF Throw
<1>1. job[x] \in Job /\ job[x].d \in sent /\ Sound(x, job[x])
  BY JobInHand DEF Throw
<1>2. PICK new : new = [job[x] EXCEPT !.pc = "thrown"] /\ job' = [job EXCEPT ![x] = new]
  BY DEF Throw
<1>3. new \in Job /\ new.d = job[x].d /\ new.pc = "thrown" /\ Sound(x, new)
  BY <1>1, <1>2, GoesOn DEF Job
<1>4. job' \in [Items -> Job] /\ InHand' /\ ClosesShipped'
  BY <1>0, <1>1, <1>2, <1>3, OneJob DEF github, storage
<1>5. TypeOK'
  BY <1>0, <1>4 DEF Throw, HandOffInv, TypeOK, github, storage, history
<1>6. Sent' /\ Queued'
  BY <1>0 DEF HandOffInv, Sent, Queued, github
<1> QED BY <1>4, <1>5, <1>6 DEF HandOffInv

LEMMA EvictKeeps ==
  ASSUME HandOffInv, NEW x \in Items, Evict(x)
  PROVE  HandOffInv'
<1>0. UNCHANGED <<github, storage, history, sent, acked, redelivered, edits>> /\ faults' = faults + 1
  BY DEF Evict
<1>1. PICK gone \in SUBSET {w \in waiting : w.to = x} :
       /\ job' = [y \in Items |->
            CASE y = x -> IdleJob
              [] y # x /\ LosesCall(y, x, gone) -> [job[y] EXCEPT !.pc = "thrown", !.at = Nobody]
              [] y # x /\ ~LosesCall(y, x, gone) /\ CallOf(x, y, job[y].d) ->
                   [job[y] EXCEPT !.awaited = FALSE]
              [] OTHER -> job[y]]
       /\ waiting' = {IF CallOf(x, w.to, w.d) THEN [w EXCEPT !.awaited = FALSE] ELSE w :
                      w \in waiting \ gone}
       /\ failed' = failed \cup {w.d : w \in {v \in gone : v.d.item = x}}
                           \cup (IF job[x].d.item = x THEN {job[x].d} ELSE {})
  BY DEF Evict
<1>2. job[x].d \in sent
  BY JobInHand DEF Evict
<1> DEFINE fails(y) == [job[y] EXCEPT !.pc = "thrown", !.at = Nobody]
           alone(y) == [job[y] EXCEPT !.awaited = FALSE]
<1>3. ASSUME NEW y \in Items
      PROVE  \/ job'[y] = IdleJob \/ job'[y] = job[y] \/ job'[y] = alone(y)
             \/ job[y].pc = "wait" /\ job'[y] = fails(y)
  BY <1>1 DEF LosesCall
<1>4. IdleJob \in Job /\ IdleJob.pc = "idle"
  BY DEF IdleJob, Job, PCs
<1>5. ASSUME NEW y \in Items
      PROVE  /\ job[y] \in Job
             /\ alone(y) \in Job /\ alone(y).pc = job[y].pc /\ alone(y).d = job[y].d
             /\ fails(y) \in Job /\ fails(y).pc = "thrown" /\ fails(y).d = job[y].d
             /\ Sound(y, job[y]) => Sound(y, alone(y)) /\ Sound(y, fails(y))
             /\ alone(y).ops = job[y].ops /\ alone(y).event = job[y].event
  <2>1. job[y] \in Job
    BY DEF HandOffInv, TypeOK
  <2> QED BY <2>1 DEF Job, PCs, Sound
<1> HIDE DEF fails, alone
<1>6. ASSUME NEW y \in Items
      PROVE  job'[y] \in Job /\ (job'[y].pc # "idle" => job'[y].d \in sent /\ Sound(y, job'[y]))
  <2>1. job[y].pc # "idle" => job[y].d \in sent /\ Sound(y, job[y])
    BY DEF HandOffInv, InHand
  <2> QED BY <1>3, <1>4, <1>5, <2>1
<1>7. job' \in [Items -> Job] /\ InHand'
  <2>1. job' = [y \in Items |-> job'[y]]
    BY <1>1
  <2> QED BY <1>0, <1>6, <2>1 DEF InHand
<1>8. ClosesShipped'
  <2> SUFFICES ASSUME NEW y \in Issues, job'[y].pc = "write"  PROVE MayClose(y, job[y])'
    BY DEF ClosesShipped
  <2>1. y \in Items  BY DEF Items
  <2>2. /\ job[y].pc = "write"
        /\ job'[y].ops = job[y].ops /\ job'[y].event = job[y].event /\ job'[y].d = job[y].d
    BY <1>3, <1>4, <1>5, <2>1
  <2>3. MayClose(y, job[y])
    BY <2>2 DEF HandOffInv, ClosesShipped
  <2> QED BY <1>0, <2>2, <2>3 DEF MayClose, InTag, github, storage
<1>9. waiting' \subseteq Request /\ \A w \in waiting' : \E v \in waiting : w.d = v.d /\ w.to = v.to
  <2>1. \A v \in waiting : v \in Request
    BY DEF HandOffInv, TypeOK
  <2> QED BY <1>1, <2>1 DEF Request
<1>10. failed' \subseteq sent
  BY <1>1, <1>2 DEF HandOffInv, TypeOK, Queued
<1>11. TypeOK'
  BY <1>0, <1>7, <1>9, <1>10 DEF HandOffInv, TypeOK, github, storage, history
<1>12. Sent' /\ Queued'
  BY <1>0, <1>9 DEF HandOffInv, Sent, Queued, github
<1> QED BY <1>7, <1>8, <1>11, <1>12 DEF HandOffInv

----------------------------------------------------------------------------
(* People, GitHub and sessions.                                            *)

(* A delivery GitHub makes keeps the invariant.                            *)
LEMMA DeliverKeeps ==
  ASSUME HandOffInv, NEW d, Deliver(d), Proper(d), d.event = "MERGED" => d.item \in merged',
         labels' \in [Items -> SUBSET Labels], merged \subseteq merged', merged' \subseteq Pulls,
         green' \subseteq Pulls, UNCHANGED <<closed, tag>>
  PROVE  HandOffInv'
<1>0. /\ sent' = sent \cup {d} /\ UNCHANGED <<storage, history, job, acked, failed, counters>>
      /\ waiting' = waiting \cup {[d |-> d, to |-> d.item, awaited |-> TRUE]}
  BY DEF Deliver
<1>1. d \in Delivery /\ d.item \in Items
  BY DEF Proper, Delivery
<1>2. waiting' \subseteq Request
  <2>1. [d |-> d, to |-> d.item, awaited |-> TRUE] \in Request
    BY <1>1 DEF Request
  <2> QED BY <1>0, <2>1 DEF HandOffInv, TypeOK
<1>3. TypeOK'
  BY <1>0, <1>1, <1>2 DEF HandOffInv, TypeOK, storage, history, counters
<1>4. Sent'
  BY <1>0 DEF HandOffInv, Sent
<1>5. Queued'
  BY <1>0 DEF HandOffInv, Queued, HandedOn
<1>6. InHand' /\ ClosesShipped'
  BY <1>0 DEF HandOffInv, InHand, ClosesShipped, MayClose, InTag, storage
<1> QED BY <1>3, <1>4, <1>5, <1>6 DEF HandOffInv

(* What GitHub makes of an item's event is one of its deliveries.          *)
LEMMA OfProper ==
  ASSUME NEW x \in Items, NEW event \in OwnEvents, event # "BUILD_SUCCEEDED",
         event = "RELEASE_PUBLISHED" => x \in Releases,
         event \in {"MERGED", "LABELLED_AI_REVIEWING", "CHECKS"} => x \in Pulls
  PROVE  /\ Proper(Of(x, event)) /\ Of(x, event).item = x /\ Of(x, event).event = event
BY DEF Of, Proper, Delivery

LEMMA EnvironmentKeeps ==
  ASSUME HandOffInv, Environment
  PROVE  HandOffInv'
<1> USE DEF Items
<1>t. /\ labels \in [Items -> SUBSET Labels] /\ merged \subseteq Pulls /\ green \subseteq Pulls
      /\ edits \in Nat /\ redelivered \in Nat
  BY DEF HandOffInv, TypeOK
<1>o. {"MERGED", "LABELLED_AI_REVIEWING", "CHECKS", "RELEASE_PUBLISHED", "BUILD_SUCCEEDED"} \subseteq OwnEvents
  BY DEF OwnEvents
<1>1. ASSUME NEW i \in Issues, NEW p \in Pulls, NEW by \in {"webhook", "signal"}, Report(i, p, by)
      PROVE  HandOffInv'
  <2> DEFINE d == [item |-> i, event |-> "BUILD_SUCCEEDED", pr |-> p, by |-> by]
  <2>1. Proper(d) /\ d.event # "MERGED"
    BY <1>o DEF Proper, Delivery
  <2>2. Deliver(d) /\ UNCHANGED <<labels, closed, merged, green, tag>>
    BY <1>1 DEF Report, github
  <2> HIDE DEF d
  <2> QED BY <1>t, <2>1, <2>2, DeliverKeeps
<1>2. ASSUME NEW p \in Pulls, Merge(p)  PROVE HandOffInv'
  <2>1. Proper(Of(p, "MERGED")) /\ Of(p, "MERGED").item = p
    BY <1>o, OfProper
  <2>2. Deliver(Of(p, "MERGED")) /\ merged' = merged \cup {p} /\ UNCHANGED <<labels, closed, green, tag>>
    BY <1>2 DEF Merge
  <2> QED BY <1>t, <2>1, <2>2, DeliverKeeps
<1>3. ASSUME NEW p \in Pulls, Checks(p)  PROVE HandOffInv'
  <2>1. Proper(Of(p, "CHECKS")) /\ Of(p, "CHECKS").event = "CHECKS"
    BY <1>o, OfProper
  <2>2. Deliver(Of(p, "CHECKS")) /\ green' = green \cup {p} /\ UNCHANGED <<labels, closed, merged, tag>>
    BY <1>3 DEF Checks
  <2> QED BY <1>t, <2>1, <2>2, DeliverKeeps
<1>4. ASSUME NEW p \in Pulls, LabelPull(p)  PROVE HandOffInv'
  <2> DEFINE d == Of(p, "LABELLED_AI_REVIEWING")
  <2>1. Proper(d) /\ d.event = "LABELLED_AI_REVIEWING"
    BY <1>o, OfProper
  <2>2. Deliver(d) /\ UNCHANGED <<closed, merged, green, tag>>
    BY <1>4 DEF LabelPull
  <2>3. labels' \in [Items -> SUBSET Labels]
    BY <1>4, <1>t DEF LabelPull, Labels
  <2> HIDE DEF d
  <2> QED BY <1>t, <2>1, <2>2, <2>3, DeliverKeeps
<1>5. ASSUME NEW r \in Releases, Publish(r)  PROVE HandOffInv'
  <2> DEFINE d == Of(r, "RELEASE_PUBLISHED")
  <2>1. Proper(d) /\ d.event = "RELEASE_PUBLISHED"
    BY <1>o, OfProper
  <2>2. Deliver(d) /\ UNCHANGED <<labels, closed, merged, green, tag>>
    BY <1>5 DEF Publish, github
  <2> HIDE DEF d
  <2> QED BY <1>t, <2>1, <2>2, DeliverKeeps
<1>6. ASSUME NEW r \in Releases, Cut(r)  PROVE HandOffInv'
  <2>0. /\ tag[r] = NotCut /\ tag' = [tag EXCEPT ![r] = merged]
        /\ UNCHANGED <<labels, closed, merged, green, storage, history, sent, waiting, job, acked, failed,
                       counters>>
    BY <1>6 DEF Cut
  <2>1. TypeOK'
    BY <1>t, <2>0 DEF HandOffInv, TypeOK, storage, history, counters
  <2>2. Sent' /\ Queued' /\ InHand'
    BY <2>0 DEF HandOffInv, Sent, Queued, InHand
  <2>3. ASSUME NEW i, NEW q, InTag(i, q), q \in Releases  PROVE InTag(i, q)'
    BY <2>0, <2>3 DEF InTag, storage, HandOffInv, TypeOK
  <2>4. ClosesShipped'
    <3> SUFFICES ASSUME NEW y \in Issues, job[y].pc = "write"  PROVE MayClose(y, job[y])'
      BY <2>0 DEF ClosesShipped
    <3>1. MayClose(y, job[y])
      BY DEF HandOffInv, ClosesShipped
    <3>2. job[y].event = "RELEASED" => job[y].d.item \in Releases
      BY JobInHand, IssueEvents DEF Sound
    <3> QED BY <2>0, <2>3, <3>1, <3>2 DEF MayClose
  <2> QED BY <2>1, <2>2, <2>4 DEF HandOffInv
<1>7. ASSUME NEW i \in Issues, NEW l \in {"PR_OPEN", "READY_FOR_RELEASE"}, Edit(i, l)  PROVE HandOffInv'
  <2>0. UNCHANGED <<closed, merged, green, tag, storage, history, sent, waiting, job, acked, failed,
                    faults, redelivered>>
    BY <1>7 DEF Edit
  <2>1. labels' \in [Items -> SUBSET Labels] /\ edits' \in Nat
    BY <1>7, <1>t DEF Edit, Labels
  <2>2. TypeOK'
    BY <2>0, <2>1 DEF HandOffInv, TypeOK, storage, history
  <2> QED BY <2>0, <2>2 DEF HandOffInv, Sent, Queued, InHand, ClosesShipped, MayClose, InTag, storage
<1>8. ASSUME NEW d \in sent, Redeliver(d)  PROVE HandOffInv'
  <2>0. /\ UNCHANGED <<github, storage, history, sent, job, acked, faults, edits>>
        /\ waiting' = waiting \cup {[d |-> d, to |-> d.item, awaited |-> TRUE]}
        /\ redelivered' = redelivered + 1 /\ failed' = failed \ {d}
    BY <1>8 DEF Redeliver
  <2>1. [d |-> d, to |-> d.item, awaited |-> TRUE] \in Request
    BY DEF HandOffInv, TypeOK, Delivery, Request
  <2>2. TypeOK'
    <3>t. waiting \subseteq Request /\ failed \subseteq sent
      BY DEF HandOffInv, TypeOK
    <3>1. waiting' \subseteq Request /\ failed' \subseteq sent
      BY <2>0, <2>1, <3>t
    <3>2. redelivered' \in Nat
      BY <1>t, <2>0
    <3> QED BY <2>0, <3>1, <3>2 DEF HandOffInv, TypeOK, github, storage, history
  <2>3. Queued'
    BY <2>0 DEF HandOffInv, Queued, HandedOn
  <2> QED BY <2>0, <2>2, <2>3 DEF HandOffInv, Sent, InHand, ClosesShipped, MayClose, InTag, github, storage
<1> QED BY <1>1, <1>2, <1>3, <1>4, <1>5, <1>6, <1>7, <1>8 DEF Environment

----------------------------------------------------------------------------
(* The invariant holds.                                                    *)

LEMMA HandOffInit == Init => HandOffInv
<1> SUFFICES ASSUME Init  PROVE HandOffInv
  OBVIOUS
<1>1. IdleJob \in Job /\ IdleJob.pc = "idle"
  BY DEF IdleJob, Job, PCs
<1>2. {{}, {"AI_READY"}, {"PR_OPEN"}, {"AUTO_RELEASING"}} \subseteq SUBSET Labels
  BY DEF Labels
<1>3. /\ labels \in [Items -> SUBSET Labels] /\ tag \in [Releases -> (SUBSET Pulls) \cup {NotCut}]
      /\ job \in [Items -> Job] /\ shipped \in [Issues -> Pulls \cup {NoMerge}] /\ fires \in [Pulls -> Nat]
  <2>1. labels \in [Items -> SUBSET Labels]
    <3>1. labels \in [Items -> {{}, {"AI_READY"}, {"PR_OPEN"}, {"AUTO_RELEASING"}}]
      BY DEF Init
    <3> QED BY <1>2, <3>1
  <2>2. tag \in [Releases -> (SUBSET Pulls) \cup {NotCut}] /\ fires \in [Pulls -> Nat]
    BY DEF Init
  <2>3. job \in [Items -> Job] /\ shipped \in [Issues -> Pulls \cup {NoMerge}]
    BY <1>1 DEF Init
  <2> QED BY <2>1, <2>2, <2>3
<1>4. TypeOK
  BY <1>3 DEF Init, TypeOK
<1>5. \A x \in Items : job[x].pc = "idle"
  BY <1>1 DEF Init
<1>6. \A x \in Issues : job[x].pc = "idle"
  BY <1>5 DEF Items
<1> QED BY <1>4, <1>5, <1>6 DEF Init, HandOffInv, Sent, Queued, InHand, ClosesShipped

LEMMA HandOffStep ==
  ASSUME HandOffInv, [Next]_vars
  PROVE  HandOffInv'
<1>1. ASSUME NEW x \in Items, Step(x)  PROVE HandOffInv'
  BY <1>1, TakeKeeps, DedupeKeeps, ReadLabelsKeeps, ReadPullKeeps, AddReviewingKeeps, ReadTagKeeps, WriteKeeps,
     ClearKeeps, LogKeeps, GateKeeps, ListKeeps, ForwardKeeps, FinishKeeps DEF Step
<1>2. CASE UNCHANGED vars
  BY <1>2 DEF vars, github, storage, history, counters, HandOffInv, TypeOK, Sent, Queued, InHand,
     ClosesShipped, MayClose, InTag
<1> QED BY <1>1, <1>2, ThrowKeeps, EvictKeeps, EnvironmentKeeps DEF Next

LEMMA HandOffInvHolds == Spec => []HandOffInv
BY HandOffInit, HandOffStep, PTL DEF Spec

(* Every reachable state of the hand-offs has its shape; in particular     *)
(* GitHub is only ever answered about deliveries it made.                  *)
THEOREM StagesTypeCorrect == Spec => []TypeOK
<1>1. HandOffInv => TypeOK
  BY DEF HandOffInv
<1> QED BY <1>1, HandOffInvHolds, PTL

----------------------------------------------------------------------------
(* What the stages promise.                                                *)

(* A step that moves none of what the promise is about stutters.           *)
LEMMA PromiseStutters ==
  ASSUME UNCHANGED <<merged, tag, shipped, closed>>,
         sent' = sent \/ \E d : sent' = sent \cup {d} /\ d.event # "RELEASE_PUBLISHED"
  PROVE  UNCHANGED Promise!vars
<1>1. Published' = Published
  BY DEF Published, Of
<1> QED BY <1>1 DEF Promise!vars

(* A merge moves an issue on when its hand-off is applied (prMerged).      *)
LEMMA LogPromises ==
  ASSUME HandOffInv, NEW x \in Items, Log(x)
  PROVE  [Promise!Next]_Promise!vars
<1> DEFINE j == job[x]
<1>0. /\ UNCHANGED <<merged, tag, closed, sent>>
      /\ shipped' = IF j.event = "PR_MERGED" THEN [shipped EXCEPT ![x] = j.d.item] ELSE shipped
  BY DEF Log, github
<1>1. CASE j.event = "PR_MERGED"
  <2>1. j \in Job /\ j.d \in sent /\ Proper(j.d) /\ Sound(x, j)
    BY JobInHand DEF Log
  <2>2. x \in Closing[j.d.item] /\ j.d.event = "MERGED" /\ j.d.item \in Pulls
    BY <1>1, <2>1, LogTo
  <2>3. j.d.item \in merged
    BY <2>1, <2>2 DEF HandOffInv, Sent
  <2>4. x \in Issues
    BY <2>2, StagesAssumption
  <2>5. Published' = Published
    BY <1>0 DEF Published
  <2>6. Promise!MoveOn(x, j.d.item)
    BY <1>0, <1>1, <2>2, <2>3, <2>5 DEF Promise!MoveOn
  <2> QED BY <2>2, <2>4, <2>6 DEF Promise!Next
<1>2. CASE j.event # "PR_MERGED"
  BY <1>0, <1>2, PromiseStutters
<1> QED BY <1>1, <1>2

(* An issue's closing call is made for a release that has its merge        *)
(* (released).                                                             *)
LEMMA WritePromises ==
  ASSUME HandOffInv, NEW x \in Items, Write(x)
  PROVE  [Promise!Next]_Promise!vars
<1> DEFINE j == job[x]
<1>0. /\ UNCHANGED <<merged, tag, shipped, sent>>
      /\ closed' = IF Head(j.ops).op = "close" THEN closed \cup {x} ELSE closed
      /\ j.pc = "write"
  BY DEF Write, storage
<1>p. Published' = Published
  BY <1>0 DEF Published
<1>1. CASE x \in Issues /\ Head(j.ops).op = "close"
  <2>1. j \in Job /\ j.d \in sent /\ Proper(j.d) /\ Sound(x, j) /\ j.ops # <<>> /\ j.ops \in Seq(OpType)
    BY <1>0, JobInHand DEF Sound, Job
  <2>2. ~NoClose(j.ops)
    BY <1>1, <2>1 DEF NoClose
  <2>3. j.event = "RELEASED" /\ InTag(x, j.d.item)
    BY <1>0, <1>1, <2>2 DEF HandOffInv, ClosesShipped, MayClose
  <2>4. j.d = Of(j.d.item, "RELEASE_PUBLISHED") /\ j.d.item \in Releases
    BY <1>1, <2>1, <2>3, IssueEvents DEF Sound
  <2>5. j.d.item \in Published
    BY <2>1, <2>4 DEF Published
  <2>6. (closed \cap Issues)' = (closed \cap Issues) \cup {x}
    BY <1>0, <1>1
  <2>7. Promise!CloseShipped(x)
    BY <1>0, <1>p, <2>3, <2>5, <2>6 DEF Promise!CloseShipped, InTag
  <2> QED BY <1>1, <2>7 DEF Promise!Next
<1>2. CASE ~(x \in Issues /\ Head(j.ops).op = "close")
  <2>1. (closed \cap Issues)' = closed \cap Issues
    BY <1>0, <1>2
  <2> QED BY <1>0, <1>p, <2>1 DEF Promise!vars
<1> QED BY <1>1, <1>2

(* GitHub merges, cuts and publishes as the promise has it.                *)
LEMMA EnvironmentPromises ==
  ASSUME HandOffInv, Environment
  PROVE  [Promise!Next]_Promise!vars
<1>1. ASSUME NEW i \in Issues, NEW p \in Pulls, NEW by \in {"webhook", "signal"}, Report(i, p, by)
      PROVE  UNCHANGED Promise!vars
  <2> DEFINE d == [item |-> i, event |-> "BUILD_SUCCEEDED", pr |-> p, by |-> by]
  <2>1. sent' = sent \cup {d} /\ UNCHANGED <<merged, tag, shipped, closed>>
    BY <1>1 DEF Report, Deliver, github, storage
  <2>2. d.event # "RELEASE_PUBLISHED"
    OBVIOUS
  <2> HIDE DEF d
  <2> QED BY <2>1, <2>2, PromiseStutters
<1>2. ASSUME NEW p \in Pulls, Merge(p)  PROVE [Promise!Next]_Promise!vars
  <2>1. /\ merged' = merged \cup {p} /\ UNCHANGED <<tag, shipped, closed>>
        /\ sent' = sent \cup {Of(p, "MERGED")}
    BY <1>2 DEF Merge, Deliver, storage
  <2>2. Published' = Published
    BY <2>1 DEF Published, Of
  <2>3. Promise!MergePull(p)
    BY <2>1, <2>2 DEF Promise!MergePull
  <2> QED BY <2>3 DEF Promise!Next
<1>3. ASSUME NEW p \in Pulls, Checks(p) \/ LabelPull(p)  PROVE UNCHANGED Promise!vars
  <2>1. /\ UNCHANGED <<merged, tag, shipped, closed>>
        /\ sent' = sent \cup {Of(p, "CHECKS")} \/ sent' = sent \cup {Of(p, "LABELLED_AI_REVIEWING")}
    BY <1>3 DEF Checks, LabelPull, Deliver, storage
  <2>2. Of(p, "CHECKS").event # "RELEASE_PUBLISHED" /\ Of(p, "LABELLED_AI_REVIEWING").event # "RELEASE_PUBLISHED"
    BY DEF Of
  <2> QED BY <2>1, <2>2, PromiseStutters
<1>4. ASSUME NEW r \in Releases, Cut(r)  PROVE [Promise!Next]_Promise!vars
  <2>1. tag[r] = NotCut /\ tag' = [tag EXCEPT ![r] = merged] /\ UNCHANGED <<merged, shipped, closed, sent>>
    BY <1>4 DEF Cut, storage
  <2>2. Published' = Published
    BY <2>1 DEF Published
  <2>3. Promise!CutBranch(r)
    BY <2>1, <2>2 DEF Promise!CutBranch
  <2> QED BY <2>3 DEF Promise!Next
<1>5. ASSUME NEW r \in Releases, Publish(r)  PROVE [Promise!Next]_Promise!vars
  <2>1. /\ tag[r] # NotCut /\ sent' = sent \cup {Of(r, "RELEASE_PUBLISHED")}
        /\ UNCHANGED <<merged, tag, shipped, closed>>
    BY <1>5 DEF Publish, Deliver, github, storage
  <2>2. Published' = Published \cup {r}
    BY <2>1 DEF Published, Of
  <2>3. Promise!PublishTag(r)
    BY <2>1, <2>2 DEF Promise!PublishTag
  <2> QED BY <2>3 DEF Promise!Next
<1>6. ASSUME NEW i \in Issues, NEW l, Edit(i, l)  PROVE UNCHANGED Promise!vars
  BY <1>6, PromiseStutters DEF Edit, storage
<1>7. ASSUME NEW d, Redeliver(d)  PROVE UNCHANGED Promise!vars
  BY <1>7, PromiseStutters DEF Redeliver, github, storage
<1> QED BY <1>1, <1>2, <1>3, <1>4, <1>5, <1>6, <1>7 DEF Environment

LEMMA StepPromises ==
  ASSUME HandOffInv, [Next]_vars
  PROVE  [Promise!Next]_Promise!vars
<1>1. ASSUME NEW x \in Items, Step(x)  PROVE [Promise!Next]_Promise!vars
  <2>1. CASE Write(x)
    BY <2>1, WritePromises
  <2>2. CASE Log(x)
    BY <2>2, LogPromises
  <2>3. ASSUME Take(x) \/ Dedupe(x) \/ KnownOutcome(x) \/ ReadLabels(x) \/ ReadPull(x) \/ ReadTag(x)
               \/ AddReviewing(x) \/ ClearPendingFire(x) \/ Gate(x) \/ List(x) \/ Forward(x) \/ Finish(x) \/ Unwind(x)
        PROVE  UNCHANGED <<merged, tag, shipped, closed, sent>>
    BY <2>3 DEF Take, Dedupe, KnownOutcome, ReadLabels, ReadPull, ReadTag, AddReviewing, ClearPendingFire, Gate, List,
       Forward, Finish, Unwind, github, storage
  <2> QED BY <1>1, <2>1, <2>2, <2>3, PromiseStutters DEF Step
<1>2. ASSUME NEW x \in Items, Throw(x) \/ Evict(x)  PROVE UNCHANGED <<merged, tag, shipped, closed, sent>>
  BY <1>2 DEF Throw, Evict, github, storage
<1>3. CASE UNCHANGED vars
  BY <1>3, PromiseStutters DEF vars, github, storage
<1> QED BY <1>1, <1>2, <1>3, EnvironmentPromises, PromiseStutters DEF Next

(* Whatever fails, is made again or is edited, an issue is moved on only   *)
(* by a merge of a PR that closes it, and closed only by a published       *)
(* release whose tag contains the merge it was moved on by (prMerged,      *)
(* released): the hand-offs implement what the stages promise.             *)
THEOREM PromiseIsKept == Spec => KeepsPromise
<1>1. Init => Promise!Init
  BY DEF Init, Promise!Init, Published
<1>2. HandOffInv /\ [Next]_vars => [Promise!Next]_Promise!vars
  BY StepPromises
<1> QED BY <1>1, <1>2, HandOffInvHolds, PTL DEF Spec, KeepsPromise, Promise!Spec
----------------------------------------------------------------------------
(* Who waits for whom.  Only the item a delivery is about hands it on, so  *)
(* one request is owed one answer (CallInv).                               *)

(* The item a merge is delivered to, at work on it.                        *)
Carries(x, j) == j.d.event = "MERGED" /\ x = j.d.item

MergePCs == {"read", "write", "clear", "log", "forward", "wait", "return", "thrown"}

(* A hand-off is its own item's, to one of the items still to do.          *)
Calling(x, j) ==
  /\ j.pc \in {"list", "forward", "wait"} => x = j.d.item
  /\ j.pc \in {"forward", "wait"} => x \notin j.todo
  /\ j.pc = "wait" => j.at \in j.todo

(* A merge is handed on to all its issues before its request returns.      *)
Routed(x, j) ==
  Carries(x, j) => /\ j.event = "MERGED" /\ j.pc \in MergePCs
                   /\ j.pc = "return" => j.todo = {}

Callers == \A x \in Items : job[x].pc # "idle" => Calling(x, job[x]) /\ Routed(x, job[x])

CallInv == HandOffInv /\ Callers /\ WaitsForAnswer

(* What a request goes on to without calling another item.                 *)
Onward(x, j, new) ==
  /\ new \in Job /\ new.d = j.d /\ new.awaited = j.awaited /\ new.pc \notin {"idle", "wait"}
  /\ Calling(x, new) /\ Routed(x, new)
  /\ Carries(x, j) /\ new.pc = "forward" => new.todo = Closing[x]
  /\ Carries(x, j) /\ new.pc = "return" => j.pc = "forward" /\ j.todo = new.todo

(* Moving on to a step that calls nobody.                                  *)
LEMMA OnwardBy ==
  ASSUME NEW x \in Items, NEW j \in Job, NEW pc \in PCs \ {"idle", "wait", "list", "forward"},
         Carries(x, j) => j.event = "MERGED" /\ pc \in MergePCs \ {"return"}
  PROVE  Onward(x, j, [j EXCEPT !.pc = pc])
BY DEF Onward, Calling, Routed, Carries, Job, MergePCs

(* A merge is handled as one, at its own item.                             *)
LEMMA CarriesEvent ==
  ASSUME NEW x \in Items, NEW d, Proper(d), d.event = "MERGED", x = d.item
  PROVE  /\ EventFor(d, x) = "MERGED" /\ x \in Pulls /\ Closing[x] \subseteq Issues /\ x \notin Closing[x]
BY StagesAssumption DEF EventFor, Proper

LEMMA ApplyEventOnward ==
  ASSUME NEW x \in Items, NEW j \in Job, Proper(j.d), Sound(x, j), j.pc # "forward",
         Carries(x, j) => j.event = "MERGED"
  PROVE  Onward(x, j, ApplyEvent(j))
<1> DEFINE state == StateBefore(j.found, j.event)
           rule  == Reduce(state, j.event)
           ops   == LabelOps(j.found, rule)
<1>1. CASE HasRule(state, j.event)
  <2>1. rule \in Rules
    BY <1>1, ReduceAnswers
  <2>2. ops \in Seq(OpType)
    BY <2>1, RulesType, LabelOpsType DEF Job
  <2>3. ApplyEvent(j) = [j EXCEPT !.pc = IF ops = <<>> THEN "clear" ELSE "write", !.ops = ops]
    BY <1>1 DEF ApplyEvent
  <2> HIDE DEF ops
  <2> QED BY <2>2, <2>3 DEF Onward, Calling, Routed, Carries, MergePCs, Job, PCs
<1>2. CASE ~HasRule(state, j.event) /\ j.event = "MERGED"
  <2>1. j.d.event = "MERGED" /\ x = j.d.item
    BY <1>2, EventNames DEF Sound, Proper
  <2>2. x \in Pulls /\ Closing[x] \subseteq Issues /\ x \notin Closing[x]
    BY <2>1, CarriesEvent
  <2>3. ApplyEvent(j) = [j EXCEPT !.pc = "forward", !.todo = Closing[x]]
    BY <1>2, <2>1 DEF ApplyEvent, Without
  <2>4. Closing[x] \in SUBSET Items
    BY <2>2 DEF Items
  <2> QED BY <1>2, <2>1, <2>2, <2>3, <2>4 DEF Onward, Calling, Routed, Carries, MergePCs, Job, PCs
<1>3. CASE ~HasRule(state, j.event) /\ j.event # "MERGED"
  <2>1. ApplyEvent(j) = [j EXCEPT !.pc = "return"]
    BY <1>3 DEF ApplyEvent, Without, Returns
  <2> QED BY <1>3, <2>1, OnwardBy DEF PCs
<1> QED BY <1>1, <1>2, <1>3

LEMMA HandleOnward ==
  ASSUME NEW x \in Items, NEW j \in Job, Proper(j.d), Sound(x, j), j.pc # "forward",
         Carries(x, j) => j.event = "MERGED"
  PROVE  Onward(x, j, Handle(x, j))
<1>1. CASE Handle(x, j) = ApplyEvent(j)
  BY <1>1, ApplyEventOnward
<1>2. CASE Handle(x, j) # ApplyEvent(j)
  <2>1. PICK pc \in {"open", "tag", "gate", "return"} : Handle(x, j) = [j EXCEPT !.pc = pc]
    BY <1>2 DEF Handle, Labelled, StartReview, Returns
  <2>2. j.event # "MERGED"
    BY <1>2 DEF Handle
  <2> QED BY <2>1, <2>2, OnwardBy DEF PCs
<1> QED BY <1>1, <1>2

(* A request in progress, with what it has called.                         *)
LEMMA JobCalls ==
  ASSUME CallInv, NEW x \in Items, job[x].pc # "idle"
  PROVE  /\ job[x] \in Job /\ Proper(job[x].d) /\ Sound(x, job[x])
         /\ Calling(x, job[x]) /\ Routed(x, job[x])
BY JobInHand DEF CallInv, Callers

(* Each step of a request that calls nobody goes onward.                   *)
GoesOnward(x) ==
  /\ job[x].pc # "idle"
  /\ \E new : Onward(x, job[x], new) /\ job' = [job EXCEPT ![x] = new]
  /\ UNCHANGED <<waiting, seen, done, acked>>

LEMMA ReadLabelsOnward ==
  ASSUME CallInv, NEW x \in Items, ReadLabels(x)
  PROVE  GoesOnward(x)
<1> DEFINE j == [job[x] EXCEPT !.found = labels[x]]
<1>0. job[x].pc = "read" /\ job' = [job EXCEPT ![x] = Handle(x, j)] /\ UNCHANGED <<waiting, seen, done, acked>>
  BY DEF ReadLabels, storage, history
<1>1. job[x] \in Job /\ Proper(job[x].d) /\ Sound(x, job[x]) /\ Routed(x, job[x])
  BY <1>0, JobCalls
<1>2. /\ j \in Job /\ j.d = job[x].d /\ j.awaited = job[x].awaited /\ j.pc = "read" /\ j.event = job[x].event
      /\ Sound(x, j)
  BY <1>0, <1>1 DEF Job, Sound, CallInv, HandOffInv, TypeOK
<1> HIDE DEF j
<1>3. Onward(x, j, Handle(x, j))
  BY <1>1, <1>2, HandleOnward DEF Routed, Carries
<1>4. Onward(x, job[x], Handle(x, j))
  BY <1>0, <1>2, <1>3 DEF Onward, Carries
<1> QED BY <1>0, <1>4 DEF GoesOnward

LEMMA ReadsOnward ==
  ASSUME CallInv, NEW x \in Items, ReadPull(x) \/ ReadTag(x)
  PROVE  GoesOnward(x)
<1>0. job[x].pc \in {"open", "tag"} /\ UNCHANGED <<waiting, seen, done, acked>>
  BY DEF ReadPull, ReadTag, storage, history
<1>1. job[x] \in Job /\ Proper(job[x].d) /\ Sound(x, job[x]) /\ Routed(x, job[x])
  BY <1>0, JobCalls
<1>2. ~Carries(x, job[x])
  BY <1>0, <1>1 DEF Routed, MergePCs
<1> DEFINE added == [job[x] EXCEPT !.pc = "add"]
<1>3. Onward(x, job[x], added)
  BY <1>1, <1>2, OnwardBy DEF PCs
<1>4. Onward(x, job[x], [job[x] EXCEPT !.pc = "return"])
  BY <1>1, <1>2, OnwardBy DEF PCs
<1>5. Onward(x, job[x], ApplyEvent(job[x]))
  BY <1>0, <1>1, <1>2, ApplyEventOnward
<1> HIDE DEF added
<1>6. PICK new \in {added, [job[x] EXCEPT !.pc = "return"], ApplyEvent(job[x])} : job' = [job EXCEPT ![x] = new]
  BY DEF ReadPull, ReadTag, Returns, added
<1> QED BY <1>0, <1>3, <1>4, <1>5, <1>6 DEF GoesOnward

LEMMA WriteOnward ==
  ASSUME CallInv, NEW x \in Items, Write(x)
  PROVE  GoesOnward(x)
<1>0. job[x].pc = "write" /\ UNCHANGED <<waiting, seen, done, acked>>
  BY DEF Write, storage, history
<1>1. job[x] \in Job /\ Sound(x, job[x]) /\ Routed(x, job[x]) /\ job[x].ops # <<>> /\ job[x].ops \in Seq(OpType)
  BY <1>0, JobCalls DEF Sound, Job
<1>2. PICK new : /\ new = [job[x] EXCEPT !.ops = Tail(job[x].ops),
                                         !.pc = IF Tail(job[x].ops) = <<>> THEN "clear" ELSE "write"]
                 /\ job' = [job EXCEPT ![x] = new]
  BY DEF Write
<1>3. Tail(job[x].ops) \in Seq(OpType)
  BY <1>1
<1>4. Onward(x, job[x], new)
  BY <1>0, <1>1, <1>2, <1>3 DEF Onward, Calling, Routed, Carries, MergePCs, Job, PCs
<1> QED BY <1>0, <1>2, <1>4 DEF GoesOnward

LEMMA AddReviewingOnward ==
  ASSUME CallInv, NEW x \in Items, AddReviewing(x)
  PROVE  GoesOnward(x)
<1> DEFINE j == [job[x] EXCEPT !.found = job[x].found \cup {"AI_REVIEWING"}]
<1>0. /\ job[x].pc = "add" /\ UNCHANGED <<waiting, seen, done, acked>>
      /\ job' = [job EXCEPT ![x] = StartReview(x, j)]
  BY DEF AddReviewing, storage, history
<1>1. job[x] \in Job /\ Proper(job[x].d) /\ Sound(x, job[x]) /\ Routed(x, job[x])
  BY <1>0, JobCalls
<1>2. ~Carries(x, job[x])
  BY <1>0, <1>1 DEF Routed, MergePCs
<1>3. /\ j \in Job /\ j.d = job[x].d /\ j.awaited = job[x].awaited /\ j.pc = "add" /\ Sound(x, j)
      /\ ~Carries(x, j)
  BY <1>0, <1>1, <1>2 DEF Job, Labels, Sound, Carries
<1> HIDE DEF j
<1>4. Onward(x, j, [j EXCEPT !.pc = "return"])
  BY <1>3, OnwardBy DEF PCs
<1>5. Onward(x, j, StartReview(x, j))
  BY <1>1, <1>3, <1>4, ApplyEventOnward DEF StartReview, Returns
<1>6. Onward(x, job[x], StartReview(x, j))
  BY <1>2, <1>3, <1>5 DEF Onward, Carries
<1> QED BY <1>0, <1>6 DEF GoesOnward

LEMMA ClearOnward ==
  ASSUME CallInv, NEW x \in Items, ClearPendingFire(x)
  PROVE  GoesOnward(x)
<1>0. /\ job[x].pc = "clear" /\ UNCHANGED <<waiting, seen, done, acked>>
      /\ job' = [job EXCEPT ![x] = [job[x] EXCEPT !.pc = "log"]]
  BY DEF ClearPendingFire, history
<1>1. job[x] \in Job /\ Routed(x, job[x])
  BY <1>0, JobCalls
<1>2. Onward(x, job[x], [job[x] EXCEPT !.pc = "log"])
  BY <1>1, OnwardBy DEF PCs, Routed, MergePCs
<1> QED BY <1>0, <1>2 DEF GoesOnward

LEMMA LogOnward ==
  ASSUME CallInv, NEW x \in Items, Log(x)
  PROVE  GoesOnward(x)
<1> DEFINE j  == job[x]
           to == CASE j.event = "BUILD_SUCCEEDED" -> {j.d.pr}
                   [] j.event = "MERGED"          -> Closing[x]
                   [] OTHER                       -> {}
<1>0. j.pc = "log" /\ UNCHANGED <<waiting, seen, done, acked>>
  BY DEF Log
<1>1. j \in Job /\ Proper(j.d) /\ Sound(x, j) /\ Routed(x, j)
  BY <1>0, JobCalls
<1>2. PICK new :
        /\ new = CASE j.event \in {"BUILD_SUCCEEDED", "MERGED"} -> [j EXCEPT !.pc = "forward", !.todo = to]
                   [] j.event = "RELEASE_PUBLISHED"     -> [j EXCEPT !.pc = "list"]
                   [] j.event = "LABELLED_AI_REVIEWING" -> [j EXCEPT !.pc = "gate"]
                   [] OTHER                             -> Returns(j)
        /\ job' = [job EXCEPT ![x] = new]
  BY DEF Log
<1>3. CASE j.event \in {"BUILD_SUCCEEDED", "MERGED"}
  <2>1. x = j.d.item /\ j.d.event = j.event
    BY <1>1, <1>3, EventNames DEF Sound, Proper
  <2>2. to \in SUBSET Items /\ x \notin to
    <3>1. CASE j.event = "MERGED"
      BY <1>1, <2>1, <3>1, CarriesEvent DEF Items
    <3>2. CASE j.event = "BUILD_SUCCEEDED"
      BY <1>1, <2>1, <3>2, StagesAssumption DEF Proper, Items
    <3> QED BY <1>3, <3>1, <3>2
  <2>3. j.event = "MERGED" => to = Closing[x]
    OBVIOUS
  <2>4. new = [j EXCEPT !.pc = "forward", !.todo = to]
    BY <1>2, <1>3
  <2> HIDE DEF to
  <2>5. Onward(x, j, new)
    BY <1>1, <2>1, <2>2, <2>3, <2>4 DEF Onward, Calling, Routed, Carries, MergePCs, Job, PCs
  <2> QED BY <1>0, <1>2, <2>5 DEF GoesOnward
<1>4. CASE j.event \notin {"BUILD_SUCCEEDED", "MERGED"}
  <2>1. ~Carries(x, j)
    BY <1>1, <1>4 DEF Routed
  <2>2. j.event = "RELEASE_PUBLISHED" => x = j.d.item
    BY <1>1, EventNames DEF Sound, Proper
  <2>3. PICK pc \in {"list", "gate", "return"} :
          new = [j EXCEPT !.pc = pc] /\ (pc = "list" => j.event = "RELEASE_PUBLISHED")
    BY <1>2, <1>4 DEF Returns
  <2>4. Onward(x, j, new)
    BY <1>1, <2>1, <2>2, <2>3 DEF Onward, Calling, Routed, Carries, Job, PCs
  <2> QED BY <1>0, <1>2, <2>4 DEF GoesOnward
<1> QED BY <1>3, <1>4

LEMMA GateOnward ==
  ASSUME CallInv, NEW x \in Items, Gate(x)
  PROVE  GoesOnward(x)
<1>0. job[x].pc = "gate" /\ UNCHANGED <<waiting, seen, done, acked>>
  BY DEF Gate
<1>1. job[x] \in Job /\ ~Carries(x, job[x])
  BY <1>0, JobCalls DEF Routed, MergePCs
<1>2. PICK new : /\ new \in {[job[x] EXCEPT !.pc = "log", !.event = "REVIEW_CI_PASSED"],
                             [job[x] EXCEPT !.pc = "return"]}
                 /\ job' = [job EXCEPT ![x] = new]
  BY DEF Gate, Returns
<1>3. "REVIEW_CI_PASSED" \in Events
  BY DEF Events
<1>4. Onward(x, job[x], new)
  BY <1>1, <1>2, <1>3 DEF Onward, Calling, Routed, Carries, Job, PCs
<1> QED BY <1>0, <1>2, <1>4 DEF GoesOnward

LEMMA ListOnward ==
  ASSUME CallInv, NEW x \in Items, List(x)
  PROVE  GoesOnward(x)
<1>0. job[x].pc = "list" /\ UNCHANGED <<waiting, seen, done, acked>>
  BY DEF List, storage
<1>1. job[x] \in Job /\ Proper(job[x].d) /\ Sound(x, job[x]) /\ Calling(x, job[x]) /\ ~Carries(x, job[x])
  BY <1>0, JobCalls DEF Routed, MergePCs
<1>2. x = job[x].d.item /\ x \in Releases
  BY <1>0, <1>1 DEF Calling, Sound, Proper
<1>3. ReadyIssues \in SUBSET Items /\ x \notin ReadyIssues
  BY <1>2, StagesAssumption DEF ReadyIssues, Items
<1>4. PICK new : /\ new = [job[x] EXCEPT !.pc = "forward", !.todo = ReadyIssues]
                 /\ job' = [job EXCEPT ![x] = new]
  BY DEF List
<1>5. Onward(x, job[x], new)
  BY <1>1, <1>2, <1>3, <1>4 DEF Onward, Calling, Routed, Carries, Job, PCs
<1> QED BY <1>0, <1>4, <1>5 DEF GoesOnward

LEMMA EndOnward ==
  ASSUME CallInv, NEW x \in Items, Throw(x) \/ (Forward(x) /\ job[x].todo = {})
  PROVE  GoesOnward(x)
<1>0. job[x].pc # "idle" /\ UNCHANGED <<waiting, seen, done, acked>>
  BY DEF Throw, Forward, storage, history
<1>1. job[x] \in Job /\ Routed(x, job[x])
  BY <1>0, JobCalls
<1>2. CASE Throw(x)
  <2>1. Onward(x, job[x], [job[x] EXCEPT !.pc = "thrown"])
    BY <1>1, OnwardBy DEF PCs, Routed, MergePCs
  <2> QED BY <1>0, <1>2, <2>1 DEF GoesOnward, Throw
<1>3. CASE Forward(x) /\ job[x].todo = {}
  <2>1. Onward(x, job[x], [job[x] EXCEPT !.pc = "return"])
    BY <1>1, <1>3 DEF Forward, Onward, Calling, Routed, Carries, MergePCs, Job, PCs
  <2> QED BY <1>0, <1>3, <2>1 DEF GoesOnward, Forward, Returns
<1> QED BY <1>2, <1>3

(* A call, and an item's answer to it being on its way.                   *)
Call(y, d) == [d |-> d, to |-> y, awaited |-> TRUE]

Answering(y, d) ==
  \/ job[y].pc # "idle" /\ job[y].d = d /\ job[y].awaited
  \/ Call(y, d) \in waiting

(* Whoever waits, waits for another item.                                  *)
LEMMA WaiterCalls ==
  ASSUME CallInv, NEW x \in Items, job[x].pc = "wait"
  PROVE  /\ x = job[x].d.item /\ job[x].at \in Items \ {x}
         /\ Answering(job[x].at, job[x].d)
<1>1. job[x] \in Job /\ Calling(x, job[x])
  BY JobCalls
<1>2. job[x].todo \in SUBSET Items
  BY <1>1 DEF Job
<1> QED BY <1>1, <1>2 DEF Calling, CallInv, WaitsForAnswer, Answering, Call

LEMMA WaitersKept ==
  ASSUME \A x \in Items : job'[x].pc = "wait" => Answering(job[x].at, job[x].d)'
  PROVE  WaitsForAnswer'
BY DEF WaitsForAnswer, Answering, Call

(* A request that calls nobody leaves every waiter its answer.             *)
LEMMA OnwardKeeps ==
  ASSUME CallInv, NEW x \in Items, GoesOnward(x)
  PROVE  Callers' /\ WaitsForAnswer'
<1>1. PICK new : Onward(x, job[x], new) /\ job' = [job EXCEPT ![x] = new]
  BY DEF GoesOnward
<1>2. job'[x] = new /\ \A y \in Items \ {x} : job'[y] = job[y]
  BY <1>1 DEF CallInv, HandOffInv, TypeOK
<1>3. Callers'
  BY <1>1, <1>2 DEF Callers, CallInv, Onward
<1>4. WaitsForAnswer'
  <2> SUFFICES ASSUME NEW z \in Items, job'[z].pc = "wait"  PROVE Answering(job[z].at, job[z].d)'
    BY WaitersKept
  <2>1. z # x /\ job'[z] = job[z]
    BY <1>1, <1>2 DEF Onward
  <2>2. job[z].at \in Items /\ Answering(job[z].at, job[z].d)
    BY <2>1, WaiterCalls
  <2>3. waiting' = waiting
    BY DEF GoesOnward
  <2>4. CASE job[z].at = x
    BY <1>1, <1>2, <2>1, <2>2, <2>3, <2>4 DEF Onward, Answering
  <2>5. CASE job[z].at # x
    BY <1>2, <2>1, <2>2, <2>3, <2>5 DEF Answering
  <2> QED BY <2>4, <2>5
<1> QED BY <1>3, <1>4

(* A call is queued at the item called.                                    *)
LEMMA ForwardCalls ==
  ASSUME CallInv, NEW x \in Items, Forward(x), job[x].todo # {}
  PROVE  Callers' /\ WaitsForAnswer'
<1>1. PICK y \in job[x].todo :
        /\ waiting' = waiting \cup {Call(y, job[x].d)}
        /\ job' = [job EXCEPT ![x].pc = "wait", ![x].at = y]
  BY DEF Forward, Call
<1>2. job[x].pc = "forward" /\ job[x] \in Job /\ Calling(x, job[x]) /\ Routed(x, job[x])
  BY JobCalls DEF Forward
<1>3. PICK new : new = [job[x] EXCEPT !.pc = "wait", !.at = y] /\ job' = [job EXCEPT ![x] = new]
  BY <1>1
<1>4. /\ new.pc = "wait" /\ new.at = y /\ new.d = job[x].d /\ new.awaited = job[x].awaited
      /\ new.todo = job[x].todo /\ new.event = job[x].event
  BY <1>2, <1>3 DEF Job
<1>5. job'[x] = new /\ \A z \in Items \ {x} : job'[z] = job[z]
  BY <1>3 DEF CallInv, HandOffInv, TypeOK
<1>w. Call(y, job[x].d) \in waiting' /\ waiting \subseteq waiting'
  BY <1>1
<1>6. Callers'
  <2>1. Calling(x, new) /\ Routed(x, new)
    BY <1>1, <1>2, <1>4 DEF Calling, Routed, Carries, MergePCs
  <2> QED BY <1>5, <2>1 DEF Callers, CallInv
<1>7. WaitsForAnswer'
  <2> SUFFICES ASSUME NEW z \in Items, job'[z].pc = "wait"  PROVE Answering(job[z].at, job[z].d)'
    BY WaitersKept
  <2>1. CASE z = x
    BY <1>w, <1>4, <1>5, <2>1 DEF Answering
  <2>2. CASE z # x
    <3>1. job'[z] = job[z]
      BY <1>5, <2>2
    <3>2. job[z].at \in Items /\ Answering(job[z].at, job[z].d)
      BY <3>1, WaiterCalls
    <3>3. CASE job[z].at = x
      BY <1>w, <1>4, <1>5, <3>1, <3>2, <3>3 DEF Answering
    <3>4. CASE job[z].at # x
      BY <1>w, <1>5, <3>1, <3>2, <3>4 DEF Answering
    <3> QED BY <3>3, <3>4
  <2> QED BY <2>1, <2>2
<1> QED BY <1>6, <1>7

(* A call taken up is still owed its answer.                               *)
LEMMA TakeCalls ==
  ASSUME CallInv, NEW x \in Items, Take(x)
  PROVE  Callers' /\ WaitsForAnswer'
<1>1. PICK w \in waiting : w.to = x /\ waiting' = waiting \ {w} /\ job' = [job EXCEPT ![x] = Begin(w)]
  BY DEF Take
<1>2. w \in Request /\ w.d \in Delivery /\ Proper(w.d)
  BY DEF CallInv, HandOffInv, TypeOK, Queued, Sent, Request
<1>3. PICK new : new = Begin(w) /\ job' = [job EXCEPT ![x] = new]
  BY <1>1
<1>4. new.pc = "read" /\ new.d = w.d /\ new.awaited = w.awaited /\ new.event = EventFor(w.d, x)
  BY <1>1, <1>3 DEF Begin, IdleJob
<1>5. job'[x] = new /\ \A z \in Items \ {x} : job'[z] = job[z]
  BY <1>3 DEF CallInv, HandOffInv, TypeOK
<1>6. Callers'
  <2>1. Calling(x, new)
    BY <1>4 DEF Calling
  <2>2. Routed(x, new)
    BY <1>2, <1>4, CarriesEvent DEF Routed, Carries, MergePCs
  <2> QED BY <1>5, <2>1, <2>2 DEF Callers, CallInv
<1>7. WaitsForAnswer'
  <2> SUFFICES ASSUME NEW z \in Items, job'[z].pc = "wait"  PROVE Answering(job[z].at, job[z].d)'
    BY WaitersKept
  <2>1. z # x /\ job'[z] = job[z]
    BY <1>4, <1>5
  <2>2. job[z].at \in Items /\ Answering(job[z].at, job[z].d)
    BY <2>1, WaiterCalls
  <2>3. job[x].pc = "idle"
    BY DEF Take
  <2>4. CASE job[z].at = x
    <3>1. Call(x, job[z].d) \in waiting
      BY <2>2, <2>3, <2>4 DEF Answering
    <3>2. CASE w = Call(x, job[z].d)
      BY <1>4, <1>5, <2>1, <2>4, <3>2 DEF Answering, Call
    <3>3. CASE w # Call(x, job[z].d)
      BY <1>1, <2>1, <2>4, <3>1, <3>3 DEF Answering
    <3> QED BY <3>2, <3>3
  <2>5. CASE job[z].at # x
    BY <1>1, <1>5, <2>1, <2>2, <2>5 DEF Answering, Call
  <2> QED BY <2>4, <2>5
<1> QED BY <1>6, <1>7

(* What an answer makes of another's request.                              *)
Answered(z, x, d, awaited, ok) ==
  /\ job'[z].d = job[z].d /\ job'[z].awaited = job[z].awaited /\ job'[z].event = job[z].event
  /\ \/ job'[z] = job[z] /\ ~HearsOf(z, x, d, awaited)
     \/ /\ job[z].pc = "wait" /\ job[z].at = x /\ job[z].d = d
        /\ job'[z].pc = (IF ok THEN "forward" ELSE "thrown")
        /\ job'[z].todo = (IF ok THEN job[z].todo \ {x} ELSE job[z].todo)

LEMMA AnswerMoves ==
  ASSUME job \in [Items -> Job], NEW x \in Items, NEW d, NEW awaited \in BOOLEAN, NEW ok \in BOOLEAN,
         Answer(x, d, awaited, ok)
  PROVE  job'[x].pc = "idle" /\ \A z \in Items \ {x} : Answered(z, x, d, awaited, ok)
<1>0. job'[x].pc = "idle"
  BY DEF Answer, IdleJob
<1> SUFFICES ASSUME NEW z \in Items \ {x}  PROVE Answered(z, x, d, awaited, ok)
  BY <1>0
<1>1. job[z] \in Job
  OBVIOUS
<1>2. job'[z] = IF HearsOf(z, x, d, awaited)
                THEN IF ok THEN [job[z] EXCEPT !.pc = "forward", !.todo = @ \ {x}, !.at = Nobody]
                           ELSE [job[z] EXCEPT !.pc = "thrown", !.at = Nobody]
                ELSE job[z]
  BY DEF Answer
<1>3. CASE HearsOf(z, x, d, awaited)
  <2>1. job[z].pc = "wait" /\ job[z].at = x /\ job[z].d = d
    BY <1>3 DEF HearsOf, CallOf
  <2> QED BY <1>1, <1>2, <1>3, <2>1 DEF Job, Answered
<1>4. CASE ~HearsOf(z, x, d, awaited)
  BY <1>1, <1>2, <1>4 DEF Answered
<1> QED BY <1>3, <1>4

(* An answer reaches whoever waits for it.                                 *)
LEMMA AnswerCalls ==
  ASSUME CallInv, NEW x \in Items, NEW d, NEW awaited \in BOOLEAN, NEW ok \in BOOLEAN,
         Answer(x, d, awaited, ok),
         job[x].pc # "idle" => job[x].d = d /\ job[x].awaited = awaited,
         \A y, e : Call(y, e) \in waiting \ waiting' => y = x /\ e = d /\ awaited
  PROVE  Callers' /\ WaitsForAnswer'
<1>0. job'[x].pc = "idle" /\ \A z \in Items \ {x} : Answered(z, x, d, awaited, ok)
  <2>1. job \in [Items -> Job]
    BY DEF CallInv, HandOffInv, TypeOK
  <2> QED BY <2>1, AnswerMoves
<1>1. ASSUME NEW z \in Items, job'[z].pc # "idle"
      PROVE  Calling(z, job'[z]) /\ Routed(z, job'[z])
  <2>1. z # x
    BY <1>0, <1>1
  <2>2. CASE job'[z] = job[z]
    BY <1>1, <2>2 DEF CallInv, Callers
  <2>3. CASE job'[z] # job[z]
    <3>1. /\ job'[z].d = job[z].d /\ job'[z].event = job[z].event /\ job[z].pc = "wait"
          /\ \/ job'[z].pc = "forward" /\ job'[z].todo = job[z].todo \ {x}
             \/ job'[z].pc = "thrown"
      BY <1>0, <2>1, <2>3 DEF Answered
    <3>2. Calling(z, job[z]) /\ Routed(z, job[z])
      BY <3>1, JobCalls
    <3> QED BY <3>1, <3>2 DEF Calling, Routed, Carries, MergePCs
  <2> QED BY <2>2, <2>3
<1>2. Callers'
  BY <1>1 DEF Callers
<1>3. ASSUME NEW z \in Items, job'[z].pc = "wait"
      PROVE  Answering(job[z].at, job[z].d)'
  <2>1. z # x
    BY <1>0, <1>3
  <2>2. job'[z] = job[z] /\ ~HearsOf(z, x, d, awaited)
    BY <1>0, <1>3, <2>1 DEF Answered
  <2>3. job[z].at \in Items /\ Answering(job[z].at, job[z].d)
    BY <1>3, <2>2, WaiterCalls
  <2>4. CASE job[z].at = x
    <3>1. ~(awaited /\ job[z].d = d)
      BY <1>3, <2>2, <2>4 DEF HearsOf, CallOf
    <3>2. Call(x, job[z].d) \in waiting
      BY <2>3, <2>4, <3>1 DEF Answering
    <3>3. Call(x, job[z].d) \in waiting'
      BY <3>1, <3>2
    <3> QED BY <2>2, <2>4, <3>3 DEF Answering
  <2>5. CASE job[z].at # x
    <3>1. job'[job[z].at].d = job[job[z].at].d /\ job'[job[z].at].awaited = job[job[z].at].awaited
      BY <1>0, <2>3, <2>5 DEF Answered
    <3>2. job[job[z].at].pc # "idle" => job'[job[z].at].pc # "idle"
      BY <1>0, <2>3, <2>5 DEF Answered
    <3>3. Call(job[z].at, job[z].d) \in waiting => Call(job[z].at, job[z].d) \in waiting'
      BY <2>5
    <3> QED BY <2>2, <2>3, <3>1, <3>2, <3>3 DEF Answering
  <2> QED BY <2>4, <2>5
<1> QED BY <1>2, <1>3, WaitersKept

LEMMA DedupeCalls ==
  ASSUME CallInv, NEW x \in Items, Dedupe(x) \/ KnownOutcome(x)
  PROVE  Callers' /\ WaitsForAnswer'
<1> PICK w \in waiting : waiting' = waiting \ {w} /\ w.to = x /\ Answer(x, w.d, w.awaited, TRUE)
  BY DEF Dedupe, KnownOutcome
<1>1. w.awaited \in BOOLEAN /\ job[x].pc = "idle"
  BY DEF CallInv, HandOffInv, TypeOK, Request, Dedupe, KnownOutcome
<1>2. ASSUME NEW y, NEW e, Call(y, e) \in waiting \ waiting'
      PROVE  y = x /\ e = w.d /\ w.awaited
  <2>1. w = Call(y, e)
    BY <1>2
  <2> QED BY <2>1 DEF Call
<1> QED BY <1>1, <1>2, AnswerCalls

LEMMA FinishCalls ==
  ASSUME CallInv, NEW x \in Items, Finish(x) \/ Unwind(x)
  PROVE  Callers' /\ WaitsForAnswer'
<1>1. waiting' = waiting
  BY DEF Finish, Unwind
<1>2. job[x].awaited \in BOOLEAN
  BY JobCalls DEF Finish, Unwind, Job
<1>3. PICK ok \in BOOLEAN : Answer(x, job[x].d, job[x].awaited, ok)
  BY DEF Finish, Unwind
<1> QED BY <1>1, <1>2, <1>3, AnswerCalls

(* An eviction fails whoever waits for what it loses, and no one else      *)
(* waits for what the evicted item had called.                             *)
LEMMA EvictCalls ==
  ASSUME CallInv, NEW x \in Items, Evict(x)
  PROVE  Callers' /\ WaitsForAnswer'
<1>1. PICK gone \in SUBSET {w \in waiting : w.to = x} :
       /\ job' = [y \in Items |->
            CASE y = x -> IdleJob
              [] y # x /\ LosesCall(y, x, gone) -> [job[y] EXCEPT !.pc = "thrown", !.at = Nobody]
              [] y # x /\ ~LosesCall(y, x, gone) /\ CallOf(x, y, job[y].d) ->
                   [job[y] EXCEPT !.awaited = FALSE]
              [] OTHER -> job[y]]
       /\ waiting' = {IF CallOf(x, w.to, w.d) THEN [w EXCEPT !.awaited = FALSE] ELSE w :
                      w \in waiting \ gone}
  BY DEF Evict
<1>2. job \in [Items -> Job] /\ job[x].pc # "idle" /\ IdleJob.pc = "idle" /\ job'[x] = IdleJob
  BY <1>1 DEF CallInv, HandOffInv, TypeOK, Evict, IdleJob
<1>3. ASSUME NEW z \in Items \ {x}
      PROVE  /\ job'[z].d = job[z].d /\ job'[z].event = job[z].event /\ job'[z].todo = job[z].todo
             /\ job[z].pc # "idle" => job'[z].pc # "idle"
             /\ job'[z].awaited = job[z].awaited \/ CallOf(x, z, job[z].d)
             /\ \/ job'[z].pc = "thrown" /\ job[z].pc = "wait"
                \/ job'[z].pc = job[z].pc /\ job'[z].at = job[z].at /\ ~LosesCall(z, x, gone)
  <2>1. job[z] \in Job
    BY <1>2
  <2>2. job'[z] = IF LosesCall(z, x, gone) THEN [job[z] EXCEPT !.pc = "thrown", !.at = Nobody]
                  ELSE IF CallOf(x, z, job[z].d) THEN [job[z] EXCEPT !.awaited = FALSE] ELSE job[z]
    BY <1>1
  <2>3. CASE LosesCall(z, x, gone)
    <3>1. job[z].pc = "wait"
      BY <2>3 DEF LosesCall
    <3> QED BY <2>1, <2>2, <2>3, <3>1 DEF Job
  <2>4. CASE ~LosesCall(z, x, gone)
    BY <2>1, <2>2, <2>4 DEF Job
  <2> QED BY <2>3, <2>4
<1>4. Callers'
  <2> SUFFICES ASSUME NEW z \in Items, job'[z].pc # "idle"  PROVE Calling(z, job'[z]) /\ Routed(z, job'[z])
    BY DEF Callers
  <2>1. z # x
    BY <1>2
  <2>2. job[z].pc # "idle"
    BY <1>3, <2>1
  <2>3. Calling(z, job[z]) /\ Routed(z, job[z])
    BY <2>2, JobCalls
  <2> QED BY <1>3, <2>1, <2>3 DEF Calling, Routed, Carries, MergePCs
<1>5. ASSUME NEW z \in Items, job'[z].pc = "wait"
      PROVE  Answering(job[z].at, job[z].d)'
  <2>1. z # x
    BY <1>2, <1>5
  <2>2. job[z].pc = "wait" /\ job'[z].at = job[z].at /\ job'[z].d = job[z].d /\ ~LosesCall(z, x, gone)
    BY <1>3, <1>5, <2>1
  <2> DEFINE y == job[z].at
             d == job[z].d
  <2>3. y \in Items \ {z} /\ Answering(y, d) /\ z = d.item
    BY <2>2, WaiterCalls
  <2>4. ~CallOf(x, y, d)
    <3> SUFFICES ASSUME CallOf(x, y, d)  PROVE FALSE
      OBVIOUS
    <3>1. x = job[x].d.item /\ job[x].d = d
      BY WaiterCalls DEF CallOf
    <3> QED BY <2>1, <2>3, <3>1
  <2>5. CASE Call(y, d) \in waiting
    <3>1. Call(y, d) \notin gone
      <4>1. Call(y, d) \in gone => y = x
        BY DEF Call
      <4>2. Call(y, d) = [d |-> job[z].d, to |-> y, awaited |-> TRUE]
        BY DEF Call
      <4> QED BY <2>2, <4>1, <4>2 DEF LosesCall
    <3>2. Call(y, d).to = y /\ Call(y, d).d = d
      BY DEF Call
    <3>3. Call(y, d) \in waiting'
      BY <1>1, <2>4, <2>5, <3>1, <3>2
    <3> QED BY <2>2, <3>3 DEF Answering
  <2>6. CASE job[y].pc # "idle" /\ job[y].d = d /\ job[y].awaited
    <3>1. y # x
      BY <2>2, <2>6 DEF LosesCall
    <3>2. job'[y].pc # "idle" /\ job'[y].d = d /\ job'[y].awaited
      BY <1>3, <2>3, <2>4, <2>6, <3>1
    <3> QED BY <2>2, <3>2 DEF Answering
  <2> QED BY <2>3, <2>5, <2>6 DEF Answering
<1> QED BY <1>4, <1>5, WaitersKept

(* Where no item moves, no waiter does.                                    *)
LEMMA NoneMoves ==
  ASSUME CallInv, job' = job, waiting \subseteq waiting'
  PROVE  Callers' /\ WaitsForAnswer'
BY DEF CallInv, Callers, WaitsForAnswer

LEMMA EnvironmentCalls ==
  ASSUME CallInv, Environment
  PROVE  Callers' /\ WaitsForAnswer'
<1>1. job' = job /\ waiting \subseteq waiting'
  BY DEF Environment, Report, Merge, Checks, LabelPull, Cut, Publish, Edit, Redeliver, Deliver
<1> QED BY <1>1, NoneMoves

LEMMA CallInit == Init => CallInv
<1> SUFFICES ASSUME Init  PROVE CallInv
  OBVIOUS
<1>1. \A x \in Items : job[x].pc = "idle"
  BY DEF Init, IdleJob
<1> QED BY <1>1, HandOffInit DEF CallInv, Callers, WaitsForAnswer

LEMMA CallStep ==
  ASSUME CallInv, [Next]_vars
  PROVE  CallInv'
<1>0. HandOffInv'
  BY HandOffStep DEF CallInv
<1>1. ASSUME NEW x \in Items, Step(x)  PROVE Callers' /\ WaitsForAnswer'
  BY <1>1, ReadLabelsOnward, ReadsOnward, AddReviewingOnward, WriteOnward, ClearOnward, LogOnward, GateOnward,
     ListOnward, EndOnward, OnwardKeeps, ForwardCalls, TakeCalls, DedupeCalls, FinishCalls DEF Step
<1>2. ASSUME NEW x \in Items, Throw(x)  PROVE Callers' /\ WaitsForAnswer'
  BY <1>2, EndOnward, OnwardKeeps
<1>3. CASE UNCHANGED vars
  <2>1. job' = job /\ waiting \subseteq waiting'
    BY <1>3 DEF vars
  <2> QED BY <1>0, <2>1, NoneMoves DEF CallInv
<1> QED BY <1>0, <1>1, <1>2, <1>3, EvictCalls, EnvironmentCalls DEF Next, CallInv

LEMMA CallInvHolds == Spec => []CallInv
BY CallInit, CallStep, PTL DEF Spec

(* Whatever fails and is lost, an item that waits for another's answer     *)
(* will have one: the item it waits for has the request, in progress or    *)
(* queued, and knows that it is waited for (issue-coordinator.ts's         *)
(* forward).                                                               *)
THEOREM AnswersAreOnTheirWay == Spec => []WaitsForAnswer
<1>1. CallInv => WaitsForAnswer
  BY DEF CallInv
<1> QED BY <1>1, CallInvHolds, PTL

----------------------------------------------------------------------------
(* A review is fired once.                                                 *)

Reviewing == {"AI_REVIEWING"}

PullEvents == {"MERGED", "LABELLED_AI_REVIEWING", "CHECKS"}

(* A PR's request: no rule of its events writes a label or, once a review  *)
(* is out, comes to the clear of its pending fire.                         *)
PullJob(p, j) ==
  /\ j.found \subseteq Reviewing
  /\ j.pc # "write"
  /\ j.event = "REVIEW_CI_PASSED" => j.pc \in {"log", "return", "thrown"}
  /\ j.pc = "clear" => p \notin review

(* A review fired on a PR is pending ever after.                           *)
FiredAt(p) == /\ labels[p] \subseteq Reviewing /\ PullJob(p, job[p])
              /\ fires[p] = 0 \/ (fires[p] = 1 /\ p \in review)

FiredInv == \A p \in Pulls : FiredAt(p)

(* What a PR's request is about.                                           *)
LEMMA EventsAtPull ==
  ASSUME NEW p \in Pulls, NEW d, Proper(d), HandedOn(d, p)
  PROVE  EventFor(d, p) \in PullEvents
<1>1. d.event \in OwnEvents /\ p \notin Issues /\ p \notin Releases
  BY StagesAssumption DEF Proper, Delivery
<1>2. CASE p = d.item
  BY <1>1, <1>2 DEF Proper, OwnEvents, EventFor, PullEvents
<1>3. CASE p # d.item
  <2>1. d.event = "BUILD_SUCCEEDED"
    BY <1>1, <1>3, StagesAssumption DEF HandedOn, Proper
  <2> QED BY <1>3, <2>1 DEF EventFor, PullEvents
<1> QED BY <1>2, <1>3

LEMMA PullInHand ==
  ASSUME HandOffInv, NEW p \in Pulls, job[p].pc # "idle"
  PROVE  job[p] \in Job /\ (job[p].event \in PullEvents \/ job[p].event = "REVIEW_CI_PASSED")
<1>1. p \in Items
  BY DEF Items
<1> QED BY <1>1, JobInHand, EventsAtPull DEF Sound

(* The table's rules for a PR with no label, or AI_REVIEWING alone.        *)
LEMMA PullRulesAre ==
  ASSUME NEW r \in Rules
  PROVE  /\ r.on \notin {"MERGED", "CHECKS"} \/ r.from \notin {"none", "AI_REVIEWING"}
         /\ r.on = "LABELLED_AI_REVIEWING" /\ r.from = "none" => r.to = "AI_REVIEWING"
BY SMTT(60) DEF Rules, IssueRules, ReleaseRules, MergeRules, ReviewRules, OutcomeRules, StageRules,
     UnlabelRules, WatchdogRules, StuckRules, Labels, NoRun, Rule, Fires, Moves, TakesOff, Closes, Stays

LEMMA PullStates ==
  /\ DeriveState({}) = "none" /\ DeriveState(Reviewing) = "AI_REVIEWING"
  /\ StateBefore(Reviewing, "LABELLED_AI_REVIEWING") = "none"
  /\ \A event \in {"MERGED", "CHECKS"} :
       StateBefore({}, event) = "none" /\ StateBefore(Reviewing, event) = "AI_REVIEWING"
<1>1. DeriveState({}) = "none"
  BY DEF DeriveState
<1>2. DeriveState(Reviewing) = "AI_REVIEWING"
  <2>1. Cardinality({"AI_REVIEWING"}) = 1 /\ {"AI_REVIEWING"} \cap Labels = {"AI_REVIEWING"}
    BY FS_Singleton DEF Labels
  <2> QED BY <2>1 DEF DeriveState, Reviewing
<1>3. Reviewing \ {"AI_REVIEWING"} = {} /\ \A s : s \ {} = s
  BY DEF Reviewing
<1>4. /\ JustAdded("LABELLED_AI_REVIEWING") = {"AI_REVIEWING"}
      /\ \A event \in {"MERGED", "CHECKS"} : JustAdded(event) = {}
  BY DEF JustAdded
<1> QED BY <1>1, <1>2, <1>3, <1>4 DEF StateBefore

(* A PR's request after its rule: only the label's comes to the clear, and *)
(* none needs a call.                                                      *)
LEMMA ApplyAtPull ==
  ASSUME NEW j \in Job, j.found \subseteq Reviewing, j.event \in PullEvents,
         j.event = "LABELLED_AI_REVIEWING" => j.found = Reviewing
  PROVE  LET a == ApplyEvent(j)
         IN  /\ a.found = j.found /\ a.event = j.event /\ a.pc \in {"clear", "forward", "return"}
             /\ a.pc = "clear" => j.event = "LABELLED_AI_REVIEWING"
<1> DEFINE state == StateBefore(j.found, j.event)
           rule  == Reduce(state, j.event)
<1>1. j.found \in {{}, Reviewing}
  BY DEF Reviewing
<1>2. CASE j.event \in {"MERGED", "CHECKS"}
  <2>1. state \in {"none", "AI_REVIEWING"}
    BY <1>1, <1>2, PullStates
  <2>2. ~HasRule(state, j.event)
    BY <1>2, <2>1, ReduceAnswers, PullRulesAre
  <2>3. ApplyEvent(j) = Without(j)
    BY <2>2 DEF ApplyEvent
  <2> QED BY <1>2, <2>3 DEF Without, Returns, Job
<1>3. CASE j.event = "LABELLED_AI_REVIEWING"
  <2>1. state = "none"
    BY <1>3, PullStates
  <2>2. CASE HasRule(state, j.event)
    <3>1. rule \in Rules /\ rule.from = "none" /\ rule.to = "AI_REVIEWING"
      BY <1>3, <2>1, <2>2, ReduceAnswers, PullRulesAre
    <3>2. LabelOps(j.found, rule) = <<>>
      BY <1>3, <3>1 DEF LabelOps, Reviewing
    <3>3. ApplyEvent(j) = [j EXCEPT !.pc = "clear", !.ops = <<>>]
      BY <2>2, <3>2 DEF ApplyEvent
    <3> QED BY <1>3, <3>3 DEF Job
  <2>3. CASE ~HasRule(state, j.event)
    <3>1. ApplyEvent(j) = [j EXCEPT !.pc = "return"]
      BY <1>3, <2>3 DEF ApplyEvent, Without, Returns
    <3> QED BY <1>3, <3>1 DEF Job
  <2> QED BY <2>2, <2>3
<1> QED BY <1>2, <1>3 DEF PullEvents

(* The label's rule is applied only to a PR whose review is not out.       *)
LEMMA StartsOnce ==
  ASSUME NEW p \in Pulls, NEW j \in Job, j.found = Reviewing, j.event \in PullEvents
  PROVE  PullJob(p, StartReview(p, j))
<1>1. CASE p \in review
  <2>1. StartReview(p, j) = [j EXCEPT !.pc = "return"]
    BY <1>1 DEF StartReview, ReviewOut, Returns
  <2> QED BY <2>1 DEF PullJob, Job, PullEvents
<1>2. CASE p \notin review
  <2>1. StartReview(p, j) = ApplyEvent(j)
    BY <1>2 DEF StartReview, ReviewOut
  <2>2. LET a == ApplyEvent(j)
        IN  a.found = j.found /\ a.event = j.event /\ a.pc \in {"clear", "forward", "return"}
    BY ApplyAtPull
  <2> QED BY <1>2, <2>1, <2>2 DEF PullJob, PullEvents
<1> QED BY <1>1, <1>2

LEMMA HandlesOnce ==
  ASSUME NEW p \in Pulls, NEW j \in Job, j.found \subseteq Reviewing, j.event \in PullEvents
  PROVE  PullJob(p, Handle(p, j))
<1>1. CASE Handle(p, j) = StartReview(p, j) /\ j.found = Reviewing
  BY <1>1, StartsOnce
<1>2. ASSUME NEW pc \in {"open", "gate", "return"}, Handle(p, j) = [j EXCEPT !.pc = pc]  PROVE PullJob(p, Handle(p, j))
  BY <1>2 DEF PullJob, Job, PullEvents
<1>3. CASE j.event = "LABELLED_AI_REVIEWING"
  <2>1. Handle(p, j) = Labelled(p, j)
    BY <1>3 DEF Handle
  <2>2. "AI_REVIEWING" \in j.found => j.found = Reviewing
    BY DEF Reviewing
  <2>3. \/ Handle(p, j) \in {[j EXCEPT !.pc = "open"], [j EXCEPT !.pc = "return"]}
        \/ Handle(p, j) = StartReview(p, j) /\ j.found = Reviewing
    BY <2>1, <2>2 DEF Labelled, Returns
  <2> QED BY <1>1, <1>2, <2>3
<1>4. CASE j.event = "CHECKS"
  <2>1. Handle(p, j) \in {[j EXCEPT !.pc = "gate"], [j EXCEPT !.pc = "return"]}
    BY <1>4 DEF Handle, Returns
  <2> QED BY <1>2, <2>1
<1>5. CASE j.event = "MERGED"
  <2>1. Handle(p, j) = ApplyEvent(j)
    BY <1>5 DEF Handle
  <2>2. LET a == ApplyEvent(j)
        IN  a.found = j.found /\ a.event = j.event /\ a.pc \in {"forward", "return"}
    BY <1>5, ApplyAtPull
  <2> QED BY <1>5, <2>1, <2>2 DEF PullJob
<1> QED BY <1>3, <1>4, <1>5 DEF PullEvents

(* A request that goes on as it is, or ends.                               *)
GoesQuietly(p) ==
  \/ job'[p] = IdleJob
  \/ /\ job'[p].found = job[p].found /\ job'[p].event = job[p].event
     /\ \/ job'[p].pc = job[p].pc
        \/ job'[p].pc = "thrown"
        \/ job'[p].pc = "return"
        \/ job'[p].pc # "write" /\ job'[p].pc # "clear" /\ job[p].event # "REVIEW_CI_PASSED"

(* No review is fired, and each PR's request is as it should be.           *)
LEMMA FiredKept ==
  ASSUME FiredInv, UNCHANGED <<review, fires>>,
         \A p \in Pulls : labels'[p] \subseteq Reviewing /\ (GoesQuietly(p) \/ PullJob(p, job'[p]))
  PROVE  FiredInv'
<1> SUFFICES ASSUME NEW p \in Pulls  PROVE FiredAt(p)'
  BY DEF FiredInv
<1>1. FiredAt(p)
  BY DEF FiredInv
<1>2. PullJob(p, job'[p])
  <2>1. CASE job'[p] = IdleJob
    BY <2>1 DEF PullJob, IdleJob
  <2>2. CASE GoesQuietly(p) /\ job'[p] # IdleJob
    BY <1>1, <2>2 DEF FiredAt, PullJob, GoesQuietly
  <2> QED BY <2>1, <2>2
<1> QED BY <1>1, <1>2 DEF FiredAt, PullJob

(* One item's request goes on, and its labels are changed at most.         *)
LEMMA OneFired ==
  ASSUME HandOffInv, FiredInv, NEW x \in Items, NEW new, job' = [job EXCEPT ![x] = new],
         UNCHANGED <<review, fires>>,
         \A y \in Items \ {x} : labels'[y] = labels[y],
         x \in Pulls => labels'[x] \subseteq Reviewing /\ (GoesQuietly(x) \/ PullJob(x, new))
  PROVE  FiredInv'
<1>1. job'[x] = new /\ \A y \in Items \ {x} : job'[y] = job[y]
  BY DEF HandOffInv, TypeOK
<1>2. ASSUME NEW p \in Pulls
      PROVE  labels'[p] \subseteq Reviewing /\ (GoesQuietly(p) \/ PullJob(p, job'[p]))
  <2>1. p \in Items /\ labels[p] \subseteq Reviewing
    BY DEF Items, FiredInv, FiredAt
  <2> QED BY <1>1, <2>1 DEF GoesQuietly
<1> QED BY <1>2, FiredKept

LEMMA TakeFired ==
  ASSUME HandOffInv, FiredInv, NEW x \in Items, Take(x)
  PROVE  FiredInv'
<1>1. PICK w \in waiting : w.to = x /\ job' = [job EXCEPT ![x] = Begin(w)]
  BY DEF Take
<1>2. UNCHANGED <<labels, review, fires>> /\ HandedOn(w.d, x) /\ Proper(w.d)
  BY <1>1 DEF Take, github, history, HandOffInv, Queued, Sent
<1>3. Begin(w).pc = "read" /\ Begin(w).found = {} /\ Begin(w).event = EventFor(w.d, x)
  BY <1>1 DEF Begin, IdleJob
<1>4. x \in Pulls => labels[x] \subseteq Reviewing /\ PullJob(x, Begin(w))
  BY <1>2, <1>3, EventsAtPull DEF FiredInv, FiredAt, PullJob, PullEvents
<1> HIDE DEF Begin
<1> QED BY <1>1, <1>2, <1>4, OneFired

LEMMA ReadLabelsFired ==
  ASSUME HandOffInv, FiredInv, NEW x \in Items, ReadLabels(x)
  PROVE  FiredInv'
<1> DEFINE j == [job[x] EXCEPT !.found = labels[x]]
<1>0. job[x].pc = "read" /\ job' = [job EXCEPT ![x] = Handle(x, j)] /\ UNCHANGED <<labels, review, fires>>
  BY DEF ReadLabels, github, storage, history
<1>1. ASSUME x \in Pulls  PROVE labels[x] \subseteq Reviewing /\ PullJob(x, Handle(x, j))
  <2>1. labels[x] \subseteq Reviewing /\ PullJob(x, job[x])
    BY <1>1 DEF FiredInv, FiredAt
  <2>2. job[x] \in Job /\ job[x].event \in PullEvents
    BY <1>0, <1>1, <2>1, PullInHand DEF PullJob
  <2>3. j \in Job /\ j.found = labels[x] /\ j.event = job[x].event
    BY <2>2 DEF Job, HandOffInv, TypeOK
  <2> HIDE DEF j
  <2> QED BY <1>1, <2>1, <2>2, <2>3, HandlesOnce
<1> HIDE DEF j
<1> QED BY <1>0, <1>1, OneFired

LEMMA AddReviewingFired ==
  ASSUME HandOffInv, FiredInv, NEW x \in Items, AddReviewing(x)
  PROVE  FiredInv'
<1> DEFINE j == [job[x] EXCEPT !.found = job[x].found \cup {"AI_REVIEWING"}]
<1>0. /\ job[x].pc = "add" /\ job' = [job EXCEPT ![x] = StartReview(x, j)] /\ UNCHANGED <<review, fires>>
      /\ labels' = [labels EXCEPT ![x] = @ \cup {"AI_REVIEWING"}] /\ labels \in [Items -> SUBSET Labels]
  BY DEF AddReviewing, storage, history, HandOffInv, TypeOK
<1>1. ASSUME x \in Pulls  PROVE labels'[x] \subseteq Reviewing /\ PullJob(x, StartReview(x, j))
  <2>1. labels[x] \subseteq Reviewing /\ PullJob(x, job[x])
    BY <1>1 DEF FiredInv, FiredAt
  <2>2. job[x] \in Job /\ job[x].event \in PullEvents
    BY <1>0, <1>1, <2>1, PullInHand DEF PullJob
  <2>3. j \in Job /\ j.found = Reviewing /\ j.event = job[x].event
    BY <2>1, <2>2 DEF Job, Labels, Reviewing, PullJob
  <2> HIDE DEF j
  <2>4. PullJob(x, StartReview(x, j))
    BY <1>1, <2>2, <2>3, StartsOnce
  <2>5. labels'[x] \subseteq Reviewing
    BY <1>0, <2>1 DEF Reviewing
  <2> QED BY <2>4, <2>5
<1> HIDE DEF j
<1> QED BY <1>0, <1>1, OneFired

(* A clear of the pending fire is none of a PR whose review is out.        *)
LEMMA ClearFired ==
  ASSUME HandOffInv, FiredInv, NEW x \in Items, ClearPendingFire(x)
  PROVE  FiredInv'
<1>0. /\ job[x].pc = "clear" /\ job' = [job EXCEPT ![x] = [job[x] EXCEPT !.pc = "log"]]
      /\ review' = review \ {x} /\ UNCHANGED <<labels, fires>>
  BY DEF ClearPendingFire, github, history
<1>1. x \notin review
  BY <1>0 DEF HandOffInv, TypeOK, FiredInv, FiredAt, PullJob
<1>2. ASSUME x \in Pulls  PROVE labels[x] \subseteq Reviewing /\ PullJob(x, [job[x] EXCEPT !.pc = "log"])
  <2>1. labels[x] \subseteq Reviewing /\ PullJob(x, job[x])
    BY <1>2 DEF FiredInv, FiredAt
  <2>2. job[x] \in Job
    BY DEF HandOffInv, TypeOK
  <2> QED BY <2>1, <2>2 DEF PullJob, Job
<1> QED BY <1>0, <1>1, <1>2, OneFired

(* The gate fires a review that is not out.                                *)
LEMMA GateFired ==
  ASSUME HandOffInv, FiredInv, NEW x \in Items, Gate(x)
  PROVE  FiredInv'
<1>1. fires \in [Pulls -> Nat] /\ green \subseteq Pulls /\ job \in [Items -> Job] /\ job[x].pc = "gate" /\ labels' = labels
  BY DEF HandOffInv, TypeOK, Gate, github
<1>2. CASE x \in green /\ x \notin review
  <2>1. /\ review' = review \cup {x} /\ fires' = [fires EXCEPT ![x] = @ + 1]
        /\ job' = [job EXCEPT ![x] = [@ EXCEPT !.pc = "log", !.event = "REVIEW_CI_PASSED"]]
    BY <1>2 DEF Gate, ReviewOut
  <2>2. /\ job'[x].pc = "log" /\ job'[x].found = job[x].found
        /\ \A y \in Items \ {x} : job'[y] = job[y]
    BY <1>1, <2>1 DEF Job
  <2> SUFFICES ASSUME NEW p \in Pulls  PROVE FiredAt(p)'
    BY DEF FiredInv
  <2>3. p \in Items /\ FiredAt(p)
    BY DEF Items, FiredInv
  <2>4. CASE p = x
    BY <1>1, <1>2, <2>1, <2>2, <2>3, <2>4 DEF FiredAt, PullJob
  <2>5. CASE p # x
    <3>1. /\ job'[p] = job[p] /\ fires'[p] = fires[p] /\ (p \in review' <=> p \in review)
          /\ labels'[p] = labels[p]
      BY <1>1, <2>1, <2>2, <2>3, <2>5
    <3> QED BY <2>3, <3>1 DEF FiredAt, PullJob
  <2> QED BY <2>4, <2>5
<1>3. CASE ~(x \in green /\ x \notin review)
  <2>1. job' = [job EXCEPT ![x] = [job[x] EXCEPT !.pc = "return"]] /\ UNCHANGED <<review, fires>>
    BY <1>3 DEF Gate, ReviewOut, Returns
  <2>2. x \in Pulls => labels[x] \subseteq Reviewing /\ PullJob(x, [job[x] EXCEPT !.pc = "return"])
    BY <1>1 DEF FiredInv, FiredAt, PullJob, Job
  <2> QED BY <1>1, <2>1, <2>2, OneFired
<1> QED BY <1>2, <1>3

(* The steps at a PR that leave its labels and its review alone.           *)
LEMMA QuietFired ==
  ASSUME HandOffInv, FiredInv, NEW x \in Items,
         ReadPull(x) \/ Log(x) \/ List(x) \/ Forward(x) \/ Throw(x)
  PROVE  FiredInv'
<1>1. job[x].pc \notin {"idle", "clear", "write"} \/ Throw(x)
  BY DEF ReadPull, Log, List, Forward
<1>2. PICK new : job' = [job EXCEPT ![x] = new]
  BY DEF ReadPull, Log, List, Forward, Throw
<1>3. UNCHANGED <<labels, review, fires>> /\ job \in [Items -> Job]
  BY DEF ReadPull, Log, List, Forward, Throw, github, storage, history, HandOffInv, TypeOK
<1>4. job'[x] = new /\ job[x] \in Job
  BY <1>2, <1>3
<1>5. ASSUME x \in Pulls  PROVE labels[x] \subseteq Reviewing /\ GoesQuietly(x)
  <2>1. labels[x] \subseteq Reviewing /\ PullJob(x, job[x])
    BY <1>5 DEF FiredInv, FiredAt
  <2>2. CASE ReadPull(x)
    BY <1>2, <1>3, <1>4, <2>1, <2>2 DEF ReadPull, Returns, Job, PullJob, GoesQuietly
  <2>3. CASE Log(x)
    <3>1. /\ job'[x].found = job[x].found /\ job'[x].event = job[x].event
          /\ job'[x].pc \in {"forward", "list", "gate", "return"}
          /\ job[x].event = "REVIEW_CI_PASSED" => job'[x].pc = "return"
      BY <1>3, <1>4, <2>3 DEF Log, Returns, Job
    <3>2. CASE job[x].event = "REVIEW_CI_PASSED"
      BY <2>1, <3>1, <3>2 DEF GoesQuietly
    <3>3. CASE job[x].event # "REVIEW_CI_PASSED"
      <4>1. job'[x].pc # "write" /\ job'[x].pc # "clear"
        BY <3>1
      <4> QED BY <2>1, <3>1, <3>3, <4>1 DEF GoesQuietly
    <3> QED BY <3>2, <3>3
  <2>4. CASE List(x) \/ Forward(x)
    <3>1. /\ job'[x].found = job[x].found /\ job'[x].event = job[x].event
          /\ job'[x].pc \in {"forward", "wait", "return"}
      <4>1. CASE List(x)
        BY <1>3, <1>4, <4>1 DEF List, Job
      <4>2. CASE Forward(x)
        BY <1>3, <1>4, <4>2 DEF Forward, Returns, Job
      <4> QED BY <2>4, <4>1, <4>2
    <3>2. job[x].event # "REVIEW_CI_PASSED"
      BY <2>1, <2>4 DEF List, Forward, PullJob
    <3>3. job'[x].pc # "write" /\ job'[x].pc # "clear"
      BY <3>1
    <3> QED BY <2>1, <3>1, <3>2, <3>3 DEF GoesQuietly
  <2>5. CASE Throw(x)
    <3>1. job' = [job EXCEPT ![x] = [job[x] EXCEPT !.pc = "thrown"]]
      BY <2>5 DEF Throw
    <3>2. job'[x] = [job[x] EXCEPT !.pc = "thrown"]
      BY <1>3, <3>1
    <3>3. job'[x].found = job[x].found /\ job'[x].event = job[x].event /\ job'[x].pc = "thrown"
      BY <1>4, <3>2 DEF Job
    <3> QED BY <2>1, <3>3 DEF GoesQuietly
  <2> QED BY <2>1, <2>2, <2>3, <2>4, <2>5
<1> QED BY <1>2, <1>3, <1>5, OneFired

(* No PR is at a release's tag, or at a call of its rule's.                *)
LEMMA ElsewhereFired ==
  ASSUME HandOffInv, FiredInv, NEW x \in Items, ReadTag(x) \/ Write(x)
  PROVE  FiredInv'
<1>1. x \notin Pulls
  <2>1. CASE ReadTag(x)
    BY <2>1, JobInHand, PullInHand DEF ReadTag, Sound, PullEvents
  <2>2. CASE Write(x)
    BY <2>2 DEF Write, FiredInv, FiredAt, PullJob
  <2> QED BY <2>1, <2>2
<1>2. (\E new : job' = [job EXCEPT ![x] = new]) /\ UNCHANGED <<review, fires>>
  <2>1. CASE ReadTag(x)
    BY <2>1 DEF ReadTag, storage, history
  <2>2. CASE Write(x)
    <3>1. \E ops, pc : job' = [job EXCEPT ![x] = [job[x] EXCEPT !.ops = ops, !.pc = pc]]
      BY <2>2 DEF Write
    <3> QED BY <2>2, <3>1 DEF Write, storage, history
  <2> QED BY <2>1, <2>2
<1>3. \A y \in Items \ {x} : labels'[y] = labels[y]
  BY DEF ReadTag, Write, github, HandOffInv, TypeOK
<1> QED BY <1>1, <1>2, <1>3, OneFired

(* An answer, and a lost object, move requests on as they are.             *)
LEMMA AnswerFired ==
  ASSUME HandOffInv, FiredInv, NEW x \in Items,
         Dedupe(x) \/ KnownOutcome(x) \/ Finish(x) \/ Unwind(x) \/ Evict(x)
  PROVE  FiredInv'
<1>1. UNCHANGED <<labels, review, fires>>
  BY DEF Dedupe, KnownOutcome, Finish, Unwind, Evict, github, storage, history
<1>2. ASSUME NEW p \in Pulls, job[p].pc = "wait"  PROVE job[p].event # "REVIEW_CI_PASSED"
  BY <1>2 DEF FiredInv, FiredAt, PullJob
<1>3. ASSUME NEW d, NEW awaited, NEW ok, Answer(x, d, awaited, ok), NEW p \in Pulls  PROVE GoesQuietly(p)
  <2>1. p \in Items /\ job[p] \in Job
    BY DEF Items, HandOffInv, TypeOK
  <2>2. \/ job'[p] = IdleJob \/ job'[p] = job[p]
        \/ /\ job[p].pc = "wait"
           /\ \/ job'[p] = [job[p] EXCEPT !.pc = "forward", !.todo = @ \ {x}, !.at = Nobody]
              \/ job'[p] = [job[p] EXCEPT !.pc = "thrown", !.at = Nobody]
    BY <1>3, <2>1 DEF Answer, HearsOf, CallOf
  <2> QED BY <1>2, <2>1, <2>2 DEF GoesQuietly, Job
<1>4. ASSUME Evict(x), NEW p \in Pulls  PROVE GoesQuietly(p)
  <2>1. p \in Items /\ job[p] \in Job
    BY DEF Items, HandOffInv, TypeOK
  <2>2. \/ job'[p] = IdleJob \/ job'[p] = job[p]
        \/ job'[p] = [job[p] EXCEPT !.pc = "thrown", !.at = Nobody]
        \/ job'[p] = [job[p] EXCEPT !.awaited = FALSE]
    BY <1>4, <2>1 DEF Evict
  <2> QED BY <2>1, <2>2 DEF GoesQuietly, Job
<1>5. \A p \in Pulls : GoesQuietly(p)
  BY <1>3, <1>4 DEF Dedupe, KnownOutcome, Finish, Unwind
<1>6. \A p \in Pulls : labels'[p] \subseteq Reviewing
  BY <1>1 DEF FiredInv, FiredAt
<1> QED BY <1>1, <1>5, <1>6, FiredKept

LEMMA OutsideFired ==
  ASSUME HandOffInv, FiredInv, Environment \/ UNCHANGED vars
  PROVE  FiredInv'
<1>1. UNCHANGED <<job, review, fires>>
  BY DEF Environment, Report, Merge, Checks, LabelPull, Cut, Publish, Edit, Redeliver, Deliver, vars, storage, history
<1>2. ASSUME NEW p \in Pulls  PROVE labels'[p] \subseteq labels[p] \cup Reviewing
  <2>1. labels \in [Items -> SUBSET Labels] /\ p \in Items /\ p \notin Issues
    BY StagesAssumption DEF HandOffInv, TypeOK, Items
  <2>2. ASSUME NEW q \in Pulls, LabelPull(q)  PROVE labels'[p] \subseteq labels[p] \cup Reviewing
    BY <2>1, <2>2 DEF LabelPull, Reviewing
  <2>3. ASSUME NEW i \in Issues, NEW l, Edit(i, l)  PROVE labels'[p] = labels[p]
    BY <2>1, <2>3 DEF Edit
  <2>4. CASE UNCHANGED labels
    BY <2>4
  <2> QED BY <2>2, <2>3, <2>4 DEF Environment, Report, Merge, Checks, Cut, Publish, Redeliver, vars, github
<1>3. ASSUME NEW p \in Pulls  PROVE labels'[p] \subseteq Reviewing /\ GoesQuietly(p)
  BY <1>1, <1>2 DEF FiredInv, FiredAt, GoesQuietly
<1> QED BY <1>1, <1>3, FiredKept

LEMMA FiredStep ==
  ASSUME HandOffInv, FiredInv, [Next]_vars
  PROVE  FiredInv'
<1>1. ASSUME NEW x \in Items, Step(x)  PROVE FiredInv'
  BY <1>1, TakeFired, ReadLabelsFired, AddReviewingFired, ClearFired, GateFired, QuietFired, ElsewhereFired,
     AnswerFired DEF Step
<1> QED BY <1>1, QuietFired, AnswerFired, OutsideFired DEF Next

(* Asked for by the issue whose build made the PR, by a person's label, or *)
(* by either made again after a failure, a PR's review is fired once: a    *)
(* fire that is pending stays so, since the label's rule, which would end  *)
(* its watch, is not applied to a PR whose review is out (webhook.ts), and *)
(* the gate fires none beside it (review-gate.ts); an item handles one     *)
(* request at a time, so neither reads a memory that another changes.      *)
THEOREM ReviewFiredOnce == Spec => []ReviewOnce
<1>1. Init => FiredInv
  <2> SUFFICES ASSUME Init, NEW p \in Pulls  PROVE FiredAt(p)
    BY DEF FiredInv
  <2>1. labels[p] = {} /\ job[p] = IdleJob /\ fires[p] = 0
    BY DEF Init, Items
  <2> QED BY <2>1 DEF FiredAt, PullJob, IdleJob
<1>2. HandOffInv /\ FiredInv /\ [Next]_vars => FiredInv'
  BY FiredStep
<1>3. FiredInv => ReviewOnce
  BY DEF FiredInv, FiredAt, ReviewOnce
<1> QED BY <1>1, <1>2, <1>3, HandOffInvHolds, PTL DEF Spec

----------------------------------------------------------------------------
(* A merge answered well is handed on, unless an object is lost at work:   *)
(* then its claim stays, and the redelivery is taken for one handled.      *)

(* A merge claimed is handled, or in progress.                             *)
Claimed ==
  \A c \in seen : c[1].event = "MERGED" =>
    c \in done \/ (job[c[2]].pc # "idle" /\ job[c[2]].d = c[1])

(* What a merge no longer has to be handed on to has handled it.           *)
MergeSteps ==
  \A x \in Items : job[x].pc \in {"forward", "wait", "return"} /\ Carries(x, job[x]) =>
    \A i \in Closing[x] \ job[x].todo : <<job[x].d, i>> \in done

(* A merge its PR has handled is handled by all it closes.                 *)
MergeEnds ==
  \A c \in done : c[1].event = "MERGED" /\ c[2] = c[1].item =>
    \A i \in Closing[c[2]] : <<c[1], i>> \in done

HandedInv == CallInv /\ Claimed /\ MergeSteps /\ MergeEnds /\ MergesHandedOn

LEMMA OnwardHands ==
  ASSUME HandedInv, NEW x \in Items, GoesOnward(x)
  PROVE  Claimed' /\ MergeSteps'
<1>1. PICK new : Onward(x, job[x], new) /\ job' = [job EXCEPT ![x] = new]
  BY DEF GoesOnward
<1>2. job'[x] = new /\ \A y \in Items \ {x} : job'[y] = job[y]
  BY <1>1 DEF HandedInv, CallInv, HandOffInv, TypeOK
<1>3. UNCHANGED <<seen, done>> /\ job[x].pc # "idle" /\ seen \subseteq Delivery \X Items
  BY DEF GoesOnward, HandedInv, CallInv, HandOffInv, TypeOK
<1>4. Claimed'
  <2>1. new.pc # "idle" /\ new.d = job[x].d
    BY <1>1 DEF Onward
  <2> QED BY <1>2, <1>3, <2>1 DEF Claimed, HandedInv
<1>5. MergeSteps'
  <2> SUFFICES ASSUME NEW y \in Items, job'[y].pc \in {"forward", "wait", "return"}, Carries(y, job'[y]),
                      NEW i \in Closing[y] \ job'[y].todo
               PROVE  <<job'[y].d, i>> \in done
    BY <1>3 DEF MergeSteps, Carries
  <2>1. CASE y = x
    <3>1. new.d = job[x].d /\ Carries(x, job[x]) /\ new.pc # "wait"
      BY <1>1, <1>2, <2>1 DEF Onward, Carries
    <3>2. new.pc = "return" /\ job[x].pc = "forward" /\ job[x].todo = new.todo
      BY <1>1, <1>2, <2>1, <3>1 DEF Onward
    <3> QED BY <1>2, <2>1, <3>1, <3>2 DEF HandedInv, MergeSteps
  <2>2. CASE y # x
    BY <1>2, <2>2 DEF HandedInv, MergeSteps
  <2> QED BY <2>1, <2>2
<1> QED BY <1>4, <1>5

LEMMA ForwardHands ==
  ASSUME HandedInv, NEW x \in Items, Forward(x), job[x].todo # {}
  PROVE  Claimed' /\ MergeSteps'
<1>1. PICK y : job' = [job EXCEPT ![x] = [job[x] EXCEPT !.pc = "wait", !.at = y]]
  BY DEF Forward
<1>2. job \in [Items -> Job] /\ job[x].pc = "forward" /\ UNCHANGED <<seen, done>> /\ seen \subseteq Delivery \X Items
  BY DEF Forward, history, HandedInv, CallInv, HandOffInv, TypeOK
<1>3. /\ job'[x].pc = "wait" /\ job'[x].d = job[x].d /\ job'[x].todo = job[x].todo
      /\ \A z \in Items \ {x} : job'[z] = job[z]
  BY <1>1, <1>2 DEF Job
<1>4. Claimed'
  BY <1>2, <1>3 DEF Claimed, HandedInv
<1>5. MergeSteps'
  <2> SUFFICES ASSUME NEW z \in Items, job'[z].pc \in {"forward", "wait", "return"}, Carries(z, job'[z]),
                      NEW i \in Closing[z] \ job'[z].todo
               PROVE  <<job'[z].d, i>> \in done
    BY <1>2 DEF MergeSteps, Carries
  <2> QED BY <1>2, <1>3 DEF HandedInv, MergeSteps, Carries
<1> QED BY <1>4, <1>5

LEMMA TakeHands ==
  ASSUME HandedInv, NEW x \in Items, Take(x)
  PROVE  Claimed' /\ MergeSteps'
<1>1. PICK w \in waiting : seen' = seen \cup {<<w.d, x>>} /\ job' = [job EXCEPT ![x] = Begin(w)]
  BY DEF Take
<1>2. job \in [Items -> Job] /\ job[x].pc = "idle" /\ done' = done /\ seen \subseteq Delivery \X Items
  BY DEF Take, history, HandedInv, CallInv, HandOffInv, TypeOK
<1>3. Begin(w).pc = "read" /\ Begin(w).d = w.d
  BY DEF Begin, IdleJob
<1>4. job'[x] = Begin(w) /\ \A z \in Items \ {x} : job'[z] = job[z]
  BY <1>1, <1>2
<1>5. Claimed'
  <2> SUFFICES ASSUME NEW c \in seen', c[1].event = "MERGED"
               PROVE  c \in done \/ (job'[c[2]].pc # "idle" /\ job'[c[2]].d = c[1])
    BY <1>2 DEF Claimed
  <2>1. CASE c = <<w.d, x>>
    BY <1>3, <1>4, <2>1
  <2>2. CASE c # <<w.d, x>>
    <3>1. c \in seen /\ c[2] \in Items
      BY <1>1, <1>2, <2>2
    <3>2. c \in done \/ (job[c[2]].pc # "idle" /\ job[c[2]].d = c[1])
      BY <3>1 DEF HandedInv, Claimed
    <3> QED BY <1>2, <1>4, <3>1, <3>2
  <2> QED BY <2>1, <2>2
<1>6. MergeSteps'
  BY <1>2, <1>3, <1>4 DEF HandedInv, MergeSteps
<1> QED BY <1>5, <1>6

(* A step in which an item is done with a merge, and keeps or releases it. *)
DoneWith(x, d, ok) ==
  /\ done' \in {done, done \cup {<<d, x>>}}
  /\ \A c \in seen' : c[1].event = "MERGED" => c \in seen
  /\ \A c \in seen' : c[1].event = "MERGED" /\ c[2] = x => c \in done'
  /\ ok /\ d.event = "MERGED" => <<d, x>> \in done'
  /\ <<d, x>> \in done' \ done /\ d.event = "MERGED" /\ x = d.item =>
       \A i \in Closing[x] : <<d, i>> \in done'

(* An answer that an item handled a merge is given where it did.           *)
LEMMA AnswerHands ==
  ASSUME HandedInv, NEW x \in Items, NEW d \in Delivery, NEW awaited \in BOOLEAN, NEW ok \in BOOLEAN,
         Answer(x, d, awaited, ok),
         DoneWith(x, d, ok)
  PROVE  Claimed' /\ MergeSteps' /\ MergeEnds' /\ MergesHandedOn'
<1>0. job'[x].pc = "idle" /\ \A z \in Items \ {x} : Answered(z, x, d, awaited, ok)
  <2>1. job \in [Items -> Job]
    BY DEF HandedInv, CallInv, HandOffInv, TypeOK
  <2> QED BY <2>1, AnswerMoves
<1>1. done \subseteq done' /\ seen \subseteq Delivery \X Items
  BY DEF HandedInv, CallInv, HandOffInv, TypeOK, DoneWith
<1>2. Claimed'
  <2> SUFFICES ASSUME NEW c \in seen', c[1].event = "MERGED", c[2] # x
               PROVE  c \in done' \/ (job'[c[2]].pc # "idle" /\ job'[c[2]].d = c[1])
    BY DEF Claimed, DoneWith
  <2>1. c \in seen /\ c[2] \in Items \ {x}
    BY <1>1 DEF DoneWith
  <2>2. c \in done \/ (job[c[2]].pc # "idle" /\ job[c[2]].d = c[1])
    BY <2>1 DEF HandedInv, Claimed
  <2>3. job[c[2]].pc # "idle" => job'[c[2]].pc # "idle" /\ job'[c[2]].d = job[c[2]].d
    BY <1>0, <2>1 DEF Answered
  <2> QED BY <1>1, <2>2, <2>3
<1>3. MergeSteps'
  <2> SUFFICES ASSUME NEW z \in Items, job'[z].pc \in {"forward", "wait", "return"}, Carries(z, job'[z]),
                      NEW i \in Closing[z] \ job'[z].todo
               PROVE  <<job'[z].d, i>> \in done'
    BY DEF MergeSteps, Carries
  <2>1. z # x
    BY <1>0
  <2>2. job'[z].d = job[z].d /\ Carries(z, job[z])
    BY <1>0, <2>1 DEF Answered, Carries
  <2>3. CASE job'[z] = job[z]
    BY <1>1, <2>2, <2>3 DEF HandedInv, MergeSteps
  <2>4. CASE job'[z] # job[z]
    <3>1. job[z].pc = "wait" /\ job[z].d = d /\ ok /\ job'[z].todo = job[z].todo \ {x}
      BY <1>0, <2>1, <2>4 DEF Answered
    <3>2. CASE i = x
      BY <2>2, <3>1, <3>2 DEF Carries, DoneWith
    <3>3. CASE i # x
      BY <1>1, <2>2, <3>1, <3>3 DEF HandedInv, MergeSteps
    <3> QED BY <3>2, <3>3
  <2> QED BY <2>3, <2>4
<1>4. MergeEnds'
  <2> SUFFICES ASSUME NEW c \in done', c[1].event = "MERGED", c[2] = c[1].item, NEW i \in Closing[c[2]]
               PROVE  <<c[1], i>> \in done'
    BY DEF MergeEnds
  <2>1. CASE c \in done
    BY <1>1, <2>1 DEF HandedInv, MergeEnds
  <2>2. CASE c \notin done
    BY <2>2 DEF DoneWith
  <2> QED BY <2>1, <2>2
<1>5. MergesHandedOn'
  <2> SUFFICES ASSUME NEW e \in acked', e.event = "MERGED", NEW i \in Closing[e.item]
               PROVE  <<e, i>> \in done'
    BY DEF MergesHandedOn
  <2>1. CASE e \in acked
    BY <1>1, <2>1 DEF HandedInv, MergesHandedOn
  <2>2. CASE e \notin acked
    <3>1. e = d /\ x = d.item /\ ok
      BY <2>2 DEF Answer
    <3>2. <<d, x>> \in done'
      BY <3>1 DEF DoneWith
    <3> QED BY <1>4, <3>1, <3>2 DEF MergeEnds
  <2> QED BY <2>1, <2>2
<1> QED BY <1>2, <1>3, <1>4, <1>5

LEMMA DedupeHands ==
  ASSUME HandedInv, NEW x \in Items, Dedupe(x) \/ KnownOutcome(x)
  PROVE  Claimed' /\ MergeSteps' /\ MergeEnds' /\ MergesHandedOn'
<1> PICK w \in waiting : /\ Answer(x, w.d, w.awaited, TRUE)
                         /\ \/ <<w.d, x>> \in seen /\ seen' = seen
                            \/ w.d.event = "BUILD_SUCCEEDED" /\ seen' = seen \cup {<<w.d, x>>}
  BY DEF Dedupe, KnownOutcome, storage
<1>1. w.d \in Delivery /\ w.awaited \in BOOLEAN /\ job[x].pc = "idle" /\ done' = done
  BY DEF HandedInv, CallInv, HandOffInv, TypeOK, Request, Dedupe, KnownOutcome, history
<1>2. \A c \in seen' : c[1].event = "MERGED" => c \in seen
  OBVIOUS
<1>3. \A c \in seen : c[1].event = "MERGED" /\ c[2] = x => c \in done
  BY <1>1 DEF HandedInv, Claimed
<1>4. w.d.event = "MERGED" => <<w.d, x>> \in done
  BY <1>3
<1>5. DoneWith(x, w.d, TRUE)
  BY <1>1, <1>2, <1>3, <1>4 DEF DoneWith
<1> QED BY <1>1, <1>5, AnswerHands

LEMMA FinishHands ==
  ASSUME HandedInv, NEW x \in Items, Finish(x)
  PROVE  Claimed' /\ MergeSteps' /\ MergeEnds' /\ MergesHandedOn'
<1>1. /\ job[x].pc = "return" /\ Answer(x, job[x].d, job[x].awaited, TRUE)
      /\ done' = done \cup {<<job[x].d, x>>} /\ seen' = seen
  BY DEF Finish, storage
<1>2. job[x] \in Job /\ job[x].d \in Delivery /\ Routed(x, job[x]) /\ seen \subseteq Delivery \X Items
  BY <1>1, JobCalls DEF HandedInv, CallInv, HandOffInv, TypeOK, Proper
<1>3. ASSUME NEW c \in seen, c[1].event = "MERGED", c[2] = x
      PROVE  c \in done'
  <2>1. c \in done \/ job[x].d = c[1]
    BY <1>3 DEF HandedInv, Claimed
  <2>2. c = <<c[1], x>>
    BY <1>2, <1>3
  <2> QED BY <1>1, <2>1, <2>2
<1>4. ASSUME job[x].d.event = "MERGED", x = job[x].d.item, NEW i \in Closing[x]
      PROVE  <<job[x].d, i>> \in done'
  BY <1>1, <1>2, <1>4 DEF Routed, Carries, HandedInv, MergeSteps
<1>5. job[x].awaited \in BOOLEAN
  BY <1>2 DEF Job
<1>6. DoneWith(x, job[x].d, TRUE)
  BY <1>1, <1>3, <1>4 DEF DoneWith
<1> QED BY <1>1, <1>2, <1>5, <1>6, AnswerHands

LEMMA UnwindHands ==
  ASSUME HandedInv, NEW x \in Items, Unwind(x)
  PROVE  Claimed' /\ MergeSteps' /\ MergeEnds' /\ MergesHandedOn'
<1>1. /\ job[x].pc = "thrown" /\ Answer(x, job[x].d, job[x].awaited, FALSE)
      /\ done' = done /\ seen' = seen \ {<<job[x].d, x>>}
  BY DEF Unwind, Unclaimed, history
<1>2. job[x] \in Job /\ job[x].d \in Delivery /\ seen \subseteq Delivery \X Items
  BY <1>1, JobCalls DEF HandedInv, CallInv, HandOffInv, TypeOK, Proper
<1>3. ASSUME NEW c \in seen', c[1].event = "MERGED", c[2] = x
      PROVE  c \in done
  <2>1. c \in done \/ job[x].d = c[1]
    BY <1>1, <1>3 DEF HandedInv, Claimed
  <2>2. c = <<c[1], x>>
    BY <1>1, <1>2, <1>3
  <2> QED BY <1>1, <2>1, <2>2
<1>4. job[x].awaited \in BOOLEAN /\ \A c \in seen' : c[1].event = "MERGED" => c \in seen
  BY <1>1, <1>2 DEF Job
<1>5. DoneWith(x, job[x].d, FALSE)
  BY <1>1, <1>3, <1>4 DEF DoneWith
<1> QED BY <1>1, <1>2, <1>4, <1>5, AnswerHands

LEMMA HandedStep ==
  ASSUME "evict" \notin Faults, HandedInv, [Next]_vars
  PROVE  HandedInv'
<1>0. CallInv'
  BY CallStep DEF HandedInv
<1>c. CallInv
  BY DEF HandedInv
<1>1. ASSUME UNCHANGED <<done, acked>>  PROVE MergeEnds' /\ MergesHandedOn'
  BY <1>1 DEF HandedInv, MergeEnds, MergesHandedOn
<1>2. ASSUME NEW x \in Items, GoesOnward(x)  PROVE HandedInv'
  <2>1. UNCHANGED <<done, acked>>
    BY <1>2 DEF GoesOnward
  <2> QED BY <1>0, <1>1, <1>2, <2>1, OnwardHands DEF HandedInv
<1>3. ASSUME NEW x \in Items, Step(x)  PROVE HandedInv'
  <2>1. CASE Take(x) \/ (Forward(x) /\ job[x].todo # {})
    <3>1. UNCHANGED <<done, acked>>
      BY <2>1 DEF Take, Forward, history
    <3> QED BY <1>0, <1>1, <2>1, <3>1, TakeHands, ForwardHands DEF HandedInv
  <2>2. CASE Dedupe(x) \/ KnownOutcome(x) \/ Finish(x) \/ Unwind(x)
    BY <1>0, <2>2, DedupeHands, FinishHands, UnwindHands DEF HandedInv
  <2>3. CASE \/ ReadLabels(x) \/ ReadPull(x) \/ ReadTag(x) \/ AddReviewing(x) \/ Write(x)
             \/ ClearPendingFire(x) \/ Log(x) \/ Gate(x) \/ List(x) \/ (Forward(x) /\ job[x].todo = {})
    BY <1>c, <1>2, <2>3, ReadLabelsOnward, ReadsOnward, AddReviewingOnward, WriteOnward, ClearOnward, LogOnward,
       GateOnward, ListOnward, EndOnward
  <2> QED BY <1>3, <2>1, <2>2, <2>3 DEF Step
<1>4. ASSUME NEW x \in Items, Throw(x)  PROVE HandedInv'
  BY <1>c, <1>2, <1>4, EndOnward
<1>5. ASSUME NEW x \in Items  PROVE ~Evict(x)
  BY DEF Evict
<1>6. ASSUME Environment \/ UNCHANGED vars  PROVE UNCHANGED <<job, seen, done, acked>>
  <2>1. CASE Environment
    BY <2>1 DEF Environment, Report, Merge, Checks, LabelPull, Cut, Publish, Edit, Redeliver, Deliver, storage,
       history
  <2>2. CASE UNCHANGED vars
    BY <2>2 DEF vars, storage, history
  <2> QED BY <1>6, <2>1, <2>2
<1>7. ASSUME UNCHANGED <<job, seen, done, acked>>  PROVE HandedInv'
  <2>1. Claimed' /\ MergeSteps'
    BY <1>7 DEF HandedInv, Claimed, MergeSteps
  <2> QED BY <1>0, <1>1, <1>7, <2>1 DEF HandedInv
<1> QED BY <1>3, <1>4, <1>5, <1>6, <1>7 DEF Next

(* Unless an object is lost while it is at work, a merge whose delivery    *)
(* was answered well was handled to its end by every issue it closes,      *)
(* whatever threw and was made again before (webhook.ts: a handler that    *)
(* throws releases its claim, "so it can be redelivered").                 *)
THEOREM MergesAreHandedOn == "evict" \notin Faults => (Spec => []MergesHandedOn)
<1> SUFFICES ASSUME "evict" \notin Faults  PROVE Spec => []MergesHandedOn
  OBVIOUS
<1>1. Init => HandedInv
  <2> SUFFICES ASSUME Init  PROVE HandedInv
    OBVIOUS
  <2>1. \A x \in Items : job[x].pc = "idle"
    BY DEF Init, IdleJob
  <2> QED BY <2>1, CallInit DEF Init, HandedInv, Claimed, MergeSteps, MergeEnds, MergesHandedOn
<1>2. HandedInv /\ [Next]_vars => HandedInv'
  BY HandedStep
<1>3. HandedInv => MergesHandedOn
  BY DEF HandedInv
<1> QED BY <1>1, <1>2, <1>3, PTL DEF Spec

----------------------------------------------------------------------------
(* What a delivery owes other items is handed on before it is answered     *)
(* well, where no object is lost and nobody edits the issues' labels.      *)
(* These say then how far an issue has come (Staged), and the invariant    *)
(* follows each claim to the hand-off it stands for (OwedInv).             *)

Addition(label) == [op |-> "add", label |-> label]
Removal(label)  == [op |-> "remove", label |-> label]
Closure         == [op |-> "close", label |-> "none"]

(* The labels an issue goes through, one at a time.                        *)
Stage == {{}, {"AI_READY"}, {"PR_OPEN"}, {"READY_FOR_RELEASE"}}

(* What is left of a rule's calls at an issue, by the labels it has now.   *)
CallsLeft(l, j) ==
  \/ /\ j.event = "BUILD_SUCCEEDED"
     /\ \/ l = {"AI_READY"} /\ j.ops = <<Removal("AI_READY"), Addition("PR_OPEN")>>
        \/ l = {} /\ j.ops = <<Addition("PR_OPEN")>>
  \/ /\ j.event = "PR_MERGED"
     /\ \/ l = {"PR_OPEN"} /\ j.ops = <<Removal("PR_OPEN"), Addition("READY_FOR_RELEASE")>>
        \/ l = {} /\ j.ops = <<Addition("READY_FOR_RELEASE")>>
  \/ j.event = "RELEASED" /\ j.ops = <<Closure>>

IssueStage(l, j) ==
  /\ l \in Stage
  /\ j.pc = "tag" => j.found = l
  /\ j.pc = "write" => CallsLeft(l, j)
  /\ j.pc \in {"clear", "log"} /\ j.event = "BUILD_SUCCEEDED" => l = {"PR_OPEN"}

(* A release's issue handles its release, which always has a rule.         *)
ReleaseStage(l, j) ==
  /\ l = {"AUTO_RELEASING"}
  /\ j.pc # "idle" => j.event = "RELEASE_PUBLISHED"
  /\ j.pc \notin {"open", "add", "gate", "tag"}
  /\ j.pc = "write" => j.ops = <<Closure>>
  /\ j.pc = "return" => j.todo = {}

AtStage(x, l, j) ==
  /\ x \in Issues => IssueStage(l, j)
  /\ x \in Releases => ReleaseStage(l, j)

Staged == \A x \in Items : AtStage(x, labels[x], job[x])

(* A step never puts back a label an issue has left.                       *)
Builds(x) == job[x].pc = "write" /\ job[x].event = "BUILD_SUCCEEDED"

StageKept(x) ==
  /\ labels[x] = {"READY_FOR_RELEASE"} => labels'[x] = {"READY_FOR_RELEASE"}
  /\ labels'[x] = {"AI_READY"} => labels[x] = {"AI_READY"}
  /\ labels'[x] = {"PR_OPEN"} => labels[x] = {"PR_OPEN"} \/ Builds(x)
  /\ Builds(x)' => Builds(x) \/ labels[x] = {"AI_READY"}

LEMMA OneLabel ==
  ASSUME NEW event \in {"BUILD_SUCCEEDED", "PR_MERGED", "RELEASED", "RELEASE_PUBLISHED"}
  PROVE  /\ StateBefore({}, event) = "none"
         /\ \A l \in Labels : StateBefore({l}, event) = l
<1>1. JustAdded(event) = {}
  BY DEF JustAdded
<1>2. DeriveState({}) = "none"
  BY DEF DeriveState
<1>3. ASSUME NEW l \in Labels  PROVE DeriveState({l}) = l
  <2>1. Cardinality({l}) = 1 /\ {l} \cap Labels = {l}
    BY FS_Singleton
  <2> QED BY <2>1 DEF DeriveState
<1>4. \A s : s \ {} = s
  OBVIOUS
<1> QED BY <1>1, <1>2, <1>3, <1>4 DEF StateBefore

(* The rules of the stages.                                                *)
LEMMA StageRulesAre ==
  ASSUME NEW r \in Rules
  PROVE  /\ r.on = "BUILD_SUCCEEDED" /\ r.from \in {"none", "AI_READY", "PR_OPEN", "READY_FOR_RELEASE"} =>
              \/ r.from = "AI_READY" /\ r.to = "PR_OPEN"
              \/ r.from = "PR_OPEN" /\ r.to = "noop"
         /\ r.on = "PR_MERGED" => r.from \in {"none", "PR_OPEN"} /\ r.to = "READY_FOR_RELEASE"
         /\ r.on = "RELEASED" => r.from = "READY_FOR_RELEASE" /\ r.to = "close"
         /\ r.on = "RELEASE_PUBLISHED" => r.to = "close"
BY SMTT(60) DEF Rules, IssueRules, ReleaseRules, MergeRules, ReviewRules, OutcomeRules, StageRules,
     UnlabelRules, WatchdogRules, StuckRules, Labels, NoRun, Rule, Fires, Moves, TakesOff, Closes, Stays

LEMMA StageRulesExist ==
  HasRule("PR_OPEN", "BUILD_SUCCEEDED") /\ HasRule("AUTO_RELEASING", "RELEASE_PUBLISHED")
<1>1. Stays("PR_OPEN", "BUILD_SUCCEEDED") \in Rules
  BY DEF Rules, IssueRules
<1>2. Closes("AUTO_RELEASING", "RELEASE_PUBLISHED") \in Rules
  BY DEF Rules, ReleaseRules
<1> QED BY <1>1, <1>2 DEF HasRule, Matching, Stays, Closes, Rule

(* A move's calls, and a start's.                                          *)
LEMMA MoveCalls ==
  ASSUME NEW from \in Labels, NEW rule, rule.from = from, rule.to \in Labels \ {from}
  PROVE  LabelOps({from}, rule) = <<Removal(from), Addition(rule.to)>>
<1>1. rule.to # "noop" /\ rule.to # "close" /\ from # "none" /\ Target(rule) = rule.to
  BY DEF Labels, Target
<1>2. LabelOps({from}, rule) = <<Removal(from)>> \o <<Addition(rule.to)>>
  BY <1>1 DEF LabelOps, Removal, Addition
<1>3. Removal(from) \in OpType /\ Addition(rule.to) \in OpType
  BY DEF Removal, Addition, OpType
<1> DEFINE a == <<Removal(from)>>
           b == <<Addition(rule.to)>>
           c == <<Removal(from), Addition(rule.to)>>
<1>4. a \in Seq(OpType) /\ b \in Seq(OpType) /\ c \in Seq(OpType)
  BY <1>3
<1>5. Len(a \o b) = Len(c) /\ \A k \in 1..Len(c) : (a \o b)[k] = c[k]
  BY <1>3, <1>4
<1> QED BY <1>2, <1>4, <1>5

LEMMA StartCalls ==
  ASSUME NEW rule, rule.from = "none", rule.to \in Labels
  PROVE  LabelOps({}, rule) = <<Addition(rule.to)>>
<1>1. rule.to # "noop" /\ rule.to # "close" /\ rule.to # "none"
  BY DEF Labels
<1>2. LabelOps({}, rule) = <<>> \o <<Addition(rule.to)>>
  BY <1>1 DEF LabelOps, Addition
<1>3. <<Addition(rule.to)>> \in Seq(OpType)
  BY DEF Addition, OpType
<1> QED BY <1>2, <1>3

(* The calls of those rules.                                               *)
LEMMA StageCalls ==
  ASSUME NEW l \in Stage, NEW rule \in Rules,
         NEW event \in {"BUILD_SUCCEEDED", "PR_MERGED", "RELEASED"},
         rule.from = StateBefore(l, event), rule.on = event
  PROVE  /\ event = "BUILD_SUCCEEDED" =>
              \/ l = {"AI_READY"} /\ LabelOps(l, rule) = <<Removal("AI_READY"), Addition("PR_OPEN")>>
              \/ l = {"PR_OPEN"} /\ LabelOps(l, rule) = <<>>
         /\ event = "PR_MERGED" =>
              \/ l = {"PR_OPEN"} /\ LabelOps(l, rule) = <<Removal("PR_OPEN"), Addition("READY_FOR_RELEASE")>>
              \/ l = {} /\ LabelOps(l, rule) = <<Addition("READY_FOR_RELEASE")>>
         /\ event = "RELEASED" => l = {"READY_FOR_RELEASE"} /\ LabelOps(l, rule) = <<Closure>>
<1>0. {"AI_READY", "PR_OPEN", "READY_FOR_RELEASE"} \subseteq Labels
  BY DEF Labels
<1>1. /\ l = {} => rule.from = "none"
      /\ l = {"AI_READY"} => rule.from = "AI_READY"
      /\ l = {"PR_OPEN"} => rule.from = "PR_OPEN"
      /\ l = {"READY_FOR_RELEASE"} => rule.from = "READY_FOR_RELEASE"
  BY <1>0, OneLabel
<1>2. "noop" \notin Labels /\ "close" \notin Labels
  BY DEF Labels
<1>3. CASE event = "BUILD_SUCCEEDED"
  <2>1. \/ l = {"AI_READY"} /\ rule.from = "AI_READY" /\ rule.to = "PR_OPEN"
        \/ l = {"PR_OPEN"} /\ rule.to = "noop"
    BY <1>1, <1>3, StageRulesAre DEF Stage
  <2>2. CASE rule.to = "noop"
    BY <1>3, <2>1, <2>2, <1>0 DEF LabelOps
  <2>3. CASE rule.to = "PR_OPEN"
    BY <1>0, <1>3, <2>1, <2>3, MoveCalls
  <2> QED BY <2>1, <2>2, <2>3
<1>4. CASE event = "PR_MERGED"
  <2>1. /\ rule.to = "READY_FOR_RELEASE"
        /\ \/ l = {"PR_OPEN"} /\ rule.from = "PR_OPEN"
           \/ l = {} /\ rule.from = "none"
    BY <1>1, <1>4, StageRulesAre DEF Stage
  <2>2. CASE l = {"PR_OPEN"} /\ rule.from = "PR_OPEN"
    BY <1>0, <1>4, <2>1, <2>2, MoveCalls
  <2>3. CASE l = {} /\ rule.from = "none"
    BY <1>0, <1>4, <2>1, <2>3, StartCalls
  <2> QED BY <2>1, <2>2, <2>3
<1>5. CASE event = "RELEASED"
  <2>1. l = {"READY_FOR_RELEASE"} /\ rule.to = "close"
    BY <1>1, <1>5, StageRulesAre DEF Stage
  <2> QED BY <1>5, <2>1 DEF LabelOps, Closure
<1> QED BY <1>3, <1>4, <1>5

(* What an issue's request is after its rule.                              *)
LEMMA ApplyAtIssue ==
  ASSUME NEW j \in Job, j.found \in Stage, j.event \in {"BUILD_SUCCEEDED", "PR_MERGED", "RELEASED"}
  PROVE  LET a == ApplyEvent(j)
         IN  /\ a.event = j.event /\ a.pc \in {"write", "clear", "return"}
             /\ a.pc = "write" => CallsLeft(j.found, a)
             /\ a.pc = "write" /\ j.event = "BUILD_SUCCEEDED" => j.found = {"AI_READY"}
             /\ j.event = "BUILD_SUCCEEDED" =>
                  /\ a.pc = "clear" => j.found = {"PR_OPEN"}
                  /\ a.pc = "return" => j.found # {"PR_OPEN"}
<1> DEFINE state == StateBefore(j.found, j.event)
           rule  == Reduce(state, j.event)
           ops   == LabelOps(j.found, rule)
<1>1. CASE HasRule(state, j.event)
  <2>1. rule \in Rules /\ rule.from = state /\ rule.on = j.event
    BY <1>1, ReduceAnswers
  <2>2. ApplyEvent(j) = [j EXCEPT !.pc = IF ops = <<>> THEN "clear" ELSE "write", !.ops = ops]
    BY <1>1 DEF ApplyEvent
  <2>3. /\ j.event = "BUILD_SUCCEEDED" =>
             \/ j.found = {"AI_READY"} /\ ops = <<Removal("AI_READY"), Addition("PR_OPEN")>>
             \/ j.found = {"PR_OPEN"} /\ ops = <<>>
        /\ j.event = "PR_MERGED" =>
             \/ j.found = {"PR_OPEN"} /\ ops = <<Removal("PR_OPEN"), Addition("READY_FOR_RELEASE")>>
             \/ j.found = {} /\ ops = <<Addition("READY_FOR_RELEASE")>>
        /\ j.event = "RELEASED" => ops = <<Closure>>
    BY <2>1, StageCalls
  <2> HIDE DEF ops
  <2> DEFINE a == ApplyEvent(j)
  <2>4. /\ a.event = j.event /\ a.ops = ops /\ a.found = j.found
        /\ a.pc = IF ops = <<>> THEN "clear" ELSE "write"
    BY <2>2 DEF Job
  <2> HIDE DEF a
  <2>5. a.pc \in {"write", "clear"} /\ (a.pc = "write" => ops # <<>>) /\ (a.pc = "clear" => ops = <<>>)
    BY <2>4
  <2>6. a.pc = "write" => CallsLeft(j.found, a)
    BY <2>3, <2>4, <2>5 DEF CallsLeft
  <2>7. j.event = "BUILD_SUCCEEDED" => /\ a.pc = "write" => j.found = {"AI_READY"}
                                       /\ a.pc = "clear" => j.found = {"PR_OPEN"}
    <3>1. <<Removal("AI_READY"), Addition("PR_OPEN")>> # <<>>
      OBVIOUS
    <3> QED BY <2>3, <2>5, <3>1
  <2> QED BY <2>4, <2>5, <2>6, <2>7 DEF a
<1>2. CASE ~HasRule(state, j.event)
  <2>1. ApplyEvent(j) = [j EXCEPT !.pc = "return"]
    BY <1>2 DEF ApplyEvent, Without, Returns
  <2>2. j.event = "BUILD_SUCCEEDED" => j.found # {"PR_OPEN"}
    <3>1. "PR_OPEN" \in Labels
      BY DEF Labels
    <3>2. j.event = "BUILD_SUCCEEDED" /\ j.found = {"PR_OPEN"} => state = "PR_OPEN"
      BY <3>1, OneLabel
    <3> QED BY <1>2, <3>2, StageRulesExist
  <2>3. ApplyEvent(j).pc = "return" /\ ApplyEvent(j).event = j.event
    BY <2>1 DEF Job
  <2> QED BY <2>2, <2>3
<1> QED BY <1>1, <1>2

(* A release's issue is asked for nothing but its own release.             *)
LEMMA ReleaseEvents ==
  ASSUME NEW x \in Releases, NEW d, Proper(d), HandedOn(d, x)
  PROVE  x = d.item /\ d.event = "RELEASE_PUBLISHED" /\ EventFor(d, x) = "RELEASE_PUBLISHED"
<1>1. d.event \in OwnEvents /\ x \notin Pulls /\ x \notin Issues
  BY StagesAssumption DEF Proper, Delivery
<1>2. x = d.item
  BY <1>1, StagesAssumption DEF HandedOn, Proper
<1> QED BY <1>1, <1>2 DEF Proper, OwnEvents, EventFor

LEMMA ApplyAtRelease ==
  ASSUME NEW j \in Job, j.found = {"AUTO_RELEASING"}, j.event = "RELEASE_PUBLISHED"
  PROVE  LET a == ApplyEvent(j)
         IN  a.event = j.event /\ a.pc = "write" /\ a.ops = <<Closure>>
<1> DEFINE rule == Reduce("AUTO_RELEASING", j.event)
<1>1. StateBefore(j.found, j.event) = "AUTO_RELEASING"
  BY OneLabel DEF Labels
<1>2. HasRule("AUTO_RELEASING", j.event)
  BY StageRulesExist
<1>3. rule \in Rules /\ rule.on = "RELEASE_PUBLISHED"
  BY <1>2, ReduceAnswers
<1>4. LabelOps(j.found, rule) = <<Closure>>
  BY <1>3, StageRulesAre DEF LabelOps, Closure
<1>5. <<Closure>> # <<>>
  OBVIOUS
<1>6. ApplyEvent(j) = [j EXCEPT !.pc = "write", !.ops = <<Closure>>]
  BY <1>1, <1>2, <1>4, <1>5 DEF ApplyEvent
<1> QED BY <1>6 DEF Job

(* Every item but one is left as it was, but for an answer it waited for.  *)
LEMMA StageLocal ==
  ASSUME Staged, NEW x \in Items,
         \A y \in Items \ {x} :
           /\ labels'[y] = labels[y]
           /\ \/ job'[y] = job[y]
              \/ /\ job[y].pc = "wait" /\ job'[y].pc \in {"forward", "thrown"}
                 /\ job'[y].event = job[y].event,
         AtStage(x, labels'[x], job'[x]),
         x \in Issues => StageKept(x)
  PROVE  Staged' /\ \A y \in Issues : StageKept(y)
<1>1. ASSUME NEW y \in Items \ {x}
      PROVE  AtStage(y, labels'[y], job'[y]) /\ (Builds(y)' => Builds(y))
  <2>1. AtStage(y, labels[y], job[y]) /\ labels'[y] = labels[y]
    BY DEF Staged
  <2>2. CASE job'[y] = job[y]
    BY <2>1, <2>2 DEF Builds
  <2>3. CASE job'[y] # job[y]
    BY <2>1, <2>3 DEF AtStage, IssueStage, ReleaseStage, Builds
  <2> QED BY <2>2, <2>3
<1>2. Staged'
  BY <1>1 DEF Staged
<1>3. ASSUME NEW y \in Issues  PROVE StageKept(y)
  BY <1>1 DEF StageKept, Items
<1> QED BY <1>2, <1>3

(* A step that reads no labels and writes none.                            *)
LEMMA QuietStage ==
  ASSUME HandOffInv, Staged, NEW x \in Items, labels' = labels,
         Take(x) \/ ReadPull(x) \/ ClearPendingFire(x) \/ Log(x) \/ Gate(x) \/ List(x) \/ Forward(x) \/ Throw(x)
  PROVE  Staged' /\ \A y \in Issues : StageKept(y)
<1>1. PICK new : job' = [job EXCEPT ![x] = new]
  BY DEF Take, ReadPull, ClearPendingFire, Log, Gate, List, Forward, Throw
<1>2. job \in [Items -> Job] /\ AtStage(x, labels[x], job[x])
  BY DEF HandOffInv, TypeOK, Staged
<1>3. job'[x] = new /\ \A y \in Items \ {x} : job'[y] = job[y]
  BY <1>1, <1>2
<1>4. x \in Issues =>
        /\ new.pc \notin {"tag", "write"}
        /\ new.pc \in {"clear", "log"} /\ new.event = "BUILD_SUCCEEDED" => labels[x] = {"PR_OPEN"}
  <2> SUFFICES ASSUME x \in Issues
               PROVE  /\ new.pc \notin {"tag", "write"}
                      /\ new.pc \in {"clear", "log"} /\ new.event = "BUILD_SUCCEEDED" => labels[x] = {"PR_OPEN"}
    OBVIOUS
  <2>1. ~ReadPull(x)
    BY JobInHand DEF ReadPull, Sound
  <2>2. CASE Take(x)
    <3>1. PICK w : job' = [job EXCEPT ![x] = Begin(w)]
      BY <2>2 DEF Take
    <3>2. job'[x].pc = "read"
      BY <1>2, <3>1 DEF Begin, IdleJob
    <3> QED BY <1>3, <3>2
  <2>3. CASE Log(x) \/ Gate(x) \/ List(x) \/ Forward(x) \/ Throw(x)
    <3>1. job[x] \in Job
      BY <1>2
    <3>2. CASE Log(x)
      BY <1>2, <1>3, <3>1, <3>2 DEF Log, Returns, Job
    <3>3. CASE Gate(x)
      BY <1>2, <1>3, <3>1, <3>3 DEF Gate, Returns, Job
    <3>4. CASE List(x) \/ Forward(x) \/ Throw(x)
      BY <1>2, <1>3, <3>1, <3>4 DEF List, Forward, Throw, Returns, Job
    <3> QED BY <2>3, <3>2, <3>3, <3>4
  <2>4. CASE ClearPendingFire(x)
    <3>1. job[x].pc = "clear" /\ new = [job[x] EXCEPT !.pc = "log"] /\ job[x] \in Job
      BY <1>2, <1>3, <2>4 DEF ClearPendingFire
    <3>2. job[x].event = "BUILD_SUCCEEDED" => labels[x] = {"PR_OPEN"}
      BY <1>2, <3>1 DEF AtStage, IssueStage
    <3> QED BY <3>1, <3>2 DEF Job
  <2> QED BY <2>1, <2>2, <2>3, <2>4
<1>5. x \in Releases => ReleaseStage(labels[x], new)
  <2> SUFFICES ASSUME x \in Releases  PROVE ReleaseStage(labels[x], new)
    OBVIOUS
  <2>1. ReleaseStage(labels[x], job[x])
    BY <1>2 DEF AtStage
  <2>2. ~ReadPull(x) /\ ~Gate(x)
    BY <2>1 DEF ReleaseStage, ReadPull, Gate
  <2>3. CASE Take(x)
    <3>1. PICK w \in waiting : w.to = x /\ job' = [job EXCEPT ![x] = Begin(w)]
      BY <2>3 DEF Take
    <3>2. w.d \in sent /\ HandedOn(w.d, x) /\ Proper(w.d)
      BY <3>1 DEF HandOffInv, Queued, Sent
    <3>3. new.pc = "read" /\ new.event = "RELEASE_PUBLISHED"
      BY <1>2, <1>3, <3>1, <3>2, ReleaseEvents DEF Begin, IdleJob
    <3> QED BY <2>1, <3>3 DEF ReleaseStage
  <2>4. CASE ClearPendingFire(x) \/ Log(x) \/ List(x) \/ Forward(x) \/ Throw(x)
    <3>1. job[x] \in Job /\ job[x].pc # "idle"
      BY <1>2, <2>4 DEF ClearPendingFire, Log, List, Forward, Throw
    <3>2. job[x].event = "RELEASE_PUBLISHED"
      BY <2>1, <3>1 DEF ReleaseStage
    <3>3. CASE Log(x)
      <4>1. new = [job[x] EXCEPT !.pc = "list"]
        BY <1>2, <1>3, <3>2, <3>3 DEF Log
      <4> QED BY <2>1, <3>1, <3>2, <4>1 DEF ReleaseStage, Job
    <3>4. CASE ClearPendingFire(x) \/ List(x) \/ Forward(x) \/ Throw(x)
      <4>1. /\ new.event = job[x].event /\ new.pc \in {"log", "forward", "wait", "return", "thrown"}
            /\ new.pc = "return" => new.todo = {}
        BY <1>2, <1>3, <3>1, <3>4 DEF ClearPendingFire, List, Forward, Throw, Returns, Job
      <4> QED BY <2>1, <3>2, <4>1 DEF ReleaseStage
    <3> QED BY <2>4, <3>3, <3>4
  <2> QED BY <2>2, <2>3, <2>4
<1>6. AtStage(x, labels'[x], job'[x])
  BY <1>2, <1>3, <1>4, <1>5 DEF AtStage, IssueStage
<1>7. x \in Issues => StageKept(x)
  BY <1>3, <1>4 DEF StageKept, Builds
<1> QED BY <1>3, <1>6, <1>7, StageLocal

(* The labels read are those the rule is applied to.                       *)
LEMMA ReadLabelsStage ==
  ASSUME HandOffInv, Staged, NEW x \in Items, ReadLabels(x)
  PROVE  Staged' /\ \A y \in Issues : StageKept(y)
<1> DEFINE j == [job[x] EXCEPT !.found = labels[x]]
<1>0. job[x].pc = "read" /\ labels' = labels /\ job' = [job EXCEPT ![x] = Handle(x, j)]
  BY DEF ReadLabels, github
<1>1. job[x] \in Job /\ Proper(job[x].d) /\ Sound(x, job[x]) /\ job \in [Items -> Job]
  BY <1>0, JobInHand DEF HandOffInv, TypeOK
<1>2. j \in Job /\ j.event = job[x].event /\ j.found = labels[x]
  BY <1>1 DEF Job, HandOffInv, TypeOK
<1> HIDE DEF j
<1>3. job'[x] = Handle(x, j) /\ \A y \in Items \ {x} : job'[y] = job[y]
  BY <1>0, <1>1
<1>4. AtStage(x, labels[x], job[x])
  BY DEF Staged
<1>5. ASSUME x \in Issues  PROVE IssueStage(labels[x], job'[x]) /\ StageKept(x)
  <2>1. j.event \in {"BUILD_SUCCEEDED", "PR_MERGED", "RELEASED"}
    BY <1>1, <1>2, <1>5, IssueEvents DEF Sound
  <2>2. labels[x] \in Stage
    BY <1>4, <1>5 DEF AtStage, IssueStage
  <2>3. CASE j.event = "RELEASED"
    <3>1. Handle(x, j) = [j EXCEPT !.pc = "tag"]
      BY <2>3 DEF Handle
    <3>2. job'[x].pc = "tag" /\ job'[x].found = labels[x]
      BY <1>2, <1>3, <3>1 DEF Job
    <3> QED BY <1>0, <2>2, <3>2 DEF IssueStage, StageKept, Builds
  <2>4. CASE j.event # "RELEASED"
    <3>1. Handle(x, j) = ApplyEvent(j)
      BY <2>1, <2>4 DEF Handle
    <3> DEFINE a == ApplyEvent(j)
    <3>2. /\ a.event = j.event /\ a.pc \in {"write", "clear", "return"}
          /\ a.pc = "write" => CallsLeft(labels[x], a)
          /\ a.pc = "write" /\ j.event = "BUILD_SUCCEEDED" => labels[x] = {"AI_READY"}
          /\ j.event = "BUILD_SUCCEEDED" => (a.pc = "clear" => labels[x] = {"PR_OPEN"})
      BY <1>2, <2>1, <2>2, ApplyAtIssue
    <3>3. job'[x] = a
      BY <1>3, <3>1
    <3> HIDE DEF a
    <3> QED BY <1>0, <2>2, <3>2, <3>3 DEF IssueStage, StageKept, Builds
  <2> QED BY <2>3, <2>4
<1>6. ASSUME x \in Releases  PROVE ReleaseStage(labels[x], job'[x])
  <2>1. labels[x] = {"AUTO_RELEASING"} /\ j.event = "RELEASE_PUBLISHED"
    BY <1>0, <1>2, <1>4, <1>6 DEF AtStage, ReleaseStage
  <2>2. Handle(x, j) = ApplyEvent(j)
    BY <2>1 DEF Handle
  <2>3. ApplyEvent(j).event = j.event /\ ApplyEvent(j).pc = "write" /\ ApplyEvent(j).ops = <<Closure>>
    BY <1>2, <2>1, ApplyAtRelease
  <2> QED BY <1>3, <2>1, <2>2, <2>3 DEF ReleaseStage
<1>7. AtStage(x, labels'[x], job'[x])
  BY <1>0, <1>5, <1>6 DEF AtStage
<1> QED BY <1>0, <1>3, <1>5, <1>7, StageLocal

(* A release's rule is applied to the labels read before its tag.          *)
LEMMA ReadTagStage ==
  ASSUME HandOffInv, Staged, NEW x \in Items, ReadTag(x)
  PROVE  Staged' /\ \A y \in Issues : StageKept(y)
<1>0. /\ job[x].pc = "tag" /\ labels' = labels
      /\ \/ job' = [job EXCEPT ![x] = ApplyEvent(job[x])]
         \/ job' = [job EXCEPT ![x] = Returns(job[x])]
  BY DEF ReadTag, github
<1>1. job[x] \in Job /\ Sound(x, job[x]) /\ job \in [Items -> Job] /\ AtStage(x, labels[x], job[x])
  BY <1>0, JobInHand DEF HandOffInv, TypeOK, Staged
<1>2. job[x].event = "RELEASED" /\ x \notin Releases
  BY <1>0, <1>1 DEF Sound, AtStage, ReleaseStage
<1>3. job'[x] \in {ApplyEvent(job[x]), Returns(job[x])} /\ \A y \in Items \ {x} : job'[y] = job[y]
  BY <1>0, <1>1
<1>4. ASSUME x \in Issues  PROVE IssueStage(labels[x], job'[x]) /\ StageKept(x)
  <2>1. labels[x] \in Stage /\ job[x].found = labels[x]
    BY <1>0, <1>1, <1>4 DEF AtStage, IssueStage
  <2> DEFINE a == ApplyEvent(job[x])
  <2>2. /\ a.event = "RELEASED" /\ a.pc \in {"write", "clear", "return"}
        /\ a.pc = "write" => CallsLeft(labels[x], a)
    BY <1>1, <1>2, <2>1, ApplyAtIssue
  <2>3. Returns(job[x]).pc = "return"
    BY <1>1 DEF Returns, Job
  <2> HIDE DEF a
  <2>4. CASE job'[x] = a
    BY <1>0, <2>1, <2>2, <2>4 DEF IssueStage, StageKept, Builds
  <2>5. CASE job'[x] = Returns(job[x])
    BY <1>0, <2>1, <2>3, <2>5 DEF IssueStage, StageKept, Builds
  <2> QED BY <1>3, <2>4, <2>5 DEF a
<1>5. AtStage(x, labels'[x], job'[x])
  BY <1>0, <1>2, <1>4 DEF AtStage
<1> QED BY <1>0, <1>3, <1>4, <1>5, StageLocal

(* The rule's calls take an issue on to its next stage, one at a time.     *)
LEMMA WriteStage ==
  ASSUME HandOffInv, Staged, NEW x \in Items, Write(x)
  PROVE  Staged' /\ \A y \in Issues : StageKept(y)
<1> DEFINE op == Head(job[x].ops)
           rest == Tail(job[x].ops)
<1>0. /\ job[x].pc = "write"
      /\ labels' = [labels EXCEPT ![x] = CASE op.op = "add"    -> @ \cup {op.label}
                                           [] op.op = "remove" -> @ \ {op.label}
                                           [] OTHER            -> @]
      /\ job' = [job EXCEPT ![x].ops = rest, ![x].pc = IF rest = <<>> THEN "clear" ELSE "write"]
  BY DEF Write
<1>1. /\ job \in [Items -> Job] /\ job[x] \in Job /\ AtStage(x, labels[x], job[x])
      /\ labels \in [Items -> SUBSET Labels]
  BY DEF HandOffInv, TypeOK, Staged
<1>2. /\ job'[x].event = job[x].event /\ job'[x].ops = rest
      /\ job'[x].pc = IF rest = <<>> THEN "clear" ELSE "write"
      /\ labels'[x] = CASE op.op = "add"    -> labels[x] \cup {op.label}
                        [] op.op = "remove" -> labels[x] \ {op.label}
                        [] OTHER            -> labels[x]
      /\ \A y \in Items \ {x} : job'[y] = job[y] /\ labels'[y] = labels[y]
  BY <1>0, <1>1 DEF Job
<1>3. ASSUME x \in Issues  PROVE IssueStage(labels'[x], job'[x]) /\ StageKept(x)
  <2>1. labels[x] \in Stage /\ CallsLeft(labels[x], job[x])
    BY <1>0, <1>1, <1>3 DEF AtStage, IssueStage
  <2>2. ASSUME NEW l1, NEW l2, job[x].ops = <<Removal(l1), Addition(l2)>>, labels[x] = {l1}
        PROVE  labels'[x] = {} /\ rest = <<Addition(l2)>> /\ job'[x].pc = "write"
    <3>1. op = Removal(l1) /\ rest = <<Addition(l2)>>
      BY <2>2
    <3> HIDE DEF op, rest
    <3>2. <<Addition(l2)>> # <<>>
      OBVIOUS
    <3> QED BY <1>2, <2>2, <3>1, <3>2 DEF Removal
  <2>3. ASSUME NEW l2, job[x].ops = <<Addition(l2)>>, labels[x] = {}
        PROVE  labels'[x] = {l2} /\ job'[x].pc = "clear"
    <3>1. op = Addition(l2) /\ rest = <<>>
      BY <2>3
    <3> HIDE DEF op, rest
    <3> QED BY <1>2, <2>3, <3>1 DEF Addition
  <2>4. ASSUME job[x].ops = <<Closure>>
        PROVE  labels'[x] = labels[x] /\ job'[x].pc = "clear"
    <3>1. op = Closure /\ rest = <<>>
      BY <2>4
    <3> HIDE DEF op, rest
    <3> QED BY <1>2, <2>4, <3>1 DEF Closure
  <2> HIDE DEF op, rest
  <2>5. CASE job[x].event = "BUILD_SUCCEEDED"
    <3>1. CASE labels[x] = {"AI_READY"} /\ job[x].ops = <<Removal("AI_READY"), Addition("PR_OPEN")>>
      <4>1. labels'[x] = {} /\ job'[x].ops = <<Addition("PR_OPEN")>> /\ job'[x].pc = "write"
        BY <1>2, <2>2, <3>1
      <4>2. Builds(x)
        BY <1>0, <2>5 DEF Builds
      <4>3. CallsLeft(labels'[x], job'[x])
        BY <1>2, <2>5, <4>1 DEF CallsLeft
      <4>4. IssueStage(labels'[x], job'[x])
        BY <4>1, <4>3 DEF IssueStage, Stage
      <4>5. StageKept(x)
        BY <3>1, <4>1, <4>2 DEF StageKept
      <4> QED BY <4>4, <4>5
    <3>2. CASE labels[x] = {} /\ job[x].ops = <<Addition("PR_OPEN")>>
      <4>1. labels'[x] = {"PR_OPEN"} /\ job'[x].pc = "clear"
        BY <2>3, <3>2
      <4>2. Builds(x)
        BY <1>0, <2>5 DEF Builds
      <4> QED BY <3>2, <4>1, <4>2 DEF IssueStage, Stage, StageKept
    <3> QED BY <2>1, <2>5, <3>1, <3>2 DEF CallsLeft
  <2>6. CASE job[x].event = "PR_MERGED"
    <3>1. CASE labels[x] = {"PR_OPEN"} /\ job[x].ops = <<Removal("PR_OPEN"), Addition("READY_FOR_RELEASE")>>
      <4>1. labels'[x] = {} /\ job'[x].ops = <<Addition("READY_FOR_RELEASE")>> /\ job'[x].pc = "write"
        BY <1>2, <2>2, <3>1
      <4>2. CallsLeft(labels'[x], job'[x])
        BY <1>2, <2>6, <4>1 DEF CallsLeft
      <4>3. IssueStage(labels'[x], job'[x])
        BY <4>1, <4>2 DEF IssueStage, Stage
      <4>4. StageKept(x)
        BY <1>2, <2>6, <3>1, <4>1 DEF StageKept, Builds
      <4> QED BY <4>3, <4>4
    <3>2. CASE labels[x] = {} /\ job[x].ops = <<Addition("READY_FOR_RELEASE")>>
      <4>1. labels'[x] = {"READY_FOR_RELEASE"} /\ job'[x].pc = "clear" /\ job'[x].event = "PR_MERGED"
        BY <1>2, <2>3, <2>6, <3>2
      <4>2. IssueStage(labels'[x], job'[x])
        BY <4>1 DEF IssueStage, Stage
      <4> QED BY <3>2, <4>1, <4>2 DEF StageKept, Builds
    <3> QED BY <2>1, <2>6, <3>1, <3>2 DEF CallsLeft
  <2>7. CASE job[x].event = "RELEASED"
    BY <1>2, <2>1, <2>4, <2>7 DEF CallsLeft, IssueStage, StageKept, Builds
  <2> QED BY <2>1, <2>5, <2>6, <2>7 DEF CallsLeft
<1>4. ASSUME x \in Releases  PROVE ReleaseStage(labels'[x], job'[x])
  <2>1. /\ labels[x] = {"AUTO_RELEASING"} /\ job[x].ops = <<Closure>>
        /\ job[x].event = "RELEASE_PUBLISHED"
    BY <1>0, <1>1, <1>4 DEF AtStage, ReleaseStage
  <2>2. op = Closure /\ rest = <<>>
    BY <2>1
  <2> HIDE DEF op, rest
  <2> QED BY <1>2, <2>1, <2>2 DEF ReleaseStage, Closure
<1>5. AtStage(x, labels'[x], job'[x])
  BY <1>3, <1>4 DEF AtStage
<1> QED BY <1>2, <1>3, <1>5, StageLocal

(* The label the Worker adds itself is a PR's.                             *)
LEMMA AddReviewingStage ==
  ASSUME HandOffInv, Staged, NEW x \in Items, AddReviewing(x)
  PROVE  Staged' /\ \A y \in Issues : StageKept(y)
<1>1. job \in [Items -> Job] /\ labels \in [Items -> SUBSET Labels] /\ AtStage(x, labels[x], job[x])
  BY DEF HandOffInv, TypeOK, Staged
<1>2. x \notin Issues /\ x \notin Releases
  BY <1>1, JobInHand DEF AddReviewing, Sound, AtStage, ReleaseStage
<1>3. AtStage(x, labels'[x], job'[x])
  BY <1>2 DEF AtStage
<1>4. \A y \in Items \ {x} : labels'[y] = labels[y] /\ job'[y] = job[y]
  BY <1>1 DEF AddReviewing
<1> QED BY <1>2, <1>3, <1>4, StageLocal

LEMMA AnswerStage ==
  ASSUME HandOffInv, Staged, NEW x \in Items, labels' = labels,
         Dedupe(x) \/ KnownOutcome(x) \/ Finish(x) \/ Unwind(x)
  PROVE  Staged' /\ \A y \in Issues : StageKept(y)
<1>1. job \in [Items -> Job] /\ AtStage(x, labels[x], job[x])
  BY DEF HandOffInv, TypeOK, Staged
<1>2. PICK d \in Delivery \cup {NoDelivery}, awaited \in BOOLEAN, ok \in BOOLEAN : Answer(x, d, awaited, ok)
  <2>1. CASE Dedupe(x) \/ KnownOutcome(x)
    <3>1. PICK w \in waiting : Answer(x, w.d, w.awaited, TRUE)
      BY <2>1 DEF Dedupe, KnownOutcome
    <3>2. w.awaited \in BOOLEAN /\ w.d \in Delivery
      BY DEF HandOffInv, TypeOK, Request
    <3> QED BY <3>1, <3>2
  <2>2. CASE Finish(x) \/ Unwind(x)
    <3>1. job[x].awaited \in BOOLEAN /\ job[x].d \in Delivery \cup {NoDelivery}
      BY <1>1 DEF Job
    <3>2. Answer(x, job[x].d, job[x].awaited, TRUE) \/ Answer(x, job[x].d, job[x].awaited, FALSE)
      BY <2>2 DEF Finish, Unwind
    <3> QED BY <3>1, <3>2
  <2> QED BY <2>1, <2>2
<1>3. job'[x] = IdleJob /\ \A y \in Items \ {x} : Answered(y, x, d, awaited, ok)
  BY <1>1, <1>2, AnswerMoves DEF Answer
<1>4. \A y \in Items \ {x} :
        \/ job'[y] = job[y]
        \/ /\ job[y].pc = "wait" /\ job'[y].pc \in {"forward", "thrown"}
           /\ job'[y].event = job[y].event
  BY <1>3 DEF Answered
<1>5. AtStage(x, labels'[x], job'[x]) /\ (x \in Issues => StageKept(x))
  BY <1>1, <1>3 DEF AtStage, IssueStage, ReleaseStage, StageKept, Builds, IdleJob
<1> QED BY <1>4, <1>5, StageLocal

LEMMA StageStep ==
  ASSUME HandOffInv, Staged, "evict" \notin Faults, "edit" \notin Acts, [Next]_vars
  PROVE  Staged' /\ \A y \in Issues : StageKept(y)
<1>1. ASSUME NEW x \in Items, Step(x) \/ Throw(x)  PROVE Staged' /\ \A y \in Issues : StageKept(y)
  <2>1. CASE Write(x) \/ ReadLabels(x) \/ ReadTag(x) \/ AddReviewing(x)
    BY <2>1, WriteStage, ReadLabelsStage, ReadTagStage, AddReviewingStage
  <2>2. CASE Dedupe(x) \/ KnownOutcome(x) \/ Finish(x) \/ Unwind(x)
    <3>1. labels' = labels
      BY <2>2 DEF Dedupe, KnownOutcome, Finish, Unwind, github
    <3> QED BY <2>2, <3>1, AnswerStage
  <2>3. CASE Take(x) \/ ReadPull(x) \/ ClearPendingFire(x) \/ Log(x) \/ Gate(x) \/ List(x) \/ Forward(x) \/ Throw(x)
    <3>1. labels' = labels
      BY <2>3 DEF Take, ReadPull, ClearPendingFire, Log, Gate, List, Forward, Throw, github
    <3> QED BY <2>3, <3>1, QuietStage
  <2> QED BY <1>1, <2>1, <2>2, <2>3 DEF Step
<1>2. ASSUME NEW x \in Items  PROVE ~Evict(x)
  BY DEF Evict
<1>3. CASE Environment \/ UNCHANGED vars
  <2>1. /\ job' = job
        /\ \A x \in Items \ Pulls : labels'[x] = labels[x]
    <3>1. CASE Environment
      <4>1. ASSUME NEW p \in Pulls, LabelPull(p)  PROVE \A x \in Items \ Pulls : labels'[x] = labels[x]
        BY <4>1 DEF LabelPull, HandOffInv, TypeOK
      <4> QED BY <3>1, <4>1 DEF Environment, Report, Merge, Checks, LabelPull, Cut, Publish, Edit, Redeliver, Deliver,
                         github
    <3>2. CASE UNCHANGED vars
      BY <3>2 DEF vars, github
    <3> QED BY <1>3, <3>1, <3>2
  <2>2. \A x \in Issues \cup Releases : x \in Items /\ x \notin Pulls
    BY StagesAssumption DEF Items
  <2> QED BY <2>1, <2>2 DEF Staged, AtStage, StageKept, Builds
<1> QED BY <1>1, <1>2, <1>3 DEF Next

LEMMA StageInit == Init => Staged
<1> SUFFICES ASSUME Init, NEW x \in Items  PROVE AtStage(x, labels[x], job[x])
  BY DEF Staged
<1>1. job[x].pc = "idle" /\ job[x].pc \notin {"tag", "write", "clear", "log", "open", "add", "gate", "return"}
  BY DEF Init, IdleJob
<1>2. x \in Issues => labels[x] \in Stage
  BY DEF Init, Stage
<1>3. x \in Releases => labels[x] = {"AUTO_RELEASING"}
  BY DEF Init
<1> QED BY <1>1, <1>2, <1>3 DEF AtStage, IssueStage, ReleaseStage

----------------------------------------------------------------------------
(* What becomes of a hand-off that is owed.                                *)

IsBuild(d) == d.event = "BUILD_SUCCEEDED"

Busy(x, d) == job[x].pc # "idle" /\ job[x].d = d

(* A delivery whose item has claimed it and is at it no more.              *)
Settled(d) == <<d, d.item>> \in seen /\ ~Busy(d.item, d)

(* A build makes one PR.                                                   *)
OneBuild == \A d, e \in sent : IsBuild(d) /\ IsBuild(e) /\ d.item = e.item => d.pr = e.pr

(* Who is owed what: a build's PR, once the issue is past AI_READY; a      *)
(* merge's issues; a release's issues, which then stay ready till closed.  *)
OwedTo(o) ==
  /\ o[1] \in sent /\ o[1].event \in {"BUILD_SUCCEEDED", "MERGED", "RELEASE_PUBLISHED"}
  /\ IsBuild(o[1]) => o[2] = o[1].pr /\ labels[o[1].item] # {"AI_READY"} /\ ~Builds(o[1].item)
  /\ o[1].event = "MERGED" => o[2] \in Closing[o[1].item]
  /\ o[1].event = "RELEASE_PUBLISHED" => o[2] \in Issues /\ labels[o[2]] = {"READY_FOR_RELEASE"}

OwedFrom == \A o \in owed : OwedTo(o)

(* What a request has handed on by the step it is at.                      *)
BuildStep(x) ==
  LET d == job[x].d
  IN  IsBuild(d) /\ x = d.item =>
        /\ job[x].pc \in {"forward", "wait"} => <<d, d.pr>> \in done \/ d.pr \in job[x].todo
        /\ job[x].pc = "return" /\ <<d, d.pr>> \in owed => <<d, d.pr>> \in done \/ labels[x] # {"PR_OPEN"}

ReleaseStep(x) ==
  x \in Releases /\ job[x].pc \in {"forward", "wait", "return"} =>
    \A o \in owed : o[1] = job[x].d => o \in done \/ o[2] \in job[x].todo \/ o[2] \in closed

(* A claim is of a delivery that was handled, is being handled, or reports *)
(* an outcome that is remembered; a request holds its claim.               *)
ClaimsAt(x) ==
  /\ \A d \in Delivery : <<d, x>> \in seen =>
       <<d, x>> \in done \/ Busy(x, d) \/ (IsBuild(d) /\ d.item = x /\ x \in known)
  /\ job[x].pc # "idle" => <<job[x].d, x>> \in seen

(* A remembered outcome was handed on.                                     *)
KnownAt(x) == x \in known => \E e \in sent : IsBuild(e) /\ e.item = x /\ <<e, e.pr>> \in done

(* What a settled delivery owed is done, or owed no more.                  *)
HandedWell(d) ==
  /\ IsBuild(d) /\ <<d, d.pr>> \in owed =>
       labels[d.item] # {"PR_OPEN"} \/ \E e \in Reported(d.item, d.pr) : <<e, d.pr>> \in done
  /\ d.event = "RELEASE_PUBLISHED" => \A o \in owed : o[1] = d => o \in done \/ o[2] \in closed

SettledAt(x) ==
  \A d \in Delivery : d.item = x => /\ Settled(d) => HandedWell(d)
                                    /\ d \in acked => Settled(d)

OwedAt(x) == BuildStep(x) /\ ReleaseStep(x) /\ ClaimsAt(x) /\ KnownAt(x) /\ SettledAt(x)

OwedInv == HandedInv /\ Staged /\ OneBuild /\ OwedFrom /\ \A x \in Items : OwedAt(x)

(* Only a rule logged and a release's list owe anything.                   *)
LEMMA LogOwes ==
  ASSUME HandOffInv, NEW x \in Items, Log(x)
  PROVE  /\ owed \subseteq owed'
         /\ \A o \in owed' \ owed :
              /\ o[1] = job[x].d /\ x = o[1].item /\ o[1] \in sent
              /\ \/ IsBuild(o[1]) /\ job[x].event = "BUILD_SUCCEEDED" /\ o[2] = o[1].pr
                 \/ o[1].event = "MERGED" /\ o[2] \in Closing[x]
<1> DEFINE j  == job[x]
           to == CASE j.event = "BUILD_SUCCEEDED" -> {j.d.pr}
                   [] j.event = "MERGED"          -> Closing[x]
                   [] OTHER                       -> {}
<1>1. j.pc = "log" /\ owed' = owed \cup {<<j.d, y>> : y \in to}
  BY DEF Log
<1>2. j.d \in sent /\ j.d \in Delivery /\ Sound(x, j)
  BY <1>1, JobInHand
<1>3. j.event \in {"BUILD_SUCCEEDED", "MERGED"} => x = j.d.item /\ j.d.event = j.event
  BY <1>2, EventNames DEF Sound
<1>4. ASSUME NEW o \in owed' \ owed  PROVE \E y \in to : o = <<j.d, y>>
  <2> HIDE DEF to
  <2> QED BY <1>1, <1>4
<1>5. ASSUME NEW y \in to
      PROVE  \/ j.event = "BUILD_SUCCEEDED" /\ y = j.d.pr
             \/ j.event = "MERGED" /\ y \in Closing[x]
  BY <1>5
<1> HIDE DEF to
<1> QED BY <1>1, <1>2, <1>3, <1>4, <1>5 DEF IsBuild

LEMMA ListOwes ==
  ASSUME HandOffInv, Staged, NEW x \in Items, List(x)
  PROVE  /\ owed \subseteq owed'
         /\ \A o \in owed' \ owed :
              /\ o[1] = job[x].d /\ o[1] \in sent /\ o[1].event = "RELEASE_PUBLISHED"
              /\ o[2] \in ReadyIssues /\ labels[o[2]] = {"READY_FOR_RELEASE"}
<1>1. job[x].pc = "list" /\ owed' = owed \cup {<<job[x].d, i>> : i \in ReadyIssues}
  BY DEF List
<1>2. job[x].d \in sent /\ job[x].d.event = "RELEASE_PUBLISHED"
  BY <1>1, JobInHand DEF Sound
<1>3. ASSUME NEW i \in ReadyIssues  PROVE labels[i] = {"READY_FOR_RELEASE"}
  <2>1. i \in Issues /\ "READY_FOR_RELEASE" \in labels[i]
    BY DEF ReadyIssues
  <2>2. labels[i] \in Stage
    BY <2>1 DEF Staged, AtStage, IssueStage, Items
  <2> QED BY <2>1, <2>2 DEF Stage
<1> QED BY <1>1, <1>2, <1>3

(* What is owed stays owed to the same.                                    *)
LEMMA OwedFromStep ==
  ASSUME HandOffInv, Staged, OwedFrom, \A y \in Issues : StageKept(y), [Next]_vars
  PROVE  OwedFrom'
<1>1. sent \subseteq sent' /\ \A d \in sent : IsBuild(d) => d.item \in Issues
  <2>1. ASSUME NEW x \in Items, Step(x) \/ Throw(x) \/ Evict(x)  PROVE sent' = sent
    BY <2>1 DEF Step, Throw, Evict, Take, Dedupe, KnownOutcome, ReadLabels, ReadPull, ReadTag,
                AddReviewing, Write, ClearPendingFire, Log, Gate, List, Forward, Finish, Unwind
  <2>2. Environment \/ UNCHANGED vars => sent \subseteq sent'
    BY DEF Environment, Report, Merge, Checks, LabelPull, Cut, Publish, Edit, Redeliver, Deliver, vars
  <2>3. sent \subseteq sent'
    BY <2>1, <2>2 DEF Next
  <2> QED BY <2>3 DEF HandOffInv, Sent, Proper, IsBuild
<1>2. ASSUME NEW o \in owed  PROVE OwedTo(o)'
  <2>1. OwedTo(o)
    BY DEF OwedFrom
  <2>2. IsBuild(o[1]) => labels'[o[1].item] # {"AI_READY"} /\ ~Builds(o[1].item)'
    BY <1>1, <2>1 DEF OwedTo, StageKept
  <2>3. o[1].event = "RELEASE_PUBLISHED" => labels'[o[2]] = {"READY_FOR_RELEASE"}
    BY <2>1 DEF OwedTo, StageKept
  <2> QED BY <1>1, <2>1, <2>2, <2>3 DEF OwedTo, IsBuild
<1>3. ASSUME NEW o \in owed' \ owed  PROVE OwedTo(o)'
  <2>1. PICK x \in Items : Log(x) \/ List(x)
    <3>1. ASSUME NEW x \in Items, Step(x) \/ Throw(x) \/ Evict(x), ~Log(x), ~List(x)  PROVE owed' = owed
      BY <3>1 DEF Step, Throw, Evict, Take, Dedupe, KnownOutcome, ReadLabels, ReadPull, ReadTag,
                  AddReviewing, Write, ClearPendingFire, Gate, Forward, Finish, Unwind, history
    <3>2. Environment \/ UNCHANGED vars => owed' = owed
      BY DEF Environment, Report, Merge, Checks, LabelPull, Cut, Publish, Edit, Redeliver, Deliver, vars, history
    <3> QED BY <1>3, <3>1, <3>2 DEF Next
  <2>2. labels' = labels /\ sent' = sent
    BY <2>1 DEF Log, List, github
  <2>3. CASE Log(x)
    <3>1. job[x].pc = "log" /\ job'[x].pc # "write"
      <4>1. job[x] \in Job /\ job \in [Items -> Job]
        BY DEF HandOffInv, TypeOK
      <4> QED BY <2>3, <4>1 DEF Log, Returns, Job
    <3>2. /\ x = o[1].item /\ o[1] \in sent
          /\ \/ IsBuild(o[1]) /\ job[x].event = "BUILD_SUCCEEDED" /\ o[2] = o[1].pr
             \/ o[1].event = "MERGED" /\ o[2] \in Closing[x]
      BY <1>3, <2>3, LogOwes
    <3>3. IsBuild(o[1]) => labels'[x] # {"AI_READY"} /\ ~Builds(x)'
      <4>1. IsBuild(o[1]) => x \in Issues /\ job[x].event = "BUILD_SUCCEEDED"
        BY <1>1, <3>2 DEF IsBuild
      <4>2. x \in Issues /\ job[x].event = "BUILD_SUCCEEDED" => labels[x] = {"PR_OPEN"}
        BY <3>1 DEF Staged, AtStage, IssueStage
      <4> QED BY <2>2, <3>1, <4>1, <4>2 DEF Builds
    <3> QED BY <2>2, <3>2, <3>3 DEF OwedTo, IsBuild
  <2>4. CASE List(x)
    BY <1>3, <2>2, <2>4, ListOwes DEF OwedTo, IsBuild, ReadyIssues
  <2> QED BY <2>1, <2>3, <2>4
<1> QED BY <1>2, <1>3 DEF OwedFrom

(* What a step of one item leaves of another's.                            *)
Kept(z, x) ==
  /\ job'[z].d = job[z].d
  /\ \/ job'[z] = job[z]
     \/ /\ job[z].pc = "wait"
        /\ \/ job'[z].pc = "thrown"
           \/ /\ job'[z].pc = "forward" /\ job'[z].todo = job[z].todo \ {x}
              /\ <<job[z].d, x>> \in done'
  /\ \A d \in Delivery : <<d, z>> \in seen' <=> <<d, z>> \in seen
  /\ z \in known' <=> z \in known
  /\ \A d \in Delivery : d.item = z => (d \in acked' <=> d \in acked)

LEMMA HandedWellKept ==
  ASSUME OwedInv, \A y \in Issues : StageKept(y), NEW d \in Delivery, HandedWell(d),
         done \subseteq done', closed \subseteq closed',
         \A o \in owed' : o[1] = d => o \in owed
  PROVE  HandedWell(d)'
<1>1. ASSUME IsBuild(d), <<d, d.pr>> \in owed', labels'[d.item] = {"PR_OPEN"}
      PROVE  \E e \in Reported(d.item, d.pr) : <<e, d.pr>> \in done'
  <2>1. <<d, d.pr>> \in owed
    BY <1>1
  <2>2. d \in sent /\ ~Builds(d.item)
    BY <1>1, <2>1 DEF OwedInv, OwedFrom, OwedTo
  <2>3. d.item \in Issues
    BY <1>1, <2>2 DEF OwedInv, HandedInv, CallInv, HandOffInv, Sent, Proper, IsBuild
  <2>4. labels[d.item] = {"PR_OPEN"}
    BY <1>1, <2>2, <2>3 DEF StageKept
  <2> QED BY <1>1, <2>1, <2>4 DEF HandedWell
<1>2. ASSUME d.event = "RELEASE_PUBLISHED", NEW o \in owed', o[1] = d
      PROVE  o \in done' \/ o[2] \in closed'
  BY <1>2 DEF HandedWell
<1> QED BY <1>1, <1>2 DEF HandedWell, IsBuild, Reported

LEMMA KeptOwed ==
  ASSUME OwedInv, \A y \in Issues : StageKept(y), NEW z \in Items, NEW x, Kept(z, x),
         sent \subseteq sent', done \subseteq done', closed \subseteq closed',
         \A o \in owed' : o[1].item = z => o \in owed
  PROVE  OwedAt(z)'
<1>0. /\ OwedAt(z)
      /\ job[z].pc # "idle" => job[z] \in Job /\ job[z].d \in Delivery /\ Sound(z, job[z]) /\ Proper(job[z].d)
                               /\ job[z].d \in sent
  BY JobInHand DEF OwedInv, HandedInv, CallInv, HandOffInv, Sent, InHand, Proper
<1>1. job'[z].d = job[z].d /\ (job'[z].pc # "idle" <=> job[z].pc # "idle")
  BY DEF Kept
<1>2. BuildStep(z)'
  <2> SUFFICES ASSUME IsBuild(job[z].d), z = job[z].d.item
               PROVE  LET d == job[z].d
                      IN  /\ job'[z].pc \in {"forward", "wait"} => <<d, d.pr>> \in done' \/ d.pr \in job'[z].todo
                          /\ job'[z].pc = "return" /\ <<d, d.pr>> \in owed' =>
                               <<d, d.pr>> \in done' \/ labels'[z] # {"PR_OPEN"}
    BY <1>1 DEF BuildStep, IsBuild
  <2> DEFINE d == job[z].d
  <2>1. ASSUME job'[z].pc \in {"forward", "wait"}  PROVE <<d, d.pr>> \in done' \/ d.pr \in job'[z].todo
    <3>1. job[z].pc \in {"forward", "wait"} /\ (job'[z].todo = job[z].todo \/
             (job'[z].todo = job[z].todo \ {x} /\ <<d, x>> \in done'))
      BY <2>1 DEF Kept
    <3>2. <<d, d.pr>> \in done \/ d.pr \in job[z].todo
      BY <1>0, <3>1 DEF OwedAt, BuildStep
    <3> QED BY <3>1, <3>2
  <2>2. ASSUME job'[z].pc = "return", <<d, d.pr>> \in owed', labels'[z] = {"PR_OPEN"}
        PROVE  <<d, d.pr>> \in done'
    <3>1. job[z].pc = "return" /\ <<d, d.pr>> \in owed
      BY <2>2 DEF Kept
    <3>2. z \in Issues /\ ~Builds(z)
      BY <1>0, <3>1 DEF Builds, Proper, IsBuild
    <3>3. labels[z] = {"PR_OPEN"}
      BY <2>2, <3>2 DEF StageKept
    <3> QED BY <1>0, <3>1, <3>3 DEF OwedAt, BuildStep
  <2> QED BY <2>1, <2>2
<1>3. ReleaseStep(z)'
  <2> SUFFICES ASSUME z \in Releases, job'[z].pc \in {"forward", "wait", "return"}, NEW o \in owed', o[1] = job[z].d
               PROVE  o \in done' \/ o[2] \in job'[z].todo \/ o[2] \in closed'
    BY <1>1 DEF ReleaseStep
  <2>1. /\ job[z].pc \in {"forward", "wait", "return"}
        /\ \/ job'[z].todo = job[z].todo
           \/ job'[z].todo = job[z].todo \ {x} /\ <<job[z].d, x>> \in done'
    BY DEF Kept
  <2>2. z = job[z].d.item
    BY <1>0, <2>1, ReleaseEvents DEF Sound
  <2>3. o \in owed /\ o = <<o[1], o[2]>>
    BY <2>2 DEF OwedInv, HandedInv, CallInv, HandOffInv, TypeOK
  <2>4. o \in done \/ o[2] \in job[z].todo \/ o[2] \in closed
    BY <1>0, <2>1, <2>3 DEF OwedAt, ReleaseStep
  <2> QED BY <2>1, <2>3, <2>4
<1>4. ClaimsAt(z)'
  <2>1. \A d \in Delivery : <<d, z>> \in seen' =>
          <<d, z>> \in done' \/ (job'[z].pc # "idle" /\ job'[z].d = d) \/ (IsBuild(d) /\ d.item = z /\ z \in known')
    BY <1>0, <1>1 DEF Kept, OwedAt, ClaimsAt, Busy
  <2>2. job'[z].pc # "idle" => <<job'[z].d, z>> \in seen'
    BY <1>0, <1>1 DEF Kept, OwedAt, ClaimsAt
  <2> QED BY <2>1, <2>2 DEF ClaimsAt, Busy, IsBuild
<1>5. KnownAt(z)'
  BY <1>0 DEF Kept, OwedAt, KnownAt, IsBuild
<1>6. SettledAt(z)'
  <2> SUFFICES ASSUME NEW d \in Delivery, d.item = z
               PROVE  (Settled(d)' => HandedWell(d)') /\ (d \in acked' => Settled(d)')
    BY DEF SettledAt
  <2>1. Settled(d)' <=> Settled(d)
    BY <1>1 DEF Kept, Settled, Busy
  <2>2. Settled(d) => HandedWell(d)
    BY <1>0 DEF OwedAt, SettledAt
  <2>3. HandedWell(d) => HandedWell(d)'
    BY HandedWellKept
  <2>4. d \in acked' => Settled(d)
    BY <1>0 DEF Kept, OwedAt, SettledAt
  <2> QED BY <2>1, <2>2, <2>3, <2>4
<1> QED BY <1>2, <1>3, <1>4, <1>5, <1>6 DEF OwedAt

(* A step of a request in which it is not answered.                        *)
Going(x) ==
  /\ job[x].pc # "idle" /\ job'[x].pc # "idle" /\ job'[x].d = job[x].d
  /\ \A z \in Items \ {x} : job'[z] = job[z]
  /\ UNCHANGED <<seen, done, acked, sent>>
  /\ closed \subseteq closed' /\ owed \subseteq owed'
  /\ \A o \in owed' \ owed : o[1] = job[x].d /\ x = o[1].item
  /\ known \subseteq known' /\ known' \subseteq known \cup {x}

LEMMA GoingOwed ==
  ASSUME OwedInv, \A y \in Issues : StageKept(y), NEW x \in Items, Going(x),
         BuildStep(x)', ReleaseStep(x)', KnownAt(x)'
  PROVE  \A z \in Items : OwedAt(z)'
<1>0. OwedAt(x) /\ job[x].d \in Delivery
  BY JobInHand DEF Going, OwedInv, HandedInv, CallInv, HandOffInv
<1>1. ASSUME NEW z \in Items \ {x}  PROVE OwedAt(z)'
  <2>1. Kept(z, x)
    BY DEF Kept, Going
  <2>2. \A o \in owed' : o[1].item = z => o \in owed
    BY DEF Going
  <2> QED BY <2>1, <2>2, KeptOwed DEF Going
<1>2. ClaimsAt(x)'
  <2>1. \A d \in Delivery : <<d, x>> \in seen' =>
          <<d, x>> \in done' \/ (job'[x].pc # "idle" /\ job'[x].d = d) \/ (IsBuild(d) /\ d.item = x /\ x \in known')
    BY <1>0 DEF Going, OwedAt, ClaimsAt, Busy
  <2>2. <<job'[x].d, x>> \in seen'
    BY <1>0 DEF Going, OwedAt, ClaimsAt
  <2> QED BY <2>1, <2>2 DEF ClaimsAt, Busy, IsBuild
<1>3. SettledAt(x)'
  <2> SUFFICES ASSUME NEW d \in Delivery, d.item = x
               PROVE  (Settled(d)' => HandedWell(d)') /\ (d \in acked' => Settled(d)')
    BY DEF SettledAt
  <2>1. Settled(d)' <=> Settled(d)
    BY DEF Going, Settled, Busy
  <2>2. ASSUME Settled(d)  PROVE HandedWell(d)'
    <3>1. d # job[x].d
      BY <2>2 DEF Going, Settled, Busy
    <3>2. \A o \in owed' : o[1] = d => o \in owed
      BY <3>1 DEF Going
    <3>3. HandedWell(d)
      BY <1>0, <2>2 DEF OwedAt, SettledAt
    <3> QED BY <3>2, <3>3, HandedWellKept DEF Going
  <2>3. d \in acked' => Settled(d)
    BY <1>0 DEF Going, OwedAt, SettledAt
  <2> QED BY <2>1, <2>2, <2>3
<1> QED BY <1>0, <1>1, <1>2, <1>3 DEF OwedAt

(* An issue's report is handled at it as one.                              *)
LEMMA BuildInHand ==
  ASSUME HandOffInv, NEW x \in Items, job[x].pc # "idle"
  PROVE  /\ job[x] \in Job /\ Proper(job[x].d) /\ Sound(x, job[x]) /\ job[x].d \in sent /\ job[x].d \in Delivery
         /\ IsBuild(job[x].d) /\ x = job[x].d.item => x \in Issues /\ job[x].event = "BUILD_SUCCEEDED"
         /\ x \in Releases => x = job[x].d.item /\ job[x].d.event = "RELEASE_PUBLISHED"
                              /\ (Staged => job[x].event = "RELEASE_PUBLISHED")
<1>1. job[x] \in Job /\ Proper(job[x].d) /\ Sound(x, job[x]) /\ job[x].d \in sent /\ job[x].d \in Delivery
  BY JobInHand DEF HandOffInv, InHand, Proper
<1>2. IsBuild(job[x].d) /\ x = job[x].d.item => x \in Issues /\ job[x].event = "BUILD_SUCCEEDED"
  BY <1>1 DEF IsBuild, Proper, Sound, EventFor
<1>3. x \in Releases => x = job[x].d.item /\ job[x].d.event = "RELEASE_PUBLISHED"
  BY <1>1, ReleaseEvents DEF Sound
<1>4. x \in Releases /\ Staged => job[x].event = "RELEASE_PUBLISHED"
  BY DEF Staged, AtStage, ReleaseStage
<1> QED BY <1>1, <1>2, <1>3, <1>4

(* A step that hands nothing on.                                           *)
LEMMA StillOwed ==
  ASSUME OwedInv, NEW x \in Items, job[x].pc # "idle", job'[x].d = job[x].d,
         job'[x].pc \notin {"forward", "wait", "return"}, known' = known, done' = done, sent' = sent
  PROVE  BuildStep(x)' /\ ReleaseStep(x)' /\ KnownAt(x)'
<1>1. KnownAt(x)
  BY DEF OwedInv, OwedAt
<1>2. KnownAt(x)'
  BY <1>1 DEF KnownAt, IsBuild
<1> QED BY <1>2 DEF BuildStep, ReleaseStep

LEMMA ReadLabelsOwed ==
  ASSUME OwedInv, \A y \in Issues : StageKept(y), NEW x \in Items, ReadLabels(x)
  PROVE  \A z \in Items : OwedAt(z)'
<1> DEFINE j == [job[x] EXCEPT !.found = labels[x]]
<1>0. /\ job[x].pc = "read" /\ job' = [job EXCEPT ![x] = Handle(x, j)]
      /\ UNCHANGED <<labels, closed, seen, known, done, owed, sent, acked>>
  BY DEF ReadLabels, github, storage, history
<1>1. /\ HandOffInv /\ Staged /\ job \in [Items -> Job] /\ OwedAt(x)
      /\ labels \in [Items -> SUBSET Labels]
  BY DEF OwedInv, HandedInv, CallInv, HandOffInv, TypeOK
<1>2. /\ job[x] \in Job /\ Sound(x, job[x])
      /\ IsBuild(job[x].d) /\ x = job[x].d.item => x \in Issues /\ job[x].event = "BUILD_SUCCEEDED"
      /\ x \in Releases => job[x].event = "RELEASE_PUBLISHED"
  BY <1>0, <1>1, BuildInHand
<1>3. j \in Job /\ j.event = job[x].event /\ j.found = labels[x]
  BY <1>1, <1>2 DEF Job
<1>g. GoesOnward(x)
  BY ReadLabelsOnward DEF OwedInv, HandedInv
<1>h. job'[x].pc # "idle" /\ job'[x].d = job[x].d
  BY <1>g, <1>1 DEF GoesOnward, Onward
<1> HIDE DEF j
<1>4. job'[x] = Handle(x, j) /\ \A y \in Items \ {x} : job'[y] = job[y]
  BY <1>0, <1>1
<1>5. Going(x)
  BY <1>0, <1>4, <1>h DEF Going
<1>6. BuildStep(x)'
  <2> SUFFICES ASSUME IsBuild(job[x].d), x = job[x].d.item
               PROVE  job'[x].pc \notin {"forward", "wait"} /\ (job'[x].pc = "return" => labels'[x] # {"PR_OPEN"})
    BY <1>h DEF BuildStep, IsBuild
  <2>1. x \in Issues /\ j.event = "BUILD_SUCCEEDED" /\ labels[x] \in Stage
    BY <1>1, <1>2, <1>3 DEF Staged, AtStage, IssueStage
  <2>2. Handle(x, j) = ApplyEvent(j)
    BY <2>1 DEF Handle
  <2>3. /\ ApplyEvent(j).pc \in {"write", "clear", "return"}
        /\ ApplyEvent(j).pc = "return" => labels[x] # {"PR_OPEN"}
    BY <1>3, <2>1, ApplyAtIssue
  <2> QED BY <1>0, <1>4, <2>2, <2>3
<1>7. ReleaseStep(x)'
  <2> SUFFICES ASSUME x \in Releases  PROVE job'[x].pc \notin {"forward", "wait", "return"}
    BY DEF ReleaseStep
  <2>1. j.found = {"AUTO_RELEASING"} /\ j.event = "RELEASE_PUBLISHED"
    BY <1>1, <1>2, <1>3 DEF Staged, AtStage, ReleaseStage
  <2>2. Handle(x, j) = ApplyEvent(j)
    BY <2>1 DEF Handle
  <2> QED BY <1>3, <1>4, <2>1, <2>2, ApplyAtRelease
<1>8. KnownAt(x)'
  BY <1>0, <1>1 DEF OwedAt, KnownAt, IsBuild
<1> QED BY <1>5, <1>6, <1>7, <1>8, GoingOwed

(* The steps that hand nothing on.                                         *)
LEMMA QuietOwed ==
  ASSUME OwedInv, \A y \in Issues : StageKept(y), NEW x \in Items,
         \/ ReadPull(x) \/ ReadTag(x) \/ AddReviewing(x) \/ Write(x) \/ ClearPendingFire(x) \/ Gate(x)
         \/ Throw(x)
  PROVE  \A z \in Items : OwedAt(z)'
<1>0. /\ job[x].pc # "idle"
      /\ UNCHANGED <<seen, known, done, owed, sent, acked>>
      /\ closed \subseteq closed'
  BY DEF ReadPull, ReadTag, AddReviewing, Write, ClearPendingFire, Gate, Throw, github, storage, history
<1>1. HandOffInv /\ Staged /\ job \in [Items -> Job] /\ OwedAt(x) /\ CallInv
  BY DEF OwedInv, HandedInv, CallInv, HandOffInv, TypeOK
<1>2. /\ job[x] \in Job /\ Sound(x, job[x])
      /\ IsBuild(job[x].d) /\ x = job[x].d.item => x \in Issues /\ job[x].event = "BUILD_SUCCEEDED"
      /\ x \in Releases => job[x].event = "RELEASE_PUBLISHED"
  BY <1>0, <1>1, BuildInHand
<1>g. GoesOnward(x)
  BY <1>1, ReadsOnward, AddReviewingOnward, WriteOnward, ClearOnward, GateOnward, EndOnward
<1>h. job'[x].pc # "idle" /\ job'[x].d = job[x].d /\ \A y \in Items \ {x} : job'[y] = job[y]
  BY <1>g, <1>1 DEF GoesOnward, Onward
<1>5. Going(x)
  BY <1>0, <1>h DEF Going
<1>6. CASE Write(x) \/ ClearPendingFire(x) \/ Throw(x)
  <2>1. job'[x].pc \in {"clear", "log", "write", "thrown"}
    BY <1>1, <1>2, <1>6 DEF Write, ClearPendingFire, Throw, Job
  <2> QED BY <1>0, <1>5, <1>h, <2>1, StillOwed, GoingOwed
<1>7. CASE ReadPull(x) \/ ReadTag(x) \/ AddReviewing(x) \/ Gate(x)
  <2>1. job[x].pc \in {"open", "add", "gate", "tag"}
    BY <1>7 DEF ReadPull, ReadTag, AddReviewing, Gate
  <2>2. x \notin Releases
    BY <1>1, <1>0, <2>1 DEF Staged, AtStage, ReleaseStage
  <2>3. ~(IsBuild(job[x].d) /\ x = job[x].d.item)
    BY <1>2, <2>1 DEF Sound
  <2>4. BuildStep(x)' /\ ReleaseStep(x)'
    BY <1>h, <2>2, <2>3 DEF BuildStep, ReleaseStep, IsBuild
  <2>5. KnownAt(x)'
    BY <1>0, <1>1 DEF OwedAt, KnownAt, IsBuild
  <2> QED BY <1>5, <2>4, <2>5, GoingOwed
<1> QED BY <1>6, <1>7

(* A build's report goes to its PR once its rule is logged.                *)
LEMMA LogOwed ==
  ASSUME OwedInv, \A y \in Issues : StageKept(y), NEW x \in Items, Log(x)
  PROVE  \A z \in Items : OwedAt(z)'
<1>0. /\ job[x].pc = "log"
      /\ UNCHANGED <<seen, known, done, sent, acked, closed>>
  BY DEF Log, github
<1>1. HandOffInv /\ Staged /\ job \in [Items -> Job] /\ OwedAt(x) /\ CallInv
  BY DEF OwedInv, HandedInv, CallInv, HandOffInv, TypeOK
<1>2. /\ job[x] \in Job /\ Sound(x, job[x])
      /\ IsBuild(job[x].d) /\ x = job[x].d.item => x \in Issues /\ job[x].event = "BUILD_SUCCEEDED"
      /\ x \in Releases => job[x].event = "RELEASE_PUBLISHED"
  BY <1>0, <1>1, BuildInHand
<1>g. GoesOnward(x)
  BY <1>1, LogOnward
<1>h. job'[x].pc # "idle" /\ job'[x].d = job[x].d /\ \A y \in Items \ {x} : job'[y] = job[y]
  BY <1>g, <1>1 DEF GoesOnward, Onward
<1>5. Going(x)
  <2>1. owed \subseteq owed' /\ \A o \in owed' \ owed : o[1] = job[x].d /\ x = o[1].item
    BY <1>1, LogOwes
  <2> QED BY <1>0, <1>h, <2>1 DEF Going
<1>6. job[x].event = "BUILD_SUCCEEDED" => job'[x].pc = "forward" /\ job'[x].todo = {job[x].d.pr}
  BY <1>1, <1>2 DEF Log, Job
<1>7. job[x].event = "RELEASE_PUBLISHED" => job'[x].pc = "list"
  BY <1>1, <1>2 DEF Log, Job
<1>8. BuildStep(x)' /\ ReleaseStep(x)'
  BY <1>2, <1>h, <1>6, <1>7 DEF BuildStep, ReleaseStep, IsBuild
<1>9. KnownAt(x)'
  BY <1>0, <1>1 DEF OwedAt, KnownAt, IsBuild
<1> QED BY <1>5, <1>8, <1>9, GoingOwed

(* A release's list has all it owes a release to.                          *)
LEMMA ListOwed ==
  ASSUME OwedInv, \A y \in Issues : StageKept(y), NEW x \in Items, List(x)
  PROVE  \A z \in Items : OwedAt(z)'
<1>0. /\ job[x].pc = "list"
      /\ UNCHANGED <<labels, seen, known, done, sent, acked, closed>>
      /\ job' = [job EXCEPT ![x] = [job[x] EXCEPT !.pc = "forward", !.todo = ReadyIssues]]
  BY DEF List, github, storage
<1>1. HandOffInv /\ Staged /\ job \in [Items -> Job] /\ OwedAt(x) /\ CallInv /\ OwedFrom
  BY DEF OwedInv, HandedInv, CallInv, HandOffInv, TypeOK
<1>2. job[x] \in Job /\ Sound(x, job[x]) /\ Calling(x, job[x])
  BY <1>0, <1>1, JobCalls
<1>3. job[x].d.event = "RELEASE_PUBLISHED" /\ x = job[x].d.item
  BY <1>0, <1>2 DEF Sound, Calling
<1>h. /\ job'[x].pc = "forward" /\ job'[x].d = job[x].d /\ job'[x].todo = ReadyIssues
      /\ \A y \in Items \ {x} : job'[y] = job[y]
  BY <1>0, <1>1, <1>2 DEF Job
<1>4. /\ owed \subseteq owed'
      /\ \A o \in owed' \ owed : o[1] = job[x].d /\ o[2] \in ReadyIssues
  BY <1>1, ListOwes
<1>5. Going(x)
  BY <1>0, <1>3, <1>h, <1>4 DEF Going
<1>6. ASSUME NEW o \in owed', o[1] = job[x].d
      PROVE  o[2] \in ReadyIssues \/ o[2] \in closed
  <2>1. CASE o \in owed
    <3>1. o[2] \in Issues /\ labels[o[2]] = {"READY_FOR_RELEASE"}
      BY <1>1, <1>3, <1>6, <2>1 DEF OwedFrom, OwedTo
    <3> QED BY <3>1 DEF ReadyIssues
  <2> QED BY <1>4, <2>1
<1>7. BuildStep(x)' /\ ReleaseStep(x)'
  BY <1>0, <1>3, <1>6, <1>h DEF BuildStep, ReleaseStep, IsBuild
<1>8. KnownAt(x)'
  BY <1>0, <1>1 DEF OwedAt, KnownAt, IsBuild
<1> QED BY <1>5, <1>7, <1>8, GoingOwed

(* What is still to do is called; with nothing left, a build's report may  *)
(* be remembered.                                                          *)
LEMMA ForwardOwed ==
  ASSUME OwedInv, \A y \in Issues : StageKept(y), NEW x \in Items, Forward(x)
  PROVE  \A z \in Items : OwedAt(z)'
<1>0. /\ job[x].pc = "forward"
      /\ UNCHANGED <<labels, seen, done, owed, sent, acked, closed>>
  BY DEF Forward, github, history
<1>1. HandOffInv /\ job \in [Items -> Job] /\ OwedAt(x) /\ CallInv
  BY DEF OwedInv, HandedInv, CallInv, HandOffInv, TypeOK
<1>2. /\ job[x] \in Job /\ Sound(x, job[x]) /\ job[x].d \in sent
      /\ IsBuild(job[x].d) /\ x = job[x].d.item => x \in Issues /\ job[x].event = "BUILD_SUCCEEDED"
  BY <1>0, <1>1, BuildInHand
<1>3. CASE job[x].todo # {}
  <2>1. PICK y : job' = [job EXCEPT ![x] = [job[x] EXCEPT !.pc = "wait", !.at = y]] /\ known' = known
    BY <1>3 DEF Forward
  <2>2. /\ job'[x].pc = "wait" /\ job'[x].d = job[x].d /\ job'[x].todo = job[x].todo
        /\ \A z \in Items \ {x} : job'[z] = job[z]
    BY <1>1, <1>2, <2>1 DEF Job
  <2>3. Going(x)
    BY <1>0, <2>1, <2>2 DEF Going
  <2>4. BuildStep(x)' /\ ReleaseStep(x)'
    BY <1>0, <1>1, <2>2 DEF OwedAt, BuildStep, ReleaseStep, IsBuild
  <2>5. KnownAt(x)'
    BY <1>0, <1>1, <2>1 DEF OwedAt, KnownAt, IsBuild
  <2> QED BY <2>3, <2>4, <2>5, GoingOwed
<1>4. CASE job[x].todo = {}
  <2>1. /\ job' = [job EXCEPT ![x] = [job[x] EXCEPT !.pc = "return"]]
        /\ known \subseteq known' /\ known' \subseteq known \cup {x}
        /\ known' # known => job[x].event = "BUILD_SUCCEEDED"
    BY <1>4 DEF Forward, Returns
  <2>2. /\ job'[x].pc = "return" /\ job'[x].d = job[x].d /\ job'[x].todo = {}
        /\ \A z \in Items \ {x} : job'[z] = job[z]
    BY <1>1, <1>2, <1>4, <2>1 DEF Job
  <2>3. Going(x)
    BY <1>0, <2>1, <2>2 DEF Going
  <2>4. BuildStep(x)' /\ ReleaseStep(x)'
    BY <1>0, <1>1, <1>4, <2>2 DEF OwedAt, BuildStep, ReleaseStep, IsBuild
  <2>5. KnownAt(x)'
    <3>1. CASE known' = known
      BY <1>0, <1>1, <3>1 DEF OwedAt, KnownAt, IsBuild
    <3>2. CASE known' # known
      <4>1. job[x].d.event = "BUILD_SUCCEEDED" /\ x = job[x].d.item
        BY <1>1, <1>2, <2>1, <3>2, EventNames DEF Sound, HandOffInv, TypeOK
      <4>2. <<job[x].d, job[x].d.pr>> \in done
        BY <1>0, <1>1, <1>4, <4>1 DEF OwedAt, BuildStep, IsBuild
      <4> QED BY <1>0, <1>2, <4>1, <4>2 DEF KnownAt, IsBuild
    <3> QED BY <3>1, <3>2
  <2> QED BY <2>3, <2>4, <2>5, GoingOwed
<1> QED BY <1>3, <1>4

(* A delivery taken up is claimed, and at work.                            *)
LEMMA TakeOwed ==
  ASSUME OwedInv, \A y \in Issues : StageKept(y), NEW x \in Items, Take(x)
  PROVE  \A z \in Items : OwedAt(z)'
<1>0. PICK w \in waiting : /\ <<w.d, x>> \notin seen /\ seen' = seen \cup {<<w.d, x>>}
                           /\ job' = [job EXCEPT ![x] = Begin(w)]
  BY DEF Take
<1>1. /\ job[x].pc = "idle" /\ UNCHANGED <<known, done, owed, sent, acked, closed>>
      /\ job \in [Items -> Job] /\ OwedAt(x)
  BY DEF Take, github, history, OwedInv, HandedInv, CallInv, HandOffInv, TypeOK
<1>2. Begin(w).pc = "read" /\ Begin(w).d = w.d
  BY DEF Begin, IdleJob
<1>3. job'[x].pc = "read" /\ job'[x].d = w.d /\ \A z \in Items \ {x} : job'[z] = job[z]
  BY <1>0, <1>1, <1>2
<1>4. ASSUME NEW z \in Items \ {x}  PROVE OwedAt(z)'
  <2>1. Kept(z, x)
    BY <1>0, <1>1, <1>3 DEF Kept
  <2> QED BY <1>1, <2>1, KeptOwed
<1>5. BuildStep(x)' /\ ReleaseStep(x)'
  BY <1>3 DEF BuildStep, ReleaseStep
<1>6. KnownAt(x)'
  BY <1>1 DEF OwedAt, KnownAt, IsBuild
<1>7. ClaimsAt(x)'
  <2>1. \A d \in Delivery : <<d, x>> \in seen' =>
          <<d, x>> \in done' \/ (job'[x].pc # "idle" /\ job'[x].d = d) \/ (IsBuild(d) /\ d.item = x /\ x \in known')
    BY <1>0, <1>1, <1>3 DEF OwedAt, ClaimsAt, Busy
  <2>2. <<job'[x].d, x>> \in seen'
    BY <1>0, <1>3
  <2> QED BY <2>1, <2>2 DEF ClaimsAt, Busy, IsBuild
<1>8. SettledAt(x)'
  <2> SUFFICES ASSUME NEW d \in Delivery, d.item = x
               PROVE  (Settled(d)' => HandedWell(d)') /\ (d \in acked' => Settled(d)')
    BY DEF SettledAt
  <2>1. Settled(d)' <=> Settled(d)
    BY <1>0, <1>1, <1>3 DEF Settled, Busy
  <2>2. Settled(d) => HandedWell(d)
    BY <1>1 DEF OwedAt, SettledAt
  <2>3. HandedWell(d) => HandedWell(d)'
    BY <1>1, HandedWellKept
  <2>4. d \in acked' => Settled(d)
    BY <1>1 DEF OwedAt, SettledAt
  <2> QED BY <2>1, <2>2, <2>3, <2>4
<1> QED BY <1>4, <1>5, <1>6, <1>7, <1>8 DEF OwedAt

(* An item's answer: what it has handled, whom it answers and what it      *)
(* keeps of its claims.                                                    *)
Answers(x, d, awaited, ok) ==
  /\ Answer(x, d, awaited, ok)
  /\ UNCHANGED <<labels, closed, known, owed, sent>>
  /\ done \subseteq done'
  /\ \A e \in Delivery, z \in Items \ {x} : <<e, z>> \in seen' <=> <<e, z>> \in seen
  /\ ok /\ x # d.item => <<d, x>> \in done'

LEMMA AnswersOwed ==
  ASSUME OwedInv, \A y \in Issues : StageKept(y), NEW x \in Items, NEW d, NEW awaited \in BOOLEAN,
         NEW ok \in BOOLEAN, Answers(x, d, awaited, ok),
         ClaimsAt(x)', SettledAt(x)'
  PROVE  \A z \in Items : OwedAt(z)'
<1>0. job'[x].pc = "idle" /\ \A z \in Items \ {x} : Answered(z, x, d, awaited, ok)
  <2>1. job \in [Items -> Job]
    BY DEF OwedInv, HandedInv, CallInv, HandOffInv, TypeOK
  <2> QED BY <2>1, AnswerMoves DEF Answers
<1>1. OwedAt(x) /\ CallInv
  BY DEF OwedInv, HandedInv
<1>2. ASSUME NEW z \in Items \ {x}  PROVE OwedAt(z)'
  <2>1. job'[z].d = job[z].d
    BY <1>0 DEF Answered
  <2>2. \/ job'[z] = job[z]
        \/ /\ job[z].pc = "wait"
           /\ \/ job'[z].pc = "thrown"
              \/ /\ job'[z].pc = "forward" /\ job'[z].todo = job[z].todo \ {x}
                 /\ <<job[z].d, x>> \in done'
    <3>1. ASSUME job'[z] # job[z], job'[z].pc # "thrown"
          PROVE  /\ job[z].pc = "wait" /\ job'[z].pc = "forward" /\ job'[z].todo = job[z].todo \ {x}
                 /\ <<job[z].d, x>> \in done'
      <4>1. /\ job[z].pc = "wait" /\ job[z].d = d /\ ok
            /\ job'[z].pc = "forward" /\ job'[z].todo = job[z].todo \ {x}
        BY <1>0, <3>1 DEF Answered
      <4>2. z = d.item
        BY <1>1, <4>1, WaiterCalls
      <4> QED BY <4>1, <4>2 DEF Answers
    <3>2. job'[z] # job[z] => job[z].pc = "wait"
      BY <1>0 DEF Answered
    <3> QED BY <3>1, <3>2
  <2>3. \A e \in Delivery : e.item = z => (e \in acked' <=> e \in acked)
    BY DEF Answers, Answer
  <2>4. Kept(z, x)
    BY <2>1, <2>2, <2>3 DEF Kept, Answers
  <2> QED BY <2>4, KeptOwed DEF Answers
<1>3. BuildStep(x)' /\ ReleaseStep(x)'
  BY <1>0 DEF BuildStep, ReleaseStep
<1>4. KnownAt(x)'
  BY <1>1 DEF OwedAt, KnownAt, IsBuild, Answers
<1> QED BY <1>2, <1>3, <1>4 DEF OwedAt

(* A claim found is of a delivery that is handled, or of a report of a     *)
(* remembered outcome.                                                     *)
LEMMA DedupeOwed ==
  ASSUME OwedInv, \A y \in Issues : StageKept(y), NEW x \in Items, Dedupe(x)
  PROVE  \A z \in Items : OwedAt(z)'
<1>0. PICK w \in waiting : <<w.d, x>> \in seen /\ Answer(x, w.d, w.awaited, TRUE)
  BY DEF Dedupe
<1>1. /\ job[x].pc = "idle" /\ UNCHANGED <<labels, closed, known, owed, sent, seen, done>>
      /\ OwedAt(x) /\ w.d \in Delivery /\ w.awaited \in BOOLEAN
  BY DEF Dedupe, github, storage, history, OwedInv, HandedInv, CallInv, HandOffInv, TypeOK, Request
<1>2. job'[x].pc = "idle" /\ acked' = IF x = w.d.item THEN acked \cup {w.d} ELSE acked
  BY <1>0 DEF Answer, IdleJob
<1>3. Answers(x, w.d, w.awaited, TRUE)
  BY <1>0, <1>1 DEF Answers, OwedAt, ClaimsAt, Busy
<1>4. ClaimsAt(x)'
  BY <1>1, <1>2 DEF OwedAt, ClaimsAt, Busy, IsBuild
<1>5. SettledAt(x)'
  <2> SUFFICES ASSUME NEW d \in Delivery, d.item = x
               PROVE  (Settled(d)' => HandedWell(d)') /\ (d \in acked' => Settled(d)')
    BY DEF SettledAt
  <2>1. Settled(d)' <=> <<d, x>> \in seen
    BY <1>1, <1>2 DEF Settled, Busy
  <2>2. Settled(d) <=> <<d, x>> \in seen
    BY <1>1 DEF Settled, Busy
  <2>3. Settled(d) => HandedWell(d)
    BY <1>1 DEF OwedAt, SettledAt
  <2>4. HandedWell(d) => HandedWell(d)'
    BY <1>1, HandedWellKept
  <2>5. d \in acked' => Settled(d)'
    BY <1>0, <1>1, <1>2, <2>1, <2>2 DEF OwedAt, SettledAt
  <2> QED BY <2>1, <2>2, <2>3, <2>4, <2>5
<1> QED BY <1>1, <1>3, <1>4, <1>5, AnswersOwed

(* A report of a remembered outcome: the PR was handed the other's.        *)
LEMMA KnownOutcomeOwed ==
  ASSUME OwedInv, \A y \in Issues : StageKept(y), NEW x \in Items, KnownOutcome(x)
  PROVE  \A z \in Items : OwedAt(z)'
<1>0. PICK w \in waiting : /\ w.d.item = x /\ w.d.event = "BUILD_SUCCEEDED"
                           /\ seen' = seen \cup {<<w.d, x>>} /\ Answer(x, w.d, w.awaited, TRUE)
  BY DEF KnownOutcome
<1>1. /\ job[x].pc = "idle" /\ x \in known /\ UNCHANGED <<labels, closed, known, owed, sent, done>>
      /\ OwedAt(x) /\ w.d \in Delivery /\ w.awaited \in BOOLEAN /\ w.d \in sent
  BY DEF KnownOutcome, github, history, OwedInv, HandedInv, CallInv, HandOffInv, TypeOK, Queued, Request
<1>2. job'[x].pc = "idle" /\ acked' = acked \cup {w.d}
  BY <1>0 DEF Answer, IdleJob
<1>3. Answers(x, w.d, w.awaited, TRUE)
  BY <1>0, <1>1 DEF Answers
<1>4. ClaimsAt(x)'
  <2> SUFFICES ASSUME NEW d \in Delivery, <<d, x>> \in seen'
               PROVE  <<d, x>> \in done' \/ (IsBuild(d) /\ d.item = x /\ x \in known')
    BY <1>2 DEF ClaimsAt, Busy, IsBuild
  <2>1. CASE d = w.d
    BY <1>0, <1>1, <2>1 DEF IsBuild
  <2>2. CASE d # w.d
    BY <1>0, <1>1, <2>2 DEF OwedAt, ClaimsAt, Busy
  <2> QED BY <2>1, <2>2
<1>5. HandedWell(w.d)
  <2>1. PICK e \in sent : IsBuild(e) /\ e.item = x /\ <<e, e.pr>> \in done
    BY <1>1 DEF OwedAt, KnownAt
  <2>2. e.pr = w.d.pr
    BY <1>0, <1>1, <2>1 DEF OwedInv, OneBuild, IsBuild
  <2>3. e \in Delivery
    BY DEF OwedInv, HandedInv, CallInv, HandOffInv, TypeOK
  <2>4. e = [item |-> x, event |-> "BUILD_SUCCEEDED", pr |-> w.d.pr, by |-> e.by] /\ e.by \in {"webhook", "signal"}
    BY <2>1, <2>2, <2>3 DEF Delivery, IsBuild
  <2>5. e \in Reported(x, w.d.pr)
    BY <2>4 DEF Reported
  <2> QED BY <1>0, <2>1, <2>2, <2>5 DEF HandedWell
<1>6. SettledAt(x)'
  <2> SUFFICES ASSUME NEW d \in Delivery, d.item = x
               PROVE  (Settled(d)' => HandedWell(d)') /\ (d \in acked' => Settled(d)')
    BY DEF SettledAt
  <2>1. Settled(d)' <=> <<d, x>> \in seen'
    BY <1>2 DEF Settled, Busy
  <2>2. Settled(d) <=> <<d, x>> \in seen
    BY <1>1 DEF Settled, Busy
  <2>3. Settled(d)' => HandedWell(d)
    <3>1. CASE d = w.d
      BY <1>5, <3>1
    <3>2. CASE d # w.d
      BY <1>0, <1>1, <2>1, <2>2, <3>2 DEF OwedAt, SettledAt
    <3> QED BY <3>1, <3>2
  <2>4. HandedWell(d) => HandedWell(d)'
    BY <1>1, HandedWellKept
  <2>5. d \in acked' => Settled(d)'
    BY <1>0, <1>1, <1>2, <2>1, <2>2 DEF OwedAt, SettledAt
  <2> QED BY <2>3, <2>4, <2>5
<1> QED BY <1>1, <1>3, <1>4, <1>6, AnswersOwed

(* A request that returns has handed on what it owed.                      *)
LEMMA FinishOwed ==
  ASSUME OwedInv, \A y \in Issues : StageKept(y), NEW x \in Items, Finish(x)
  PROVE  \A z \in Items : OwedAt(z)'
<1> DEFINE d == job[x].d
<1>0. job[x].pc = "return" /\ Answer(x, d, job[x].awaited, TRUE) /\ done' = done \cup {<<d, x>>}
  BY DEF Finish
<1>1. /\ UNCHANGED <<labels, closed, known, owed, sent, seen>> /\ OwedAt(x) /\ HandOffInv /\ Staged
  BY DEF Finish, github, storage, OwedInv, HandedInv, CallInv
<1>2. d \in Delivery /\ Proper(d) /\ job[x] \in Job /\ job[x].awaited \in BOOLEAN
  <2>1. d \in Delivery /\ Proper(d) /\ job[x] \in Job
    BY <1>0, <1>1, BuildInHand
  <2> QED BY <2>1 DEF Job
<1>3. job'[x].pc = "idle" /\ acked' = IF x = d.item THEN acked \cup {d} ELSE acked
  BY <1>0 DEF Answer, IdleJob
<1>4. Answers(x, d, job[x].awaited, TRUE)
  BY <1>0, <1>1 DEF Answers
<1>5. ClaimsAt(x)'
  <2> SUFFICES ASSUME NEW e \in Delivery, <<e, x>> \in seen'
               PROVE  <<e, x>> \in done' \/ (IsBuild(e) /\ e.item = x /\ x \in known')
    BY <1>3 DEF ClaimsAt, Busy, IsBuild
  <2> QED BY <1>0, <1>1 DEF OwedAt, ClaimsAt, Busy
<1>6. x = d.item => HandedWell(d)
  <2> SUFFICES ASSUME x = d.item  PROVE HandedWell(d)
    OBVIOUS
  <2>1. ASSUME IsBuild(d), <<d, d.pr>> \in owed, labels[d.item] = {"PR_OPEN"}
        PROVE  \E e \in Reported(d.item, d.pr) : <<e, d.pr>> \in done
    <3>1. <<d, d.pr>> \in done
      BY <1>0, <1>1, <2>1 DEF OwedAt, BuildStep
    <3>2. d = [item |-> d.item, event |-> "BUILD_SUCCEEDED", pr |-> d.pr, by |-> d.by] /\ d.by \in {"webhook", "signal"}
      BY <1>2, <2>1 DEF Delivery, IsBuild
    <3>3. d \in Reported(d.item, d.pr)
      BY <3>2 DEF Reported
    <3> QED BY <3>1, <3>3
  <2>2. ASSUME d.event = "RELEASE_PUBLISHED", NEW o \in owed, o[1] = d
        PROVE  o \in done \/ o[2] \in closed
    <3>1. x \in Releases
      BY <1>2, <2>2 DEF Proper
    <3>2. job[x].todo = {}
      BY <1>0, <1>1, <3>1 DEF Staged, AtStage, ReleaseStage
    <3> QED BY <1>0, <1>1, <2>2, <3>1, <3>2 DEF OwedAt, ReleaseStep
  <2> QED BY <2>1, <2>2 DEF HandedWell
<1>7. SettledAt(x)'
  <2> SUFFICES ASSUME NEW e \in Delivery, e.item = x
               PROVE  (Settled(e)' => HandedWell(e)') /\ (e \in acked' => Settled(e)')
    BY DEF SettledAt
  <2>1. Settled(e)' <=> <<e, x>> \in seen
    BY <1>1, <1>3 DEF Settled, Busy
  <2>2. Settled(e) <=> <<e, x>> \in seen /\ e # d
    BY <1>0 DEF Settled, Busy
  <2>3. <<e, x>> \in seen => HandedWell(e)
    BY <1>1, <1>6, <2>2 DEF OwedAt, SettledAt
  <2>4. HandedWell(e) => HandedWell(e)'
    BY <1>0, <1>1, HandedWellKept
  <2>5. <<d, x>> \in seen
    BY <1>0, <1>1 DEF OwedAt, ClaimsAt
  <2>6. e \in acked' => Settled(e)'
    BY <1>1, <1>3, <2>1, <2>2, <2>5 DEF OwedAt, SettledAt
  <2> QED BY <2>1, <2>3, <2>4, <2>6
<1> QED BY <1>2, <1>4, <1>5, <1>7, AnswersOwed

(* A handler that threw claims its delivery no more.                       *)
LEMMA UnwindOwed ==
  ASSUME OwedInv, \A y \in Issues : StageKept(y), NEW x \in Items, Unwind(x)
  PROVE  \A z \in Items : OwedAt(z)'
<1> DEFINE d == job[x].d
<1>0. job[x].pc = "thrown" /\ Answer(x, d, job[x].awaited, FALSE) /\ seen' = seen \ {<<d, x>>}
  BY DEF Unwind, Unclaimed
<1>1. /\ UNCHANGED <<labels, closed, known, owed, sent, done>> /\ OwedAt(x) /\ HandOffInv
  BY DEF Unwind, github, history, OwedInv, HandedInv, CallInv
<1>2. job[x].awaited \in BOOLEAN
  <2>1. job[x] \in Job
    BY <1>0, <1>1, BuildInHand
  <2> QED BY <2>1 DEF Job
<1>3. job'[x].pc = "idle" /\ acked' = acked
  BY <1>0 DEF Answer, IdleJob
<1>4. Answers(x, d, job[x].awaited, FALSE)
  BY <1>0, <1>1 DEF Answers
<1>5. ClaimsAt(x)'
  <2> SUFFICES ASSUME NEW e \in Delivery, <<e, x>> \in seen'
               PROVE  <<e, x>> \in done' \/ (IsBuild(e) /\ e.item = x /\ x \in known')
    BY <1>3 DEF ClaimsAt, Busy, IsBuild
  <2> QED BY <1>0, <1>1 DEF OwedAt, ClaimsAt, Busy
<1>6. SettledAt(x)'
  <2> SUFFICES ASSUME NEW e \in Delivery, e.item = x
               PROVE  (Settled(e)' => HandedWell(e)') /\ (e \in acked' => Settled(e)')
    BY DEF SettledAt
  <2>1. Settled(e)' <=> <<e, x>> \in seen /\ e # d
    BY <1>0, <1>3 DEF Settled, Busy
  <2>2. Settled(e) <=> <<e, x>> \in seen /\ e # d
    BY <1>0 DEF Settled, Busy
  <2>3. Settled(e) => HandedWell(e)
    BY <1>1 DEF OwedAt, SettledAt
  <2>4. HandedWell(e) => HandedWell(e)'
    BY <1>1, HandedWellKept
  <2>5. e \in acked' => Settled(e)
    BY <1>1, <1>3 DEF OwedAt, SettledAt
  <2> QED BY <2>1, <2>2, <2>3, <2>4, <2>5
<1> QED BY <1>2, <1>4, <1>5, <1>6, AnswersOwed

(* What comes from outside leaves what the items have handled.             *)
LEMMA OutsideOwed ==
  ASSUME OwedInv, \A y \in Issues : StageKept(y), "edit" \notin Acts, Environment \/ UNCHANGED vars
  PROVE  OneBuild' /\ \A z \in Items : OwedAt(z)'
<1>1. UNCHANGED <<job, seen, known, acked, owed, done, closed>> /\ sent \subseteq sent'
  BY DEF Environment, Report, Merge, Checks, LabelPull, Cut, Publish, Edit, Redeliver, Deliver, vars, github, storage,
     history
<1>2. ASSUME NEW z \in Items  PROVE OwedAt(z)'
  <2>1. Kept(z, z)
    BY <1>1 DEF Kept
  <2> QED BY <1>1, <2>1, KeptOwed
<1>3. OneBuild'
  <2>1. CASE \E i \in Issues, p \in Pulls, by \in {"webhook", "signal"} : Report(i, p, by)
    <3>1. PICK i \in Issues, p \in Pulls, by \in {"webhook", "signal"} : Report(i, p, by)
      BY <2>1
    <3> DEFINE new == [item |-> i, event |-> "BUILD_SUCCEEDED", pr |-> p, by |-> by]
    <3>2. /\ sent' = sent \cup {new} /\ new.item = i /\ new.pr = p
          /\ \A d \in sent : IsBuild(d) /\ d.item = i => d.pr = p
      BY <3>1 DEF Report, Deliver, IsBuild
    <3> HIDE DEF new
    <3> QED BY <3>2 DEF OneBuild, OwedInv, IsBuild
  <2>2. CASE ~\E i \in Issues, p \in Pulls, by \in {"webhook", "signal"} : Report(i, p, by)
    <3>1. \A d \in sent' \ sent : d.event # "BUILD_SUCCEEDED"
      <4>1. \/ sent' = sent
            \/ \E y \in Items, event \in OwnEvents \ {"BUILD_SUCCEEDED"} : sent' = sent \cup {Of(y, event)}
        BY <2>2 DEF Environment, Merge, Checks, LabelPull, Cut, Publish, Edit, Redeliver, Deliver, OwnEvents, Items, vars
      <4>2. \A y, event : Of(y, event).event = event
        BY DEF Of
      <4> QED BY <4>1, <4>2
    <3> QED BY <3>1 DEF OneBuild, OwedInv, IsBuild
  <2> QED BY <2>1, <2>2
<1> QED BY <1>2, <1>3

LEMMA OwedStep ==
  ASSUME "evict" \notin Faults, "edit" \notin Acts, OwedInv, [Next]_vars
  PROVE  OwedInv'
<1>0. HandOffInv /\ Staged /\ OwedFrom /\ HandedInv
  BY DEF OwedInv, HandedInv, CallInv
<1>1. HandedInv'
  BY <1>0, HandedStep
<1>2. Staged' /\ \A y \in Issues : StageKept(y)
  BY <1>0, StageStep
<1>3. OwedFrom'
  BY <1>0, <1>2, OwedFromStep
<1>4. ASSUME NEW x \in Items, Step(x) \/ Throw(x)  PROVE OneBuild' /\ \A z \in Items : OwedAt(z)'
  <2>1. sent' = sent
    BY <1>4 DEF Step, Throw, Take, Dedupe, KnownOutcome, ReadLabels, ReadPull, ReadTag, AddReviewing, Write,
                ClearPendingFire, Log, Gate, List, Forward, Finish, Unwind
  <2>2. OneBuild'
    BY <2>1 DEF OwedInv, OneBuild, IsBuild
  <2>3. \A z \in Items : OwedAt(z)'
    BY <1>2, <1>4, ReadLabelsOwed, QuietOwed, LogOwed, ListOwed, ForwardOwed, TakeOwed, DedupeOwed, KnownOutcomeOwed,
       FinishOwed, UnwindOwed DEF Step
  <2> QED BY <2>2, <2>3
<1>5. ASSUME NEW x \in Items  PROVE ~Evict(x)
  BY DEF Evict
<1>6. OneBuild' /\ \A z \in Items : OwedAt(z)'
  BY <1>2, <1>4, <1>5, OutsideOwed DEF Next
<1> QED BY <1>1, <1>2, <1>3, <1>6 DEF OwedInv

LEMMA OwedInit == Init => OwedInv
<1> SUFFICES ASSUME Init  PROVE OwedInv
  OBVIOUS
<1>1. \A x \in Items : job[x].pc = "idle"
  BY DEF Init, IdleJob
<1>2. HandedInv
  BY <1>1, CallInit DEF Init, HandedInv, Claimed, MergeSteps, MergeEnds, MergesHandedOn
<1>3. sent = {} /\ owed = {} /\ seen = {} /\ known = {} /\ acked = {}
  BY DEF Init
<1>4. OneBuild /\ OwedFrom
  BY <1>3 DEF OneBuild, OwedFrom, OwedTo
<1>5. \A x \in Items : OwedAt(x)
  BY <1>1, <1>3 DEF OwedAt, BuildStep, ReleaseStep, ClaimsAt, KnownAt, SettledAt, Settled
<1> QED BY <1>2, <1>4, <1>5, StageInit DEF OwedInv

(* Whatever throws and is delivered again, where no object is lost and     *)
(* nobody edits an issue's labels, a delivery that was answered well left  *)
(* no hand-off it owed undone: a build's review was asked for, by one of   *)
(* its reports, and a release reached every issue it listed and did not    *)
(* close (coordinate/stages.ts, webhook.ts's claim).                       *)
THEOREM HandOffsAreDone == "evict" \notin Faults /\ "edit" \notin Acts => (Spec => []HandOffsDone)
<1> SUFFICES ASSUME "evict" \notin Faults, "edit" \notin Acts  PROVE Spec => []HandOffsDone
  OBVIOUS
<1>1. OwedInv /\ [Next]_vars => OwedInv'
  BY OwedStep
<1>2. OwedInv => HandOffsDone
  <2> SUFFICES ASSUME OwedInv, NEW d \in acked
               PROVE  IF d.event = "BUILD_SUCCEEDED"
                      THEN <<d, d.pr>> \in owed /\ d.pr \notin merged /\ DeriveState(labels[d.item]) = "PR_OPEN" =>
                             \E e \in Reported(d.item, d.pr) : <<e, d.pr>> \in done
                      ELSE \A o \in owed : o[1] = d => o \in done \/ o[2] \notin ReadyIssues
    BY DEF HandOffsDone
  <2>1. d \in Delivery /\ d.item \in Items /\ OwedFrom /\ MergesHandedOn /\ Staged /\ TypeOK
    BY DEF OwedInv, HandedInv, CallInv, HandOffInv, TypeOK, Delivery
  <2>2. HandedWell(d)
    BY <2>1 DEF OwedInv, OwedAt, SettledAt
  <2>3. ASSUME IsBuild(d), <<d, d.pr>> \in owed, DeriveState(labels[d.item]) = "PR_OPEN"
        PROVE  \E e \in Reported(d.item, d.pr) : <<e, d.pr>> \in done
    <3>1. d.item \in Issues
      BY <2>3, <2>1 DEF OwedInv, HandedInv, CallInv, HandOffInv, TypeOK, Sent, Proper, IsBuild
    <3>2. labels[d.item] \in Stage
      BY <2>1, <3>1 DEF Staged, AtStage, IssueStage, Items
    <3>3. labels[d.item] = {"PR_OPEN"}
      <4>1. /\ StateBefore({}, "RELEASED") = DeriveState({})
            /\ \A l \in Labels : StateBefore({l}, "RELEASED") = DeriveState({l})
        <5>1. JustAdded("RELEASED") = {} /\ \A s : s \ {} = s
          BY DEF JustAdded
        <5> QED BY <5>1 DEF StateBefore
      <4>2. {"AI_READY", "PR_OPEN", "READY_FOR_RELEASE"} \subseteq Labels /\ "none" \notin Labels
        BY DEF Labels
      <4> QED BY <2>3, <3>2, <4>1, <4>2, OneLabel DEF Stage
    <3> QED BY <2>2, <2>3, <3>3 DEF HandedWell
  <2>4. ASSUME ~IsBuild(d), NEW o \in owed, o[1] = d
        PROVE  o \in done \/ o[2] \notin ReadyIssues
    <3>1. d.event \in {"MERGED", "RELEASE_PUBLISHED"} /\ o = <<d, o[2]>>
      BY <2>1, <2>4 DEF OwedFrom, OwedTo, TypeOK, IsBuild
    <3>2. CASE d.event = "MERGED"
      BY <2>1, <2>4, <3>1, <3>2 DEF OwedFrom, OwedTo, MergesHandedOn
    <3>3. CASE d.event = "RELEASE_PUBLISHED"
      BY <2>2, <2>4, <3>3 DEF HandedWell, ReadyIssues
    <3> QED BY <3>1, <3>2, <3>3
  <2> QED BY <2>3, <2>4 DEF IsBuild
<1> QED BY <1>1, <1>2, OwedInit, PTL DEF Spec
=============================================================================
