---------------------------- MODULE DeliveryProofs ---------------------------
(***************************************************************************)
(* The front door implements Acceptance, and the commit's last word is     *)
(* read, for any PRs, suites, failures and redeliveries.  The invariant    *)
(* (DeliveryInv) follows a delivery through its claim: a claimed one is    *)
(* being worked on or was completed, so what a serial queue dedupes was    *)
(* completed; and a request that has heard no failure has each open PR     *)
(* still to ask, being asked, or done.                                     *)
(***************************************************************************)
EXTENDS Delivery, TLAPS

----------------------------------------------------------------------------
(* The invariant.                                                          *)

CompletedBy(p) == {d.suite : d \in log[p]}

Ranked == /\ \A s \in Suites : rank[s] <= finished
          /\ finished > 0 => \E s \in Suites : rank[s] = finished

(* Work is of a suite that finished, and reads the checks after it.        *)
Timely ==
  /\ \A r \in Request : front[r].pc # "off" => rank[r[1]] > 0
  /\ \A p \in Pulls : \A r \in queue[p] : rank[r[1]] > 0
  /\ \A p \in Pulls : \A w \in running[p] :
       /\ rank[w.req[1]] > 0
       /\ w.read > 0 => w.read \in rank[w.req[1]]..finished
  /\ \A p \in Pulls : \A d \in log[p] : rank[d.suite] > 0 /\ d.read \in rank[d.suite]..finished

(* A claim is held for as long as its work runs, and for good once it is   *)
(* completed.                                                              *)
Claimed ==
  /\ \A p \in Pulls : \A w \in running[p] : w.req[1] \in seen[p] /\ w.req[1] \notin CompletedBy(p)
  /\ \A p \in Pulls : CompletedBy(p) \subseteq seen[p]
  /\ \A p \in Pulls : \A s \in seen[p] :
       s \in CompletedBy(p) \/ \E w \in running[p] : w.req[1] = s

Named == \A s \in Suites : listed[s] # {} => open \subseteq listed[s]

Asked ==
  \A r \in Request :
    /\ \A p, q \in front[r].asked : p = q
    /\ front[r].pc = "ask" /\ ~front[r].failed =>
         \A p \in open : p \in front[r].todo \/ p \in front[r].asked \/ r[1] \in CompletedBy(p)

Heard == \A r \in Request : front[r].answer = "ok" => \A p \in open : r[1] \in CompletedBy(p)

DeliveryInv == TypeOK /\ Ranked /\ Timely /\ Claimed /\ Named /\ Asked /\ Heard

----------------------------------------------------------------------------
(* What the shared parts of the actions change.                            *)

(* An answer ends its own request and gives it its first answer.           *)
LEMMA AnswerOnly ==
  ASSUME TypeOK, NEW r \in Request, NEW a \in Answers, Answer(r, a)
  PROVE  /\ front' \in [Request -> Front]
         /\ \A q \in Request : q # r => front'[q] = front[q]
         /\ front'[r].pc = "done" /\ front'[r].asked = {}
         /\ front'[r].answer = IF front[r].answer = "none" THEN a ELSE front[r].answer
<1>1. front \in [Request -> Front]
  BY DEF TypeOK
<1>2. front[r].answer \in Answers
  BY <1>1 DEF Front
<1>3. [NotSent EXCEPT !.pc = "done",
                      !.answer = IF front[r].answer = "none" THEN a ELSE front[r].answer] \in Front
  BY <1>2 DEF NotSent, Front, PCs, Answers
<1> QED
  BY <1>1, <1>3 DEF Answer, NotSent

(* Hearing a PR touches one request, and there who is asked and whether    *)
(* one failed.                                                             *)
LEMMA HearsOnly ==
  ASSUME TypeOK, NEW r \in Request, NEW p, NEW ok \in BOOLEAN, Hears(r, p, ok)
  PROVE  /\ front' \in [Request -> Front]
         /\ \A q \in Request : /\ front'[q].pc = front[q].pc
                               /\ front'[q].todo = front[q].todo
                               /\ front'[q].answer = front[q].answer
         /\ \A q \in Request : q # r => front'[q] = front[q]
         /\ p \notin front[r].asked => front'[r] = front[r]
         /\ p \in front[r].asked => /\ front'[r].asked = {}
                                    /\ front'[r].failed = (front[r].failed \/ ~ok)
<1>1. front \in [Request -> Front]
  BY DEF TypeOK
<1>2. CASE p \notin front[r].asked
  BY <1>1, <1>2 DEF Hears
<1>3. CASE p \in front[r].asked
  <2>1. front[r] \in Front
    BY <1>1
  <2> DEFINE f == [front[r] EXCEPT !.asked = {}, !.failed = front[r].failed \/ ~ok]
  <2>2. front' = [front EXCEPT ![r] = f]
    BY <1>1, <1>3 DEF Hears
  <2>3. /\ f \in Front
        /\ f.pc = front[r].pc /\ f.todo = front[r].todo /\ f.answer = front[r].answer
        /\ f.asked = {} /\ f.failed = (front[r].failed \/ ~ok)
    BY <2>1 DEF Front
  <2> HIDE DEF f
  <2> QED
    BY <1>1, <1>3, <2>2, <2>3
<1> QED
  BY <1>2, <1>3

(* Work, and what it completes, is of requests.                            *)
LEMMA WorkIsOf ==
  ASSUME TypeOK, NEW p \in Pulls
  PROVE  /\ \A r \in queue[p] : r \in Request
         /\ \A w \in running[p] : w \in Work /\ w.req \in Request /\ w.read \in Nat
         /\ \A d \in log[p] : d \in Done
         /\ CompletedBy(p) \subseteq Suites
  BY DEF TypeOK, Work, Done, CompletedBy

(* A request hears a PR that completed its delivery, or that it failed:    *)
(* what it has yet to ask still covers the open PRs.                       *)
LEMMA HearsKeepsAsked ==
  ASSUME TypeOK, Asked, Heard, NEW r \in Request, NEW p \in Pulls, NEW ok \in BOOLEAN,
         Hears(r, p, ok), open' = open,
         \A q \in Pulls : CompletedBy(q) \subseteq CompletedBy(q)',
         ok => r[1] \in CompletedBy(p)'
  PROVE  Asked' /\ Heard'
<1>1. open \subseteq Pulls
  BY DEF TypeOK
<1>2. Heard'
  BY HearsOnly, <1>1 DEF Heard
<1>3. ASSUME NEW q \in Request
      PROVE  /\ \A x, y \in front'[q].asked : x = y
             /\ front'[q].pc = "ask" /\ ~front'[q].failed =>
                  \A x \in open : x \in front'[q].todo \/ x \in front'[q].asked \/ q[1] \in CompletedBy(x)'
  <2>1. CASE front'[q] = front[q]
    BY <2>1, <1>1 DEF Asked
  <2>2. CASE q = r /\ p \in front[r].asked
    <3>1. front'[r].asked = {} /\ front'[r].failed = (front[r].failed \/ ~ok)
      BY HearsOnly, <2>2
    <3>2. front'[r].pc = front[r].pc /\ front'[r].todo = front[r].todo
      BY HearsOnly
    <3>3. \A x \in front[r].asked : x = p
      BY <2>2 DEF Asked
    <3> QED
      BY <1>1, <2>2, <3>1, <3>2, <3>3 DEF Asked
  <2> QED
    BY <2>1, <2>2, HearsOnly
<1> QED
  BY <1>2, <1>3 DEF Asked

----------------------------------------------------------------------------
(* GitHub's steps.                                                         *)

(* A suite's finish, and what its webhook names.                           *)
LEMMA FinishKeeps ==
  ASSUME DeliveryInv, NEW s \in Suites, FinishSuite(s)
  PROVE  DeliveryInv'
<1> USE DEF DeliveryInv, FinishSuite, objects
<1>1. finished \in Nat /\ rank \in [Suites -> Nat] /\ rank' \in [Suites -> Nat]
  BY DEF TypeOK
<1>2. \A t \in Suites : rank'[t] = IF t = s THEN finished + 1 ELSE rank[t]
  BY <1>1
<1>3. TypeOK'
  BY <1>1 DEF TypeOK
<1>4. Ranked'
  BY <1>1, <1>2 DEF Ranked
<1>5. Timely'
  <2>1. \A t \in Suites : rank[t] > 0 => rank'[t] = rank[t]
    BY <1>1, <1>2
  <2>2. \A r \in Request : front'[r].pc # "off" => rank'[r[1]] > 0
    BY <2>1 DEF Timely, Request
  <2>3. ASSUME NEW p \in Pulls
        PROVE  /\ \A r \in queue[p] : rank'[r[1]] > 0
               /\ \A w \in running[p] :
                    /\ rank'[w.req[1]] > 0
                    /\ w.read > 0 => w.read \in rank'[w.req[1]]..finished'
               /\ \A d \in log[p] : rank'[d.suite] > 0 /\ d.read \in rank'[d.suite]..finished'
    <3>1. \A r \in queue[p] : rank'[r[1]] > 0
      BY <2>1, WorkIsOf DEF Timely, Request
    <3>2. \A w \in running[p] : /\ rank'[w.req[1]] > 0
                                /\ w.read > 0 => w.read \in rank'[w.req[1]]..finished'
      BY <1>1, <2>1, WorkIsOf DEF Timely, Request
    <3>3. \A d \in log[p] : rank'[d.suite] > 0 /\ d.read \in rank'[d.suite]..finished'
      BY <1>1, <2>1, WorkIsOf DEF Timely, Done
    <3> QED
      BY <3>1, <3>2, <3>3
  <2> QED
    BY <2>2, <2>3 DEF Timely
<1>6. Claimed' /\ Asked' /\ Heard'
  BY DEF Claimed, Asked, Heard, CompletedBy
<1>7. Named'
  <2>1. listed \in [Suites -> SUBSET Pulls]
    BY DEF TypeOK
  <2> QED
    BY <2>1 DEF Named
<1> QED
  BY <1>3, <1>4, <1>5, <1>6, <1>7

(* A PR that closes: what is said of the open ones is said of fewer.       *)
LEMMA CloseKeeps ==
  ASSUME DeliveryInv, NEW p \in Pulls, ClosePull(p)
  PROVE  DeliveryInv'
<1> USE DEF DeliveryInv, ClosePull, objects
<1>1. TypeOK'
  BY DEF TypeOK
<1>2. Ranked' /\ Timely' /\ Claimed'
  BY DEF Ranked, Timely, Claimed, CompletedBy
<1>3. Named' /\ Asked' /\ Heard'
  BY DEF Named, Asked, Heard, CompletedBy
<1> QED
  BY <1>1, <1>2, <1>3

(* The webhook arrives.                                                    *)
LEMMA ArriveKeeps ==
  ASSUME DeliveryInv, NEW s \in Suites, NEW k \in 1..Deliveries, Arrive(s, k)
  PROVE  DeliveryInv'
<1> USE DEF DeliveryInv, Arrive, commit, objects
<1> DEFINE r == <<s, k>>
<1>1. r \in Request
  BY DEF Request
<1>2. front \in [Request -> Front] /\ front[r] \in Front
  BY <1>1 DEF TypeOK
<1>3. /\ front' \in [Request -> Front]
      /\ front'[r] = [front[r] EXCEPT !.pc = "route"]
      /\ \A q \in Request : q # r => front'[q] = front[q]
  <2>1. [front[r] EXCEPT !.pc = "route"] \in Front
    BY <1>2 DEF Front, PCs
  <2> QED
    BY <1>1, <1>2, <2>1
<1>4. \A q \in Request : /\ front'[q].asked = front[q].asked
                         /\ front'[q].answer = front[q].answer
                         /\ front'[q].pc = "ask" => q # r
  BY <1>2, <1>3 DEF Front
<1>5. TypeOK'
  BY <1>3 DEF TypeOK
<1>6. Ranked' /\ Claimed' /\ Named'
  BY DEF Ranked, Claimed, Named, CompletedBy
<1>7. Timely'
  <2>1. \A q \in Request : front'[q].pc # "off" => rank[q[1]] > 0
    BY <1>3 DEF Timely
  <2> QED
    BY <2>1 DEF Timely
<1>8. Asked' /\ Heard'
  BY <1>3, <1>4 DEF Asked, Heard, CompletedBy
<1> QED
  BY <1>5, <1>6, <1>7, <1>8

----------------------------------------------------------------------------
(* The Worker's steps.                                                     *)

(* What a step of the Worker's own leaves alone: all but its request, a    *)
(* PR's queue and the count of failures.                                   *)
LEMMA WorkerKeeps ==
  ASSUME DeliveryInv, NEW r \in Request,
         front' \in [Request -> Front], \A q \in Request : q # r => front'[q] = front[q],
         front[r].pc # "off",
         queue' \in [Pulls -> SUBSET Request],
         \A p \in Pulls : queue'[p] \subseteq queue[p] \cup {r},
         UNCHANGED <<commit, running, seen, log>>, faults' \in Nat,
         \A x, y \in front'[r].asked : x = y,
         front'[r].pc = "ask" /\ ~front'[r].failed =>
           \A p \in open : p \in front'[r].todo \/ p \in front'[r].asked \/ r[1] \in CompletedBy(p),
         front'[r].answer = "ok" => \A p \in open : r[1] \in CompletedBy(p)
  PROVE  DeliveryInv'
<1> USE DEF DeliveryInv, commit
<1>1. TypeOK'
  BY DEF TypeOK
<1>2. Ranked' /\ Claimed' /\ Named'
  BY DEF Ranked, Claimed, Named, CompletedBy
<1>3. Timely'
  <2>1. \A q \in Request : front'[q].pc # "off" => rank[q[1]] > 0
    BY DEF Timely
  <2>2. \A p \in Pulls : \A q \in queue'[p] : rank[q[1]] > 0
    BY DEF Timely
  <2> QED
    BY <2>1, <2>2 DEF Timely
<1>4. Asked'
  BY DEF Asked, CompletedBy
<1>5. Heard'
  BY DEF Heard, CompletedBy
<1> QED
  BY <1>1, <1>2, <1>3, <1>4, <1>5

(* The PRs it goes to are all those open.                                  *)
LEMMA RouteKeeps ==
  ASSUME DeliveryInv, NEW r \in Request, Route(r)
  PROVE  DeliveryInv'
<1> USE DEF DeliveryInv, Route, objects
<1>1. front \in [Request -> Front] /\ front[r] \in Front /\ open \subseteq Pulls
  BY DEF TypeOK
<1>2. r[1] \in Suites
  BY DEF Request
<1>3. RoutedTo(r[1]) \subseteq Pulls /\ open \subseteq RoutedTo(r[1])
  BY <1>1, <1>2 DEF RoutedTo, Named, TypeOK
<1>4. queue' \in [Pulls -> SUBSET Request] /\ faults' \in Nat
  BY DEF TypeOK
<1>5. CASE RoutedTo(r[1]) = {}
  <2>1. Answer(r, "ok")
    BY <1>5
  <2>2. "ok" \in Answers
    BY DEF Answers
  <2> QED
    BY <1>3, <1>4, <1>5, <2>1, <2>2, AnswerOnly, WorkerKeeps
<1>6. CASE RoutedTo(r[1]) # {}
  <2> DEFINE f == [front[r] EXCEPT !.pc = "ask", !.todo = RoutedTo(r[1])]
  <2>1. front' = [front EXCEPT ![r] = f]
    BY <1>1, <1>6
  <2>2. /\ f \in Front
        /\ f.todo = RoutedTo(r[1]) /\ f.asked = front[r].asked /\ f.answer = front[r].answer
    BY <1>1, <1>3 DEF Front, PCs
  <2> HIDE DEF f
  <2>3. /\ front' \in [Request -> Front] /\ front'[r] = f
        /\ \A q \in Request : q # r => front'[q] = front[q]
    BY <1>1, <2>1, <2>2
  <2>4. \A x, y \in front'[r].asked : x = y
    BY <2>2, <2>3 DEF Asked
  <2>5. front'[r].answer = "ok" => \A p \in open : r[1] \in CompletedBy(p)
    BY <2>2, <2>3 DEF Heard
  <2>6. \A p \in open : p \in front'[r].todo
    BY <1>3, <2>2, <2>3
  <2> QED
    BY <1>4, <2>3, <2>4, <2>5, <2>6, WorkerKeeps
<1> QED
  BY <1>5, <1>6

(* A request that ends without having heard every PR is not a 200.         *)
LEMMA EndsUnwell ==
  ASSUME DeliveryInv, NEW r \in Request, NEW a \in Answers \ {"ok"}, Answer(r, a),
         front[r].pc # "off", queue' \in [Pulls -> SUBSET Request],
         \A p \in Pulls : queue'[p] \subseteq queue[p] \cup {r},
         UNCHANGED <<commit, running, seen, log>>, faults' \in Nat
  PROVE  DeliveryInv'
<1> USE DEF DeliveryInv
<1>1. front'[r].answer = "ok" => \A p \in open : r[1] \in CompletedBy(p)
  BY AnswerOnly DEF Heard
<1> QED
  BY <1>1, AnswerOnly, WorkerKeeps

LEMMA FaultType ==
  ASSUME TypeOK, Fault
  PROVE  faults' \in Nat
  BY DEF TypeOK, Fault

LEMMA RouteFailsKeeps ==
  ASSUME DeliveryInv, NEW r \in Request, RouteFails(r)
  PROVE  DeliveryInv'
<1>1. "failed" \in Answers \ {"ok"} /\ TypeOK /\ Answer(r, "failed") /\ front[r].pc # "off"
  BY DEF Answers, DeliveryInv, RouteFails
<1>2. queue' = queue /\ queue \in [Pulls -> SUBSET Request] /\ UNCHANGED <<commit, running, seen, log>>
  BY <1>1 DEF RouteFails, objects, TypeOK
<1>3. faults' \in Nat
  BY <1>1, FaultType DEF RouteFails
<1> QED
  BY <1>1, <1>2, <1>3, EndsUnwell

LEMMA ForwardFailsKeeps ==
  ASSUME DeliveryInv, NEW r \in Request, NEW p \in Pulls, ForwardFails(r, p)
  PROVE  DeliveryInv'
<1>1. "failed" \in Answers \ {"ok"} /\ TypeOK /\ Answer(r, "failed") /\ front[r].pc # "off"
  BY DEF Answers, DeliveryInv, ForwardFails, NextAsked
<1>2. queue' \in [Pulls -> SUBSET Request] /\ \A q \in Pulls : queue'[q] \subseteq queue[q] \cup {r}
  BY <1>1 DEF ForwardFails, TypeOK
<1>3. UNCHANGED <<commit, running, seen, log>>
  BY DEF ForwardFails
<1>4. faults' \in Nat
  BY <1>1, FaultType DEF ForwardFails
<1> QED
  BY <1>1, <1>2, <1>3, <1>4, EndsUnwell

LEMMA CutOffKeeps ==
  ASSUME DeliveryInv, NEW r \in Request, CutOff(r)
  PROVE  DeliveryInv'
<1>1. "late" \in Answers \ {"ok"} /\ TypeOK /\ Answer(r, "late") /\ front[r].pc # "off"
  BY DEF Answers, DeliveryInv, CutOff
<1>2. queue' = queue /\ queue \in [Pulls -> SUBSET Request] /\ UNCHANGED <<commit, running, seen, log>>
  BY <1>1 DEF CutOff, objects, TypeOK
<1>3. faults' \in Nat
  BY <1>1, FaultType DEF CutOff
<1> QED
  BY <1>1, <1>2, <1>3, EndsUnwell

(* A PR is asked when the one before has answered.                         *)
LEMMA ForwardKeeps ==
  ASSUME DeliveryInv, NEW r \in Request, NEW p \in Pulls, Forward(r, p)
  PROVE  DeliveryInv'
<1> USE DEF DeliveryInv, Forward, NextAsked
<1>1. front \in [Request -> Front] /\ front[r] \in Front /\ open \subseteq Pulls
  BY DEF TypeOK
<1> DEFINE f == [front[r] EXCEPT !.todo = @ \ {p}, !.asked = {p}]
<1>2. front' = [front EXCEPT ![r] = f]
  BY <1>1
<1>3. /\ f \in Front
      /\ f.todo = front[r].todo \ {p} /\ f.asked = {p}
      /\ f.answer = front[r].answer /\ f.failed = front[r].failed
  BY <1>1 DEF Front
<1> HIDE DEF f
<1>4. /\ front' \in [Request -> Front] /\ front'[r] = f
      /\ \A q \in Request : q # r => front'[q] = front[q]
  BY <1>1, <1>2, <1>3
<1>5. /\ queue' \in [Pulls -> SUBSET Request] /\ faults' \in Nat
      /\ \A q \in Pulls : queue'[q] \subseteq queue[q] \cup {r}
  BY DEF TypeOK
<1>6. front'[r].answer = "ok" => \A q \in open : r[1] \in CompletedBy(q)
  BY <1>3, <1>4 DEF Heard
<1>7. ~front'[r].failed =>
        \A q \in open : q \in front'[r].todo \/ q \in front'[r].asked \/ r[1] \in CompletedBy(q)
  BY <1>3, <1>4 DEF Asked
<1> QED
  BY <1>3, <1>4, <1>5, <1>6, <1>7, WorkerKeeps

(* A 200 says that no PR failed, and none is left to ask.                  *)
LEMMA ReplyKeeps ==
  ASSUME DeliveryInv, NEW r \in Request, Reply(r)
  PROVE  DeliveryInv'
<1> USE DEF DeliveryInv, Reply, objects
<1>1. Status(r) \in Answers /\ (Status(r) = "ok" => ~front[r].failed)
  BY DEF Status, Answers
<1>2. front'[r].answer = "ok" => \A p \in open : r[1] \in CompletedBy(p)
  BY <1>1, AnswerOnly DEF Asked, Heard
<1>3. queue' = queue /\ queue \in [Pulls -> SUBSET Request] /\ faults' \in Nat
  BY DEF TypeOK
<1> QED
  BY <1>1, <1>2, <1>3, AnswerOnly, WorkerKeeps

LEMMA LateKeeps ==
  ASSUME DeliveryInv, NEW r \in Request, Late(r)
  PROVE  DeliveryInv'
<1> USE DEF DeliveryInv, Late, objects
<1>1. front \in [Request -> Front] /\ front[r] \in Front
  BY DEF TypeOK
<1>2. [front[r] EXCEPT !.answer = "late"] \in Front
  BY <1>1 DEF Front, Answers
<1>3. /\ front' \in [Request -> Front]
      /\ front'[r] = [front[r] EXCEPT !.answer = "late"]
      /\ \A q \in Request : q # r => front'[q] = front[q]
  BY <1>1, <1>2
<1>4. /\ front'[r].asked = front[r].asked /\ front'[r].todo = front[r].todo
      /\ front'[r].failed = front[r].failed /\ front'[r].pc = front[r].pc
      /\ front'[r].answer = "late"
  BY <1>1, <1>3 DEF Front
<1>5. queue' \in [Pulls -> SUBSET Request] /\ faults' \in Nat
  BY FaultType DEF TypeOK
<1>6. \A x, y \in front'[r].asked : x = y
  BY <1>4 DEF Asked
<1>7. front'[r].pc = "ask" /\ ~front'[r].failed =>
        \A p \in open : p \in front'[r].todo \/ p \in front'[r].asked \/ r[1] \in CompletedBy(p)
  BY <1>4 DEF Asked
<1> QED
  BY <1>3, <1>4, <1>5, <1>6, <1>7, WorkerKeeps

----------------------------------------------------------------------------
(* A PR's steps.                                                           *)

(* What is in the log stays, and counts as completed.                      *)
LEMMA DedupeKeeps ==
  ASSUME DeliveryInv, NEW p \in Pulls, NEW r \in queue[p], Dedupe(p, r)
  PROVE  DeliveryInv'
<1> USE DEF DeliveryInv, Dedupe, commit
<1>1. r \in Request
  BY WorkIsOf
<1>2. r[1] \in CompletedBy(p)
  BY DEF Idle, Claimed
<1>3. \A q \in Pulls : CompletedBy(q)' = CompletedBy(q)
  BY DEF CompletedBy
<1>4. Asked' /\ Heard'
  BY <1>1, <1>2, <1>3, HearsKeepsAsked
<1>5. front' \in [Request -> Front] /\ \A q \in Request : front'[q].pc = front[q].pc
  BY <1>1, HearsOnly
<1>6. queue' \in [Pulls -> SUBSET Request] /\ \A q \in Pulls : queue'[q] \subseteq queue[q]
  BY DEF TypeOK
<1>7. TypeOK'
  BY <1>5, <1>6 DEF TypeOK
<1>8. Ranked' /\ Claimed' /\ Named'
  BY DEF Ranked, Claimed, Named, CompletedBy
<1>9. Timely'
  BY <1>5, <1>6 DEF Timely
<1> QED
  BY <1>4, <1>7, <1>8, <1>9

(* A claim is made by the one the queue works on, and not again.           *)
LEMMA ClaimKeeps ==
  ASSUME DeliveryInv, NEW p \in Pulls, NEW r \in queue[p], Claim(p, r)
  PROVE  DeliveryInv'
<1> USE DEF DeliveryInv, Claim, commit
<1> DEFINE w == [req |-> r, read |-> 0]
<1>1. r \in Request /\ r[1] \in Suites
  BY WorkIsOf DEF Request
<1>2. w \in Work /\ w.req = r /\ w.read = 0
  BY <1>1 DEF Work
<1> HIDE DEF w
<1>3. running' = [running EXCEPT ![p] = {w}] /\ running \in [Pulls -> SUBSET Work]
  BY DEF Idle, TypeOK, w
<1>4. /\ running'[p] = {w} /\ running[p] = {}
      /\ \A q \in Pulls : q # p => running'[q] = running[q]
  BY <1>3 DEF Idle
<1>5. /\ seen' \in [Pulls -> SUBSET Suites]
      /\ seen'[p] = seen[p] \cup {r[1]}
      /\ \A q \in Pulls : q # p => seen'[q] = seen[q]
  BY <1>1 DEF TypeOK
<1>6. queue' \in [Pulls -> SUBSET Request] /\ \A q \in Pulls : queue'[q] \subseteq queue[q]
  BY DEF TypeOK
<1>7. running' \in [Pulls -> SUBSET Work]
  BY <1>2, <1>3
<1>8. TypeOK'
  BY <1>4, <1>5, <1>6, <1>7 DEF TypeOK
<1>9. Timely'
  BY <1>2, <1>4, <1>6 DEF Timely
<1>10. Claimed'
  <2>1. \A q \in Pulls : CompletedBy(q)' = CompletedBy(q)
    BY DEF CompletedBy
  <2>2. r[1] \notin CompletedBy(p)
    BY DEF Claimed
  <2> QED
    BY <1>2, <1>4, <1>5, <2>1, <2>2 DEF Claimed
<1>11. Ranked' /\ Named' /\ Asked' /\ Heard'
  BY DEF Ranked, Named, Asked, Heard, CompletedBy
<1> QED
  BY <1>8, <1>9, <1>10, <1>11

(* The checks read are those of now, so no older than the suite.           *)
LEMMA ReadKeeps ==
  ASSUME DeliveryInv, NEW p \in Pulls, NEW w \in running[p], ReadChecks(p, w)
  PROVE  DeliveryInv'
<1> USE DEF DeliveryInv, ReadChecks, commit
<1> DEFINE v == [w EXCEPT !.read = finished]
<1>1. w \in Work /\ w.req \in Request /\ w.req[1] \in Suites /\ finished \in Nat
  BY WorkIsOf DEF Request, TypeOK
<1>2. v \in Work /\ v.req = w.req /\ v.read = finished
  BY <1>1 DEF Work
<1>3. running[p] = {w}
  BY DEF TypeOK
<1>4. running' = [running EXCEPT ![p] = {v}] /\ running \in [Pulls -> SUBSET Work]
  BY <1>3 DEF TypeOK
<1> HIDE DEF v
<1>5. running'[p] = {v} /\ \A q \in Pulls : q # p => running'[q] = running[q]
  BY <1>4
<1>6. running' \in [Pulls -> SUBSET Work]
  BY <1>2, <1>4
<1>7. TypeOK'
  BY <1>5, <1>6 DEF TypeOK
<1>8. finished \in rank[w.req[1]]..finished
  BY <1>1 DEF Ranked, TypeOK
<1>9. Timely'
  BY <1>2, <1>5, <1>8 DEF Timely
<1>10. Claimed'
  BY <1>2, <1>5 DEF Claimed, CompletedBy
<1>11. Ranked' /\ Named' /\ Asked' /\ Heard'
  BY DEF Ranked, Named, Asked, Heard, CompletedBy
<1> QED
  BY <1>7, <1>9, <1>10, <1>11

(* What completed keeps its claim, and is heard as done.                   *)
LEMMA CompleteKeeps ==
  ASSUME DeliveryInv, NEW p \in Pulls, NEW w \in running[p], Complete(p, w)
  PROVE  DeliveryInv'
<1> USE DEF DeliveryInv, Complete, commit
<1> DEFINE d == [suite |-> w.req[1], by |-> w.req[2], read |-> w.read]
<1>1. w \in Work /\ w.req \in Request /\ w.req[1] \in Suites /\ w.read \in Nat
  BY WorkIsOf DEF Request
<1>2. d \in Done /\ d.suite = w.req[1] /\ d.read = w.read
  BY <1>1 DEF Done, Request
<1>3. /\ log' \in [Pulls -> SUBSET Done]
      /\ log'[p] = log[p] \cup {d}
      /\ \A q \in Pulls : q # p => log'[q] = log[q]
  BY <1>2 DEF TypeOK
<1> HIDE DEF d
<1>4. /\ running' \in [Pulls -> SUBSET Work]
      /\ running'[p] = {}
      /\ \A q \in Pulls : q # p => running'[q] = running[q]
  BY DEF TypeOK
<1>5. /\ CompletedBy(p)' = CompletedBy(p) \cup {w.req[1]}
      /\ \A q \in Pulls : q # p => CompletedBy(q)' = CompletedBy(q)
  BY <1>2, <1>3 DEF CompletedBy
<1>6. Asked' /\ Heard'
  BY <1>1, <1>5, HearsKeepsAsked
<1>7. front' \in [Request -> Front] /\ \A q \in Request : front'[q].pc = front[q].pc
  BY <1>1, HearsOnly
<1>8. TypeOK'
  BY <1>3, <1>4, <1>7 DEF TypeOK
<1>9. Timely'
  BY <1>1, <1>2, <1>3, <1>4, <1>7 DEF Timely
<1>10. Claimed'
  <2>1. running[p] = {w}
    BY DEF TypeOK
  <2> QED
    BY <1>4, <1>5, <2>1 DEF Claimed
<1>11. Ranked' /\ Named'
  BY DEF Ranked, Named
<1> QED
  BY <1>6, <1>8, <1>9, <1>10, <1>11

(* What failed lets its claim go, and is heard as failed.                  *)
LEMMA FailKeeps ==
  ASSUME DeliveryInv, NEW p \in Pulls, NEW w \in running[p], Fail(p, w)
  PROVE  DeliveryInv'
<1> USE DEF DeliveryInv, Fail, commit
<1>1. w \in Work /\ w.req \in Request /\ w.req[1] \in Suites
  BY WorkIsOf DEF Request
<1>2. /\ running' \in [Pulls -> SUBSET Work]
      /\ running'[p] = {}
      /\ \A q \in Pulls : q # p => running'[q] = running[q]
  BY DEF TypeOK
<1>3. /\ seen' \in [Pulls -> SUBSET Suites]
      /\ seen'[p] = seen[p] \ {w.req[1]}
      /\ \A q \in Pulls : q # p => seen'[q] = seen[q]
  BY DEF TypeOK
<1>4. \A q \in Pulls : CompletedBy(q)' = CompletedBy(q)
  BY DEF CompletedBy
<1>5. Asked' /\ Heard'
  BY <1>1, <1>4, HearsKeepsAsked
<1>6. front' \in [Request -> Front] /\ \A q \in Request : front'[q].pc = front[q].pc
  BY <1>1, HearsOnly
<1>7. TypeOK'
  BY <1>2, <1>3, <1>6, FaultType DEF TypeOK
<1>8. Timely'
  BY <1>2, <1>6 DEF Timely
<1>9. Claimed'
  <2>1. running[p] = {w}
    BY DEF TypeOK
  <2> QED
    BY <1>2, <1>3, <1>4, <2>1 DEF Claimed
<1>10. Ranked' /\ Named'
  BY DEF Ranked, Named
<1> QED
  BY <1>5, <1>7, <1>8, <1>9, <1>10

----------------------------------------------------------------------------
(* The theorems.                                                           *)

LEMMA DeliveryInitial ==
  ASSUME Init
  PROVE  DeliveryInv
<1> USE DEF Init
<1>1. NotSent \in Front
  BY DEF NotSent, Front, PCs, Answers
<1>2. TypeOK
  BY <1>1 DEF TypeOK
<1>3. Ranked /\ Timely /\ Claimed /\ Named /\ Asked /\ Heard
  BY DEF Ranked, Timely, Claimed, CompletedBy, Named, Asked, Heard, NotSent
<1> QED
  BY <1>2, <1>3 DEF DeliveryInv

LEMMA DeliveryInductive ==
  ASSUME DeliveryInv, [Next]_vars
  PROVE  DeliveryInv'
<1>1. CASE GitHubStep
  BY <1>1, FinishKeeps, CloseKeeps, ArriveKeeps DEF GitHubStep
<1>2. CASE WorkerStep
  BY <1>2, RouteKeeps, RouteFailsKeeps, ReplyKeeps, LateKeeps, CutOffKeeps, ForwardKeeps, ForwardFailsKeeps
     DEF WorkerStep
<1>3. CASE ObjectStep
  BY <1>3, DedupeKeeps, ClaimKeeps, ReadKeeps, CompleteKeeps, FailKeeps DEF ObjectStep
<1>4. CASE UNCHANGED vars
  BY <1>4 DEF vars, DeliveryInv, TypeOK, Ranked, Timely, Claimed, CompletedBy, Named, Asked, Heard
<1> QED
  BY <1>1, <1>2, <1>3, <1>4 DEF Next

LEMMA DeliveryInvariant == Spec => []DeliveryInv
<1>1. Init => DeliveryInv
  BY DeliveryInitial
<1>2. DeliveryInv /\ [Next]_vars => DeliveryInv'
  BY DeliveryInductive
<1> QED
  BY <1>1, <1>2, PTL DEF Spec

(* The state is of its type, and each Durable Object works on one request  *)
(* at a time.                                                              *)
THEOREM DeliveryTypeCorrect == Spec => []TypeOK
<1>1. DeliveryInv => TypeOK
  BY DEF DeliveryInv
<1> QED
  BY <1>1, DeliveryInvariant, PTL

(* The commit's last word is read by each open PR once GitHub holds a 200  *)
(* for every suite that finished (index.ts, handleWebhook): the suite that *)
(* finished last was handled by each, and read with all of them finished.  *)
THEOREM LastWordIsRead == Spec => []LastWordRead
<1>1. ASSUME DeliveryInv PROVE LastWordRead
  <2> SUFFICES ASSUME finished > 0, \A s \in Suites : rank[s] > 0 => s \in Accepted,
                      NEW p \in open
               PROVE  \E d \in log[p] : d.read = finished
    BY DEF LastWordRead
  <2> USE DEF DeliveryInv
  <2>1. finished \in Nat /\ p \in Pulls
    BY <1>1 DEF TypeOK
  <2>2. PICK s \in Suites : rank[s] = finished
    BY <1>1 DEF Ranked
  <2>3. PICK k \in 1..Deliveries : front[<<s, k>>].answer = "ok"
    BY <2>2 DEF Accepted
  <2>4. <<s, k>> \in Request /\ <<s, k>>[1] = s
    BY DEF Request
  <2>5. s \in CompletedBy(p)
    BY <1>1, <2>3, <2>4 DEF Heard
  <2>6. PICK d \in log[p] : d.suite = s
    BY <2>5 DEF CompletedBy
  <2>7. d.read \in finished..finished
    BY <1>1, <2>1, <2>2, <2>6 DEF Timely
  <2> QED
    BY <2>1, <2>7
<1> QED
  BY <1>1, DeliveryInvariant, PTL

----------------------------------------------------------------------------
(* The refinement.                                                         *)

LEMMA HandledIsCompleted ==
  ASSUME NEW p
  PROVE  Promise!HandledBy(p) = CompletedBy(p)
  BY DEF Promise!HandledBy, CompletedBy

(* A step that gives no 200 accepts nothing.                               *)
LEMMA AcceptedSame ==
  ASSUME \A r \in Request : front'[r].answer = "ok" <=> front[r].answer = "ok"
  PROVE  Accepted' = Accepted
  BY DEF Accepted, Request

(* A 200 accepts its own suite, which every open PR has handled.           *)
LEMMA RepliesAccept ==
  ASSUME DeliveryInv, DeliveryInv', NEW r \in Request, NEW a \in Answers, Answer(r, a),
         UNCHANGED <<commit, log>>
  PROVE  Promise!Accept(r[1]) \/ UNCHANGED Promise!vars
<1>1. TypeOK /\ r[1] \in Suites /\ r[2] \in 1..Deliveries /\ r = <<r[1], r[2]>>
  BY DEF DeliveryInv, Request
<1>2. \A q \in Request : q # r => front'[q].answer = front[q].answer
  BY <1>1, AnswerOnly
<1>3. CASE front'[r].answer = "ok"
  <2>1. \A p \in open : r[1] \in CompletedBy(p)
    BY <1>3 DEF DeliveryInv, Heard, CompletedBy, commit
  <2>2. Accepted' = Accepted \cup {r[1]}
    <3>1. front[r].answer \in {"none", "ok"}
      BY <1>1, <1>3, AnswerOnly
    <3>2. ASSUME NEW s \in Suites, NEW k \in 1..Deliveries
          PROVE  front'[<<s, k>>].answer = "ok" <=> front[<<s, k>>].answer = "ok" \/ <<s, k>> = r
      <4>1. <<s, k>> \in Request
        BY DEF Request
      <4> QED
        BY <4>1, <1>1, <1>2, <1>3, AnswerOnly
    <3>3. ASSUME NEW s \in Suites
          PROVE  (\E k \in 1..Deliveries : front'[<<s, k>>].answer = "ok")
                   <=> (\E k \in 1..Deliveries : front[<<s, k>>].answer = "ok") \/ s = r[1]
      <4>1. CASE s = r[1]
        BY <1>1, <1>3, <4>1
      <4>2. CASE s # r[1]
        <5>1. \A k \in 1..Deliveries : <<s, k>> # r
          BY <1>1, <4>2
        <5> QED
          BY <3>2, <4>2, <5>1
      <4> QED
        BY <4>1, <4>2
    <3> QED
      BY <1>1, <3>3 DEF Accepted
  <2> QED
    BY <2>1, <2>2, HandledIsCompleted DEF Promise!Accept, commit
<1>4. CASE front'[r].answer # "ok"
  <2>1. front[r].answer # "ok"
    BY <1>1, <1>4, AnswerOnly
  <2>2. Accepted' = Accepted
    BY <1>2, <1>4, <2>1, AcceptedSame
  <2> QED
    BY <2>2 DEF Promise!vars, commit
<1> QED
  BY <1>3, <1>4

(* Every step of the front door and the Durable Objects is one of what is  *)
(* promised, or none.                                                      *)
LEMMA StepsKeepPromise ==
  ASSUME DeliveryInv, DeliveryInv', [Next]_vars
  PROVE  [Promise!Next]_(Promise!vars)
<1> USE DEF Promise!vars
<1>1. ASSUME NEW s \in Suites, FinishSuite(s) PROVE Promise!Finish(s)
  BY <1>1, AcceptedSame DEF FinishSuite, objects, Promise!Finish
<1>2. ASSUME NEW p \in Pulls, ClosePull(p) PROVE Promise!ClosePull(p)
  BY <1>2, AcceptedSame DEF ClosePull, objects, Promise!ClosePull
<1>3. ASSUME NEW s \in Suites, NEW k \in 1..Deliveries, Arrive(s, k) PROVE UNCHANGED Promise!vars
  <2>1. \A r \in Request : front'[r].answer = front[r].answer
    BY <1>3 DEF Arrive, DeliveryInv, TypeOK, Front
  <2> QED
    BY <1>3, <2>1, AcceptedSame DEF Arrive, commit, objects
<1>4. ASSUME NEW r \in Request, Route(r) PROVE Promise!Accept(r[1]) \/ UNCHANGED Promise!vars
  <2>1. CASE RoutedTo(r[1]) = {}
    BY <1>4, <2>1, RepliesAccept DEF Route, objects, Answers
  <2>2. CASE RoutedTo(r[1]) # {}
    <3>1. \A q \in Request : front'[q].answer = front[q].answer
      BY <1>4, <2>2 DEF Route, DeliveryInv, TypeOK, Front
    <3> QED
      BY <1>4, <3>1, AcceptedSame DEF Route, commit, objects
  <2> QED
    BY <2>1, <2>2
<1>5. ASSUME NEW r \in Request, RouteFails(r) \/ Reply(r) \/ CutOff(r)
      PROVE  Promise!Accept(r[1]) \/ UNCHANGED Promise!vars
  <2>1. PICK a \in Answers : Answer(r, a)
    BY <1>5 DEF RouteFails, Reply, CutOff, Status, Answers
  <2> QED
    BY <1>5, <2>1, RepliesAccept DEF RouteFails, Reply, CutOff, objects
<1>6. ASSUME NEW r \in Request, Late(r) PROVE UNCHANGED Promise!vars
  <2>1. \A q \in Request : front'[q].answer = IF q = r THEN "late" ELSE front[q].answer
    BY <1>6 DEF Late, DeliveryInv, TypeOK, Front
  <2>2. Accepted' = Accepted
    BY <1>6, <2>1, AcceptedSame DEF Late
  <2> QED
    BY <1>6, <2>2 DEF Late, commit, objects
<1>7. ASSUME NEW r \in Request, NEW p \in Pulls, Forward(r, p) PROVE UNCHANGED Promise!vars
  <2>1. \A q \in Request : front'[q].answer = front[q].answer
    BY <1>7 DEF Forward, DeliveryInv, TypeOK, Front
  <2> QED
    BY <1>7, <2>1, AcceptedSame DEF Forward, commit
<1>8. ASSUME NEW r \in Request, NEW p \in Pulls, ForwardFails(r, p)
      PROVE  Promise!Accept(r[1]) \/ UNCHANGED Promise!vars
  BY <1>8, RepliesAccept DEF ForwardFails, Answers
<1>9. ASSUME NEW p \in Pulls, NEW r \in queue[p], Dedupe(p, r) PROVE UNCHANGED Promise!vars
  <2>1. Accepted' = Accepted
    BY <1>9, WorkIsOf, HearsOnly, AcceptedSame DEF Dedupe, DeliveryInv
  <2> QED
    BY <1>9, <2>1 DEF Dedupe, commit
<1>10. ASSUME NEW p \in Pulls, NEW r \in queue[p], Claim(p, r) PROVE UNCHANGED Promise!vars
  BY <1>10, AcceptedSame DEF Claim, commit
<1>11. ASSUME NEW p \in Pulls, NEW w \in running[p], ReadChecks(p, w) PROVE UNCHANGED Promise!vars
  BY <1>11, AcceptedSame DEF ReadChecks, commit
<1>12. ASSUME NEW p \in Pulls, NEW w \in running[p], Complete(p, w) PROVE Promise!Handle(w.req[1], p)
  <2>1. TypeOK /\ w.req \in Request /\ w.req[2] \in 1..Deliveries
    BY WorkIsOf DEF DeliveryInv, Request
  <2>2. Accepted' = Accepted
    BY <1>12, <2>1, HearsOnly, AcceptedSame DEF Complete
  <2>3. w.req[1] \notin Promise!HandledBy(p)
    BY HandledIsCompleted DEF DeliveryInv, Claimed
  <2>4. rank[w.req[1]] > 0 /\ w.read \in rank[w.req[1]]..finished
    BY <1>12 DEF DeliveryInv, Timely, Complete
  <2> QED
    BY <1>12, <2>1, <2>2, <2>3, <2>4 DEF Complete, commit, Promise!Handle
<1>13. ASSUME NEW p \in Pulls, NEW w \in running[p], Fail(p, w) PROVE UNCHANGED Promise!vars
  <2>1. Accepted' = Accepted
    BY <1>13, WorkIsOf, HearsOnly, AcceptedSame DEF Fail, DeliveryInv
  <2> QED
    BY <1>13, <2>1 DEF Fail, commit
<1>14. CASE UNCHANGED vars
  BY <1>14, AcceptedSame DEF vars
<1>15. \A r \in Request : r[1] \in Suites
  BY DEF Request
<1>16. \A p \in Pulls : \A w \in running[p] : w.req[1] \in Suites
  BY WorkIsOf DEF DeliveryInv, Request
<1>17. CASE GitHubStep
  BY <1>17, <1>1, <1>2, <1>3 DEF GitHubStep, Promise!Next
<1>18. CASE WorkerStep
  BY <1>18, <1>4, <1>5, <1>6, <1>7, <1>8, <1>15 DEF WorkerStep, Promise!Next
<1>19. CASE ObjectStep
  BY <1>19, <1>9, <1>10, <1>11, <1>12, <1>13, <1>16 DEF ObjectStep, Promise!Next
<1> QED
  BY <1>14, <1>17, <1>18, <1>19 DEF Next

(* The front door, the claims and the serial queues implement Acceptance:  *)
(* a PR handles a delivery once, and a 200 means that every open PR        *)
(* handled it (index.ts, handleWebhook; webhook.ts, coordinateWebhook).    *)
THEOREM AcceptanceIsKept == Spec => KeepsAcceptance
<1>1. ASSUME Init PROVE Promise!Init
  <2>1. \A s \in Suites, k \in 1..Deliveries : front[<<s, k>>].answer = "none"
    BY <1>1 DEF Init, NotSent, Request
  <2>2. Accepted = {}
    BY <2>1 DEF Accepted
  <2> QED
    BY <1>1, <2>2 DEF Init, Promise!Init
<1>2. DeliveryInv /\ DeliveryInv' /\ [Next]_vars => [Promise!Next]_(Promise!vars)
  BY StepsKeepPromise
<1> QED
  BY <1>1, <1>2, DeliveryInvariant, PTL DEF Spec, KeepsAcceptance, Promise!Spec
==============================================================================
