------------------------------- MODULE Delivery ------------------------------
(***************************************************************************)
(* The front door (worker/src/index.ts): a check_suite webhook of a commit *)
(* that several PRs share goes to each PR's Durable Object, one after the  *)
(* other, and GitHub is answered by what they all answered - or, after 8 s, *)
(* by a 202 while the work goes on.  Each Durable Object claims the        *)
(* delivery, works it in its serial queue, and lets the claim go when it   *)
(* fails; GitHub redelivers with the delivery's own id.  A webhook that    *)
(* names one issue or PR takes the same way, with a list of one.           *)
(*                                                                         *)
(* A request <<s, k>> is the k-th delivery of suite s's webhook.  What a   *)
(* PR does with what it reads is Coordinator's (MergeGate, the CI gate).   *)
(***************************************************************************)
EXTENDS Naturals, FiniteSets

CONSTANTS
  Pulls,      \* the PRs whose head is the commit; they close, none opens
  Suites,     \* the check suites that run on it
  MaxFaults,       \* how many calls fail, are slow or are cut off, at most
  MaxRedeliveries, \* how many redeliveries there are, of all webhooks
  MaxCloses        \* how many of the PRs close

ASSUME DeliveryAssumption == {MaxFaults, MaxRedeliveries, MaxCloses} \subseteq Nat

Deliveries == MaxRedeliveries + 1

Request == Suites \X (1..Deliveries)

PCs     == {"off", "route", "ask", "done"}
Answers == {"none", "late", "ok", "failed"}

Front == [pc : PCs, todo : SUBSET Pulls, asked : SUBSET Pulls,
          failed : BOOLEAN, answer : Answers]

NotSent == [pc |-> "off", todo |-> {}, asked |-> {}, failed |-> FALSE, answer |-> "none"]

VARIABLES
  rank, finished, open,  \* the commit: when each suite finished, its open PRs
  listed,    \* the PRs each suite's webhook names: none, at times
  front,     \* the Worker's side of each request
  queue,     \* per PR, the requests its Durable Object has yet to start
  running,   \* per PR, the request it works on, and the checks it read (0: none)
  seen,      \* per PR, the delivery ids it has claimed
  log,       \* per PR, what it completed: the suite, the delivery, what it read
  faults     \* how many calls failed, were slow or cut off so far

vars == <<rank, finished, open, listed, front, queue, running, seen, log, faults>>

Work == [req : Request, read : Nat]
Done == [suite : Suites, by : 1..Deliveries, read : Nat]

(* The type of the state; a Durable Object works on one request at a time  *)
(* (issue-coordinator.ts, serial).                                         *)
TypeOK ==
  /\ rank \in [Suites -> Nat]
  /\ finished \in Nat
  /\ open \subseteq Pulls
  /\ listed \in [Suites -> SUBSET Pulls]
  /\ front \in [Request -> Front]
  /\ queue \in [Pulls -> SUBSET Request]
  /\ running \in [Pulls -> SUBSET Work]
  /\ \A p \in Pulls : \A v, w \in running[p] : v = w
  /\ seen \in [Pulls -> SUBSET Suites]
  /\ log \in [Pulls -> SUBSET Done]
  /\ faults \in Nat

Init ==
  /\ rank = [s \in Suites |-> 0]
  /\ finished = 0
  /\ open \in SUBSET Pulls
  /\ listed = [s \in Suites |-> {}]
  /\ front = [r \in Request |-> NotSent]
  /\ queue = [p \in Pulls |-> {}]
  /\ running = [p \in Pulls |-> {}]
  /\ seen = [p \in Pulls |-> {}]
  /\ log = [p \in Pulls |-> {}]
  /\ faults = 0

commit == <<rank, finished, open, listed>>
objects == <<queue, running, seen, log>>

(* A call that fails or is slow, or a cut: each is counted.                     *)
Fault == faults < MaxFaults /\ faults' = faults + 1

------------------------------------------------------------------------------
(* GitHub *)

(* A suite finishes.  Its webhook names the PRs open on the commit, or     *)
(* comes with an empty list.                                               *)
FinishSuite(s) ==
  /\ rank[s] = 0
  /\ finished' = finished + 1
  /\ rank' = [rank EXCEPT ![s] = finished']
  /\ \E names \in {{}, open} : listed' = [listed EXCEPT ![s] = names]
  /\ UNCHANGED <<open, front, objects, faults>>

ClosePull(p) ==
  /\ p \in open
  /\ Cardinality(Pulls \ open) < MaxCloses
  /\ open' = open \ {p}
  /\ UNCHANGED <<rank, finished, listed, front, objects, faults>>

(* The webhook arrives; a redelivery once the one before was answered, also *)
(* when that was a 202 whose work goes on.                                 *)
Arrive(s, k) ==
  /\ rank[s] > 0
  /\ front[<<s, k>>].pc = "off"
  /\ k > 1 => /\ front[<<s, k - 1>>].answer # "none"
              /\ Cardinality({r \in Request : r[2] > 1 /\ front[r].pc # "off"}) < MaxRedeliveries
  /\ front' = [front EXCEPT ![<<s, k>>].pc = "route"]
  /\ UNCHANGED <<commit, objects, faults>>

------------------------------------------------------------------------------
(* The Worker *)

Answer(r, a) ==
  front' = [front EXCEPT ![r] =
              [NotSent EXCEPT !.pc = "done",
                              !.answer = IF front[r].answer = "none" THEN a ELSE front[r].answer]]

(* The PRs the webhook goes to: those it names, else those GitHub lists    *)
(* open on the commit now.                                                 *)
RoutedTo(s) == IF listed[s] # {} THEN listed[s] ELSE open

Route(r) ==
  /\ front[r].pc = "route"
  /\ IF RoutedTo(r[1]) = {}
     THEN Answer(r, "ok")
     ELSE front' = [front EXCEPT ![r].pc = "ask", ![r].todo = RoutedTo(r[1])]
  /\ UNCHANGED <<commit, objects, faults>>

(* GitHub doesn't list the commit's PRs: the request throws.               *)
RouteFails(r) ==
  /\ front[r].pc = "route"
  /\ listed[r[1]] = {}
  /\ Answer(r, "failed")
  /\ Fault
  /\ UNCHANGED <<commit, objects>>

NextAsked(r, p) == /\ front[r].pc = "ask"
                   /\ front[r].asked = {}
                   /\ p \in front[r].todo

Forward(r, p) ==
  /\ NextAsked(r, p)
  /\ front' = [front EXCEPT ![r].todo = @ \ {p}, ![r].asked = {p}]
  /\ queue' = [queue EXCEPT ![p] = @ \cup {r}]
  /\ UNCHANGED <<commit, running, seen, log, faults>>

(* The call to the Durable Object throws, before or after it got there:    *)
(* the PRs left are not asked.                                             *)
ForwardFails(r, p) ==
  /\ NextAsked(r, p)
  /\ Answer(r, "failed")
  /\ \E got \in {{}, {r}} : queue' = [queue EXCEPT ![p] = @ \cup got]
  /\ Fault
  /\ UNCHANGED <<commit, running, seen, log>>

Status(r) == IF front[r].failed THEN "failed" ELSE "ok"

Reply(r) ==
  /\ front[r].pc = "ask"
  /\ front[r].asked = {} /\ front[r].todo = {}
  /\ Answer(r, Status(r))
  /\ UNCHANGED <<commit, objects, faults>>

(* 8 s have passed: 202, and the work goes on.                             *)
Late(r) ==
  /\ front[r].pc \in {"route", "ask"}
  /\ front[r].answer = "none"
  /\ front' = [front EXCEPT ![r].answer = "late"]
  /\ Fault
  /\ UNCHANGED <<commit, objects>>

(* The platform ends work that goes on too long after its answer.          *)
CutOff(r) ==
  /\ front[r].pc \in {"route", "ask"}
  /\ front[r].answer = "late"
  /\ Answer(r, "late")
  /\ Fault
  /\ UNCHANGED <<commit, objects>>

------------------------------------------------------------------------------
(* A PR's Durable Object.  The queue is served in any order: calls of two   *)
(* requests may reach the object in either.                                *)

Interleaved(p) == TRUE
Idle(p) == running[p] = {}

HearsLast(r, p, ok) ==
  front' = IF p \in front[r].asked
           THEN [front EXCEPT ![r] = [front[r] EXCEPT !.asked = {}, !.failed = ~ok]]
           ELSE front

(* What the Worker hears from PR p; a request that was cut off, or whose   *)
(* call failed, hears nothing.                                             *)
Hears(r, p, ok) ==
  front' = IF p \in front[r].asked
           THEN [front EXCEPT ![r] = [front[r] EXCEPT !.asked = {}, !.failed = front[r].failed \/ ~ok]]
           ELSE front

Dedupe(p, r) ==
  /\ Idle(p)
  /\ r \in queue[p]
  /\ r[1] \in seen[p]
  /\ queue' = [queue EXCEPT ![p] = @ \ {r}]
  /\ Hears(r, p, TRUE)
  /\ UNCHANGED <<commit, running, seen, log, faults>>

Claim(p, r) ==
  /\ Idle(p)
  /\ r \in queue[p]
  /\ r[1] \notin seen[p]
  /\ queue' = [queue EXCEPT ![p] = @ \ {r}]
  /\ seen' = [seen EXCEPT ![p] = @ \cup {r[1]}]
  /\ running' = [running EXCEPT ![p] = @ \cup {[req |-> r, read |-> 0]}]
  /\ UNCHANGED <<commit, front, log, faults>>

(* The PR's labels, then its commit's check runs.                          *)
ReadChecks(p, w) ==
  /\ w \in running[p] /\ w.read = 0
  /\ running' = [running EXCEPT ![p] = (@ \ {w}) \cup {[w EXCEPT !.read = finished]}]
  /\ UNCHANGED <<commit, front, queue, seen, log, faults>>

LetsGo(p, w) ==
  /\ w \in running[p] /\ w.read > 0
  /\ running' = [running EXCEPT ![p] = @ \ {w}]
  /\ log' = [log EXCEPT ![p] = @ \cup {[suite |-> w.req[1], by |-> w.req[2], read |-> w.read]}]
  /\ seen' = [seen EXCEPT ![p] = @ \ {w.req[1]}]
  /\ Hears(w.req, p, TRUE)
  /\ UNCHANGED <<commit, queue, faults>>

Complete(p, w) ==
  /\ w \in running[p] /\ w.read > 0
  /\ running' = [running EXCEPT ![p] = @ \ {w}]
  /\ log' = [log EXCEPT ![p] = @ \cup {[suite |-> w.req[1], by |-> w.req[2], read |-> w.read]}]
  /\ Hears(w.req, p, TRUE)
  /\ UNCHANGED <<commit, queue, seen, faults>>

(* A call fails: the claim is let go and the answer is a 500.              *)
Fail(p, w) ==
  /\ w \in running[p]
  /\ running' = [running EXCEPT ![p] = @ \ {w}]
  /\ seen' = [seen EXCEPT ![p] = @ \ {w.req[1]}]
  /\ Hears(w.req, p, FALSE)
  /\ Fault
  /\ UNCHANGED <<commit, queue, log>>

------------------------------------------------------------------------------

GitHubStep == \/ \E s \in Suites : FinishSuite(s)
              \/ \E p \in Pulls : ClosePull(p)
              \/ \E s \in Suites, k \in 1..Deliveries : Arrive(s, k)

WorkerStep == \E r \in Request :
  \/ Route(r) \/ RouteFails(r) \/ Reply(r) \/ Late(r) \/ CutOff(r)
  \/ \E p \in Pulls : Forward(r, p) \/ ForwardFails(r, p)

ObjectStep == \E p \in Pulls :
  \/ \E r \in queue[p] : Dedupe(p, r) \/ Claim(p, r)
  \/ \E w \in running[p] : ReadChecks(p, w) \/ Complete(p, w) \/ Fail(p, w)

Next == GitHubStep \/ WorkerStep \/ ObjectStep

Spec == Init /\ [][Next]_vars

------------------------------------------------------------------------------
(* Properties *)

Accepted == {s \in Suites : \E k \in 1..Deliveries : front[<<s, k>>].answer = "ok"}

(* Once GitHub holds a 200 for every suite that has finished, every PR     *)
(* still open has handled a result with them all in view: the commit's     *)
(* last word reaches each PR, whichever call failed or was cut off by its  *)
(* time, was redelivered, overlapped or came without its PRs (index.ts,    *)
(* handleWebhook; webhook.ts, the delivery's claim).                       *)
LastWordRead ==
  (finished > 0 /\ \A s \in Suites : rank[s] > 0 => s \in Accepted)
    => \A p \in open : \E d \in log[p] : d.read = finished

Promise == INSTANCE Acceptance
             WITH Times <- 1..Deliveries, handled <- log, accepted <- Accepted

(* The front door, the claims and the serial queues together implement     *)
(* Acceptance: a PR handles a delivery once, and a 200 means that every    *)
(* open PR handled it (index.ts's comment on redelivery).                  *)
KeepsAcceptance == Promise!Spec
==============================================================================
