------------------------------ MODULE Acceptance -----------------------------
(***************************************************************************)
(* What the Worker promises of a check suite's result, told without the    *)
(* requests that keep it (Delivery):                                       *)
(*                                                                         *)
(*   - a PR handles a suite's result at most once, and reads its commit's  *)
(*     checks no earlier than the suite finished;                          *)
(*   - a result GitHub holds a 200 for was handled by every PR still open. *)
(*                                                                         *)
(* Suites finish one after the other: the n-th has the rank n, and a PR    *)
(* that reads the commit's checks reads how many have finished.            *)
(***************************************************************************)
EXTENDS Naturals

CONSTANTS
  Pulls,   \* the PRs whose head is the commit
  Suites,  \* the check suites that run on it
  Times    \* the times a suite's result may be delivered

VARIABLES
  rank,      \* when each suite finished: 0, not yet
  finished,  \* how many have
  open,      \* the PRs still open
  handled,   \* per PR, what it handled: the suite, by which delivery, what was read
  accepted   \* the suites GitHub holds a 200 for

vars == <<rank, finished, open, handled, accepted>>

HandledBy(p) == {h.suite : h \in handled[p]}

Init ==
  /\ rank = [s \in Suites |-> 0]
  /\ finished = 0
  /\ open \in SUBSET Pulls
  /\ handled = [p \in Pulls |-> {}]
  /\ accepted = {}

Finish(s) ==
  /\ rank[s] = 0
  /\ finished' = finished + 1
  /\ rank' = [rank EXCEPT ![s] = finished']
  /\ UNCHANGED <<open, handled, accepted>>

ClosePull(p) ==
  /\ open' = open \ {p}
  /\ UNCHANGED <<rank, finished, handled, accepted>>

Handle(s, p) ==
  /\ rank[s] > 0
  /\ s \notin HandledBy(p)
  /\ \E k \in Times, n \in rank[s]..finished :
       handled' = [handled EXCEPT ![p] = @ \cup {[suite |-> s, by |-> k, read |-> n]}]
  /\ UNCHANGED <<rank, finished, open, accepted>>

Accept(s) ==
  /\ \A p \in open : s \in HandledBy(p)
  /\ accepted' = accepted \cup {s}
  /\ UNCHANGED <<rank, finished, open, handled>>

Next ==
  \/ \E s \in Suites : Finish(s) \/ Accept(s)
  \/ \E p \in Pulls : ClosePull(p)
  \/ \E s \in Suites, p \in Pulls : Handle(s, p)

Spec == Init /\ [][Next]_vars
==============================================================================
