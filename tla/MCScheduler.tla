---------------------------- MODULE MCScheduler ----------------------------
(***************************************************************************)
(* The sweep on two items: a tick is half an interval, an item is quiet    *)
(* after two intervals and a quiet repository is swept every third.        *)
(***************************************************************************)
EXTENDS Scheduler, TLC

CONSTANTS a, b

MCItems == {a, b}
Symmetry == Permutations(MCItems)
=============================================================================
