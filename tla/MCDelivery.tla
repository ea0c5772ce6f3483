------------------------------ MODULE MCDelivery -----------------------------
(***************************************************************************)
(* Two PRs on one commit, two check suites, one redelivery of each.        *)
(***************************************************************************)
EXTENDS Delivery, TLC

CONSTANTS p1, p2, s1, s2

TwoPulls  == {p1, p2}
TwoSuites == {s1, s2}

Symmetry == Permutations(TwoPulls) \cup Permutations(TwoSuites)
==============================================================================
