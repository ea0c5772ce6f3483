------------------------------ MODULE MCStages ------------------------------
(***************************************************************************)
(* A few items for the hand-offs: one or two issues, the PRs that close    *)
(* them, a release.                                                        *)
(***************************************************************************)
EXTENDS Stages

CONSTANTS i1, i2, p1, p2, r1

OneIssue    == {i1}
TwoIssues   == {i1, i2}
OnePull     == {p1}
TwoPulls    == {p1, p2}
OneRelease  == {r1}
NoRelease   == {}
NoIssue     == {}

(* One PR closes every issue; two PRs close one.                           *)
ClosesAll == [p \in Pulls |-> Issues]
=============================================================================
