------------------------------ MODULE Shipping ------------------------------
(***************************************************************************)
(* What the issues' stages after their PR promise, whatever hands the      *)
(* events on: an issue is moved on by a merge of a PR that closes it, and  *)
(* closed when a published release contains the merge it was moved on by.  *)
(***************************************************************************)
CONSTANTS Issues, Pulls, Releases, Closing, NoMerge, NotCut

VARIABLES
  merged,     \* the PRs merged
  tag,        \* the merges each release contains, once it is cut
  published,  \* the releases that are out
  moved,      \* the merge each issue was moved on by
  closed      \* the issues closed by a release

vars == <<merged, tag, published, moved, closed>>

Init ==
  /\ merged = {} /\ published = {} /\ closed = {}
  /\ tag = [r \in Releases |-> NotCut]
  /\ moved = [i \in Issues |-> NoMerge]

MergePull(p) ==
  /\ merged' = merged \cup {p}
  /\ UNCHANGED <<tag, published, moved, closed>>

(* A release contains merges there are, and is cut once.                   *)
CutBranch(r) ==
  /\ tag[r] = NotCut
  /\ \E merges \in SUBSET merged : tag' = [tag EXCEPT ![r] = merges]
  /\ UNCHANGED <<merged, published, moved, closed>>

PublishTag(r) ==
  /\ tag[r] # NotCut
  /\ published' = published \cup {r}
  /\ UNCHANGED <<merged, tag, moved, closed>>

MoveOn(i, p) ==
  /\ p \in merged /\ i \in Closing[p]
  /\ moved' = [moved EXCEPT ![i] = p]
  /\ UNCHANGED <<merged, tag, published, closed>>

CloseShipped(i) ==
  /\ \E r \in published : moved[i] \in tag[r]
  /\ closed' = closed \cup {i}
  /\ UNCHANGED <<merged, tag, published, moved>>

Next ==
  \/ \E p \in Pulls : MergePull(p)
  \/ \E r \in Releases : CutBranch(r) \/ PublishTag(r)
  \/ \E i \in Issues : CloseShipped(i) \/ \E p \in Pulls : MoveOn(i, p)

Spec == Init /\ [][Next]_vars
=============================================================================
