----------------------------- MODULE Releasing -----------------------------
(***************************************************************************)
(* What the release of a version promises, whatever carries the reports:   *)
(* the Worker merges a commit only if it is the PR's head and a trusted    *)
(* review passed it, and publishing starts only on a version merged at a   *)
(* commit that was reviewed, whoever merged it.                            *)
(***************************************************************************)
EXTENDS Naturals

CONSTANTS Commits, None

VARIABLES
  head, mergedAt, mergedBy,   \* the release PR
  reviewed,                   \* the commits a trusted review passed
  publishing                  \* whether release-publish was started

vars == <<head, mergedAt, mergedBy, reviewed, publishing>>

Init ==
  /\ head = 1 /\ mergedAt = None /\ mergedBy = "nobody"
  /\ reviewed = {} /\ publishing = FALSE

PushCommit ==
  /\ mergedAt = None /\ head + 1 \in Commits
  /\ head' = head + 1
  /\ UNCHANGED <<mergedAt, mergedBy, reviewed, publishing>>

PassReview(c) ==
  /\ c <= head
  /\ reviewed' = reviewed \cup {c}
  /\ UNCHANGED <<head, mergedAt, mergedBy, publishing>>

MergeReviewed ==
  /\ mergedAt = None /\ head \in reviewed
  /\ mergedAt' = head /\ mergedBy' = "worker"
  /\ UNCHANGED <<head, reviewed, publishing>>

MergeByHand ==
  /\ mergedAt = None
  /\ mergedAt' = head /\ mergedBy' = "person"
  /\ UNCHANGED <<head, reviewed, publishing>>

StartPublishing ==
  /\ mergedAt \in reviewed
  /\ publishing' = TRUE
  /\ UNCHANGED <<head, mergedAt, mergedBy, reviewed>>

Next ==
  \/ PushCommit \/ MergeReviewed \/ MergeByHand \/ StartPublishing
  \/ \E c \in Commits : PassReview(c)

Spec == Init /\ [][Next]_vars
=============================================================================
