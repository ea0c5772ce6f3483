----------------------------- MODULE MergeGate -----------------------------
(***************************************************************************)
(* What the merge gate and the review gate read of a PR, and what they     *)
(* make of it (graph/github/merge-gate.ts).                                *)
(*                                                                         *)
(* The check runs of a commit are abstracted to their sum: "running" until *)
(* all have completed, then "red" if one failed and "green" if none did.   *)
(* Read before that, some may be running, or none reported yet ("none").   *)
(* GitHub's mergeable flag and the latest review are abstracted to         *)
(* "blocked" (a conflict, or changes requested), "unknown" (mergeable not  *)
(* computed yet, nothing requested) and "clean".                           *)
(***************************************************************************)
EXTENDS Naturals

CiStates    == {"running", "green", "red"}
MergeStates == {"unknown", "clean", "blocked"}

Facts(head, ci, mergeable) == [head |-> head, ci |-> ci, mergeable |-> mergeable]

(* What a gate may read of CI.                                             *)
CheckRuns(ci) == IF ci = "running" THEN {"running", "none"} ELSE {ci}

NothingReported(f)  == f.ci = "none"
StillRunning(f)     == f.ci = "running"
FailedChecks(f)     == f.ci = "red"

(* The blocks that need a person, looked at without waiting for CI.        *)
HardBlockReason(f)  == f.mergeable = "blocked"

(* The gate's outcome; "none" is a pass.  A mergeable flag still unknown   *)
(* hides a red CI here: the gate is then pending, not soft.                *)
DeriveMergeGateOutcome(f) ==
  IF StillRunning(f) \/ f.mergeable = "unknown" THEN "still_pending"
  ELSE IF HardBlockReason(f) THEN "hard"
  ELSE IF FailedChecks(f)    THEN "soft"
  ELSE "none"
=============================================================================
