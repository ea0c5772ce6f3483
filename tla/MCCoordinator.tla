---------------------------- MODULE MCCoordinator ----------------------------
(***************************************************************************)
(* The environments the coordinator is checked in: each is a flow of the   *)
(* items with what is hard about it, small enough to be explored whole.    *)
(***************************************************************************)
EXTENDS Coordinator

(* A person's one label, on a PR that has one commit and merges cleanly.   *)
Calm ==
  [kind |-> "pr", reports |-> {}, signals |-> {}, fails |-> FaultKinds, adds |-> {}, removes |-> {},
   acts |-> {}, suites |-> 1, reds |-> {}, newMergeable |-> "clean", mergeables |-> {},
   maxEdits |-> 1, maxActs |-> 0, maxHead |-> 1, maxSteps |-> 0, maxFaults |-> 0]

(* A review whose first commit fails, and a person's push or close.        *)
ReviewFlow ==
  [Calm EXCEPT
     !.reports = {"REVIEW_PASSED", "REVIEW_FINDINGS", "REVIEW_BLOCKED", "REWORK_NO_CHANGE"},
     !.adds = {"AI_REVIEWING"}, !.acts = {"push", "close"}, !.maxActs = 1,
     !.maxHead = 4, !.reds = {1}]

(* A PR its people label again while reviews and reworks are out.          *)
Relabelled ==
  [Calm EXCEPT
     !.reports = {"REVIEW_FINDINGS"},
     !.adds = {"AI_REVIEWING", "AUTO_REWORKING"}, !.acts = {"push"},
     !.maxActs = 1, !.maxHead = 2, !.maxEdits = 2, !.reds = {1}]

(* The merge of a PR whose first two commits fail, and that may not merge. *)
MergeFlow ==
  [Calm EXCEPT
     !.reports = {"MERGE_BLOCKED", "REWORK_NO_CHANGE"},
     !.adds = {"AUTO_MERGING"}, !.maxActs = 1, !.maxHead = 3,
     !.reds = {1, 2}, !.newMergeable = "unknown",
     !.mergeables = {"clean", "blocked"}]

(* A blocked PR handed to merge-flow again.                                *)
Unblocked ==
  [Calm EXCEPT
     !.reports = {"MERGE_BLOCKED"}, !.adds = {"AUTO_MERGING"},
     !.maxEdits = 2, !.maxActs = 1, !.newMergeable = "unknown",
     !.mergeables = {"clean", "blocked"}, !.reds = {1}]

(* An issue's build and discussion, its labels changed by people at will.  *)
IssueFlow ==
  [Calm EXCEPT
     !.kind = "issue",
     !.reports = {"BUILD_SUCCEEDED", "BUILD_BLOCKED", "DISCUSSION_CAPPED"},
     !.adds = {"AI_READY", "AI_DISCUSSING", "PR_OPEN"},
     !.removes = {"AI_READY"}, !.acts = {"reply", "close"}, !.maxActs = 1,
     !.maxEdits = 2, !.signals = {"outcome"}]

(* A review whose sessions send every signal they can.                     *)
Signalled ==
  [Calm EXCEPT
     !.reports = {"REVIEW_FINDINGS", "REWORK_NO_CHANGE"},
     !.adds = {"AI_REVIEWING"}, !.maxHead = 2,
     !.signals = {"outcome", "ended", "process"}, !.maxSteps = 1]

(* A release its session publishes itself.                                 *)
ReleaseFlow ==
  [Calm EXCEPT
     !.kind = "issue", !.reports = {"RELEASE_PUBLISHED", "RELEASE_BLOCKED"},
     !.adds = {"AUTO_RELEASING"}, !.removes = {"AUTO_RELEASING"},
     !.acts = {"close"}, !.maxActs = 1, !.maxEdits = 2,
     !.signals = {"outcome"}]

(* A person's rework, and one failure.                                     *)
FailingRework ==
  [Calm EXCEPT
     !.reports = {"REWORK_NO_CHANGE"}, !.adds = {"AUTO_REWORKING"},
     !.maxHead = 2, !.maxFaults = 1]

(* A review with findings, a rework that does not push, and one failure.   *)
FailingReview ==
  [Calm EXCEPT
     !.reports = {"REVIEW_FINDINGS"}, !.adds = {"AI_REVIEWING"},
     !.maxFaults = 1]

(* A rework asked for again past its cap, AI_STUCK taken off in between,   *)
(* and a failure that cuts no request off.                                 *)
FailingCap ==
  [Calm EXCEPT
     !.adds = {"AUTO_REWORKING"}, !.removes = {"AI_STUCK", "AUTO_REWORKING"},
     !.maxEdits = 3,
     !.fails = FaultKinds \ {"throw", "crash"}, !.maxFaults = 1]

(* A build, its session's signals, and one failure.                        *)
FailingBuild ==
  [Calm EXCEPT
     !.kind = "issue", !.reports = {"BUILD_SUCCEEDED"},
     !.adds = {"AI_READY"}, !.signals = {"process", "ended", "completion"},
     !.maxSteps = 1, !.maxFaults = 1]

(* A discussion whose label comes and goes, and a failure.                 *)
FailingDiscussion ==
  [Calm EXCEPT
     !.kind = "issue", !.reports = {"DISCUSSION_CAPPED"},
     !.adds = {"AI_DISCUSSING"}, !.removes = {"AI_DISCUSSING"},
     !.acts = {"reply", "close"}, !.maxActs = 1, !.maxEdits = 2,
     !.maxFaults = 1]

(* Merges and reworks under a watchdog in shadow.                          *)
Shadowed ==
  [Calm EXCEPT
     !.reports = {"MERGE_BLOCKED", "REWORK_NO_CHANGE"},
     !.adds = {"AUTO_MERGING", "AUTO_REWORKING"}, !.maxHead = 2,
     !.reds = {1}, !.signals = {"ended"}, !.maxFaults = 1]

(* A failing PR's merge whose sessions report nothing.                     *)
SilentMerge ==
  [Calm EXCEPT
     !.adds = {"AUTO_MERGING"}, !.reds = {1}]

(* A build that may report.                                                *)
LiveBuild ==
  [Calm EXCEPT
     !.kind = "issue", !.reports = {"BUILD_SUCCEEDED"},
     !.adds = {"AI_READY"}]

(* A person's rework, of which a push may come.                            *)
LiveRework ==
  [Calm EXCEPT
     !.adds = {"AUTO_REWORKING"}, !.maxHead = 2]

(* A review whose first commit fails, and a person's push.                 *)
PushedReview ==
  [Calm EXCEPT
     !.adds = {"AI_REVIEWING"}, !.acts = {"push"}, !.maxActs = 1,
     !.maxHead = 3, !.reds = {1}]

(* A review with findings, asked for twice.                                *)
TwoReviews ==
  [Calm EXCEPT
     !.reports = {"REVIEW_FINDINGS"}, !.adds = {"AI_REVIEWING"},
     !.maxEdits = 2]

(* A failing review whose rework's label comes, goes and comes.            *)
Unlabelled ==
  [Calm EXCEPT
     !.adds = {"AI_REVIEWING", "AUTO_REWORKING"},
     !.removes = {"AUTO_REWORKING"}, !.maxEdits = 3, !.reds = {1}]

(* A merge handed out again after it got stuck, and a person's push.       *)
StuckMerge ==
  [Calm EXCEPT
     !.adds = {"AUTO_MERGING"}, !.acts = {"push"}, !.maxActs = 1,
     !.maxEdits = 2, !.maxHead = 2, !.reds = {1, 2}]

(* The same, with the new commit green.                                    *)
OldFix ==
  [Calm EXCEPT
     !.adds = {"AUTO_MERGING"}, !.acts = {"push"}, !.maxActs = 1,
     !.maxEdits = 2, !.maxHead = 2, !.reds = {1}]

(* A rework whose label is taken off and put back, past its cap, and a     *)
(* request cut off.                                                        *)
CutOffCap ==
  [Calm EXCEPT
     !.adds = {"AUTO_REWORKING"}, !.removes = {"AUTO_REWORKING"},
     !.maxEdits = 3, !.fails = {"throw", "crash"}, !.maxFaults = 1]

(* A build that says nothing, and two failures.                            *)
QuietBuild ==
  [Calm EXCEPT
     !.kind = "issue", !.adds = {"AI_READY"}, !.maxFaults = 2]

----------------------------------------------------------------------------
(* The runs' Environments.                                                 *)
Flowing == {ReviewFlow, Relabelled, MergeFlow, Unblocked, IssueFlow, ReleaseFlow, Signalled}
Failing == {FailingRework, FailingReview, FailingCap, FailingBuild, FailingDiscussion, QuietBuild}
Shadowing == {Shadowed}
Lasting == {SilentMerge, LiveBuild, LiveRework, QuietBuild}
OnlyPushedReview == {PushedReview}
OnlyTwoReviews == {TwoReviews}
OnlyUnlabelled == {Unlabelled}
OnlyStuckMerge == {StuckMerge}
OnlyOldFix == {OldFix}
OnlyCutOffCap == {CutOffCap}
OnlyQuietBuild == {QuietBuild}
=============================================================================
