------------------------------- MODULE Graph -------------------------------
(***************************************************************************)
(* The orchestrator's transition table and the pure functions around it:   *)
(* what a label set means (DeriveState), which rule an event fires         *)
(* (Reduce), and which GitHub calls the rule needs (LabelOps).             *)
(*                                                                         *)
(* A state is literally a GitHub label, or "none".  Labels, events and     *)
(* routines keep the names of graph/constants.                             *)
(***************************************************************************)
EXTENDS Naturals, Sequences, FiniteSets

Labels ==
  {"AI_READY", "PR_OPEN", "AI_BLOCKED", "AUTO_RELEASING", "AI_DISCUSSING",
   "AUTO_REWORKING", "AUTO_MERGING", "AI_STUCK", "MERGE_BLOCKED",
   "AI_REVIEWING", "READY_FOR_RELEASE", "READY_FOR_REVIEW"}

State == Labels \cup {"none"}

Routines ==
  {"issue-build-loop", "auto-release-loop", "issue-discuss-loop",
   "rework-loop", "merge-flow", "review-loop", "release-publish"}

(* The events of the table (constants/events.ts): every one has a rule.    *)
Events ==
  {"LABELLED_AI_READY", "BUILD_SUCCEEDED", "BUILD_BLOCKED", "LABELLED_AUTO_RELEASING",
   "RELEASE_BLOCKED", "RELEASE_PUBLISHED", "RELEASE_APPROVED", "RELEASE_MERGED",
   "LABELLED_AI_DISCUSSING", "DISCUSSION_REPLY", "UNLABELLED_AI_READY",
   "UNLABELLED_AUTO_RELEASING", "ISSUE_CLOSED", "LABELLED_AUTO_REWORKING", "REWORK_PUSHED",
   "CI_FIX_PUSHED", "UNLABELLED_AUTO_REWORKING", "REWORK_CAP_REACHED",
   "LABELLED_AUTO_MERGING", "MERGE_GATE_FAILED_SOFT", "MERGE_GATE_FAILED_HARD",
   "MERGE_GATE_PASSED", "UNLABELLED_AUTO_MERGING", "MERGED", "LABELLED_AI_REVIEWING",
   "UNLABELLED_AI_REVIEWING", "REVIEW_CI_PASSED", "REVIEW_CI_FAILED", "REVIEW_FIX_PUSHED",
   "REVIEW_PASSED", "REVIEW_FINDINGS", "REVIEW_BLOCKED", "REWORK_NO_CHANGE",
   "MERGE_BLOCKED", "DISCUSSION_CAPPED", "WATCHDOG_EXPIRED", "PR_MERGED", "RELEASED"}

NoRun == "norun"

(* A rule's effect is a label to move to, or one of these three.           *)
Effects == Labels \cup {"unlabel", "close", "noop"}

AnyRun   == Routines \cup {NoRun}
RuleType == [from : State, on : Events, to : Effects, run : AnyRun]
OpType   == [op : {"remove", "add"}, label : Labels] \cup [op : {"close"}, label : {"none"}]

Rule(from, on, to, run) == [from |-> from, on |-> on, to |-> to, run |-> run]

(* The rule moves to a label (and fires run), takes the label off, closes  *)
(* the item, or writes nothing.                                            *)
Fires(from, on, to, run) == Rule(from, on, to, run)
Moves(from, on, to)      == Rule(from, on, to, NoRun)
TakesOff(from, on)       == Rule(from, on, "unlabel", NoRun)
Closes(from, on)         == Rule(from, on, "close", NoRun)
Stays(from, on)          == Rule(from, on, "noop", NoRun)

----------------------------------------------------------------------------
(* The table, in the sections of graph.ts.                                 *)

IssueRules ==
  {Fires("none", "LABELLED_AI_READY", "AI_READY", "issue-build-loop"),
   Stays("PR_OPEN", "BUILD_SUCCEEDED"),
   Stays("AI_BLOCKED", "BUILD_BLOCKED"),
   Moves("AI_READY", "BUILD_SUCCEEDED", "PR_OPEN"),
   Moves("AI_READY", "BUILD_BLOCKED", "AI_BLOCKED"),
   Fires("none", "LABELLED_AI_DISCUSSING", "AI_DISCUSSING", "issue-discuss-loop"),
   Fires("AI_DISCUSSING", "DISCUSSION_REPLY", "noop", "issue-discuss-loop")}

ReleaseRules ==
  {Fires("none", "LABELLED_AUTO_RELEASING", "AUTO_RELEASING", "auto-release-loop"),
   TakesOff("AUTO_RELEASING", "RELEASE_BLOCKED"),
   Stays("none", "RELEASE_BLOCKED"),
   Closes("AUTO_RELEASING", "RELEASE_PUBLISHED"),
   Stays("AUTO_RELEASING", "RELEASE_APPROVED"),
   Fires("AUTO_RELEASING", "RELEASE_MERGED", "noop", "release-publish"),
   Stays("AUTO_RELEASING", "ISSUE_CLOSED")}

MergeRules ==
  {Fires("none", "LABELLED_AUTO_REWORKING", "AUTO_REWORKING", "rework-loop"),
   TakesOff("AUTO_REWORKING", "REWORK_PUSHED"),
   Moves("AUTO_REWORKING", "REWORK_CAP_REACHED", "AI_STUCK"),
   Fires("none", "LABELLED_AUTO_MERGING", "AUTO_MERGING", "merge-flow"),
   Fires("AUTO_MERGING", "MERGE_GATE_FAILED_SOFT", "AUTO_REWORKING", "rework-loop"),
   Fires("AUTO_REWORKING", "CI_FIX_PUSHED", "AUTO_MERGING", "merge-flow"),
   Fires("AUTO_MERGING", "MERGE_GATE_PASSED", "noop", "merge-flow"),
   Moves("AUTO_MERGING", "MERGE_GATE_FAILED_HARD", "MERGE_BLOCKED"),
   Fires("MERGE_BLOCKED", "LABELLED_AUTO_MERGING", "AUTO_MERGING", "merge-flow"),
   Closes("AUTO_MERGING", "MERGED")}

ReviewRules ==
  {Moves("none", "LABELLED_AI_REVIEWING", "AI_REVIEWING"),
   Moves("AI_BLOCKED", "LABELLED_AI_REVIEWING", "AI_REVIEWING"),
   Fires("AI_REVIEWING", "REVIEW_CI_PASSED", "noop", "review-loop"),
   Fires("AI_REVIEWING", "REVIEW_CI_FAILED", "AUTO_REWORKING", "rework-loop"),
   Moves("AUTO_REWORKING", "REVIEW_FIX_PUSHED", "AI_REVIEWING"),
   Moves("AI_REVIEWING", "REVIEW_PASSED", "READY_FOR_REVIEW"),
   Fires("READY_FOR_REVIEW", "LABELLED_AUTO_MERGING", "AUTO_MERGING", "merge-flow"),
   Fires("READY_FOR_REVIEW", "LABELLED_AUTO_REWORKING", "AUTO_REWORKING", "rework-loop"),
   Moves("READY_FOR_REVIEW", "LABELLED_AI_REVIEWING", "AI_REVIEWING"),
   Closes("READY_FOR_REVIEW", "MERGED"),
   Fires("AI_REVIEWING", "REVIEW_FINDINGS", "AUTO_REWORKING", "rework-loop"),
   Moves("AI_REVIEWING", "REVIEW_BLOCKED", "AI_BLOCKED"),
   Moves("AI_REVIEWING", "REWORK_CAP_REACHED", "AI_STUCK")}

OutcomeRules ==
  {TakesOff("AUTO_REWORKING", "REWORK_NO_CHANGE"),
   TakesOff("AI_STUCK", "REWORK_NO_CHANGE"),
   Moves("AUTO_MERGING", "MERGE_BLOCKED", "MERGE_BLOCKED"),
   TakesOff("AI_DISCUSSING", "DISCUSSION_CAPPED")}

StageRules ==
  {Moves("PR_OPEN", "PR_MERGED", "READY_FOR_RELEASE"),
   Moves("none", "PR_MERGED", "READY_FOR_RELEASE"),
   Closes("READY_FOR_RELEASE", "RELEASED")}

UnlabelRules ==
  {Stays(s, "UNLABELLED_AI_READY") : s \in {"none", "PR_OPEN", "AI_BLOCKED", "AI_STUCK"}}
  \cup
  {Stays(s, e) : s \in {"none", "AI_STUCK"},
                 e \in {"UNLABELLED_AUTO_RELEASING", "UNLABELLED_AUTO_REWORKING",
                        "UNLABELLED_AUTO_MERGING", "UNLABELLED_AI_REVIEWING"}}

WatchdogRules ==
  {Moves(s, "WATCHDOG_EXPIRED", "AI_STUCK") :
     s \in {"AI_READY", "AUTO_RELEASING", "AUTO_REWORKING", "AUTO_MERGING", "AI_REVIEWING"}}

StuckRules ==
  {Moves("AI_STUCK", "BUILD_SUCCEEDED", "PR_OPEN"),
   Moves("AI_STUCK", "BUILD_BLOCKED", "AI_BLOCKED"),
   TakesOff("AI_STUCK", "RELEASE_BLOCKED"),
   Closes("AI_STUCK", "RELEASE_PUBLISHED"),
   TakesOff("AI_STUCK", "REWORK_PUSHED"),
   Closes("AI_STUCK", "MERGED"),
   Moves("AI_STUCK", "REVIEW_PASSED", "READY_FOR_REVIEW"),
   Moves("AI_STUCK", "REVIEW_BLOCKED", "AI_BLOCKED"),
   Fires("AI_STUCK", "LABELLED_AI_READY", "AI_READY", "issue-build-loop"),
   Fires("AI_STUCK", "LABELLED_AUTO_RELEASING", "AUTO_RELEASING", "auto-release-loop"),
   Fires("AI_STUCK", "LABELLED_AUTO_REWORKING", "AUTO_REWORKING", "rework-loop"),
   Fires("AI_STUCK", "LABELLED_AUTO_MERGING", "AUTO_MERGING", "merge-flow"),
   Moves("AI_STUCK", "LABELLED_AI_REVIEWING", "AI_REVIEWING")}

Rules ==
  UNION {IssueRules, ReleaseRules, MergeRules, ReviewRules, OutcomeRules,
         StageRules, UnlabelRules, WatchdogRules, StuckRules}

----------------------------------------------------------------------------
(* The reducer.  The code takes the first matching rule; no two rules      *)
(* share a (from, on) pair (RulesAreAFunction), so there is one at most.   *)

RulesAreAFunction == \A r, q \in Rules : r.from = q.from /\ r.on = q.on => r = q

Matching(state, event) == {r \in Rules : r.on = event /\ r.from = state}
HasRule(state, event)  == Matching(state, event) # {}
Reduce(state, event)   == CHOOSE r \in Matching(state, event) : TRUE

(* A routine fired into a state is watched exactly when the table says     *)
(* what its expiry there means.                                            *)
IsWatched(state) == HasRule(state, "WATCHDOG_EXPIRED")

(* The label a webhook says was just added: it is already on when the      *)
(* labels are read, and the rule is keyed on the state before it.          *)
JustAdded(event) ==
  CASE event = "LABELLED_AI_READY"       -> {"AI_READY"}
    [] event = "LABELLED_AUTO_RELEASING" -> {"AUTO_RELEASING"}
    [] event = "LABELLED_AI_DISCUSSING"  -> {"AI_DISCUSSING"}
    [] event = "LABELLED_AUTO_REWORKING" -> {"AUTO_REWORKING"}
    [] event = "LABELLED_AUTO_MERGING"   -> {"AUTO_MERGING"}
    [] event = "LABELLED_AI_REVIEWING"   -> {"AI_REVIEWING"}
    [] OTHER                             -> {}

(* The state a label set is read as.  Two tracked labels are ambiguous,    *)
(* but for the two pairings with a defined answer.                         *)
DeriveState(labels) ==
  LET tracked == labels \cap Labels
  IN  CASE tracked = {}              -> "none"
        [] Cardinality(tracked) = 1  -> CHOOSE l \in tracked : TRUE
        [] Cardinality(tracked) = 2 /\ "AI_STUCK" \in tracked -> "AI_STUCK"
        [] tracked = {"MERGE_BLOCKED", "AUTO_MERGING"} -> "AUTO_MERGING"
        [] OTHER                     -> "ambiguous"

StateWithItsOwnLabel(labels, event) == DeriveState(labels)

(* The state an event finds: the labels read, less the one it just added.  *)
StateBefore(labels, event) == DeriveState(labels \ JustAdded(event))

(* The GitHub calls a rule needs on a label set, in order.                 *)
Target(rule) == IF rule.to \in Labels THEN rule.to ELSE "none"

LabelOps(labels, rule) ==
  LET removes == rule.from # "none" /\ rule.from # Target(rule) /\ rule.from \in labels
      adds    == rule.to \in Labels /\ rule.to # rule.from /\ rule.to \notin labels
  IN  CASE rule.to = "noop"  -> <<>>
        [] rule.to = "close" -> <<[op |-> "close", label |-> "none"]>>
        [] OTHER -> (IF removes THEN <<[op |-> "remove", label |-> rule.from]>> ELSE <<>>)
                    \o (IF adds THEN <<[op |-> "add", label |-> rule.to]>> ELSE <<>>)

(* The state an applied rule leads to: where a fired routine is watched.   *)
RunState(rule) == IF rule.to \in Labels THEN rule.to ELSE rule.from

(* Whether a state is one some rule fires run into (watchdog.ts, before it *)
(* sends a deferred fire).  Ambiguous labels are no reason to drop it.     *)
StillWanted(state, run) ==
  state = "ambiguous" \/ \E r \in Rules : r.run = run /\ RunState(r) = state
=============================================================================
