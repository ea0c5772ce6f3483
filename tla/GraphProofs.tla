---------------------------- MODULE GraphProofs ----------------------------
(***************************************************************************)
(* What the transition table is, for the proofs about the coordinator: its *)
(* rules have the shape of rules, no two answer the same event in the same *)
(* state, and there is one that fires each routine.                        *)
(***************************************************************************)
EXTENDS Graph, TLAPS

(* Every rule of the table names a state, an event of the list, an effect  *)
(* and a routine (or none): graph.ts's rules are well formed.              *)
LEMMA RulesType == Rules \in SUBSET RuleType
BY SMT DEF Rules, IssueRules, ReleaseRules, MergeRules, ReviewRules, OutcomeRules, StageRules,
     UnlabelRules, WatchdogRules, StuckRules, RuleType, State, Labels, Events, Effects,
     AnyRun, Routines, NoRun, Rule, Fires, Moves, TakesOff, Closes, Stays

(* The reducer answers with a rule of the table, for the state and event   *)
(* it was asked about.                                                     *)
LEMMA ReduceAnswers ==
  ASSUME NEW state, NEW event, HasRule(state, event)
  PROVE  /\ Reduce(state, event) \in Rules
         /\ Reduce(state, event).from = state
         /\ Reduce(state, event).on = event
BY DEF HasRule, Reduce, Matching

(* Every routine has a rule that fires it, and there is a rule that fires  *)
(* none.                                                                   *)
LEMMA EveryRunHasARule ==
  ASSUME NEW run \in AnyRun
  PROVE  \E r \in Rules : r.run = run
<1> USE DEF Rule, Fires, Moves
<1>1. Fires("none", "LABELLED_AI_READY", "AI_READY", "issue-build-loop") \in Rules
  BY DEF Rules, IssueRules
<1>2. Moves("AI_READY", "BUILD_SUCCEEDED", "PR_OPEN") \in Rules
  BY DEF Rules, IssueRules
<1>3. Fires("none", "LABELLED_AI_DISCUSSING", "AI_DISCUSSING", "issue-discuss-loop") \in Rules
  BY DEF Rules, IssueRules
<1>4. Fires("none", "LABELLED_AUTO_RELEASING", "AUTO_RELEASING", "auto-release-loop") \in Rules
  BY DEF Rules, ReleaseRules
<1>5. Fires("AUTO_RELEASING", "RELEASE_MERGED", "noop", "release-publish") \in Rules
  BY DEF Rules, ReleaseRules
<1>6. Fires("none", "LABELLED_AUTO_REWORKING", "AUTO_REWORKING", "rework-loop") \in Rules
  BY DEF Rules, MergeRules
<1>7. Fires("none", "LABELLED_AUTO_MERGING", "AUTO_MERGING", "merge-flow") \in Rules
  BY DEF Rules, MergeRules
<1>8. Fires("AI_REVIEWING", "REVIEW_CI_PASSED", "noop", "review-loop") \in Rules
  BY DEF Rules, ReviewRules
<1> QED BY <1>1, <1>2, <1>3, <1>4, <1>5, <1>6, <1>7, <1>8 DEF AnyRun, Routines, NoRun

(* labelOps yields a sequence of removals, additions and closes.           *)
LEMMA LabelOpsType ==
  ASSUME NEW labels \in SUBSET Labels, NEW rule \in RuleType
  PROVE  LabelOps(labels, rule) \in Seq(OpType)
<1> DEFINE remove == IF rule.from # "none" /\ rule.from # Target(rule) /\ rule.from \in labels
                     THEN <<[op |-> "remove", label |-> rule.from]>> ELSE <<>>
           add    == IF rule.to \in Labels /\ rule.to # rule.from /\ rule.to \notin labels
                     THEN <<[op |-> "add", label |-> rule.to]>> ELSE <<>>
<1>1. remove \in Seq(OpType)
  <2>1. ASSUME rule.from # "none"  PROVE [op |-> "remove", label |-> rule.from] \in OpType
    BY <2>1 DEF OpType, RuleType, State
  <2> QED BY <2>1
<1>2. add \in Seq(OpType)
  <2>1. ASSUME rule.to \in Labels  PROVE [op |-> "add", label |-> rule.to] \in OpType
    BY <2>1 DEF OpType
  <2> QED BY <2>1
<1>3. <<[op |-> "close", label |-> "none"]>> \in Seq(OpType)  BY DEF OpType
<1>4. <<>> \in Seq(OpType)  OBVIOUS
<1>5. remove \o add \in Seq(OpType)  BY <1>1, <1>2
<1> QED BY <1>3, <1>4, <1>5 DEF LabelOps

(* No two rules share a state and an event, so the reducer's "first        *)
(* matching rule" is the only one (reduce).                                *)
THEOREM OneRuleEach == RulesAreAFunction
BY SMTT(60) DEF RulesAreAFunction, Rules, IssueRules, ReleaseRules, MergeRules, ReviewRules,
     OutcomeRules, StageRules, UnlabelRules, WatchdogRules, StuckRules, Labels, NoRun,
     Rule, Fires, Moves, TakesOff, Closes, Stays
=============================================================================
