--------------------------- MODULE SchedulerProofs ---------------------------
(***************************************************************************)
(* What the sweep's chain of alarms promises for every interval, every     *)
(* number of items and any number of failures: the pace, the chain, what   *)
(* it fires beside, and how soon it finds what was left behind.            *)
(***************************************************************************)
EXTENDS Scheduler, FiniteSetTheorems, TLAPS

LEMMA Bounds ==
  /\ Interval \in Nat /\ IdleInterval \in Nat /\ Quiet \in Nat /\ SweepTime \in Nat
  /\ MaxRefires \in Nat /\ MaxPeople \in Nat /\ MaxFaults \in Nat
  /\ SweepTime < Interval /\ Interval <= IdleInterval
BY SchedulerAssumption

(* Each change to the history keeps its shape.                             *)
LEMMA HistoryChanges ==
  ASSUME NEW h \in History
  PROVE  /\ [h EXCEPT !.hook = -1] \in History
         /\ [h EXCEPT !.waited = NoWait] \in History
         /\ h.faults < MaxFaults => Fault(h) \in History
         /\ h.people < MaxPeople => Acted(h) \in History
         /\ \A i \in Items : Restarted(h, i) \in History
<1> USE Bounds
<1>1. NoWait \in [Items -> Nat]
  BY DEF NoWait
<1>2. /\ h.hook \in -1..(Interval + 1) /\ h.waited \in [Items -> Nat]
      /\ h.people \in 0..MaxPeople /\ h.faults \in 0..MaxFaults
  BY DEF History
<1>3. [h EXCEPT !.hook = -1] \in History
  BY <1>2 DEF History
<1>4. [h EXCEPT !.waited = NoWait] \in History
  BY <1>1, <1>2 DEF History
<1>5. ASSUME h.faults < MaxFaults
      PROVE  Fault(h) \in History
  <2>1. h.faults + 1 \in 0..MaxFaults
    BY <1>2, <1>5
  <2>2. [h EXCEPT !.waited = NoWait, !.faults = h.faults + 1] \in History
    BY <1>1, <1>2, <2>1 DEF History
  <2> QED
    BY <2>2 DEF Fault
<1>6. ASSUME h.people < MaxPeople
      PROVE  Acted(h) \in History
  <2>1. h.people + 1 \in 0..MaxPeople
    BY <1>2, <1>6
  <2> QED
    BY <1>2, <2>1 DEF Acted, History
<1>7. ASSUME NEW i \in Items
      PROVE  Restarted(h, i) \in History
  <2>1. [h.waited EXCEPT ![i] = 0] \in [Items -> Nat]
    BY <1>2
  <2> QED
    BY <1>2, <2>1 DEF Restarted, History
<1> QED
  BY <1>3, <1>4, <1>5, <1>6, <1>7

(* A webhook heard and a tick passed keep its shape too, and a webhook     *)
(* changes only what is remembered of webhooks.                            *)
LEMMA HistorySteps ==
  ASSUME history \in History
  PROVE  /\ Heard \in History
         /\ Heard.faults = history.faults
         /\ Waited \in History
<1> USE Bounds
<1>1. /\ history.hook \in -1..(Interval + 1) /\ history.waited \in [Items -> Nat]
      /\ history.people \in 0..MaxPeople /\ history.faults \in 0..MaxFaults
  BY DEF History
<1>2. Heard \in History /\ Heard.faults = history.faults
  BY <1>1 DEF Heard, History
<1>3. (IF history.hook < 0 \/ history.hook > Interval THEN history.hook ELSE history.hook + 1)
        \in -1..(Interval + 1)
  BY <1>1
<1>4. [i \in Items |-> IF Waits(i) THEN IF history.waited[i] > FoundBound
                                        THEN history.waited[i] ELSE history.waited[i] + 1 ELSE 0]
        \in [Items -> Nat]
  BY <1>1
<1>5. Waited \in History
  BY <1>1, <1>3, <1>4 DEF Waited, History
<1> QED
  BY <1>2, <1>5

----------------------------------------------------------------------------
(* Each change to the sweep keeps its shape.                               *)
LEMMA SweepChanges ==
  ASSUME sweep \in Sweep
  PROVE  /\ NoSweep \in Sweep
         /\ [NoSweep EXCEPT !.phase = "controls"] \in Sweep
         /\ Ensured \in Sweep
         /\ \A p \in Phases : /\ [sweep EXCEPT !.phase = p] \in Sweep
                              /\ [sweep EXCEPT !.phase = p, !.errors = TRUE] \in Sweep
         /\ \A p \in Phases, list \in [Items -> Listed], todo \in SUBSET Items :
              [sweep EXCEPT !.phase = p, !.listed = list, !.todo = todo] \in Sweep
         /\ \A i \in Items, live, refired \in BOOLEAN :
              /\ Answered(i, live, refired) \in Sweep
              /\ [Answered(i, live, refired) EXCEPT !.errors = TRUE] \in Sweep
<1> USE Bounds
<1>1. NoSweep \in Sweep
  <2>1. [i \in Items |-> [label |-> FALSE, updated |-> 0, moved |-> FALSE, due |-> FALSE]] \in [Items -> Listed]
    BY DEF Listed, Age
  <2>2. 0 \in 0..SweepTime /\ {} \in SUBSET Items /\ "none" \in Phases
    BY DEF Phases
  <2> QED
    BY <2>1, <2>2 DEF NoSweep, Sweep
<1>2. [NoSweep EXCEPT !.phase = "controls"] \in Sweep
  <2>1. "controls" \in Phases
    BY DEF Phases
  <2> QED
    BY <1>1, <2>1 DEF Sweep
<1>3. Ensured \in Sweep
  <2>1. Sweeping \in BOOLEAN
    BY DEF Sweeping
  <2> QED
    BY <2>1 DEF Ensured, Sweep
<1>4. ASSUME NEW p \in Phases
      PROVE  /\ [sweep EXCEPT !.phase = p] \in Sweep
             /\ [sweep EXCEPT !.phase = p, !.errors = TRUE] \in Sweep
  BY DEF Sweep
<1>5. ASSUME NEW p \in Phases, NEW list \in [Items -> Listed], NEW todo \in SUBSET Items
      PROVE  [sweep EXCEPT !.phase = p, !.listed = list, !.todo = todo] \in Sweep
  BY DEF Sweep
<1>6. ASSUME NEW i \in Items, NEW live \in BOOLEAN, NEW refired \in BOOLEAN
      PROVE  /\ Answered(i, live, refired) \in Sweep
             /\ [Answered(i, live, refired) EXCEPT !.errors = TRUE] \in Sweep
  <2>1. /\ sweep.todo \ {i} \in SUBSET Items
        /\ (sweep.live \/ live) \in BOOLEAN
        /\ (IF refired THEN sweep.refired + 1 ELSE sweep.refired) \in Nat
    BY DEF Sweep
  <2>2. Answered(i, live, refired) \in Sweep
    BY <2>1 DEF Answered, Sweep
  <2> QED
    BY <2>2 DEF Sweep
<1> QED
  BY <1>1, <1>2, <1>3, <1>4, <1>5, <1>6

(* A tick ages what the list gave and what the objects keep, no further    *)
(* than the threshold.                                                     *)
LEMMA Ageing ==
  ASSUME NEW age \in Age
  PROVE  Older(age) \in Age
BY Bounds DEF Older, Age

LEMMA OlderListedType ==
  ASSUME NEW list \in [Items -> Listed]
  PROVE  OlderListed(list) \in [Items -> Listed]
BY Ageing DEF OlderListed, Listed

(* /ensure leaves an alarm no further off than the normal interval.        *)
LEMMA EnsureArms ==
  ASSUME TypeOK, Ensure
  PROVE  /\ alarm' \in 0..Interval
         /\ alarm # NoAlarm => alarm' <= alarm
         /\ sweep' \in Sweep
         /\ sweep'.phase = sweep.phase
         /\ Sweeping => sweep'.ensured
<1> USE Bounds
<1>1. alarm' \in 0..Interval /\ (alarm # NoAlarm => alarm' <= alarm)
  BY DEF Ensure, TypeOK, NoAlarm
<1>2. sweep' \in Sweep /\ sweep' = Ensured
  BY SweepChanges DEF Ensure, TypeOK
<1>3. sweep'.phase = sweep.phase /\ (Sweeping => sweep'.ensured)
  BY <1>2 DEF Ensured, Sweep, TypeOK
<1> QED
  BY <1>1, <1>2, <1>3

----------------------------------------------------------------------------
LEMMA InitType == Init => TypeOK
<1> SUFFICES ASSUME Init PROVE TypeOK
  OBVIOUS
<1> USE Bounds
<1>1. alarm \in NoAlarm..IdleInterval
  BY DEF Init, NoAlarm
<1>6. ringing \in BOOLEAN /\ off \in BOOLEAN /\ mode \in [Items -> Modes]
  BY Zenon DEF Init
<1>2. sweep \in Sweep
  <2>1. [i \in Items |-> [label |-> FALSE, updated |-> 0, moved |-> FALSE, due |-> FALSE]] \in [Items -> Listed]
    BY DEF Listed, Age
  <2>2. 0 \in 0..SweepTime /\ {} \in SUBSET Items /\ "none" \in Phases
    BY DEF Phases
  <2> QED
    BY <2>1, <2>2 DEF Init, NoSweep, Sweep
<1>3. github \in [Items -> Listed]
  BY DEF Init, Listed, Age
<1>4. items \in [Items -> Item]
  BY DEF Init, Item, Age
<1>5. history \in History
  <2>1. NoWait \in [Items -> Nat]
    BY DEF NoWait
  <2> QED
    BY <2>1 DEF Init, History
<1> QED
  BY <1>1, <1>2, <1>3, <1>4, <1>5, <1>6 DEF TypeOK

LEMMA AskType ==
  ASSUME TypeOK, NEW i \in Items, Ask(i)
  PROVE  TypeOK'
<1> USE Bounds
<1>1. /\ alarm' = alarm /\ ringing' = ringing /\ off' = off /\ mode' = mode
  BY DEF Ask
<1>2. (Answer(i) \in LiveAnswers) \in BOOLEAN
  OBVIOUS
<1>3. sweep' \in Sweep
  <2>1. sweep \in Sweep
    BY DEF TypeOK
  <2>2. \A live, refired \in BOOLEAN : /\ Answered(i, live, refired) \in Sweep
                                      /\ [Answered(i, live, refired) EXCEPT !.errors = TRUE] \in Sweep
    BY <2>1, SweepChanges
  <2>3. \/ \E live, refired \in BOOLEAN : sweep' = Answered(i, live, refired)
        \/ sweep' = [Answered(i, FALSE, FALSE) EXCEPT !.errors = TRUE]
    BY <1>2, Zenon DEF Ask
  <2> QED
    BY <2>2, <2>3
<1>4. history' \in History
  <2>1. history \in History
    BY DEF TypeOK
  <2>2. history' = history \/ history' = Restarted(history, i) \/ (CanFail /\ history' = Fault(history))
    BY DEF Ask
  <2> QED
    BY <2>1, <2>2, HistoryChanges DEF CanFail
<1>5. items' \in [Items -> Item]
  <2>1. items \in [Items -> Item]
    BY DEF TypeOK
  <2>2. [items EXCEPT ![i] = [watched |-> TRUE, logged |-> 0, done |-> FALSE, reported |-> FALSE]] \in [Items -> Item]
    BY <2>1 DEF Item, Age
  <2>3. [items EXCEPT ![i].done = FALSE, ![i].reported = TRUE] \in [Items -> Item]
    BY <2>1 DEF Item
  <2>4. \A watched \in BOOLEAN : [items EXCEPT ![i].watched = watched, ![i].done = FALSE] \in [Items -> Item]
    BY <2>1 DEF Item
  <2> QED
    BY <2>1, <2>2, <2>3, <2>4 DEF Ask, FailsPartWay, Refired, Reported
<1>6. github' \in [Items -> Listed]
  <2>1. github \in [Items -> Listed]
    BY DEF TypeOK
  <2>2. (github[i].moved /\ github[i].updated # sweep.listed[i].updated) \in BOOLEAN
    BY <2>1 DEF Listed
  <2>3. [github EXCEPT ![i].moved = github[i].moved /\ github[i].updated # sweep.listed[i].updated] \in [Items -> Listed]
    BY <2>1, <2>2 DEF Listed
  <2> QED
    BY <2>1, <2>3 DEF Ask, FailsPartWay, Refired, Reported
<1> QED
  BY <1>1, <1>3, <1>4, <1>5, <1>6 DEF TypeOK

LEMMA SchedulerStepsType ==
  ASSUME TypeOK, SchedulerSteps
  PROVE  TypeOK'
<1> USE Bounds
<1>1. /\ off' = off /\ mode' = mode /\ github' = github /\ items' = items
  BY DEF SchedulerSteps, StartSweep, ReadControls, ListCandidates, FinishSweep, Evict, world
<1>2. ringing' \in BOOLEAN
  BY DEF SchedulerSteps, StartSweep, ReadControls, ListCandidates, FinishSweep, Evict, TypeOK
<1>3. history' \in History
  <2>1. history \in History
    BY DEF TypeOK
  <2>2. \/ history' = history
        \/ history' = [history EXCEPT !.hook = -1]
        \/ CanFail /\ history' = Fault(history)
    BY DEF SchedulerSteps, StartSweep, ReadControls, ListCandidates, FinishSweep, Evict
  <2> QED
    BY <2>1, <2>2, HistoryChanges DEF CanFail
<1>4. alarm' \in NoAlarm..IdleInterval
  <2>1. sweep.elapsed \in 0..SweepTime
    BY DEF TypeOK, Sweep
  <2>2. alarm' = alarm \/ alarm' = Interval \/ alarm' = IdleInterval - sweep.elapsed
    BY DEF SchedulerSteps, StartSweep, ReadControls, ListCandidates, FinishSweep, Evict, NextAlarm, Slowed
  <2> QED
    BY <2>1, <2>2 DEF TypeOK, NoAlarm
<1>5. sweep' \in Sweep
  <2>1. sweep \in Sweep /\ github \in [Items -> Listed] /\ {i \in Items : github[i].label} \in SUBSET Items
    BY DEF TypeOK
  <2>2. {"ask", "list"} \subseteq Phases
    BY DEF Phases
  <2>3. CASE StartSweep
    BY <2>1, <2>3, SweepChanges DEF StartSweep
  <2>4. CASE ReadControls
    BY <2>1, <2>2, <2>4, SweepChanges DEF ReadControls
  <2>5. CASE ListCandidates
    <3>1. [sweep EXCEPT !.phase = "ask", !.listed = github, !.todo = {i \in Items : github[i].label}] \in Sweep
      BY <2>1, <2>2, SweepChanges
    <3> QED
      BY <2>1, <2>2, <2>5, <3>1, SweepChanges DEF ListCandidates
  <2>6. CASE FinishSweep \/ Evict
    BY <2>1, <2>6, SweepChanges DEF FinishSweep, Evict
  <2> QED
    BY <2>3, <2>4, <2>5, <2>6 DEF SchedulerSteps
<1> QED
  BY <1>1, <1>2, <1>3, <1>4, <1>5 DEF TypeOK

(* What a person, a webhook or a run does to an item keeps its shape.      *)
LEMMA ItemShapes ==
  ASSUME TypeOK, NEW i \in Items
  PROVE  /\ \A label, due \in BOOLEAN :
              [github EXCEPT ![i] = [label |-> label, updated |-> 0, moved |-> TRUE, due |-> due]] \in [Items -> Listed]
         /\ [github EXCEPT ![i].due = FALSE] \in [Items -> Listed]
         /\ [github EXCEPT ![i].moved = FALSE] \in [Items -> Listed]
         /\ \A watched \in BOOLEAN :
              [items EXCEPT ![i] = [watched |-> watched, logged |-> 0, done |-> FALSE, reported |-> FALSE]] \in [Items -> Item]
         /\ [items EXCEPT ![i].watched = FALSE, ![i].done = TRUE, ![i].reported = FALSE] \in [Items -> Item]
         /\ [items EXCEPT ![i].watched = FALSE] \in [Items -> Item]
<1>1. github \in [Items -> Listed] /\ items \in [Items -> Item] /\ 0 \in Age
  BY Bounds DEF TypeOK, Age
<1>2. ASSUME NEW label \in BOOLEAN, NEW due \in BOOLEAN
      PROVE  [github EXCEPT ![i] = [label |-> label, updated |-> 0, moved |-> TRUE, due |-> due]] \in [Items -> Listed]
  BY <1>1 DEF Listed
<1>3. /\ [github EXCEPT ![i].due = FALSE] \in [Items -> Listed]
      /\ [github EXCEPT ![i].moved = FALSE] \in [Items -> Listed]
  BY <1>1 DEF Listed
<1>4. ASSUME NEW watched \in BOOLEAN
      PROVE  [items EXCEPT ![i] = [watched |-> watched, logged |-> 0, done |-> FALSE, reported |-> FALSE]] \in [Items -> Item]
  BY <1>1 DEF Item
<1>5. /\ [items EXCEPT ![i].watched = FALSE, ![i].done = TRUE, ![i].reported = FALSE] \in [Items -> Item]
      /\ [items EXCEPT ![i].watched = FALSE] \in [Items -> Item]
  BY <1>1 DEF Item
<1> QED
  BY <1>2, <1>3, <1>4, <1>5

LEMMA ItemStepsType ==
  ASSUME TypeOK, NEW i \in Items,
         \/ PersonLabels(i) \/ LabelWebhook(i) \/ OutcomeWebhook(i)
         \/ Completed(i) \/ WebhookLost(i) \/ WatchLost(i)
  PROVE  TypeOK'
<1> USE Bounds
<1>1. ringing' = ringing /\ off' = off /\ mode' = mode
  BY DEF PersonLabels, LabelWebhook, OutcomeWebhook, Completed, WebhookLost, WatchLost
<1>2. github' \in [Items -> Listed]
  <2>1. \/ github' = [github EXCEPT ![i] = [label |-> TRUE, updated |-> 0, moved |-> TRUE, due |-> TRUE]]
        \/ github' = [github EXCEPT ![i] = [label |-> FALSE, updated |-> 0, moved |-> TRUE, due |-> FALSE]]
        \/ github' = [github EXCEPT ![i].due = FALSE]
        \/ github' = [github EXCEPT ![i].moved = FALSE]
        \/ github' = github
    BY Zenon DEF PersonLabels, LabelWebhook, Handled, OutcomeWebhook, Completed, WebhookLost, WatchLost
  <2>2. /\ [github EXCEPT ![i] = [label |-> TRUE, updated |-> 0, moved |-> TRUE, due |-> TRUE]] \in [Items -> Listed]
        /\ [github EXCEPT ![i] = [label |-> FALSE, updated |-> 0, moved |-> TRUE, due |-> FALSE]] \in [Items -> Listed]
    BY ItemShapes
  <2>3. /\ [github EXCEPT ![i].due = FALSE] \in [Items -> Listed]
        /\ [github EXCEPT ![i].moved = FALSE] \in [Items -> Listed]
    BY ItemShapes, Zenon
  <2>4. github \in [Items -> Listed]
    BY DEF TypeOK
  <2> QED
    BY <2>1, <2>2, <2>3, <2>4, Zenon
<1>3. items' \in [Items -> Item]
  <2>1. \/ items' = [items EXCEPT ![i] = [watched |-> TRUE, logged |-> 0, done |-> FALSE, reported |-> FALSE]]
        \/ items' = [items EXCEPT ![i] = [watched |-> FALSE, logged |-> 0, done |-> FALSE, reported |-> FALSE]]
        \/ items' = [items EXCEPT ![i].watched = FALSE, ![i].done = TRUE, ![i].reported = FALSE]
        \/ items' = [items EXCEPT ![i].watched = FALSE]
        \/ items' = items
    BY Zenon DEF PersonLabels, LabelWebhook, Handled, OutcomeWebhook, Completed, WebhookLost, WatchLost
  <2>2. /\ [items EXCEPT ![i] = [watched |-> TRUE, logged |-> 0, done |-> FALSE, reported |-> FALSE]] \in [Items -> Item]
        /\ [items EXCEPT ![i] = [watched |-> FALSE, logged |-> 0, done |-> FALSE, reported |-> FALSE]] \in [Items -> Item]
    BY ItemShapes
  <2>3. /\ [items EXCEPT ![i].watched = FALSE, ![i].done = TRUE, ![i].reported = FALSE] \in [Items -> Item]
        /\ [items EXCEPT ![i].watched = FALSE] \in [Items -> Item]
    BY ItemShapes, Zenon
  <2>4. items \in [Items -> Item]
    BY DEF TypeOK
  <2> QED
    BY <2>1, <2>2, <2>3, <2>4, Zenon
<1>4. /\ alarm' \in NoAlarm..IdleInterval
      /\ sweep' \in Sweep
  <2>1. Ensure \/ (alarm' = alarm /\ sweep' = sweep)
    BY DEF PersonLabels, LabelWebhook, OutcomeWebhook, Completed, WebhookLost, WatchLost
  <2>2. CASE Ensure
    BY <2>2, EnsureArms DEF NoAlarm
  <2>3. CASE alarm' = alarm /\ sweep' = sweep
    BY <2>3 DEF TypeOK
  <2> QED
    BY <2>1, <2>2, <2>3
<1>5. history' \in History
  <2>1. history \in History /\ Heard \in History /\ Heard.faults = history.faults
    BY HistorySteps DEF TypeOK
  <2>2. \/ CanAct /\ history' = Acted(Restarted(history, i))
        \/ history' \in {Restarted(Heard, i), Restarted(history, i)}
        \/ CanFail /\ history' \in {Fault(Heard), Fault(history)}
    BY DEF PersonLabels, LabelWebhook, OutcomeWebhook, Completed, WebhookLost, WatchLost
  <2>3. /\ Restarted(history, i) \in History /\ Restarted(Heard, i) \in History
        /\ Restarted(history, i).people = history.people
    BY <2>1, HistoryChanges DEF Restarted, History
  <2>4. CanAct => Acted(Restarted(history, i)) \in History
    BY <2>3, HistoryChanges DEF CanAct
  <2>5. CanFail => Fault(Heard) \in History /\ Fault(history) \in History
    BY <2>1, HistoryChanges DEF CanFail
  <2> QED
    BY <2>2, <2>3, <2>4, <2>5
<1> QED
  BY <1>1, <1>2, <1>3, <1>4, <1>5 DEF TypeOK

LEMMA TickType ==
  ASSUME TypeOK, Tick
  PROVE  TypeOK'
<1> USE Bounds
<1>1. /\ ringing' = ringing /\ off' = off /\ mode' = mode
      /\ history' \in History
  BY HistorySteps DEF Tick, TypeOK
<1>2. alarm' \in NoAlarm..IdleInterval
  BY DEF Tick, TypeOK, NoAlarm
<1>3. github' \in [Items -> Listed]
  BY OlderListedType DEF Tick, TypeOK
<1>4. items' \in [Items -> Item]
  <2>1. items' = [i \in Items |-> [items[i] EXCEPT !.logged = Older(items[i].logged)]]
    BY DEF Tick
  <2>2. ASSUME NEW i \in Items
        PROVE  [items[i] EXCEPT !.logged = Older(items[i].logged)] \in Item
    <3>1. items[i] \in Item
      BY DEF TypeOK
    <3>2. Older(items[i].logged) \in Age
      BY <3>1, Ageing DEF Item
    <3> QED
      BY <3>1, <3>2 DEF Item
  <2> QED
    BY <2>1, <2>2
<1>5. sweep' \in Sweep
  <2>1. sweep \in Sweep /\ sweep.listed \in [Items -> Listed] /\ sweep.elapsed \in 0..SweepTime
    BY DEF TypeOK, Sweep
  <2>2. CASE Sweeping
    <3>1. sweep' = [sweep EXCEPT !.elapsed = sweep.elapsed + 1, !.listed = OlderListed(sweep.listed)]
      BY <2>2 DEF Tick
    <3>2. sweep.elapsed + 1 \in 0..SweepTime
      BY <2>1, <2>2 DEF Tick
    <3>3. OlderListed(sweep.listed) \in [Items -> Listed]
      BY <2>1, OlderListedType
    <3> QED
      BY <2>1, <3>1, <3>2, <3>3 DEF Sweep
  <2>3. CASE ~Sweeping
    BY <2>1, <2>3 DEF Tick
  <2> QED
    BY <2>2, <2>3
<1> QED
  BY <1>1, <1>2, <1>3, <1>4, <1>5 DEF TypeOK

LEMMA OtherStepsType ==
  ASSUME TypeOK, OtherWebhook \/ Switch \/ Ring \/ GiveUp
  PROVE  TypeOK'
<1> USE Bounds
<1>1. mode' = mode /\ github' = github /\ items' = items /\ off' \in BOOLEAN /\ ringing' \in BOOLEAN
  BY DEF OtherWebhook, Switch, Ring, GiveUp, world, TypeOK
<1>2. alarm' \in NoAlarm..IdleInterval /\ sweep' \in Sweep
  <2>1. CASE OtherWebhook
    BY <2>1, EnsureArms DEF OtherWebhook, NoAlarm
  <2>2. CASE Switch \/ Ring \/ GiveUp
    BY <2>2 DEF Switch, Ring, GiveUp, TypeOK, NoAlarm
  <2> QED
    BY <2>1, <2>2
<1>3. history' \in History
  <2>1. history \in History /\ Heard \in History
    BY HistorySteps DEF TypeOK
  <2>2. CASE OtherWebhook \/ Ring
    BY <2>1, <2>2 DEF OtherWebhook, Ring
  <2>3. CASE Switch
    <3>1. [history EXCEPT !.waited = NoWait].people = history.people
      BY <2>1 DEF History
    <3> QED
      BY <2>1, <2>3, <3>1, HistoryChanges DEF Switch, CanAct
  <2>4. CASE GiveUp
    <3>1. [history EXCEPT !.hook = -1].faults = history.faults
      BY <2>1 DEF History
    <3> QED
      BY <2>1, <2>4, <3>1, HistoryChanges DEF GiveUp, CanFail
  <2> QED
    BY <2>2, <2>3, <2>4
<1> QED
  BY <1>1, <1>2, <1>3 DEF TypeOK

(* Every state of the sweep's chain has its shape: no alarm is set further *)
(* off than the idle interval, no sweep runs past its time.                *)
THEOREM SweepTypeCorrect == Spec => []TypeOK
<1>1. TypeOK /\ [Next]_vars => TypeOK'
  <2> SUFFICES ASSUME TypeOK, [Next]_vars PROVE TypeOK'
    OBVIOUS
  <2>1. CASE SchedulerSteps
    BY <2>1, SchedulerStepsType
  <2>2. CASE ItemSteps
    BY <2>2, AskType, ItemStepsType DEF ItemSteps
  <2>3. CASE Tick
    BY <2>3, TickType
  <2>4. CASE OtherWebhook \/ Switch \/ Ring \/ GiveUp
    BY <2>4, OtherStepsType
  <2>5. CASE UNCHANGED vars
    BY <2>5 DEF vars, TypeOK
  <2> QED
    BY <2>1, <2>2, <2>3, <2>4, <2>5 DEF Next
<1> QED
  BY <1>1, InitType, PTL DEF Spec

----------------------------------------------------------------------------
(* Why the pace is kept.  alarm() is never owed while a sweep is being     *)
(* made; a webhook no sweep has started since has either an alarm within   *)
(* what is left of its interval or a call of alarm() already owed, which   *)
(* the platform makes before the next tick; and the sweep it came during   *)
(* knows of it.                                                            *)
PaceInv ==
  /\ ringing => ~Sweeping
  /\ history.hook >= 0 =>
       /\ history.hook <= Interval
       /\ ringing \/ (alarm # NoAlarm /\ alarm + history.hook <= Interval)
       /\ Sweeping => sweep.ensured

(* What a webhook leaves behind: an alarm in time for it and for every     *)
(* earlier one.                                                            *)
LEMMA EnsurePace ==
  ASSUME TypeOK, PaceInv, Ensure, ringing' = ringing, history'.hook = Heard.hook
  PROVE  PaceInv'
<1> USE Bounds
<1>1. /\ alarm' \in 0..Interval /\ (alarm # NoAlarm => alarm' <= alarm)
      /\ sweep'.phase = sweep.phase /\ (Sweeping => sweep'.ensured)
  BY EnsureArms
<1>2. history'.hook = IF history.hook < 0 THEN 0 ELSE history.hook
  BY DEF Heard, TypeOK, History
<1>3. history.hook \in -1..(Interval + 1) /\ alarm \in NoAlarm..IdleInterval
  BY DEF TypeOK, History
<1>4. Sweeping' = Sweeping
  BY <1>1 DEF Sweeping
<1>5. ringing' => ~Sweeping'
  BY <1>4 DEF PaceInv
<1>6. history'.hook <= Interval
  BY <1>2, <1>3 DEF PaceInv
<1>7. ringing' \/ (alarm' # NoAlarm /\ alarm' + history'.hook <= Interval)
  <2>1. CASE ringing
    BY <2>1
  <2>2. ASSUME history.hook < 0 \/ (alarm # NoAlarm /\ alarm + history.hook <= Interval)
        PROVE  alarm' # NoAlarm /\ alarm' + history'.hook <= Interval
    <3>1. alarm' \in 0..Interval /\ (alarm # NoAlarm => alarm' <= alarm)
      BY <1>1
    <3>2. CASE history.hook < 0
      <4>1. history'.hook = 0
        BY <1>2, <3>2
      <4>2. alarm' \in Int /\ alarm' >= 0 /\ alarm' <= Interval
        BY <3>1
      <4>3. alarm' # NoAlarm
        BY <4>2 DEF NoAlarm
      <4>4. alarm' + 0 <= Interval
        <5>1. \A x \in Int : x + 0 = x
          OBVIOUS
        <5> QED
          BY <4>2, <5>1, Zenon
      <4> QED
        BY <4>1, <4>3, <4>4, Zenon
    <3>3. CASE ~(history.hook < 0)
      <4>1. history'.hook = history.hook
        BY <1>2, <3>3
      <4>2. alarm # NoAlarm /\ alarm + history.hook <= Interval
        BY <2>2, <3>3
      <4> QED
        BY <1>3, <3>1, <4>1, <4>2 DEF NoAlarm
    <3> QED
      BY <3>2, <3>3
  <2>3. history.hook < 0 \/ history.hook >= 0
    BY <1>3
  <2> QED
    BY <2>1, <2>2, <2>3, Zenon DEF PaceInv
<1>8. Sweeping' => sweep'.ensured
  BY <1>1, <1>4
<1> QED
  BY <1>5, <1>6, <1>7, <1>8, Zenon DEF PaceInv

(* A step that leaves the chain and the webhooks alone.                    *)
LEMMA StillPace ==
  ASSUME PaceInv, alarm' = alarm, ringing' = ringing, history'.hook = history.hook,
         sweep'.phase = sweep.phase, sweep'.ensured = sweep.ensured
  PROVE  PaceInv'
BY DEF PaceInv, Sweeping, NoAlarm

LEMMA PaceStep ==
  ASSUME TypeOK, PaceInv, [Next]_vars
  PROVE  PaceInv'
<1> USE Bounds
<1>1. /\ history.hook \in -1..(Interval + 1) /\ history \in History
      /\ alarm \in NoAlarm..IdleInterval /\ sweep \in Sweep
  BY DEF TypeOK, History
<1>2. /\ Fault(history).hook = history.hook
      /\ [history EXCEPT !.waited = NoWait].hook = history.hook
      /\ \A i \in Items : Restarted(history, i).hook = history.hook
  BY <1>1 DEF Fault, Restarted, History
<1>3. /\ Acted([history EXCEPT !.waited = NoWait]).hook = history.hook
      /\ \A i \in Items : Acted(Restarted(history, i)).hook = history.hook
  BY <1>1, <1>2, HistoryChanges DEF Acted, History
<1>4. /\ Fault(Heard).hook = Heard.hook
      /\ \A i \in Items : Restarted(Heard, i).hook = Heard.hook
  BY <1>1, HistorySteps DEF Fault, Restarted, History
<1>5. CASE StartSweep
  <2>1. history'.hook = -1 /\ ~ringing'
    BY <1>1, <1>5 DEF StartSweep, History
  <2> QED
    BY <2>1 DEF PaceInv
<1>6. CASE ReadControls \/ ListCandidates
  <2>1. sweep'.phase # "none" /\ sweep.phase # "none" /\ sweep'.ensured = sweep.ensured
    BY <1>1, <1>6 DEF ReadControls, ListCandidates, Sweep
  <2>2. alarm' = alarm /\ ringing' = ringing /\ history'.hook = history.hook
    BY <1>2, <1>6 DEF ReadControls, ListCandidates
  <2> QED
    BY <2>1, <2>2 DEF PaceInv, Sweeping, NoAlarm
<1>7. CASE FinishSweep
  <2>1. ~Sweeping' /\ Sweeping /\ ringing' = ringing /\ history' = history
    BY <1>7 DEF FinishSweep, NoSweep, Sweeping
  <2>2. history.hook >= 0 => alarm' = alarm
    <3>1. history.hook >= 0 => sweep.ensured
      BY <2>1 DEF PaceInv
    <3> QED
      BY <3>1, <1>7 DEF FinishSweep, SlowsDown
  <2> QED
    BY <2>1, <2>2 DEF PaceInv, NoAlarm
<1>8. CASE Evict
  <2>1. ~Sweeping' /\ Sweeping /\ alarm' = alarm /\ history'.hook = history.hook
    BY <1>2, <1>8 DEF Evict, NoSweep, Sweeping
  <2> QED
    BY <2>1 DEF PaceInv, NoAlarm
<1>9. ASSUME NEW i \in Items, Ask(i)
      PROVE  PaceInv'
  <2>1. alarm' = alarm /\ ringing' = ringing
    BY <1>9 DEF Ask
  <2>2. history'.hook = history.hook
    BY <1>2, <1>9 DEF Ask
  <2>3. \A live, refired \in BOOLEAN :
          /\ Answered(i, live, refired).phase = sweep.phase
          /\ Answered(i, live, refired).ensured = sweep.ensured
          /\ [Answered(i, live, refired) EXCEPT !.errors = TRUE].phase = sweep.phase
          /\ [Answered(i, live, refired) EXCEPT !.errors = TRUE].ensured = sweep.ensured
    BY <1>1 DEF Answered, Sweep
  <2>4. \/ \E live, refired \in BOOLEAN : sweep' = Answered(i, live, refired)
        \/ sweep' = [Answered(i, FALSE, FALSE) EXCEPT !.errors = TRUE]
    BY <1>9, (Answer(i) \in LiveAnswers) \in BOOLEAN, Zenon DEF Ask
  <2>5. sweep'.phase = sweep.phase /\ sweep'.ensured = sweep.ensured
    BY <2>3, <2>4
  <2> QED
    BY <2>1, <2>2, <2>5, StillPace
<1>10. ASSUME NEW i \in Items, LabelWebhook(i) \/ OutcomeWebhook(i)
       PROVE  PaceInv'
  <2>1. ringing' = ringing
    BY <1>10 DEF LabelWebhook, OutcomeWebhook
  <2>2. \/ Ensure /\ history'.hook = Heard.hook
        \/ alarm' = alarm /\ sweep' = sweep /\ history'.hook = history.hook
    BY <1>2, <1>4, <1>10 DEF LabelWebhook, OutcomeWebhook
  <2> QED
    BY <2>1, <2>2, EnsurePace, StillPace
<1>11. ASSUME NEW i \in Items, PersonLabels(i) \/ Completed(i) \/ WebhookLost(i) \/ WatchLost(i)
       PROVE  PaceInv'
  <2>1. /\ alarm' = alarm /\ ringing' = ringing /\ sweep' = sweep
        /\ history'.hook = history.hook
    BY <1>2, <1>3, <1>11 DEF PersonLabels, Completed, WebhookLost, WatchLost
  <2> QED
    BY <2>1, StillPace
<1>12. CASE OtherWebhook
  BY <1>12, EnsurePace DEF OtherWebhook
<1>13. CASE Switch
  BY <1>3, <1>13, StillPace DEF Switch
<1>14. CASE Tick
  <2>1. ~ringing /\ ringing' = ringing /\ Sweeping' = Sweeping
    BY <1>1, <1>14 DEF Tick, Sweeping, Sweep
  <2>2. Sweeping => sweep'.ensured = sweep.ensured
    BY <1>1, <1>14 DEF Tick, Sweep
  <2>3. history'.hook = IF history.hook < 0 \/ history.hook > Interval THEN history.hook ELSE history.hook + 1
    BY <1>1, <1>14 DEF Tick, Waited, History
  <2>4. alarm # 0 /\ alarm' = IF alarm = NoAlarm THEN NoAlarm ELSE alarm - 1
    BY <1>14 DEF Tick
  <2>5. ASSUME history'.hook >= 0
        PROVE  /\ history'.hook <= Interval
               /\ alarm' # NoAlarm /\ alarm' + history'.hook <= Interval
    <3>1. history.hook >= 0
      BY <1>1, <2>3, <2>5
    <3>2. alarm # NoAlarm /\ alarm + history.hook <= Interval
      BY <2>1, <3>1 DEF PaceInv
    <3> QED
      BY <1>1, <2>3, <2>4, <3>1, <3>2 DEF NoAlarm
  <2>6. history'.hook >= 0 => history.hook >= 0
    BY <1>1, <2>3
  <2>7. history'.hook >= 0 /\ Sweeping' => sweep'.ensured
    BY <2>1, <2>2, <2>6 DEF PaceInv
  <2> QED
    BY <2>1, <2>5, <2>7 DEF PaceInv
<1>15. CASE Ring
  BY <1>15 DEF Ring, PaceInv, Sweeping
<1>16. CASE GiveUp
  <2>1. history'.hook = -1 /\ ~ringing'
    BY <1>1, <1>16 DEF GiveUp, Fault, History
  <2> QED
    BY <2>1 DEF PaceInv
<1>17. CASE UNCHANGED vars
  BY <1>17, StillPace DEF vars
<1> QED
  BY <1>5, <1>6, <1>7, <1>8, <1>9, <1>10, <1>11, <1>12, <1>13, <1>14, <1>15, <1>16, <1>17
     DEF Next, SchedulerSteps, ItemSteps

LEMMA PaceInvariant == Spec => []PaceInv
<1>1. Init => PaceInv
  BY DEF Init, PaceInv
<1> QED
  BY <1>1, SweepTypeCorrect, PaceStep, PTL DEF Spec

(* However webhooks interleave with sweeps that slow the chain, are        *)
(* evicted or fail, the next sweep starts within Interval of a webhook.    *)
THEOREM PaceIsKept == Spec => []EnsureKeepsPace
<1>1. TypeOK /\ PaceInv => EnsureKeepsPace
  BY Bounds DEF TypeOK, History, PaceInv, EnsureKeepsPace
<1> QED
  BY <1>1, PaceInvariant, SweepTypeCorrect, PTL

(* The chain of alarms only ends when the platform gives up on a call of   *)
(* alarm() that never ran: no failure of a sweep and no webhook breaks it. *)
THEOREM ChainIsKept == Spec => ChainKept
<1>1. TypeOK /\ PaceInv /\ [Next]_vars => [ChainAlive => ChainAlive' \/ GiveUp]_vars
  <2> SUFFICES ASSUME TypeOK, PaceInv, Next, ChainAlive, ~GiveUp
               PROVE  ChainAlive'
    BY DEF vars
  <2> USE Bounds
  <2>1. alarm \in NoAlarm..IdleInterval /\ sweep.elapsed \in 0..SweepTime
    BY DEF TypeOK, Sweep
  <2>2. CASE StartSweep \/ FinishSweep
    BY <2>1, <2>2 DEF StartSweep, FinishSweep, NextAlarm, Slowed, ChainAlive, NoAlarm
  <2>3. CASE Ensure
    BY <2>3, EnsureArms DEF ChainAlive, NoAlarm
  <2>4. CASE alarm' = alarm /\ ringing' = ringing
    BY <2>4 DEF ChainAlive, NoAlarm
  <2>5. CASE Evict
    BY <2>5 DEF Evict, ChainAlive, PaceInv, NoAlarm
  <2>6. CASE Tick
    BY <2>1, <2>6 DEF Tick, ChainAlive, NoAlarm
  <2>7. CASE Ring
    BY <2>7 DEF Ring, ChainAlive
  <2>8. \/ StartSweep \/ FinishSweep \/ Ensure \/ Evict \/ Tick \/ Ring
        \/ alarm' = alarm /\ ringing' = ringing
    BY DEF Next, SchedulerSteps, ItemSteps, ReadControls, ListCandidates, Ask, PersonLabels, LabelWebhook,
           OutcomeWebhook, Completed, WebhookLost, WatchLost, OtherWebhook, Switch
  <2> QED
    BY <2>2, <2>3, <2>4, <2>5, <2>6, <2>7, <2>8
<1> QED
  BY <1>1, PaceInvariant, SweepTypeCorrect, PTL DEF Spec, ChainKept

----------------------------------------------------------------------------
(* An item that is not watched and begins to be with its label's webhook   *)
(* still on its way is one the sweep asked and fires again.                *)
LEMMA OnlyAskedAlongside ==
  ASSUME TypeOK, Next, NEW i \in Items, FiresAlongside(i)
  PROVE  Ask(i) /\ Answer(i) \in {"refired", "gated"}
<1>t. github \in [Items -> Listed] /\ items \in [Items -> Item]
  BY DEF TypeOK
<1>f. ~items[i].watched /\ items'[i].watched /\ github[i].due /\ github'[i].due
  BY DEF FiresAlongside
<1>1. ASSUME items' = items  PROVE FALSE
  BY <1>1, <1>f
<1>2. ASSUME NEW j \in Items, Ask(j)  PROVE j = i /\ Answer(i) \in {"refired", "gated"}
  <2>1. CASE Answer(j) = "would_refire" /\ Reported(j)
    <3>1. items'[i].watched = items[i].watched
      BY <1>t, <2>1 DEF Reported, Item
    <3> QED BY <1>f, <3>1
  <2>2. CASE Answer(j) \in {"refired", "gated"}
             /\ (Refired(j) \/ \E watched \in BOOLEAN :
                                 items' = [items EXCEPT ![j].watched = watched, ![j].done = FALSE])
    <3>1. i # j => items'[i] = items[i]
      BY <1>t, <2>2 DEF Refired
    <3> QED BY <1>f, <2>2, <3>1
  <2> QED BY <1>1, <1>2, <2>1, <2>2 DEF Ask, FailsPartWay
<1>3. ASSUME NEW j \in Items,
             \/ PersonLabels(j) \/ LabelWebhook(j) \/ OutcomeWebhook(j) \/ Completed(j)
             \/ WebhookLost(j) \/ WatchLost(j)
      PROVE  FALSE
  <2>1. CASE LabelWebhook(j)
    <3>1. PICK fired \in BOOLEAN : Handled(j, fired)
      BY <2>1 DEF LabelWebhook
    <3>2. i # j => items'[i] = items[i]
      BY <1>t, <3>1 DEF Handled
    <3>3. ~github'[j].due
      BY <1>t, <3>1 DEF Handled, Listed
    <3> QED BY <1>f, <3>2, <3>3
  <2>2. CASE OutcomeWebhook(j)
    <3>1. i # j => items'[i] = items[i]
      BY <1>t, <2>2 DEF OutcomeWebhook
    <3>2. ~github'[j].due
      BY <1>t, <2>2 DEF OutcomeWebhook
    <3> QED BY <1>f, <3>1, <3>2
  <2>3. CASE Completed(j)
    <3>1. items'[i].watched => items[i].watched
      BY <1>t, <2>3 DEF Completed, Item
    <3> QED BY <1>f, <3>1
  <2>4. CASE WatchLost(j)
    <3>1. items'[i].watched => items[i].watched
      BY <1>t, <2>4 DEF WatchLost, Item
    <3> QED BY <1>f, <3>1
  <2>5. CASE PersonLabels(j) \/ WebhookLost(j)
    BY <1>1, <2>5 DEF PersonLabels, WebhookLost
  <2> QED BY <1>3, <2>1, <2>2, <2>3, <2>4, <2>5
<1>4. CASE Tick
  <2>1. items'[i].watched = items[i].watched
    BY <1>t, <1>4 DEF Tick, Item
  <2> QED BY <1>f, <2>1
<1>5. CASE SchedulerSteps \/ OtherWebhook \/ Switch \/ Ring \/ GiveUp
  BY <1>1, <1>5 DEF SchedulerSteps, StartSweep, ReadControls, ListCandidates, FinishSweep, Evict, OtherWebhook,
     Switch, Ring, GiveUp, world
<1> QED BY <1>2, <1>3, <1>4, <1>5 DEF Next, ItemSteps

(* An item is only fired again when neither its log nor its list entry is  *)
(* recent.                                                                 *)
LEMMA FiredAgainIsIdle ==
  ASSUME TypeOK, NEW i \in Items, Answer(i) \in {"refired", "gated"}
  PROVE  sweep.listed[i].updated >= Quiet
<1>1. items[i].logged \in Nat /\ sweep.listed[i].updated \in Nat /\ Quiet \in Nat
  BY Bounds DEF TypeOK, Sweep, Listed, Item, Age
<1>2. ~(Idle(i) < Quiet)
  BY DEF Answer
<1> QED BY <1>1, <1>2 DEF Idle

(* The sweep never fires an item beside its label's webhook when the label *)
(* was on, and a moment old, as it made its list: only a label put on      *)
(* after that can be fired twice (reconcile.ts:95).                        *)
THEOREM AlongsideUnlisted == Spec => AlongsideOnlyUnlisted
<1>1. TypeOK /\ [Next]_vars =>
        [\A i \in Items : FiresAlongside(i) => ~sweep.listed[i].due \/ sweep.listed[i].updated >= Quiet]_vars
  BY OnlyAskedAlongside, FiredAgainIsIdle
<1> QED BY <1>1, SweepTypeCorrect, PTL DEF Spec, AlongsideOnlyUnlisted

----------------------------------------------------------------------------
(* Why an item left behind is found in time, while no more items than the  *)
(* cap on re-fires are candidates of a sweep (WithinCap).  One that waits  *)
(* has been still for as long (Stillness), so after Quiet of it no sweep   *)
(* takes it for recent.  Until then each sweep keeps the pace for its      *)
(* sake, and the next comes within First of the wait's beginning: the item *)
(* is not asked yet and within it (and listed as it is now), or its wait   *)
(* began during the sweep, or the sweep took it for recent and will not    *)
(* slow the chain.                                                         *)
WithinCap == Cardinality({i \in Items : github[i].label /\ mode[i] # "shadow"}) <= MaxRefires

Stillness(wait) == IF wait < Quiet THEN wait ELSE Quiet
First == IF Quiet + Interval > IdleInterval THEN Quiet + Interval ELSE IdleInterval

SweepInTime(i) ==
  LET wait == history.waited[i]
  IN  \/ wait <= sweep.elapsed
      \/ sweep.phase \in {"controls", "list"} /\ wait <= First + sweep.elapsed
      \/ /\ sweep.phase = "ask" /\ i \in sweep.todo
         /\ wait <= First + sweep.elapsed
         /\ sweep.listed[i].moved = github[i].moved
      \/ ~SlowsDown /\ wait + Interval - sweep.elapsed <= First

InTime(i) ==
  LET wait == history.waited[i]
  IN  /\ wait > 0 => Waits(i)
      /\ items[i].logged >= Stillness(wait) /\ github[i].updated >= Stillness(wait)
      /\ ringing => wait <= First
      /\ ~ringing /\ ~Sweeping /\ alarm # NoAlarm => wait + alarm <= First
      /\ Sweeping => SweepInTime(i)

(* A sweep leaves the items it still has to ask a re-fire each, its alarm  *)
(* stays where it set it, and what it listed of an item it has not asked   *)
(* yet is no newer than the item.                                          *)
Asking == sweep.todo \cap Eager

SweepCounts ==
  /\ Sweeping => alarm = Interval - sweep.elapsed
  /\ sweep.refired + Cardinality(Asking) <= MaxRefires
  /\ sweep.phase # "ask" => sweep.refired = 0 /\ sweep.todo = {}
  /\ sweep.ensured => Sweeping
  /\ sweep.phase = "ask" => \A i \in sweep.todo : sweep.listed[i].updated >= github[i].updated

FoundInv == SweepCounts /\ \A i \in Items : InTime(i)

LEMMA FirstIsLater ==
  First \in Nat /\ First >= IdleInterval /\ First >= Quiet + Interval
BY Bounds DEF First

(* The numbers the invariant speaks of.                                    *)
LEMMA Numbers ==
  ASSUME TypeOK
  PROVE  /\ alarm \in Int /\ alarm >= -1 /\ alarm <= IdleInterval
         /\ sweep.elapsed \in Nat /\ sweep.elapsed <= SweepTime /\ sweep.refired \in Nat
         /\ sweep.todo \subseteq Items
         /\ \A i \in Items : /\ history.waited[i] \in Nat
                             /\ items[i].logged \in 0..Quiet /\ github[i].updated \in 0..Quiet
                             /\ sweep.listed[i].updated \in 0..Quiet
BY Bounds DEF TypeOK, NoAlarm, Sweep, History, Listed, Item, Age

LEMMA NumbersAfter ==
  ASSUME TypeOK'
  PROVE  /\ alarm' \in Int /\ alarm' >= -1 /\ alarm' <= IdleInterval
         /\ sweep'.elapsed \in Nat /\ sweep'.elapsed <= SweepTime
         /\ \A i \in Items : /\ history'.waited[i] \in Nat
                             /\ items'[i].logged \in 0..Quiet /\ github'[i].updated \in 0..Quiet
BY Bounds DEF TypeOK, NoAlarm, Sweep, History, Listed, Item, Age

(* An item that does not wait, or has just begun to, is in time.           *)
LEMMA NotWaiting ==
  ASSUME TypeOK', NEW i \in Items, history'.waited[i] = 0
  PROVE  InTime(i)'
<1> USE Bounds, NumbersAfter, FirstIsLater
<1>1. Stillness(0) = 0
  BY DEF Stillness
<1>2. Sweeping' => SweepInTime(i)'
  BY DEF SweepInTime
<1>3. alarm' + 0 <= First /\ 0 <= First /\ 0 + alarm' <= First
  OBVIOUS
<1> QED BY <1>1, <1>2, <1>3 DEF InTime, Stillness

(* A step leaves an item in time that touches neither the item nor what    *)
(* the sweep knows of it, and keeps the chain as close.                    *)
LEMMA KeptInTime ==
  ASSUME TypeOK, TypeOK', NEW i \in Items, InTime(i),
         history'.waited[i] = history.waited[i],
         items'[i] = items[i], github'[i] = github[i], off' = off, mode' = mode,
         ringing' = ringing, ChainAlive => ChainAlive',
         alarm # NoAlarm => alarm' <= alarm,
         sweep'.phase = sweep.phase, sweep'.elapsed = sweep.elapsed,
         sweep'.listed = sweep.listed, i \in sweep.todo => i \in sweep'.todo,
         ~SlowsDown => ~SlowsDown'
  PROVE  InTime(i)'
<1> USE Bounds, Numbers, FirstIsLater
<1> DEFINE wait == history.waited[i]
<1>0. Sweeping' = Sweeping
  BY DEF Sweeping
<1>1. CASE wait = 0
  BY <1>1, NotWaiting
<1>2. CASE wait > 0
  <2>1. Waits(i) /\ Waits(i)'
    BY <1>2 DEF InTime, Waits, LeftBehind
  <2>2. items[i].logged >= Stillness(wait) /\ github[i].updated >= Stillness(wait)
    BY DEF InTime
  <2>3. ~ringing /\ ~Sweeping => wait + alarm <= First /\ alarm' <= alarm
    BY <2>1 DEF InTime, Waits, ChainAlive
  <2>4. ~ringing /\ ~Sweeping => wait + alarm' <= First
    <3>1. alarm \in Int /\ alarm' \in Int /\ wait \in Nat
      BY DEF TypeOK, NoAlarm
    <3> QED BY <2>3, <3>1
  <2>5. Sweeping => SweepInTime(i)'
    BY DEF InTime, SweepInTime
  <2>6. ringing => wait <= First
    BY DEF InTime
  <2> QED BY <1>0, <2>1, <2>2, <2>4, <2>5, <2>6 DEF InTime, Stillness
<1> QED BY <1>1, <1>2

(* A webhook's /ensure is such a step: a sweep in flight has its alarm     *)
(* within the interval already, and will not slow the chain.               *)
LEMMA EnsureKeeps ==
  ASSUME TypeOK, TypeOK', FoundInv, Ensure
  PROVE  /\ ChainAlive' /\ (alarm # NoAlarm => alarm' <= alarm)
         /\ Sweeping => alarm' = alarm
         /\ sweep'.phase = sweep.phase /\ sweep'.elapsed = sweep.elapsed
         /\ sweep'.listed = sweep.listed /\ sweep'.todo = sweep.todo
         /\ sweep'.refired = sweep.refired /\ sweep'.ensured = Sweeping
         /\ ~SlowsDown => ~SlowsDown'
<1> USE Bounds, Numbers
<1>1. alarm' \in 0..Interval /\ (alarm # NoAlarm => alarm' <= alarm)
  BY EnsureArms
<1>2. sweep' = [sweep EXCEPT !.ensured = Sweeping] /\ sweep \in Sweep
  BY DEF Ensure, Ensured, TypeOK
<1>3. Sweeping => alarm' = alarm
  BY DEF FoundInv, SweepCounts, Ensure, NoAlarm
<1>4. /\ sweep'.phase = sweep.phase /\ sweep'.elapsed = sweep.elapsed
      /\ sweep'.listed = sweep.listed /\ sweep'.todo = sweep.todo
      /\ sweep'.refired = sweep.refired /\ sweep'.live = sweep.live /\ sweep'.errors = sweep.errors
  BY <1>2 DEF Sweep
<1>5. sweep'.ensured = Sweeping
  BY <1>2 DEF Sweep
<1>6. ~SlowsDown => ~SlowsDown'
  <2>1. sweep.ensured => Sweeping
    BY DEF FoundInv, SweepCounts
  <2> QED BY <1>4, <1>5, <2>1 DEF SlowsDown
<1>7. ChainAlive'
  BY <1>1 DEF ChainAlive, NoAlarm
<1> QED BY <1>1, <1>3, <1>4, <1>5, <1>6, <1>7

(* The sweep's own account, where its phase and questions stay the same.   *)
LEMMA CountsStay ==
  ASSUME TypeOK, TypeOK', SweepCounts,
         Sweeping => alarm' = alarm,
         sweep'.phase = sweep.phase, sweep'.elapsed = sweep.elapsed, sweep'.todo = sweep.todo,
         sweep'.refired = sweep.refired, sweep'.listed = sweep.listed,
         sweep'.ensured => sweep.ensured \/ Sweeping, mode' = mode,
         \A i \in Items : github'[i].updated <= github[i].updated
  PROVE  SweepCounts'
<1> USE Numbers, NumbersAfter
<1>1. Sweeping' = Sweeping
  BY DEF Sweeping
<1>2. \A i \in sweep.todo : sweep.listed[i].updated >= github[i].updated =>
                             sweep'.listed[i].updated >= github'[i].updated
  OBVIOUS
<1>3. Asking' = Asking
  BY DEF Asking, Eager
<1> QED BY <1>1, <1>2, <1>3 DEF SweepCounts

LEMMA CountsOfScheduler ==
  ASSUME IsFiniteSet(Items), WithinCap, TypeOK, TypeOK', SweepCounts, SchedulerSteps
  PROVE  SweepCounts'
<1> USE Bounds, Numbers
<1>1. sweep'.todo = {} => Cardinality(Asking') = 0
  BY FS_EmptySet DEF Asking
<1>2. sweep'.todo \in SUBSET Items /\ sweep \in Sweep /\ sweep' \in Sweep
  BY DEF TypeOK, Sweep
<1>3. CASE StartSweep
  <2>1. /\ alarm' = Interval /\ sweep'.phase = "controls" /\ sweep'.elapsed = 0
        /\ sweep'.todo = {} /\ sweep'.refired = 0
    BY <1>3 DEF StartSweep, NextAlarm, NoSweep
  <2> QED BY <1>1, <2>1 DEF SweepCounts, Sweeping
<1>4. CASE ReadControls
  <2>1. /\ alarm' = alarm /\ sweep.phase = "controls" /\ sweep'.phase \in {"list", "ask"}
        /\ sweep'.elapsed = sweep.elapsed /\ sweep'.todo = sweep.todo
        /\ sweep'.refired = sweep.refired
    BY <1>2, <1>4 DEF ReadControls, Sweep
  <2>2. sweep'.refired = 0 /\ sweep'.todo = {}
    BY <2>1 DEF SweepCounts
  <2> QED BY <1>1, <2>1, <2>2 DEF SweepCounts, Sweeping
<1>5. CASE ListCandidates
  <2>1. /\ alarm' = alarm /\ sweep.phase = "list" /\ sweep'.phase = "ask"
        /\ sweep'.elapsed = sweep.elapsed /\ sweep'.refired = sweep.refired
        /\ sweep'.todo = {} \/ sweep'.listed = github
        /\ sweep'.todo = {} \/ sweep'.todo = {i \in Items : github[i].label}
        /\ github' = github /\ mode' = mode
    BY <1>2, <1>5 DEF ListCandidates, Sweep, SweepCounts, world
  <2>2. sweep'.refired = 0
    BY <2>1 DEF SweepCounts
  <2>3. \A i \in sweep'.todo : sweep'.listed[i].updated >= github'[i].updated
    BY <1>2, <2>1
  <2>4. Cardinality(Asking') \in Nat
    <3>1. Asking' \in SUBSET Items
      BY <1>2 DEF Asking
    <3> QED BY <3>1, FS_Subset, FS_CardinalityType
  <2>5. Cardinality(Asking') <= MaxRefires
    <3>1. CASE sweep'.todo = {}
      BY <1>1, <3>1
    <3>2. CASE sweep'.todo = {i \in Items : github[i].label}
      <4>1. Asking' = {i \in Items : github[i].label /\ mode[i] # "shadow"}
        BY <2>1, <3>2 DEF Asking, Eager
      <4> QED BY <4>1 DEF WithinCap
    <3> QED BY <2>1, <3>1, <3>2
  <2>6. alarm' = Interval - sweep'.elapsed
    BY <2>1 DEF SweepCounts, Sweeping
  <2> QED BY <2>1, <2>2, <2>3, <2>4, <2>5, <2>6 DEF SweepCounts, Sweeping
<1>6. CASE FinishSweep \/ Evict
  <2>1. /\ sweep'.phase = "none" /\ sweep'.todo = {} /\ sweep'.refired = 0
        /\ sweep'.ensured = FALSE
    BY <1>6 DEF FinishSweep, Evict, NoSweep
  <2> QED BY <1>1, <2>1 DEF SweepCounts, Sweeping
<1> QED BY <1>3, <1>4, <1>5, <1>6 DEF SchedulerSteps

(* What an item's answer does to the sweep.                                *)
LEMMA AskedSweep ==
  ASSUME TypeOK, NEW i \in Items, Ask(i)
  PROVE  /\ alarm' = alarm /\ ringing' = ringing /\ off' = off /\ mode' = mode
         /\ sweep.phase = "ask" /\ i \in sweep.todo
         /\ sweep'.phase = sweep.phase /\ sweep'.elapsed = sweep.elapsed
         /\ sweep'.listed = sweep.listed /\ sweep'.todo = sweep.todo \ {i}
         /\ sweep'.refired = sweep.refired \/ (i \in Eager /\ sweep'.refired = sweep.refired + 1)
         /\ sweep'.ensured = sweep.ensured /\ (~SlowsDown => ~SlowsDown')
<1>1. sweep \in Sweep
  BY DEF TypeOK
<1>2. \/ \E live \in BOOLEAN : sweep' = Answered(i, live, FALSE)
      \/ Answer(i) \in {"refired", "gated"} /\ sweep' = Answered(i, TRUE, TRUE)
      \/ sweep' = [Answered(i, FALSE, FALSE) EXCEPT !.errors = TRUE]
  BY (Answer(i) \in LiveAnswers) \in BOOLEAN, Zenon DEF Ask
<1>3. Answer(i) \in {"refired", "gated"} => i \in Eager
  BY DEF Answer, Eager
<1>4. \A live, refired \in BOOLEAN :
        LET answered == Answered(i, live, refired)
        IN  /\ answered.phase = sweep.phase /\ answered.elapsed = sweep.elapsed
            /\ answered.listed = sweep.listed /\ answered.todo = sweep.todo \ {i}
            /\ answered.refired = IF refired THEN sweep.refired + 1 ELSE sweep.refired
            /\ answered.ensured = sweep.ensured /\ answered.errors = sweep.errors
            /\ sweep.live => answered.live
  BY <1>1 DEF Answered, Sweep
<1>5. Answered(i, FALSE, FALSE) \in Sweep
  BY <1>1, SweepChanges
<1>6. /\ sweep'.phase = sweep.phase /\ sweep'.elapsed = sweep.elapsed
      /\ sweep'.listed = sweep.listed /\ sweep'.todo = sweep.todo \ {i}
      /\ sweep'.refired = sweep.refired \/ (i \in Eager /\ sweep'.refired = sweep.refired + 1)
      /\ sweep'.ensured = sweep.ensured /\ (sweep.errors => sweep'.errors)
      /\ sweep.live => sweep'.live
  <2>1. ASSUME NEW live \in BOOLEAN, sweep' = Answered(i, live, FALSE)
        PROVE  <1>6
    BY <1>4, <2>1
  <2>2. CASE i \in Eager /\ sweep' = Answered(i, TRUE, TRUE)
    BY <1>4, <2>2
  <2>3. CASE sweep' = [Answered(i, FALSE, FALSE) EXCEPT !.errors = TRUE]
    BY <1>4, <1>5, <2>3 DEF Sweep
  <2> QED BY <1>2, <1>3, <2>1, <2>2, <2>3
<1> QED BY <1>6 DEF SlowsDown, Ask

(* An item asked is one fewer to ask, and at most one re-fire more.        *)
LEMMA OneFewer ==
  ASSUME IsFiniteSet(Items), TypeOK, NEW i \in sweep.todo
  PROVE  /\ Cardinality(Asking) \in Nat
         /\ Cardinality(Asking \ {i}) = IF i \in Eager THEN Cardinality(Asking) - 1 ELSE Cardinality(Asking)
         /\ i \in Eager => Cardinality(Asking) > 0
<1>1. Asking \in SUBSET Items
  BY Numbers DEF Asking
<1>2. IsFiniteSet(Asking) /\ IsFiniteSet(Asking \ {i})
  BY <1>1, FS_Subset
<1>3. i \in Asking <=> i \in Eager
  BY DEF Asking
<1>4. Cardinality(Asking \ {i}) = IF i \in Asking THEN Cardinality(Asking) - 1 ELSE Cardinality(Asking)
  BY <1>2, FS_RemoveElement
<1>5. Cardinality(Asking) \in Nat /\ Cardinality(Asking \ {i}) \in Nat
  BY <1>2, FS_CardinalityType
<1> QED BY <1>3, <1>4, <1>5

LEMMA CountsOfAsking ==
  ASSUME IsFiniteSet(Items), TypeOK, TypeOK', SweepCounts, NEW i \in Items, Ask(i)
  PROVE  SweepCounts'
<1> USE Numbers, AskedSweep
<1>1. Asking' = Asking \ {i}
  BY DEF Asking, Eager
<1>2. /\ Cardinality(Asking) \in Nat
      /\ Cardinality(Asking \ {i}) = IF i \in Eager THEN Cardinality(Asking) - 1 ELSE Cardinality(Asking)
  BY OneFewer
<1>3. sweep'.refired + Cardinality(Asking') <= MaxRefires
  BY Bounds, <1>1, <1>2 DEF SweepCounts
<1>4. \A j \in Items : github'[j].updated = github[j].updated
  <2>1. github \in [Items -> Listed]
    BY DEF TypeOK
  <2>2. github' = github \/ Reported(i)
    BY DEF Ask, Refired, FailsPartWay
  <2>3. Reported(i) => \A j \in Items : github'[j].updated = github[j].updated
    BY <2>1 DEF Reported, Listed
  <2> QED BY <2>2, <2>3
<1>5. \A j \in sweep'.todo : sweep'.listed[j].updated >= github'[j].updated
  BY <1>4 DEF SweepCounts
<1> QED BY <1>3, <1>5 DEF SweepCounts, Sweeping

(* What people, webhooks and runs do to the items' updated_at: it stays or *)
(* becomes now.                                                            *)
LEMMA UpdatedIsNewer ==
  ASSUME TypeOK, NEW i \in Items,
         \/ PersonLabels(i) \/ LabelWebhook(i) \/ OutcomeWebhook(i)
         \/ Completed(i) \/ WebhookLost(i) \/ WatchLost(i)
  PROVE  \A j \in Items : github'[j].updated <= github[j].updated
<1> USE Numbers
<1>1. github \in [Items -> Listed]
  BY DEF TypeOK
<1>2. \/ github' = [github EXCEPT ![i] = [label |-> TRUE, updated |-> 0, moved |-> TRUE, due |-> TRUE]]
      \/ github' = [github EXCEPT ![i] = [label |-> FALSE, updated |-> 0, moved |-> TRUE, due |-> FALSE]]
      \/ github' = [github EXCEPT ![i].due = FALSE]
      \/ github' = [github EXCEPT ![i].moved = FALSE]
      \/ github' = github
  BY Zenon DEF PersonLabels, LabelWebhook, Handled, OutcomeWebhook, Completed, WebhookLost, WatchLost
<1>3. \A j \in Items : github'[j].updated \in {0, github[j].updated}
  BY <1>1, <1>2 DEF Listed
<1> QED BY <1>3

LEMMA CountsStep ==
  ASSUME IsFiniteSet(Items), WithinCap, TypeOK, TypeOK', FoundInv, [Next]_vars
  PROVE  SweepCounts'
<1> USE Numbers
<1>1. SweepCounts
  BY DEF FoundInv
<1>2. CASE SchedulerSteps
  BY <1>1, <1>2, CountsOfScheduler
<1>3. ASSUME NEW i \in Items, Ask(i)  PROVE SweepCounts'
  BY <1>1, <1>3, CountsOfAsking
<1>4. ASSUME NEW i \in Items,
             \/ PersonLabels(i) \/ LabelWebhook(i) \/ OutcomeWebhook(i)
             \/ Completed(i) \/ WebhookLost(i) \/ WatchLost(i)
      PROVE  SweepCounts'
  <2>1. \A j \in Items : github'[j].updated <= github[j].updated
    BY <1>4, UpdatedIsNewer
  <2>2. mode' = mode /\ (Ensure \/ (alarm' = alarm /\ sweep' = sweep))
    BY <1>4 DEF PersonLabels, LabelWebhook, OutcomeWebhook, Completed, WebhookLost, WatchLost
  <2>3. CASE Ensure
    BY <1>1, <2>1, <2>2, <2>3, EnsureKeeps, CountsStay
  <2>4. CASE alarm' = alarm /\ sweep' = sweep
    BY <1>1, <2>1, <2>2, <2>4, CountsStay
  <2> QED BY <2>2, <2>3, <2>4
<1>5. CASE OtherWebhook
  <2>1. Ensure /\ mode' = mode /\ \A j \in Items : github'[j].updated <= github[j].updated
    BY <1>5 DEF OtherWebhook, world
  <2> QED BY <1>1, <2>1, EnsureKeeps, CountsStay
<1>6. CASE Switch \/ GiveUp \/ Ring \/ UNCHANGED vars
  <2>1. /\ sweep' = sweep /\ mode' = mode /\ (Sweeping => alarm' = alarm)
        /\ \A j \in Items : github'[j].updated <= github[j].updated
    BY <1>6 DEF Switch, GiveUp, Ring, world, vars
  <2> QED BY <1>1, <2>1, CountsStay
<1>7. CASE Tick
  <2>1. \A j \in Items : github'[j].updated = Older(github[j].updated)
    BY <1>7 DEF Tick, OlderListed, TypeOK, Listed
  <2>2. CASE Sweeping
    <3>1. /\ sweep' = [sweep EXCEPT !.elapsed = sweep.elapsed + 1, !.listed = OlderListed(sweep.listed)]
          /\ alarm' = (IF alarm = NoAlarm THEN NoAlarm ELSE alarm - 1)
      BY <1>7, <2>2 DEF Tick
    <3>2. /\ sweep'.elapsed = sweep.elapsed + 1 /\ sweep'.phase = sweep.phase
          /\ sweep'.todo = sweep.todo /\ sweep'.refired = sweep.refired
          /\ sweep'.listed = OlderListed(sweep.listed) /\ sweep'.ensured = sweep.ensured
      BY <3>1 DEF TypeOK, Sweep
    <3>3. \A j \in Items : sweep'.listed[j].updated = Older(sweep.listed[j].updated)
      BY <3>2 DEF OlderListed, TypeOK, Sweep, Listed
    <3>4. alarm' = Interval - sweep'.elapsed
      BY Bounds, <1>1, <2>2, <3>1, <3>2 DEF SweepCounts, NoAlarm
    <3>5. \A j \in Items : sweep.listed[j].updated >= github[j].updated =>
                            sweep'.listed[j].updated >= github'[j].updated
      BY Bounds, <2>1, <3>3 DEF Older
    <3>6. sweep.phase = "ask" => \A j \in sweep.todo : sweep'.listed[j].updated >= github'[j].updated
      BY <1>1, <3>5 DEF SweepCounts
    <3>7. Asking' = Asking
      BY <1>7, <3>2 DEF Tick, Asking, Eager
    <3> QED BY <1>1, <2>2, <3>2, <3>4, <3>6, <3>7 DEF SweepCounts, Sweeping
  <2>3. CASE ~Sweeping
    <3>1. sweep' = sweep
      BY <1>7, <2>3 DEF Tick
    <3>2. Asking' = Asking
      BY <1>7, <3>1 DEF Tick, Asking, Eager
    <3> QED BY <1>1, <2>3, <3>1, <3>2 DEF SweepCounts, Sweeping
  <2> QED BY <2>2, <2>3
<1> QED BY <1>2, <1>3, <1>4, <1>5, <1>6, <1>7 DEF Next, ItemSteps

(* A tick changes nothing of what is listed of an item but its age.        *)
LEMMA OlderEntry ==
  ASSUME NEW list \in [Items -> Listed], NEW i \in Items
  PROVE  /\ OlderListed(list)[i].label = list[i].label
         /\ OlderListed(list)[i].moved = list[i].moved
         /\ OlderListed(list)[i].updated = Older(list[i].updated)
<1>1. list[i] \in Listed /\ OlderListed(list)[i] = [list[i] EXCEPT !.updated = Older(list[i].updated)]
  BY DEF OlderListed
<1> QED BY <1>1 DEF Listed

(* A tick costs a waiting item one of what was left to the next sweep, or  *)
(* of the sweep's time.                                                    *)
LEMMA TickInTime ==
  ASSUME TypeOK, TypeOK', FoundInv, Tick, NEW i \in Items
  PROVE  InTime(i)'
<1> USE Bounds, Numbers, NumbersAfter, FirstIsLater
<1> DEFINE wait == history.waited[i]
<1>1. /\ ~ringing /\ ~ringing' /\ alarm # 0 /\ off' = off /\ mode' = mode
      /\ alarm' = (IF alarm = NoAlarm THEN NoAlarm ELSE alarm - 1)
  BY DEF Tick
<1>2. history'.waited[i] = IF Waits(i) THEN IF wait > FoundBound THEN wait ELSE wait + 1 ELSE 0
  BY DEF Tick, Waited, TypeOK, History
<1>3. CASE ~Waits(i)
  BY <1>2, <1>3, NotWaiting
<1>4. CASE Waits(i)
  <2>1. history'.waited[i] <= wait + 1
    BY <1>2, <1>4
  <2>2. /\ items'[i].watched = items[i].watched /\ items'[i].done = items[i].done
        /\ items'[i].logged = Older(items[i].logged)
    BY DEF Tick, TypeOK, Item
  <2>3. /\ github'[i].label = github[i].label /\ github'[i].moved = github[i].moved
        /\ github'[i].updated = Older(github[i].updated)
    BY OlderEntry DEF Tick, TypeOK
  <2>4. alarm # NoAlarm /\ alarm' = alarm - 1 /\ alarm' # NoAlarm
    BY <1>1, <1>4 DEF Waits, ChainAlive, NoAlarm
  <2>5. Waits(i)'
    BY <1>1, <1>4, <2>2, <2>3, <2>4 DEF Waits, LeftBehind, ChainAlive
  <2>6. items[i].logged >= Stillness(wait) /\ github[i].updated >= Stillness(wait)
    BY DEF FoundInv, InTime
  <2>7. items'[i].logged >= Stillness(history'.waited[i]) /\ github'[i].updated >= Stillness(history'.waited[i])
    BY <2>1, <2>2, <2>3, <2>6 DEF Stillness, Older
  <2>8. CASE ~Sweeping
    <3>1. sweep' = sweep
      BY <2>8 DEF Tick
    <3>2. wait + alarm <= First
      BY <1>1, <2>4, <2>8 DEF FoundInv, InTime
    <3>3. history'.waited[i] + alarm' <= First
      BY <2>1, <2>4, <3>2
    <3> QED BY <1>1, <2>5, <2>7, <2>8, <3>1, <3>3 DEF InTime, Sweeping
  <2>9. CASE Sweeping
    <3>1. sweep' = [sweep EXCEPT !.elapsed = sweep.elapsed + 1, !.listed = OlderListed(sweep.listed)]
      BY <2>9 DEF Tick
    <3>2. /\ sweep'.elapsed = sweep.elapsed + 1 /\ sweep'.phase = sweep.phase
          /\ sweep'.todo = sweep.todo /\ sweep'.listed = OlderListed(sweep.listed)
          /\ sweep'.live = sweep.live /\ sweep'.errors = sweep.errors /\ sweep'.ensured = sweep.ensured
      BY <3>1 DEF TypeOK, Sweep
    <3>3. sweep'.listed[i].moved = sweep.listed[i].moved
      BY <3>2, OlderEntry DEF TypeOK, Sweep
    <3>4. Sweeping' /\ SlowsDown' = SlowsDown
      BY <2>9, <3>2 DEF Sweeping, SlowsDown
    <3>5. SweepInTime(i)
      BY <2>9 DEF FoundInv, InTime
    <3>6. SweepInTime(i)'
      BY <2>1, <2>3, <3>2, <3>3, <3>4, <3>5 DEF SweepInTime
    <3> QED BY <1>1, <2>5, <2>7, <3>4, <3>6 DEF InTime
  <2> QED BY <2>8, <2>9
<1> QED BY <1>3, <1>4

(* The sweep's own steps: one begins in time, lists every item that waits, *)
(* and ends with its chain slowed only if the wait began during it.        *)
LEMMA SchedulerInTime ==
  ASSUME TypeOK, TypeOK', FoundInv, SchedulerSteps, NEW i \in Items
  PROVE  InTime(i)'
<1> USE Bounds, Numbers, NumbersAfter, FirstIsLater
<1> DEFINE wait == history.waited[i]
<1>1. off' = off /\ mode' = mode /\ github' = github /\ items' = items
  BY DEF SchedulerSteps, StartSweep, ReadControls, ListCandidates, FinishSweep, Evict, world
<1>2. CASE CanFail /\ history' = Fault(history)
  <2>1. history'.waited[i] = 0
    BY <1>2 DEF Fault, NoWait, TypeOK, History
  <2> QED BY <2>1, NotWaiting
<1>3. ASSUME history'.waited[i] = wait, wait > 0, ringing' \/ alarm' # NoAlarm
      PROVE  /\ Waits(i)'
             /\ items'[i].logged >= Stillness(wait) /\ github'[i].updated >= Stillness(wait)
  BY <1>1, <1>3 DEF FoundInv, InTime, Waits, LeftBehind, ChainAlive
<1>4. CASE wait = 0 /\ history'.waited[i] = 0
  BY <1>4, NotWaiting
<1>5. CASE StartSweep /\ wait > 0
  <2>1. /\ alarm' = Interval /\ ringing /\ ~ringing'
        /\ sweep'.phase = "controls" /\ sweep'.elapsed = 0
    BY <1>5 DEF StartSweep, NextAlarm, NoSweep
  <2>2. history'.waited[i] = wait
    BY <1>5 DEF StartSweep, TypeOK, History
  <2>3. wait <= First
    BY <2>1 DEF FoundInv, InTime
  <2>4. alarm' # NoAlarm
    BY <2>1 DEF NoAlarm
  <2>5. SweepInTime(i)'
    BY <2>1, <2>2, <2>3 DEF SweepInTime
  <2> QED BY <1>3, <1>5, <2>1, <2>2, <2>4, <2>5 DEF InTime, Sweeping
<1>6. CASE ReadControls /\ wait > 0
  <2>1. CASE CanFail /\ history' = Fault(history)
    BY <1>2, <2>1
  <2>2. CASE /\ sweep' = [sweep EXCEPT !.phase = IF off THEN "ask" ELSE "list"]
             /\ history' = history
    <3>1. Waits(i) /\ SweepInTime(i) /\ Sweeping /\ sweep.phase = "controls"
      BY <1>6 DEF ReadControls, FoundInv, InTime, Sweeping
    <3>2. /\ alarm' = alarm /\ ringing' = ringing /\ (ringing => wait <= First)
          /\ ringing' \/ alarm' # NoAlarm
      BY <1>6, <3>1 DEF ReadControls, FoundInv, InTime, Waits, ChainAlive
    <3>3. /\ sweep'.phase = "list" /\ sweep'.elapsed = sweep.elapsed
          /\ sweep'.live = sweep.live /\ sweep'.errors = sweep.errors /\ sweep'.ensured = sweep.ensured
      BY <2>2, <3>1 DEF TypeOK, Sweep, Waits
    <3>4. SweepInTime(i)'
      BY <2>2, <3>1, <3>3 DEF SweepInTime, SlowsDown
    <3> QED BY <1>3, <1>6, <2>2, <3>2, <3>3, <3>4 DEF InTime, Sweeping
  <2> QED BY <1>6, <2>1, <2>2 DEF ReadControls
<1>7. CASE ListCandidates /\ wait > 0
  <2>1. CASE CanFail /\ history' = Fault(history)
    BY <1>2, <2>1
  <2>2. CASE /\ sweep' = [sweep EXCEPT !.phase = "ask", !.listed = github,
                                       !.todo = {j \in Items : github[j].label}]
             /\ history' = history
    <3>1. Waits(i) /\ SweepInTime(i) /\ Sweeping /\ sweep.phase = "list"
      BY <1>7 DEF ListCandidates, FoundInv, InTime, Sweeping
    <3>2. /\ alarm' = alarm /\ ringing' = ringing /\ (ringing => wait <= First)
          /\ ringing' \/ alarm' # NoAlarm
      BY <1>7, <3>1 DEF ListCandidates, FoundInv, InTime, Waits, ChainAlive
    <3>3. /\ sweep'.phase = "ask" /\ sweep'.elapsed = sweep.elapsed
          /\ sweep'.listed = github /\ i \in sweep'.todo
          /\ sweep'.live = sweep.live /\ sweep'.errors = sweep.errors /\ sweep'.ensured = sweep.ensured
      BY <2>2, <3>1 DEF TypeOK, Sweep, Waits, LeftBehind
    <3>4. SweepInTime(i)'
      BY <1>1, <2>2, <3>1, <3>3 DEF SweepInTime, SlowsDown
    <3> QED BY <1>3, <1>7, <2>2, <3>2, <3>3, <3>4 DEF InTime, Sweeping
  <2> QED BY <1>7, <2>1, <2>2 DEF ListCandidates
<1>8. CASE FinishSweep /\ wait > 0
  <2>1. /\ sweep.phase = "ask" /\ sweep.todo = {} /\ Sweeping /\ history' = history
        /\ ringing' = ringing /\ sweep'.phase = "none"
        /\ alarm' = (IF SlowsDown THEN IdleInterval - sweep.elapsed ELSE alarm)
    BY <1>8 DEF FinishSweep, NoSweep, Sweeping, Slowed
  <2>2. alarm = Interval - sweep.elapsed /\ SweepInTime(i) /\ (ringing => wait <= First)
    BY <2>1 DEF FoundInv, SweepCounts, InTime
  <2>3. wait + alarm' <= First /\ alarm' # NoAlarm
    BY <2>1, <2>2 DEF SweepInTime, NoAlarm
  <2> QED BY <1>3, <1>8, <2>1, <2>2, <2>3 DEF InTime, Sweeping
<1>9. CASE Evict
  BY <1>2, <1>9 DEF Evict
<1>10. wait > 0 \/ (wait = 0 /\ history'.waited[i] = 0) \/ (CanFail /\ history' = Fault(history))
  BY DEF SchedulerSteps, StartSweep, ReadControls, ListCandidates, FinishSweep, Evict, TypeOK, History
<1> QED BY <1>2, <1>4, <1>5, <1>6, <1>7, <1>8, <1>9, <1>10 DEF SchedulerSteps

(* An item that waits and is asked is fired again, unless it was still for *)
(* less than Quiet: then the sweep keeps the pace.  The cap cannot have    *)
(* been reached before its turn.                                           *)
LEMMA AskedInTime ==
  ASSUME IsFiniteSet(Items), TypeOK, TypeOK', FoundInv, NEW i \in Items, Ask(i)
  PROVE  InTime(i)'
<1> USE Bounds, Numbers, NumbersAfter, FirstIsLater, AskedSweep
<1> DEFINE wait == history.waited[i]
<1>1. CASE history'.waited[i] = 0
  BY <1>1, NotWaiting
<1>2. ASSUME history'.waited[i] # 0
      PROVE  InTime(i)'
  <2>1. Restarted(history, i).waited[i] = 0 /\ Fault(history).waited[i] = 0
    <3>1. history \in History /\ history.waited \in [Items -> Nat]
      BY DEF TypeOK, History
    <3>2. Restarted(history, i).waited = [history.waited EXCEPT ![i] = 0]
      BY <3>1 DEF Restarted, History
    <3>3. Fault(history).waited = NoWait
      BY <3>1 DEF Fault, History
    <3> QED BY <3>1, <3>2, <3>3 DEF NoWait
  <2>2. history' # Fault(history) /\ history' # Restarted(history, i)
    BY <1>2, <2>1
  <2>3. history' = history
    BY <2>2 DEF Ask
  <2>4. Waits(i) /\ wait > 0 /\ Sweeping /\ SweepInTime(i)
    BY <1>2, <2>3 DEF FoundInv, InTime, Sweeping
  <2>5. mode[i] = "enforced" /\ github[i].label /\ ~items[i].watched
        /\ ~(items[i].done /\ ~github[i].moved)
    BY <2>4 DEF Waits, LeftBehind
  <2>6. Answer(i) \in {"recent", "completed"} /\ github' = github /\ items' = items
    <3>1. sweep.refired < MaxRefires
      <4>1. i \in Eager
        BY <2>5 DEF Eager
      <4>2. Cardinality(Asking) \in Nat /\ Cardinality(Asking) > 0
        BY <4>1, OneFewer
      <4>3. sweep.refired + Cardinality(Asking) <= MaxRefires
        BY DEF FoundInv, SweepCounts
      <4> QED BY <4>2, <4>3
    <3>2. Answer(i) \in {"recent", "completed", "refired"}
      BY <2>5, <3>1 DEF Answer, Budget
    <3> QED BY <2>2, <3>2 DEF Ask
  <2>7. /\ Waits(i)' /\ Sweeping' /\ history'.waited[i] = wait
        /\ items'[i].logged >= Stillness(wait) /\ github'[i].updated >= Stillness(wait)
        /\ (ringing' => wait <= First)
    BY <2>3, <2>4, <2>6 DEF FoundInv, InTime, Waits, LeftBehind, ChainAlive, Sweeping
  <2>8. SweepInTime(i)'
    <3>1. CASE wait <= sweep.elapsed \/ (~SlowsDown /\ wait + Interval - sweep.elapsed <= First)
      BY <2>7, <3>1 DEF SweepInTime
    <3>2. CASE Answer(i) = "recent"
      <4>1. sweep.listed[i].updated >= github[i].updated
        BY DEF FoundInv, SweepCounts
      <4>2. items[i].logged >= Stillness(wait) /\ sweep.listed[i].updated >= Stillness(wait)
        BY <4>1 DEF FoundInv, InTime, Stillness
      <4>3. Idle(i) < Quiet
        BY <3>2 DEF Answer
      <4>4. wait < Quiet
        BY <4>2, <4>3 DEF Idle, Stillness
      <4>5. sweep' = Answered(i, TRUE, FALSE)
        BY <2>2, <3>2 DEF Ask, LiveAnswers
      <4>6. sweep'.live
        BY <4>5 DEF Answered, TypeOK, Sweep
      <4> QED BY <2>7, <4>4, <4>6 DEF SweepInTime, SlowsDown
    <3>3. CASE /\ Answer(i) = "completed"
               /\ sweep.listed[i].moved = github[i].moved
      BY <2>5, <3>3 DEF Answer, Moved
    <3> QED BY <2>4, <2>6, <3>1, <3>2, <3>3 DEF SweepInTime
  <2> QED BY <2>7, <2>8 DEF InTime, Sweeping
<1> QED BY <1>1, <1>2

(* An item's answer is nothing to the others.                              *)
LEMMA OtherAskedInTime ==
  ASSUME TypeOK, TypeOK', FoundInv, NEW i \in Items, NEW j \in Items, Ask(j), i # j
  PROVE  InTime(i)'
<1> USE Numbers, AskedSweep
<1>1. CASE history'.waited[i] = 0
  BY <1>1, NotWaiting
<1>2. ASSUME history'.waited[i] # 0
      PROVE  InTime(i)'
  <2>1. history'.waited[i] = history.waited[i]
    <3>1. history \in History /\ history.waited \in [Items -> Nat]
      BY DEF TypeOK, History
    <3>2. Restarted(history, j).waited[i] = history.waited[i]
      BY <3>1 DEF Restarted, History
    <3>3. Fault(history).waited[i] = 0
      BY <3>1 DEF Fault, History, NoWait
    <3> QED BY <1>2, <3>2, <3>3 DEF Ask
  <2>2. items'[i] = items[i] /\ github'[i] = github[i]
    BY DEF Ask, FailsPartWay, Refired, Reported, TypeOK
  <2>3. ChainAlive => ChainAlive'
    BY DEF ChainAlive, NoAlarm
  <2>4. InTime(i) /\ (i \in sweep.todo => i \in sweep'.todo)
    BY DEF FoundInv
  <2>5. alarm # NoAlarm => alarm' <= alarm
    OBVIOUS
  <2> QED BY <2>1, <2>2, <2>3, <2>4, <2>5, KeptInTime
<1> QED BY <1>1, <1>2

(* What people, webhooks, runs and failures do to one item starts its wait *)
(* afresh, and is nothing to the others but, for a failure, that too.      *)
LEMMA ItemStepInTime ==
  ASSUME TypeOK, TypeOK', FoundInv, NEW i \in Items, NEW j \in Items,
         \/ PersonLabels(j) \/ LabelWebhook(j) \/ OutcomeWebhook(j)
         \/ Completed(j) \/ WebhookLost(j) \/ WatchLost(j)
  PROVE  InTime(i)'
<1> USE Numbers
<1>1. CASE history'.waited[i] = 0
  BY <1>1, NotWaiting
<1>2. ASSUME history'.waited[i] # 0
      PROVE  InTime(i)'
  <2>1. /\ history \in History /\ Heard \in History
        /\ history.waited \in [Items -> Nat] /\ Heard.waited = history.waited
    BY HistorySteps DEF TypeOK, History, Heard
  <2>2. Fault(history).waited[i] = 0 /\ Fault(Heard).waited[i] = 0
    BY <2>1 DEF Fault, History, NoWait
  <2>3. \A h \in {history, Heard} :
          Restarted(h, j).waited = [history.waited EXCEPT ![j] = 0] /\ Restarted(h, j) \in History
    BY <2>1, HistoryChanges DEF Restarted, History
  <2>4. Acted(Restarted(history, j)).waited = [history.waited EXCEPT ![j] = 0]
    BY <2>3 DEF Acted, History
  <2>5. history' \in {Acted(Restarted(history, j)), Restarted(Heard, j), Restarted(history, j)}
    BY <1>2, <2>2 DEF PersonLabels, LabelWebhook, OutcomeWebhook, Completed, WebhookLost, WatchLost
  <2>6. i # j /\ history'.waited[i] = history.waited[i]
    BY <1>2, <2>1, <2>3, <2>4, <2>5
  <2>7. items'[i] = items[i] /\ github'[i] = github[i]
    BY <2>6 DEF PersonLabels, LabelWebhook, Handled, OutcomeWebhook, Completed, WebhookLost, WatchLost, TypeOK
  <2>8. /\ ringing' = ringing /\ off' = off /\ mode' = mode
        /\ Ensure \/ (alarm' = alarm /\ sweep' = sweep)
    BY DEF PersonLabels, LabelWebhook, OutcomeWebhook, Completed, WebhookLost, WatchLost
  <2>9. InTime(i)
    BY DEF FoundInv
  <2>10. CASE Ensure
    BY <2>6, <2>7, <2>8, <2>9, <2>10, EnsureKeeps, KeptInTime
  <2>11. CASE alarm' = alarm /\ sweep' = sweep
    BY <2>6, <2>7, <2>8, <2>9, <2>11, KeptInTime DEF ChainAlive, NoAlarm, SlowsDown
  <2> QED BY <2>8, <2>10, <2>11
<1> QED BY <1>1, <1>2

LEMMA FoundStep ==
  ASSUME IsFiniteSet(Items), WithinCap, TypeOK, TypeOK', FoundInv, [Next]_vars
  PROVE  FoundInv'
<1> USE Bounds, Numbers, FirstIsLater
<1>1. SweepCounts'
  BY CountsStep
<1>2. ASSUME NEW i \in Items
      PROVE  InTime(i)'
  <2>1. InTime(i)
    BY DEF FoundInv
  <2>2. CASE SchedulerSteps
    BY <2>2, SchedulerInTime
  <2>3. ASSUME NEW j \in Items, Ask(j)  PROVE InTime(i)'
    BY <2>3, AskedInTime, OtherAskedInTime
  <2>4. ASSUME NEW j \in Items,
               \/ PersonLabels(j) \/ LabelWebhook(j) \/ OutcomeWebhook(j)
               \/ Completed(j) \/ WebhookLost(j) \/ WatchLost(j)
        PROVE  InTime(i)'
    BY <2>4, ItemStepInTime
  <2>5. CASE OtherWebhook
    <3>1. Heard.waited = history.waited
      BY DEF Heard, TypeOK, History
    <3> QED BY <2>1, <2>5, <3>1, EnsureKeeps, KeptInTime DEF OtherWebhook, world
  <2>6. CASE Switch \/ GiveUp
    <3>1. history'.waited[i] = 0
      <4>1. /\ history \in History
            /\ [history EXCEPT !.waited = NoWait] \in History
            /\ [history EXCEPT !.hook = -1] \in History
        BY HistoryChanges DEF TypeOK
      <4>2. Acted([history EXCEPT !.waited = NoWait]).waited = NoWait
        BY <4>1 DEF Acted, History
      <4>3. Fault([history EXCEPT !.hook = -1]).waited = NoWait
        BY <4>1 DEF Fault, History
      <4> QED BY <2>6, <4>2, <4>3 DEF Switch, GiveUp, NoWait
    <3> QED BY <3>1, NotWaiting
  <2>7. CASE Tick
    BY <2>7, TickInTime
  <2>8. CASE Ring
    <3>1. /\ alarm = 0 /\ ~Sweeping /\ ringing' /\ sweep' = sweep /\ history' = history
          /\ off' = off /\ mode' = mode /\ github' = github /\ items' = items
      BY <2>8 DEF Ring, world
    <3>2. history.waited[i] <= First
      BY <2>1, <3>1 DEF InTime, NoAlarm
    <3>3. history.waited[i] > 0 => Waits(i)'
      BY <2>1, <3>1 DEF InTime, Waits, LeftBehind, ChainAlive
    <3>4. ~Sweeping'
      BY <3>1 DEF Sweeping
    <3> QED BY <2>1, <3>1, <3>2, <3>3, <3>4 DEF InTime, Stillness
  <2>9. CASE UNCHANGED vars
    BY <2>1, <2>9, KeptInTime DEF vars, ChainAlive, NoAlarm, SlowsDown
  <2> QED BY <2>2, <2>3, <2>4, <2>5, <2>6, <2>7, <2>8, <2>9 DEF Next, ItemSteps
<1> QED BY <1>1, <1>2 DEF FoundInv

(* No item waits longer than the bound: a wait is over within First of its *)
(* beginning, or in the sweep that is being made.                          *)
LEMMA InTimeIsFound ==
  ASSUME IsFiniteSet(Items), TypeOK, FoundInv
  PROVE  FoundInTime
<1> USE Bounds, Numbers, FirstIsLater
<1> SUFFICES ASSUME NEW i \in Items
             PROVE  history.waited[i] <= FoundBound
  BY DEF FoundInTime
<1> DEFINE turns == IF MaxRefires = 0 THEN 0 ELSE (Cardinality(Eager) - 1) \div MaxRefires
<1>1. FoundBound = First + SweepTime + Interval * turns
  BY DEF FoundBound, First
<1>2. Eager \in SUBSET Items /\ IsFiniteSet(Eager) /\ Cardinality(Eager) \in Nat
  <2>1. Eager \in SUBSET Items
    BY DEF Eager
  <2>2. IsFiniteSet(Eager)
    BY <2>1, FS_Subset
  <2> QED BY <2>1, <2>2, FS_CardinalityType
<1>4. CASE history.waited[i] = 0
  <2>1. turns \in Int /\ turns >= -1
    <3>1. \A c, m \in Nat : m > 0 => (c - 1) \div m \in Int /\ (c - 1) \div m >= -1
      OBVIOUS
    <3> QED BY <1>2, <3>1
  <2>2. Interval * turns \in Int /\ Interval * turns >= -Interval
    <3>1. \A a \in Nat, b \in Int : b >= -1 => a * b \in Int /\ a * b >= -a
      OBVIOUS
    <3> QED BY <2>1, <3>1
  <2> HIDE DEF turns
  <2> QED BY <1>1, <1>4, <2>2
<1>5. CASE history.waited[i] > 0
  <2>1. Waits(i) /\ InTime(i)
    BY <1>5 DEF FoundInv, InTime
  <2>2. Cardinality(Eager) > 0
    <3>1. i \in Eager
      BY <2>1 DEF Waits, Eager
    <3> QED BY <1>2, <3>1, FS_EmptySet
  <2>3. turns \in Int /\ turns >= 0
    <3>1. \A c, m \in Nat : c > 0 /\ m > 0 => (c - 1) \div m \in Int /\ (c - 1) \div m >= 0
      OBVIOUS
    <3> QED BY <1>2, <2>2, <3>1
  <2>4. Interval * turns \in Int /\ Interval * turns >= 0
    <3>1. \A a \in Nat, b \in Int : b >= 0 => a * b \in Int /\ a * b >= 0
      OBVIOUS
    <3> QED BY <2>3, <3>1
  <2>5. history.waited[i] <= First + SweepTime
    <3>1. CASE Sweeping
      BY <2>1, <3>1 DEF InTime, SweepInTime
    <3>2. CASE ~Sweeping
      BY <2>1, <3>2 DEF InTime, Waits, ChainAlive, NoAlarm
    <3> QED BY <3>1, <3>2
  <2> HIDE DEF turns
  <2> QED BY <1>1, <2>4, <2>5
<1> QED BY <1>4, <1>5

(* While a sweep never has more candidates than the cap on re-fires, an    *)
(* item left behind is fired again within the bound, at any pace of the    *)
(* sweep, in any order of asking, and whatever webhooks and people do:     *)
(* with no webhook to speed it up, the slow chain still comes to it.       *)
THEOREM LeftBehindIsFound ==
  IsFiniteSet(Items) => (Spec /\ []WithinCap => []FoundInTime)
<1> SUFFICES ASSUME IsFiniteSet(Items)
             PROVE  Spec /\ []WithinCap => []FoundInTime
  OBVIOUS
<1>1. Init => FoundInv
  <2> SUFFICES ASSUME Init PROVE FoundInv
    OBVIOUS
  <2> USE Bounds, FirstIsLater
  <2>1. TypeOK
    BY InitType
  <2>2. SweepCounts
    <3>1. /\ sweep.phase = "none" /\ sweep.todo = {} /\ sweep.refired = 0 /\ sweep.ensured = FALSE
      BY DEF Init, NoSweep
    <3>2. Cardinality(Asking) = 0
      BY <3>1, FS_EmptySet DEF Asking
    <3> QED BY <3>1, <3>2 DEF SweepCounts, Sweeping
  <2>3. ASSUME NEW i \in Items  PROVE InTime(i)
    <3>1. /\ history.waited[i] = 0 /\ ~ringing /\ alarm = NoAlarm /\ sweep.phase = "none"
          /\ items[i].logged = Quiet /\ github[i].updated = Quiet
      BY DEF Init, NoWait, NoSweep
    <3> QED BY <3>1 DEF InTime, Stillness, Sweeping
  <2> QED BY <2>2, <2>3 DEF FoundInv
<1>2. TypeOK /\ TypeOK' /\ WithinCap /\ FoundInv /\ [Next]_vars => FoundInv'
  BY FoundStep
<1>3. TypeOK /\ FoundInv => FoundInTime
  BY InTimeIsFound
<1> QED BY <1>1, <1>2, <1>3, SweepTypeCorrect, PTL DEF Spec
=============================================================================
