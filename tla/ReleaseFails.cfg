SPECIFICATION FairSpec
CONSTANTS
  MaxCommit = 1
  Acts = {"unlabel", "close"}
  Faults = {"throw", "evict", "refuse", "lose"}
  MaxEdits = 2
  MaxFaults = 1
  MaxRedeliveries = 0
CHECK_DEADLOCK FALSE
PROPERTY BeforeNotAgain
PROPERTY MergedEnds
