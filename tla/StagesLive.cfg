SPECIFICATION FairSpec
CONSTANTS
  i1 = i1
  i2 = i2
  p1 = p1
  p2 = p2
  r1 = r1
  Issues <- TwoIssues
  Pulls <- OnePull
  Releases <- OneRelease
  Closing <- ClosesAll
  Building <- NoIssue
  Acts = {"merge", "release"}
  Faults = {"throw", "evict"}
  MaxFaults = 1
  MaxRedeliveries = 0
  MaxEdits = 0
CHECK_DEADLOCK FALSE
INVARIANT WaitsForAnswer
PROPERTY RequestsEnd
PROPERTY MergedMovesOn
