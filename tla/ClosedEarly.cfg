SPECIFICATION Spec
CONSTANTS
  i1 = i1
  i2 = i2
  p1 = p1
  p2 = p2
  r1 = r1
  Issues <- OneIssue
  Pulls <- TwoPulls
  Releases <- OneRelease
  Closing <- ClosesAll
  Building <- NoIssue
  Acts = {"merge", "release"}
  Faults = {}
  MaxFaults = 0
  MaxRedeliveries = 0
  MaxEdits = 0
CHECK_DEADLOCK FALSE
PROPERTY AllMergesShipped
