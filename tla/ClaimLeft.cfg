SPECIFICATION Spec
CONSTANTS
  i1 = i1
  i2 = i2
  p1 = p1
  p2 = p2
  r1 = r1
  Issues <- OneIssue
  Pulls <- OnePull
  Releases <- NoRelease
  Closing <- ClosesAll
  Building <- NoIssue
  Acts = {"merge"}
  Faults = {"evict"}
  MaxFaults = 1
  MaxRedeliveries = 1
  MaxEdits = 0
CHECK_DEADLOCK FALSE
INVARIANT MergesHandedOn
