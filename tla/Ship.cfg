SPECIFICATION Spec
CONSTANTS
  i1 = i1
  i2 = i2
  p1 = p1
  p2 = p2
  r1 = r1
  Issues <- TwoIssues
  Pulls <- OnePull
  Releases <- OneRelease
  Closing <- ClosesAll
  Building <- NoIssue
  Acts = {"merge", "release", "edit"}
  Faults = {"throw"}
  MaxFaults = 1
  MaxRedeliveries = 1
  MaxEdits = 1
CHECK_DEADLOCK FALSE
INVARIANT HandOffsDone
INVARIANT MergesHandedOn
PROPERTY KeepsPromise
