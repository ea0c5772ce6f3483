SPECIFICATION Spec
CONSTANTS
  MaxCommit = 1
  Acts = {"signal"}
  Faults = {"throw"}
  MaxEdits = 1
  MaxFaults = 1
  MaxRedeliveries = 0
CHECK_DEADLOCK FALSE
PROPERTY PublishOnce
