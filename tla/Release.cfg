SPECIFICATION Spec
CONSTANTS
  MaxCommit = 2
  Acts = {"signal", "stranger", "merge"}
  Faults = {"noanswer", "unread", "limit"}
  MaxEdits = 1
  MaxFaults = 1
  MaxRedeliveries = 1
CHECK_DEADLOCK FALSE
INVARIANT TypeOK
INVARIANT RefusalIsTrue
PROPERTY PublishOnce
PROPERTY KeepsReview
