SPECIFICATION Spec
CONSTANTS
  ModeEnforced = TRUE
  WatchdogEnforced = TRUE
  WatchdogRetry = FALSE
  CiFixAttempts = 1
  ReviewReworks = 1
  BotReviewReworks = 1
  Faults = {}
  Environments <- Flowing
CHECK_DEADLOCK FALSE
INVARIANT TypeOK
INVARIANT NothingLeftBehind
INVARIANT ReturnPath
INVARIANT ReworkBudget
INVARIANT MergeRefiredOnce
PROPERTY ReviewOnce
PROPERTY StuckStays
PROPERTY NewestOutcomeOnce
