SPECIFICATION Spec
CONSTANTS
  ModeEnforced = TRUE
  WatchdogEnforced = TRUE
  WatchdogRetry = FALSE
  CiFixAttempts = 1
  ReviewReworks = 1
  BotReviewReworks = 1
  Faults = {}
  Environments <- OnlyOldFix
CHECK_DEADLOCK FALSE
PROPERTY StuckStays
