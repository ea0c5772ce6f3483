SPECIFICATION Spec
CONSTANTS
  ModeEnforced = TRUE
  WatchdogEnforced = TRUE
  WatchdogRetry = FALSE
  CiFixAttempts = 1
  ReviewReworks = 1
  BotReviewReworks = 1
  Faults = {"throw", "crash"}
  Environments <- OnlyCutOffCap
CHECK_DEADLOCK FALSE
INVARIANT ExpiryClaimAlways
