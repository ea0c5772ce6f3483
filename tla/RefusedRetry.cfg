SPECIFICATION Spec
CONSTANTS
  ModeEnforced = TRUE
  WatchdogEnforced = TRUE
  WatchdogRetry = TRUE
  CiFixAttempts = 1
  ReviewReworks = 1
  BotReviewReworks = 1
  Faults = {"refuse", "throw"}
  Environments <- OnlyQuietBuild
CHECK_DEADLOCK FALSE
PROPERTY FailureLeavesRetry
