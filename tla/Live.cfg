SPECIFICATION FairSpec
CONSTANTS
  ModeEnforced = TRUE
  WatchdogEnforced = TRUE
  WatchdogRetry = TRUE
  CiFixAttempts = 1
  ReviewReworks = 1
  BotReviewReworks = 1
  Faults = {"throw", "crash", "refuse", "limit"}
  Environments <- Lasting
CHECK_DEADLOCK FALSE
PROPERTY WatchEnds
PROPERTY WorkEnds
