SPECIFICATION Spec
CONSTANTS
  ModeEnforced = TRUE
  WatchdogEnforced = FALSE
  WatchdogRetry = FALSE
  CiFixAttempts = 1
  ReviewReworks = 1
  BotReviewReworks = 1
  Faults = {"limit", "giveup"}
  Environments <- Shadowing
CHECK_DEADLOCK FALSE
PROPERTY ShadowOnlyLooks
