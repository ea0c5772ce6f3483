SPECIFICATION Spec
CONSTANTS
  ModeEnforced = TRUE
  WatchdogEnforced = TRUE
  WatchdogRetry = TRUE
  CiFixAttempts = 1
  ReviewReworks = 1
  BotReviewReworks = 1
  Faults = {"throw", "crash", "refuse", "unheard", "limit", "unread", "lose"}
  Environments <- Failing
CHECK_DEADLOCK FALSE
INVARIANT WatchKept
INVARIANT ArmedBeforeFired
INVARIANT ExpiryClaim
INVARIANT RetryBudget
PROPERTY KeepsWatch
