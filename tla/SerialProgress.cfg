SPECIFICATION FairSpec
CONSTANTS
  Tasks <- TwoTasks
  Deps <- NoDeps
  DepMode <- AnyMode
  TrustLevel = "low"
  MaxRetries = 0
  TaskLimits = {1, 2, 9}
  TokenBudget = FALSE
  UserRuns = TRUE
  MayCrash = FALSE
  MaxInFlight = 1
  MaxReviews = 0
INVARIANTS
  TaskLimitKept
PROPERTIES
  NoStartAtLimit
  TasksProgress
