SPECIFICATION Spec
CONSTANTS
  Tasks <- TwoTasks
  Deps <- SecondAfterFirst
  DepMode <- AllMode
  TrustLevel = "high"
  MaxRetries = 1
  TaskLimits = {9}
  TokenBudget = TRUE
  UserRuns = TRUE
  MayCrash = TRUE
  MaxInFlight = 1
  MaxReviews = 1
INVARIANTS
  TypeOK
  AtMostOneRunning
  RunningIsDrivenOrRefused
  AttemptsWithinRetries
  DependencyGate
PROPERTIES
  StatusMachineOrLateWrite
  NoStartWhilePaused
  ContractSpec
