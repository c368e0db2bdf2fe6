CONSTANTS
  Tasks <- TwoTasks
  Inline = {i1}
  Unknown = unknown
  DependsOn <- SecondDepends
  MaxConcurrent = 1
  MaxRetries <- FirstIsRetried
  Awaited = {1}
SPECIFICATION FairSpec
INVARIANTS
  TypeOK
  LimitsKept
  SettledIsTold
PROPERTIES
  SettledStays
  TasksSettle
CHECK_DEADLOCK FALSE
