SPECIFICATION FairSpec
CONSTANTS
  N1 = n1
  N2 = n2
  N3 = n3
  Nodes = {n1, n2, n3}
  NoNode = NoNode
  Runs <- TwoRuns
  Scenarios <- EveryShape
INVARIANTS
  TypeOK
  RunsAreRight
PROPERTIES
  NoStepAfterCancel
  RunEnds
CHECK_DEADLOCK FALSE
