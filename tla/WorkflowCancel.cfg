SPECIFICATION Spec
CONSTANTS
  N1 = n1
  N2 = n2
  N3 = n3
  Nodes = {n1, n2, n3}
  NoNode = NoNode
  Runs <- OneRun
  Scenarios <- UntimedOnly
PROPERTIES
  CancelledStays
CHECK_DEADLOCK FALSE
