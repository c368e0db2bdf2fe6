CONSTANTS
  PRs = {p1}
  Jobs = {j1, j2}
  NoPR = NoPR
SPECIFICATION Spec
INVARIANTS
  TypeOK
  BusyIsDriven
PROPERTIES
  
  LockIsPassedOn
