SPECIFICATION Spec
CONSTANTS
  NoTask = NoTask
  Tasks = {t1, t2}
  MaxConcurrent = 2
  Bounds <- StartsAndMerges
SYMMETRY TaskSymmetry
INVARIANTS
  TypeOK
  RunningIsDriven
  RunHoldsItsSlot
PROPERTIES
  StatusMachineOrStaleWrite
