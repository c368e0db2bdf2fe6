CONSTANTS
  Clients = {c1}
  Backend = b
  MaxHellos = 3
  MaxQueue = 2
  MaxTimed = 1
SPECIFICATION Spec
INVARIANT StuckIsReopened
CHECK_DEADLOCK FALSE
