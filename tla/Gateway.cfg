CONSTANTS
  Clients = {c1}
  Backend = b
  MaxHellos = 4
  MaxQueue = 2
  MaxTimed = 1
SPECIFICATION Spec
INVARIANTS
  TypeOK
  RegistryAgrees
  ViewSettles
  SubscriberIsServed
  EpochsInOrder
CHECK_DEADLOCK FALSE
