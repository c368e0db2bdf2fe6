CONSTANTS
  Slots <- TwoSlots
  MaxWorkers = 2
  MaxLoads = 2
SPECIFICATION FairSpec
INVARIANTS
  TypeOK
  PluginIsInOrder
PROPERTIES
  EverybodyIsAnswered
CHECK_DEADLOCK FALSE
