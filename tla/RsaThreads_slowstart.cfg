SPECIFICATION LiveSpec
CONSTANTS
  MaxData = 4
  MaxRecv = 4
  Incoming <- AllKinds
  PromptStart = FALSE
PROPERTIES
  EveryOrphanCollected
CHECK_DEADLOCK FALSE
