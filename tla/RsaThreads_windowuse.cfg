SPECIFICATION Spec
CONSTANTS
  MaxData = 4
  MaxRecv = 5
  Incoming <- AllKinds
  PromptStart = TRUE
INVARIANTS
  WindowUsesLiveData
CHECK_DEADLOCK FALSE
