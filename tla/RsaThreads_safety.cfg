SPECIFICATION LiveSpec
CONSTANTS
  MaxData = 4
  MaxRecv = 4
  Incoming <- AllKinds
  PromptStart = FALSE
INVARIANTS
  TypeOK
  WorkerUsesLiveData
  PopsWhatItHandled
  DeletesUnusedData
  ContextHasLiveData
PROPERTIES
  JoinEnds
  MessagesServed
  OrphanCollected
CHECK_DEADLOCK FALSE
