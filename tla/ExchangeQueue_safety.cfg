SPECIFICATION LiveSpec
CONSTANTS
  MaxMsg = 3
  Closable = TRUE
  Answers = {"yes", "no"}
INVARIANTS
  TypeOK
  OneWaiter
  WalkIsAlone
PROPERTIES
  ImplementsOutbox
  WaiterEnds
  WindowReturns
CHECK_DEADLOCK FALSE
