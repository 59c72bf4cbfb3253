SPECIFICATION Spec
CONSTANTS
  MaxData = 4
  MaxRecv = 5
  Incoming <- AskingExchange
  PromptStart = TRUE
INVARIANTS
  WindowNotHeldByQuestion
CHECK_DEADLOCK FALSE
