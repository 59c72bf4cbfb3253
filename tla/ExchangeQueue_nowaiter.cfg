SPECIFICATION Spec
CONSTANTS
  MaxMsg = 2
  Closable = FALSE
  Answers = {"yes"}
INVARIANT
  QueueHasWaiter
CHECK_DEADLOCK FALSE
