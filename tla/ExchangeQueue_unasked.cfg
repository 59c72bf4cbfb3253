SPECIFICATION Spec
CONSTANTS
  MaxMsg = 2
  Closable = FALSE
  Answers = {"yes"}
INVARIANT
  ClearWasAsked
CHECK_DEADLOCK FALSE
