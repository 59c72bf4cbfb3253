SPECIFICATION Spec
CONSTANTS
  MaxMsg = 2
  Closable = TRUE
  Answers = {"yes"}
INVARIANT
  NothingDropped
CHECK_DEADLOCK FALSE
