SPECIFICATION Spec
CONSTANTS
  MaxMsg = 2
  Closable = FALSE
  Answers = {"yes"}
INVARIANT
  ClearOnlyUnestablished
CHECK_DEADLOCK FALSE
