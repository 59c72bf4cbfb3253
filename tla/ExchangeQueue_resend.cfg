SPECIFICATION Spec
CONSTANTS
  MaxMsg = 2
  Closable = TRUE
  Answers = {"yes"}
INVARIANT
  ResentInSession
CHECK_DEADLOCK FALSE
