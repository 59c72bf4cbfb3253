SPECIFICATION WillingPeerSpec
CONSTANTS
  MaxMsg = 2
  Closable = TRUE
  Answers = {"yes"}
PROPERTY
  WindowNeverHeld
CHECK_DEADLOCK FALSE
