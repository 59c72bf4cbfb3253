SPECIFICATION Spec
CONSTANTS
  Alice = Alice
  Bob = Bob
  OldKey = OldKey
  None = None
  AutoAccept = TRUE
  TimersExpire = FALSE
  MaxConnect = 2
  MaxUser = 1
  MaxLoss = 0
  MaxDup = 0
  MaxKey = 12
PROPERTIES
  DisconnectHeeded
CHECK_DEADLOCK FALSE
