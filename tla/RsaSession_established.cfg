SPECIFICATION LiveSpec
CONSTANTS
  Alice = Alice
  Bob = Bob
  OldKey = OldKey
  None = None
  AutoAccept = TRUE
  TimersExpire = FALSE
  MaxConnect = 1
  MaxUser = 0
  MaxLoss = 0
  MaxDup = 0
  MaxKey = 12
PROPERTIES
  SessionEstablished
CHECK_DEADLOCK FALSE
