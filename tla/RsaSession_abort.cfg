SPECIFICATION Spec
CONSTANTS
  Alice = Alice
  Bob = Bob
  OldKey = OldKey
  None = None
  AutoAccept = FALSE
  TimersExpire = FALSE
  MaxConnect = 2
  MaxUser = 0
  MaxLoss = 0
  MaxDup = 0
  MaxKey = 12
PROPERTIES
  AbortEndsExchange
CHECK_DEADLOCK FALSE
