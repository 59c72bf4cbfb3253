SPECIFICATION FairSpec
CONSTANTS
  Alice = Alice
  Bob = Bob
  OldKey = OldKey
  None = None
  AutoAccept = FALSE
  TimersExpire = TRUE
  MaxConnect = 2
  MaxUser = 0
  MaxLoss = 1
  MaxDup = 1
  MaxKey = 12
PROPERTIES
  ImplementsSecureSession
  ExchangeEnds
CHECK_DEADLOCK FALSE
