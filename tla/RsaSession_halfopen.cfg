SPECIFICATION LiveSpec
CONSTANTS
  Alice = Alice
  Bob = Bob
  OldKey = OldKey
  None = None
  AutoAccept = TRUE
  TimersExpire = TRUE
  MaxConnect = 1
  MaxUser = 0
  MaxLoss = 1
  MaxDup = 0
  MaxKey = 12
PROPERTIES
  HalfOpenEnds
CHECK_DEADLOCK FALSE
