SPECIFICATION Spec
CONSTANTS
  Alice = Alice
  Bob = Bob
  OldKey = OldKey
  None = None
  AutoAccept = FALSE
  TimersExpire = TRUE
  MaxConnect = 2
  MaxUser = 1
  MaxLoss = 0
  MaxDup = 0
  MaxKey = 12
INVARIANTS
  KeyLoadedMeansKey
CHECK_DEADLOCK FALSE
