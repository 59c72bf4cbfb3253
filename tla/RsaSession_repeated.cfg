SPECIFICATION Spec
CONSTANTS
  Alice = Alice
  Bob = Bob
  OldKey = OldKey
  None = None
  AutoAccept = TRUE
  TimersExpire = TRUE
  MaxConnect = 2
  MaxUser = 0
  MaxLoss = 1
  MaxDup = 1
  MaxKey = 12
SYMMETRY Contacts
INVARIANTS
  SessionKeyAgreement
CHECK_DEADLOCK FALSE
