SPECIFICATION Spec
CONSTANTS
  Alice = Alice
  Bob = Bob
  OldKey = OldKey
  None = None
  AutoAccept = FALSE
  TimersExpire = TRUE
  MaxConnect = 2
  MaxUser = 2
  MaxLoss = 1
  MaxDup = 0
  MaxKey = 12
SYMMETRY Contacts
INVARIANTS
  TypeOK
  TimerArmed
  PeerAuthenticated
  SessionKeyAgreement
PROPERTIES
  ImplementsSecureSession
CHECK_DEADLOCK FALSE
