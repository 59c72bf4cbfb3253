SPECIFICATION Spec
CONSTANTS Thread = {window}
  window = window  Nil = Nil
  Lengths = {34}  Pars = {33}  IdSpace = 65536  Base = 16
  MaxMsg = 1  MaxLost = 0  MaxTwice = 0
INVARIANT BufferHolds
CHECK_DEADLOCK FALSE
