SPECIFICATION Spec
CONSTANTS Thread = {window}
  window = window  Nil = Nil
  Lengths = {5}  Pars = {1}  IdSpace = 65536  Base = 2
  MaxMsg = 1  MaxLost = 0  MaxTwice = 0
INVARIANT NeverOutside
CHECK_DEADLOCK FALSE
