SPECIFICATION Spec
CONSTANTS Thread = {window}
  window = window  Nil = Nil
  Lengths = {2}  Pars = {1}  IdSpace = 2  Base = 2
  MaxMsg = 3  MaxLost = 1  MaxTwice = 0
INVARIANT DeliversSent
CHECK_DEADLOCK FALSE
