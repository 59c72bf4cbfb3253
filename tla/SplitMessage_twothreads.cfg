SPECIFICATION Spec
CONSTANTS Thread = {window, worker}
  window = window  worker = worker  Nil = Nil
  Lengths = {2}  Pars = {1}  IdSpace = 65536  Base = 16
  MaxMsg = 2  MaxLost = 0  MaxTwice = 0
INVARIANT DeliversSent
CHECK_DEADLOCK FALSE
