SPECIFICATION LiveSpec
CONSTANTS Thread = {window, worker}
  window = window  worker = worker  Nil = Nil
  Lengths = {30, 35, 69}  Pars = {0, 34, 40}  IdSpace = 2  Base = 16
  MaxMsg = 2  MaxLost = 1  MaxTwice = 2
INVARIANTS TypeOK DeliversWhole DeliversOnce StaysInside BufferHolds
PROPERTIES EveryMessageArrives
CHECK_DEADLOCK FALSE
