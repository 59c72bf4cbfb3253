SPECIFICATION Spec
CONSTANTS
  NoOne = NoOne  Nil = Nil
  a = a  b = b  v = v  w = w
  Contact = {a, b}  Worker = {v, w}
  Inc = 1  MaxSlot = 3  MaxOps = 5  MaxTasks = 3
  Deletes = FALSE
INVARIANT NoDanglingRecord
CHECK_DEADLOCK FALSE
