SPECIFICATION Spec
CONSTANTS
  NoOne = NoOne  Nil = Nil
  a = a  b = b  v = v  w = w
  Contact = {a, b}  Worker = {v, w}
  Inc = 2  MaxSlot = 3  MaxOps = 5  MaxTasks = 3
  Deletes = TRUE
INVARIANT KeyFiledUnderOwner
CHECK_DEADLOCK FALSE
