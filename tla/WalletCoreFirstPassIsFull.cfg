SPECIFICATION Spec
CONSTANTS
  None = None
  h1 = h1
  o1 = o1
  o2 = o2
  f1 = f1
  Handles = {h1}
  Ops = {o1,o2}
  Foreign = {f1}
  MaxIndex = 1
  Calls <- Everything
INVARIANTS FirstPassIsFull
CHECK_DEADLOCK FALSE
