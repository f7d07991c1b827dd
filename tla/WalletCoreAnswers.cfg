SPECIFICATION FairSpec
CONSTANTS
  None = None
  h1 = h1
  o1 = o1
  o2 = o2
  o3 = o3
  Handles = {h1}
  Ops = {o1,o2,o3}
  Foreign = {}
  MaxIndex = 1
  Calls <- Everything
INVARIANTS FirstPassIsFull
PROPERTIES EveryCallIsAnswered
CHECK_DEADLOCK FALSE
