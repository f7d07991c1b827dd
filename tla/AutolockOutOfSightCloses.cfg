SPECIFICATION Spec
CONSTANTS
  None = None
  w1 = w1
  Wallets = {w1}
  Works = {}
  Limits = {0, 1}
  Default = 1
  MaxClock = 2
  MaxOpens = 1
  MaxChoices = 0
INVARIANTS OutOfSightCloses
CHECK_DEADLOCK FALSE
