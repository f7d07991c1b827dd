SPECIFICATION FairSpec
CONSTANTS
  None = None
  w1 = w1
  w2 = w2
  j1 = j1
  j2 = j2
  Wallets = {w1}
  Works = {j1,j2}
  Limits = {0, 1}
  Default = 1
  MaxClock = 2
  MaxOpens = 2
  MaxChoices = 2
INVARIANTS NeverBackUnlocked LastChoiceIsKept
PROPERTIES LocksOnlyOverdue LockInterruptsNothing LocksComeThrough ClosesUnattended
CHECK_DEADLOCK FALSE
