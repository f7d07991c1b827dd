\* The sealed key store against what it promises, with two windows.
SPECIFICATION FairSpec
CONSTANTS
  Wallets = {"w1", "w2"}
  Tabs = {"t1", "t2"}
  None = None
  Presses = {"keep", "keep2", "load", "bare"}
  Secrets = {"k1", "k2"}
  Call <- MCCall
  NFC <- MCNFC
INVARIANTS OpensOnlyItsOwn NobodyLeftWaiting
PROPERTIES KeepsThePromise
