SPECIFICATION FairSpec
CONSTANTS
  None = None
  Keys = {"a", "b"}
  WatchOnly = {"b"}
  Nets = {"n1"}
  Visits = {"restore", "create", "settings"}
  MaxJobs = 1
INVARIANTS
  WalletPagesHaveAWallet
  SecretsGoWithTheScreen
  SessionIsOfOneWallet
PROPERTY NavigationSettles
CHECK_DEADLOCK FALSE
