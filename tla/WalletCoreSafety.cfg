SPECIFICATION Spec
CONSTANTS
  None = None
  h1 = h1
  h2 = h2
  o1 = o1
  o2 = o2
  o3 = o3
  Handles = {h1,h2}
  Ops = {o1,o2,o3}
  Foreign = {}
  MaxIndex = 2
  Calls <- MostKinds
SYMMETRY CallSymmetry
INVARIANTS AcknowledgedIsStored
PROPERTIES NewAddressesAreFresh FrozenStaysOut SpentStaysSpent WalletBookSpec
CHECK_DEADLOCK FALSE
