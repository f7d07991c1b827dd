SPECIFICATION FairSpec
CONSTANTS
  None = None
  Shells = {"desktop", "phone"}
  MaxBuilds = 2
  MaxReads = 3
  MaxOffers = 2
  Rates = {1, 2}
  MaxEdits = 1
  Psbts = {"p1", "p2"}
  Whole = {"p1"}
  MaxRows = 2
  MaxSyncs = 1
  Originals <- MCOriginals
  Sizes = {110, 142}
  Asked = {300, 1004, 2050, 2149, 18900}
INVARIANTS
  DrainIsCurrent
  SheetIsOfThisForm
  PatientStrandsNothing
  OnlyTheHeldIsPending
  HeldIsShown
  SignedOnce
  ReviewIsOfField
  ButtonsAreOwed
  PatientIsRead
  OffersAreBuilt
  CancelOutbids
  ChildHelps
PROPERTY PressesAreAnswered
CHECK_DEADLOCK FALSE
