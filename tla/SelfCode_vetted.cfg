\* A second proposal of the same name, tapped through the first offer.
SPECIFICATION Spec
CONSTANTS
  Stems = {dice, poem}
  MaxProposals = 2
  Threshold = 2
  MaxReports = 0
  MaxCrashes = 0
CHECK_DEADLOCK FALSE
INVARIANT OnlyVettedGoLive
