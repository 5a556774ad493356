\* Two names, three proposals, four reports, two crashes; everything ends when they are used up.
SPECIFICATION Spec
CONSTANTS
  Stems = {dice, poem}
  MaxProposals = 3
  Threshold = 2
  MaxReports = 4
  MaxCrashes = 2
SYMMETRY StemPermutations
CHECK_DEADLOCK FALSE
INVARIANTS
  TypeOK
  LiveWasGated
  StagedFilesAreOwned
  QuarantineIsEarned
PROPERTY DeniedStaysOut
