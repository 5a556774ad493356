SPECIFICATION Spec
CONSTANTS
  MaxCaptures = 3
  Limit = 1
  MaxParks = 2
  NoKey = NoKey
  NoTurn = NoTurn
  k1 = k1
  t1 = t1
  t2 = t2
  Keys <- MCKeys
  TurnIds <- MCTurnIds
SYMMETRY TurnSymmetry
INVARIANTS TypeOK OnlyTheParkedAreStale 
