SPECIFICATION FairSpec
CONSTANTS
  MaxTurns = 2
  MaxMoves = 1
  MaxEvents = 2
INVARIANTS TypeOK TurnOwnsTheFace
PROPERTY MoodComesBack
