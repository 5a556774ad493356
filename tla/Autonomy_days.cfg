\* The better part of two days of six units, quiet over midnight; the cap is a dream and a musing.
SPECIFICATION Spec
CONSTANTS
  MaxTime = 10
  DayLength = 6
  QuietStart = 5
  QuietEnd = 1
  Cap = 4
  Cooldown = 3
  CheckpointPeriod = 1
  ProactivePeriod = 3
  IdlePeriod = 2
  Cost <- MCCost
  Stretch <- MCStretch
  MaxOwner = 2
  MaxDeaths = 1
  MaxFaults = 1
CHECK_DEADLOCK FALSE
INVARIANTS
  TypeOK
  CapHoldsForKeptTurns
  CrashForgetsOneTurn
  Pacing
