\* The claim of TurnBudget that no restart lets the pet overspend.
SPECIFICATION Spec
CONSTANTS
  MaxTime = 8
  DayLength = 10
  QuietStart = 8
  QuietEnd = 0
  Cap = 4
  Cooldown = 3
  CheckpointPeriod = 1
  ProactivePeriod = 3
  IdlePeriod = 2
  Cost <- MCCost
  Stretch <- MCStretch
  MaxOwner = 1
  MaxDeaths = 1
  MaxFaults = 0
CHECK_DEADLOCK FALSE
INVARIANT
  RestartCannotOverspend
