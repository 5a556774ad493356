SPECIFICATION FairSpec
CONSTANTS
  Plugins = {p1, p2}
  Claimable = {"face", "battery", "status"}
  MaxPushes = 3
  MaxDraws = 2
INVARIANTS TypeOK NewestIsOnItsWay
PROPERTIES PanelKept PanelCatchesUp
CHECK_DEADLOCK FALSE
