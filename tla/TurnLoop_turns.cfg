\* Two messages, one self-driven turn and one death against every outcome of a worker,
\* under the fairness of FairSpec.
SPECIFICATION FairSpec
CONSTANTS
  MaxAsks = 2
  MaxAutos = 1
  MaxTaps = 0
  MaxDeaths = 1
  Answers = {"plain", "fail"}
INVARIANTS
  SlotHasOneHolder
  SpawnMeetsFreeGuard
  PendingIsAttended
PROPERTIES
  EveryAskEnds
  PromiseKept
