SPECIFICATION FairSpec
CONSTANTS
  MaxUpdates = 2
  MaxFaults = 1
  MaxDeaths = 2
  MaxMusings = 1
  NoChat = NoChat
  c1 = c1
  c2 = c2
  Chats <- MCChats
INVARIANTS TypeOK NothingIsSkipped OnceAndInOrder TypingMeansWorking TargetSurvives
PROPERTY EveryMessageArrives
CHECK_DEADLOCK FALSE
