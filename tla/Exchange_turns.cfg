\* Two workers, one tool round each, a row parked before the start, a chain of two
\* providers and a lost broker link; the bill of the first turn is counted.
SPECIFICATION Spec
CONSTANTS
  MaxTurns = 2
  MaxTools = 1
  Providers = 2
  Replies <- MCReplies
  MaxDrops = 1
  Audited = {1}
INVARIANTS
  TypeOK
  ReachableWhileWaiting
  
  
  SpendIsBounded
  AnswersMatchUntilAGiveUp
