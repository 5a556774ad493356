\* The claim of broker/service.py that a reply can be told from a stale one.
SPECIFICATION Spec
CONSTANTS
  MaxTurns = 2
  MaxTools = 0
  Providers = 1
  Replies <- MCReplies
  MaxDrops = 0
  Audited = {}
INVARIANT
  AnswersAreCorrelated
