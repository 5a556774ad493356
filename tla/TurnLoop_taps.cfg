\* Every kind of Result, and two taps on whatever buttons it leaves.
SPECIFICATION Spec
CONSTANTS
  MaxAsks = 2
  MaxAutos = 0
  MaxTaps = 2
  MaxDeaths = 1
  Answers = {"plain", "call", "directive", "tool", "fail"}
INVARIANTS
  TypeOK
  ApprovalsResumeOnce
  HistoryIsFaithful
