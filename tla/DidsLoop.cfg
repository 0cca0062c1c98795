SPECIFICATION Spec
CONSTANTS
  L = 3
  Constraints = {1, 2}
  TargetNum = 1
  TargetDen = 2
  MinAudits = 2
  InitDelta = 1
  Deltas = {1, 2}
  Bases = {1, 2}
  Judged = {1}
  MaxAudits = 9
  MaxOpen = 2
INVARIANTS DidsTypeOK AlarmedLevelNotUsed
PROPERTY AlarmIsFinal
