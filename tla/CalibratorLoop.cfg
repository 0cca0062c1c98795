SPECIFICATION Spec
CONSTANTS
  Ladder <- MCLadder
  Ids = {1, 2, 3}
  Constraints = {1, 2}
  Evaluators <- MCEvaluators
  Configs <- MCConfigs
  InitDelta = 1
  DeltaStep = 2
INVARIANTS
  CalibTypeOK
  AuditsBalance
  PendingMatchesOrigin
  KWithinBias
  RefutedCutNotRepeated
PROPERTIES
  RevisionTracksMargins
  CalibrationSettles
