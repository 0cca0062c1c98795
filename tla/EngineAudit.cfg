SPECIFICATION FairSpec
CONSTANTS
  XMesh <- MCXMesh
  Evaluators <- AuditedFourLevel
  Ladder <- Staircase
  SearchBox <- MCBox
  Thresholds <- ExactOrBounded
  InitThresholds <- ExactOrBounded
  WorkerCounts = {2}
  Boundary = 2
  PerIter = 1
  StepBudgets = {NoBudget, 3}
  MaxIters = 3
  MulInit = 2
  MulMin = 1
  RefineDiv = 2
  PollMult = 1
  PruneMinLevel = 1
  PruneMinRank = 2
  PruneBackHalf = TRUE
  PruneNotAudited = TRUE
  PruneEps = 0
  MaxPolicies = 0
  MaxRuns = 2
  NoX = NoX
  NoBudget = NoBudget
  FValues = {0}
  VValues = {0}
  H0 = 4
  HMin = 0
  ShrinkNum = 1
  ShrinkDen = 2
  EpsF = 0
  EpsV = 0
  FilterCap = 2
  NoF = NoF
INVARIANTS AuditReachesTruth BestIsTruth
PROPERTIES LadderClimbs Terminates
