SPECIFICATION Spec
CONSTANTS
  XMesh <- MCXMesh
  Evaluators <- AllTwoLevel
  Ladder <- TwoLevels
  SearchBox <- MCBox
  Thresholds <- ExactOrBounded
  InitThresholds <- ExactOnly
  WorkerCounts = {2}
  Boundary = 2
  PerIter = 2
  StepBudgets = {NoBudget}
  MaxIters = 2
  MulInit = 1
  MulMin = 1
  RefineDiv = 2
  PollMult = 1
  PruneMinLevel = 1
  PruneMinRank = 1
  PruneBackHalf = FALSE
  PruneNotAudited = TRUE
  PruneEps = 0
  MaxPolicies = 2
  MaxRuns = 1
  NoX = NoX
  NoBudget = NoBudget
  FValues = {0}
  VValues = {0}
  H0 = 0
  HMin = 0
  ShrinkNum = 1
  ShrinkDen = 2
  EpsF = 0
  EpsV = 0
  FilterCap = 2
  NoF = NoF
INVARIANTS TypeOK BestSoFar HitUnderCurrentPolicy FailedPollMeansLocalBest StoppedIsBeaten
