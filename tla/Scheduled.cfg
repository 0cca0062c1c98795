SPECIFICATION ScheduledSpec
CONSTANTS
  XMesh <- MCXMesh
  Evaluators <- MCProblems
  Ladder <- ThreeLevels
  SearchBox <- MCXMesh
  Thresholds <- MCThresholds
  InitThresholds <- ExactOnly
  WorkerCounts = {1, 2, 3}
  Boundary = 3
  PerIter = 3
  StepBudgets = {NoBudget, 1, 3, 7}
  MaxIters = 4
  MulInit = 4
  MulMin = 1
  RefineDiv = 2
  PollMult = 1
  PruneMinLevel = 1
  PruneMinRank = 1
  PruneBackHalf = FALSE
  PruneNotAudited = TRUE
  PruneEps = 0
  MaxPolicies = 3
  Calibrations <- MCCalibrations
  Learn <- MCLearn
  MaxRuns = 2
  NoX = NoX
  NoBudget = NoBudget
  FValues = {0}
  VValues = {0}
  H0 = 0
  HMin = 0
  ShrinkNum = 1
  ShrinkDen = 2
  EpsF = 0
  EpsV = 0
  FilterCap = 2
  NoF = NoF
  Dim = 1
  Halton <- MCHalton
  None = NoX
  Bundles = {"default", "stratified"}
  Seeds <- MCSeeds
  AuditSet <- MCAudits
  NoRun = NoRun
  Unit = 1600
  Infinity = 1000000000
  AgeBonus = 1
  LevelBonus = 10
  AuditBonus = 100000000
INVARIANTS DirectionIsLastMove IncumbentOnMesh Reproducible WorkerCountIrrelevant
PROPERTIES AuditedFirst OlderFirst SearchBeforePoll
