SPECIFICATION AcceptSpec
CONSTANTS
  FValues = {0, 1, 2, 3, 4}
  VValues = {0, 1, 2, 3, 4, 5}
  H0 = 4
  HMin = 1
  ShrinkNum = 1
  ShrinkDen = 2
  EpsF = 1
  EpsV = 0
  FilterCap = 3
  NoF = NoF
INVARIANTS AcceptTypeOK NonDominated FeasibleKept
PROPERTY BarrierMonotone
