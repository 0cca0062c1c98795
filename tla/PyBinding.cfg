SPECIFICATION FairSpec
CONSTANTS
  Threads = {t1, t2}
  Engines = {e1, e2}
  Points = {p}
  WorkerCounts = {1, 2}
  MaxCalls = 2
  MaxBatches = 2
  Nobody = Nobody
  NoCall = NoCall
INVARIANTS PyTypeOK EngineExclusive ErrorsSurface
PROPERTY ReturnsUnlessGilDeadlock
