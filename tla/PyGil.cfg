SPECIFICATION FairSpec
CONSTANTS
  Threads = {t1}
  Engines = {e1}
  Points = {p}
  WorkerCounts = {1, 2}
  MaxCalls = 1
  MaxBatches = 1
  Nobody = Nobody
  NoCall = NoCall
PROPERTY CallReturns
