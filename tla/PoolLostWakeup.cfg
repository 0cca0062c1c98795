SPECIFICATION FairSpec
CONSTANTS
  Handles = {h1}
  Owner = h1
  Workers = {w1, w2}
  MaxBatch = 2
  MaxBatches <- OneEach
  ChunkBases = {2}
  NoTask = NoTask
  NoOutcome = NoOutcome
  Nobody = Nobody
PROPERTY RunBatchReturns
