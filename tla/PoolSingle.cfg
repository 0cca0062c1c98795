SPECIFICATION FairSpec
CONSTANTS
  Handles = {h1}
  Owner = h1
  Workers = {w1, w2}
  MaxBatch = 5
  MaxBatches <- OneEach
  ChunkBases = {1, 2}
  NoTask = NoTask
  NoOutcome = NoOutcome
  Nobody = Nobody
INVARIANT NoHoarding
PROPERTY BatchCompletes
