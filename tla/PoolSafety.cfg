SPECIFICATION Spec
CONSTANTS
  Handles = {h1, h2}
  Owner = h1
  Workers = {w1, w2}
  MaxBatch = 2
  MaxBatches <- OwnerTwice
  ChunkBases = {1, 2}
  NoTask = NoTask
  NoOutcome = NoOutcome
  Nobody = Nobody
SYMMETRY WorkerSymmetry
INVARIANTS TypeOK BarrierSafe NoStrandedWork
PROPERTY ImplementsBarrier
