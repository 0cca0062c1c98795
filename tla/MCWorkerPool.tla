--------------------------- MODULE MCWorkerPool ---------------------------
(* WorkerPool for TLC.  Worker threads are interchangeable.                *)
EXTENDS WorkerPool, TLC

\* The values of chunk_base are those of a configuration with tuning on: from
\* any of them every spread of costs leads to one of them.
ASSUME ChunkBasesTuned ==
  \E lo, hi \in 0 .. 4 :
    ChunkBases = {TuneChunk(base, spread, lo, hi) :
                    base \in ChunkBases, spread \in {"even", "mixed", "uneven"}}

\* Wherever the tuning starts, it stays between executor_chunk_min and
\* executor_chunk_max, the latter winning if they cross, and never reaches 0.
ASSUME TuningBounded ==
  \A lo, hi, base \in 0 .. 6, spread \in {"even", "mixed", "uneven"} :
    LET b == TuneChunk(AtLeastOne(base), spread, lo, hi) IN
      b >= 1 /\ b <= AtLeastOne(hi) /\ (lo <= hi => b >= lo)

WorkerSymmetry == Permutations(Workers)

\* One batch per handle.
OneEach == [h \in Handles |-> 1]

\* A second batch of the owner: a worker may still be about to notify the
\* sink of the first.
OwnerTwice == [h \in Handles |-> IF h = Owner THEN 2 ELSE 1]
=============================================================================
