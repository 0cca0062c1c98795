-------------------------- MODULE WorkerPoolProofs --------------------------
(***************************************************************************)
(* Proofs about WorkerPool, for any number of handles and workers, any     *)
(* batch sizes and any chunk_base.                                         *)
(***************************************************************************)
EXTENDS WorkerPool, FiniteSetTheorems, TLAPS

-----------------------------------------------------------------------------
(* Facts about the data.                                                   *)

\* Two tasks with the same handle, batch and index are the same task.
LEMMA TaskExt ==
  \A s, t \in Task : s.h = t.h /\ s.b = t.b /\ s.idx = t.idx => s = t
BY DEF Task

\* chunk_eff is at least 1 for every batch size and chunk_base.
LEMMA ChunkPositive ==
  ASSUME NEW n \in Nat, NEW base \in ChunkBases
  PROVE  ChunkEff(n, base) \in Nat \ {0}
<1>1. Cardinality(Workers) \in Nat \ {0}
  BY PoolAssumption, FS_CardinalityType, FS_EmptySet
<1>2. FairShare(n) \in Int
  <2> DEFINE c == Cardinality(Workers)
  <2>1. c \in Nat \ {0} BY <1>1
  <2> HIDE DEF c
  <2>2. (n + c - 1) \div c \in Int BY <2>1, SMT
  <2> QED BY <2>2 DEF c, FairShare, CeilDiv
<1> QED BY <1>2, PoolAssumption DEF ChunkEff, Least, AtLeastOne

\* What Refill takes from the front of the queue and what it leaves.
LEMMA DrainFacts ==
  ASSUME TypeOK, queue # << >>,
         NEW k, k = Least(AtLeastOne(chunk), Len(queue))
  PROVE  /\ k \in 1 .. Len(queue)
         /\ Head(queue) = queue[1]
         /\ Head(queue) \in Task
         /\ SubSeq(queue, 2, k) \in Seq(Task)
         /\ Len(SubSeq(queue, 2, k)) = k - 1
         /\ \A i \in 1 .. k - 1 : SubSeq(queue, 2, k)[i] = queue[i + 1]
         /\ SubSeq(queue, k + 1, Len(queue)) \in Seq(Task)
         /\ Len(SubSeq(queue, k + 1, Len(queue))) = Len(queue) - k
         /\ \A i \in 1 .. Len(queue) - k :
              SubSeq(queue, k + 1, Len(queue))[i] = queue[i + k]
<1>1. queue \in Seq(Task) /\ chunk \in Nat \ {0} BY DEF TypeOK
<1>2. Len(queue) \in Nat \ {0} BY <1>1
<1>3. k \in 1 .. Len(queue) BY <1>1, <1>2 DEF Least, AtLeastOne
<1>4. /\ SubSeq(queue, 2, k) \in Seq(Task)
      /\ Len(SubSeq(queue, 2, k)) = k - 1
      /\ \A i \in 1 .. k - 1 : SubSeq(queue, 2, k)[i] = queue[i + 1]
  BY <1>1, <1>2, <1>3
<1>5. /\ SubSeq(queue, k + 1, Len(queue)) \in Seq(Task)
      /\ Len(SubSeq(queue, k + 1, Len(queue))) = Len(queue) - k
      /\ \A i \in 1 .. Len(queue) - k :
           SubSeq(queue, k + 1, Len(queue))[i] = queue[i + k]
  BY <1>1, <1>2, <1>3
<1>6. Head(queue) = queue[1] /\ Head(queue) \in Task BY <1>1
<1> QED BY <1>3, <1>4, <1>5, <1>6

\* The tasks of a batch, one per item, in order.
LEMMA TasksOfFacts ==
  ASSUME TypeOK, NEW h \in Handles
  PROVE  /\ TasksOf(h) \in Seq(Task)
         /\ Len(TasksOf(h)) = size[h]
         /\ \A i \in 1 .. size[h] :
              /\ TasksOf(h)[i].h = h
              /\ TasksOf(h)[i].b = batch[h]
              /\ TasksOf(h)[i].idx = i
<1>1. size[h] \in 0 .. MaxBatch /\ batch[h] \in Nat /\ MaxBatch \in Nat
  BY PoolAssumption DEF TypeOK
<1>2. \A i \in 1 .. size[h] : [h |-> h, b |-> batch[h], idx |-> i] \in Task
  BY <1>1 DEF Task, Idx
<1> QED BY <1>1, <1>2 DEF TasksOf


\* The elements of a concatenation, by position.
LEMMA ConcatFacts ==
  ASSUME NEW s \in Seq(Task), NEW t \in Seq(Task)
  PROVE  /\ Len(s \o t) = Len(s) + Len(t)
         /\ \A i \in 1 .. Len(s) : (s \o t)[i] = s[i]
         /\ \A i \in 1 .. Len(s) + Len(t) : i > Len(s) =>
              i - Len(s) \in 1 .. Len(t) /\ (s \o t)[i] = t[i - Len(s)]
OBVIOUS

\* Uniqueness is about the four places of tasks only.
LEMMA UniqueUnchanged ==
  ASSUME TasksUnique, UNCHANGED <<queue, local, task>>,
         \A w \in Workers : Active(w)' => Active(w)
  PROVE  TasksUnique'
<1>1. queue' = queue /\ local' = local /\ task' = task OBVIOUS
<1> QED BY <1>1 DEF TasksUnique

-----------------------------------------------------------------------------
(* The counting argument.                                                  *)

\* done never exceeds the batch, and when it reaches it every slot is
\* counted: written by its task, which has left the pool.
LEMMA FullCount ==
  ASSUME PoolInv, NEW h \in Handles, InBarrier(h), done[h] >= size[h]
  PROVE  Counted(h) = 1 .. size[h]
<1>1. size[h] \in Nat BY DEF PoolInv, TypeOK
<1>2. IsFiniteSet(1 .. size[h]) /\ Cardinality(1 .. size[h]) = size[h]
  BY <1>1, FS_Interval
<1>3. Counted(h) \subseteq 1 .. size[h] BY DEF Counted
<1>4. IsFiniteSet(Counted(h)) /\ Cardinality(Counted(h)) <= size[h]
  <2>1. Counted(h) \in SUBSET (1 .. size[h]) BY <1>3
  <2>2. /\ IsFiniteSet(Counted(h))
        /\ Cardinality(Counted(h)) <= Cardinality(1 .. size[h])
    BY <1>2, <2>1, FS_Subset, Zenon
  <2> QED BY <1>2, <2>2
<1>5. done[h] = Cardinality(Counted(h)) BY DEF PoolInv, DoneExact
<1>6. Cardinality(Counted(h)) \in Nat BY <1>4, FS_CardinalityType
<1>7. Cardinality(Counted(h)) = Cardinality(1 .. size[h])
  BY <1>1, <1>2, <1>4, <1>5, <1>6
<1> QED BY <1>2, <1>3, <1>7, FS_Subset

\* No task of h is left anywhere once every slot of its batch is counted.
LEMMA NothingLeft ==
  ASSUME PoolInv, NEW h \in Handles, InBarrier(h), done[h] >= size[h]
  PROVE  /\ \A i \in 1 .. Len(queue) : queue[i].h # h
         /\ \A w \in Workers : \A i \in 1 .. Len(local[w]) :
              local[w][i].h # h
         /\ \A w \in Workers : Active(w) => task[w].h # h
         /\ \A i \in 1 .. size[h] : slots[h][i] # NoOutcome
<1>1. \A i \in 1 .. size[h] :
        /\ slots[h][i] # NoOutcome
        /\ \A w \in Workers :
             wpc[w] = "count" /\ task[w].h = h => task[w].idx # i
  BY FullCount DEF Counted
<1>2. \A t : t.h = h => ~Unwritten(t)
  BY <1>1 DEF Unwritten, Current
<1>3. \A i \in 1 .. Len(queue) : queue[i].h # h
  BY <1>2, Zenon DEF PoolInv, TasksCurrent
<1>4. \A w \in Workers : \A i \in 1 .. Len(local[w]) : local[w][i].h # h
  BY <1>2, Zenon DEF PoolInv, TasksCurrent
<1>5. ASSUME NEW w \in Workers, Active(w) PROVE task[w].h # h
  <2>1. CASE wpc[w] = "exec"
    BY <1>2, <2>1, Zenon DEF PoolInv, TasksCurrent
  <2>2. CASE wpc[w] = "count"
    BY <1>1, <2>2 DEF PoolInv, TasksCurrent, Current
  <2> QED BY <1>5, <2>1, <2>2 DEF Active
<1> QED BY <1>1, <1>3, <1>4, <1>5, Zenon

-----------------------------------------------------------------------------
(* PoolInv is inductive.                                                   *)

LEMMA InitPoolInv == Init => PoolInv
<1> SUFFICES ASSUME Init PROVE PoolInv OBVIOUS
<1>1. TypeOK
  <2>0. shutdown \in BOOLEAN BY DEF Init
  <2>1. /\ queue \in Seq(Task)
        /\ qlock \in Workers \cup {Nobody}
        /\ chunk \in Nat \ {0}
    BY DEF Init
  <2>2. /\ wpc \in [Workers -> WorkerStates]
        /\ local \in [Workers -> Seq(Task)]
        /\ task \in [Workers -> Task \cup {NoTask}]
        /\ hpc \in [Handles -> HandleStates]
    BY DEF Init, HandleStates, WorkerStates
  <2>3. /\ batch \in [Handles -> Nat]
        /\ size \in [Handles -> 0 .. MaxBatch]
        /\ done \in [Handles -> Nat]
        /\ out \in [Handles -> Seq(Outcome)]
    BY PoolAssumption DEF Init
  <2>4. slots \in [Handles -> [Idx -> Outcome \cup {NoOutcome}]]
    BY DEF Init, Uninit
  <2> QED BY <2>0, <2>1, <2>2, <2>3, <2>4 DEF TypeOK
<1>2. TasksCurrent BY DEF Init, TasksCurrent
<1>3. TasksUnique BY DEF Init, TasksUnique, Active
<1>4. SlotsOwned BY DEF Init, SlotsOwned, Uninit
<1>5. DoneExact BY DEF Init, DoneExact, InBarrier
<1>6. PushFresh BY DEF Init, PushFresh
<1>7. CollectDone BY DEF Init, CollectDone
<1> QED BY <1>1, <1>2, <1>3, <1>4, <1>5, <1>6, <1>7 DEF PoolInv

\* An engine thread that only moves between the states of the barrier
\* wait, or between the states outside run_batch, disturbs nothing.
LEMMA HandleMoves ==
  ASSUME PoolInv, NEW h \in Handles, NEW to \in HandleStates,
         hpc' = [hpc EXCEPT ![h] = to],
         to # "push",
         \/ InBarrier(h) /\ to \in {"spin", "check", "park", "parked", "collect"}
         \/ ~ InBarrier(h) /\ to \in {"idle", "dropped"},
         to = "collect" => done[h] >= size[h],
         UNCHANGED <<queue, local, task, batch, size, done, slots>>,
         TypeOK',
         wpc' \in [Workers -> WorkerStates],
         \A w \in Workers : wpc'[w] = wpc[w] \/ (~ Active(w) /\ wpc'[w] = "lock")
  PROVE  PoolInv'
<1> USE DEF PoolInv
<1>0. /\ hpc \in [Handles -> HandleStates]
      /\ wpc \in [Workers -> WorkerStates]
      /\ queue \in Seq(Task)
      /\ local \in [Workers -> Seq(Task)]
  BY DEF TypeOK
<1>1. \A g \in Handles : InBarrier(g)' <=> InBarrier(g)
  BY <1>0 DEF InBarrier
<1>2. /\ \A t \in Task : Current(t)' <=> Current(t)
      /\ \A t \in Task : Unwritten(t)' <=> Unwritten(t)
  BY <1>1 DEF Current, Unwritten, Task
<1>3. TasksCurrent'
  BY <1>0, <1>2 DEF TasksCurrent, Active
<1>4. TasksUnique' BY DEF TasksUnique, Active
<1>5. SlotsOwned' BY DEF SlotsOwned
<1>6. DoneExact'
  <2>1. \A g \in Handles : Counted(g)' = Counted(g)
    BY DEF Counted, Active
  <2>2. \A g \in Handles : hpc'[g] = "push" => hpc[g] = "push" BY <1>0
  <2> QED BY <1>1, <2>1, <2>2 DEF DoneExact
<1>7. PushFresh' BY <1>0 DEF PushFresh
<1>8. CollectDone' BY <1>0 DEF CollectDone
<1> QED BY <1>3, <1>4, <1>5, <1>6, <1>7, <1>8


\* A worker that takes no task, starts no evaluation and counts none
\* disturbs nothing.
LEMMA WorkerMoves ==
  ASSUME PoolInv, NEW w \in Workers, NEW to \in WorkerStates,
         ~ Active(w), to \notin {"exec", "count", "notify"},
         wpc' = [wpc EXCEPT ![w] = to],
         UNCHANGED <<queue, local, task, handleVars>>,
         TypeOK'
  PROVE  PoolInv'
<1> USE DEF PoolInv
<1>0. /\ wpc \in [Workers -> WorkerStates]
      /\ queue \in Seq(Task)
      /\ local \in [Workers -> Seq(Task)]
      /\ UNCHANGED <<hpc, batch, size, done, slots, out>>
  BY DEF TypeOK, handleVars
<1>1. \A v \in Workers :
        /\ wpc'[v] = "exec" <=> wpc[v] = "exec"
        /\ wpc'[v] = "count" <=> wpc[v] = "count"
        /\ wpc'[v] = "notify" => wpc[v] = "notify"
  BY <1>0 DEF Active
<1>2. TasksCurrent'
  BY <1>0, <1>1 DEF TasksCurrent, Unwritten, Current, InBarrier
<1>3. TasksUnique' BY <1>0, <1>1 DEF TasksUnique, Active
<1>4. SlotsOwned' BY <1>0 DEF SlotsOwned
<1>5. DoneExact'
  <2>1. \A g \in Handles : Counted(g)' = Counted(g)
    BY <1>0, <1>1 DEF Counted
  <2> QED BY <1>0, <2>1 DEF DoneExact, InBarrier
<1>6. PushFresh' BY <1>0 DEF PushFresh
<1>7. CollectDone' BY <1>0 DEF CollectDone
<1> QED BY <1>2, <1>3, <1>4, <1>5, <1>6, <1>7

\* Types along one step.  Only Collect needs more than types: what it
\* returns are outcomes because the barrier holds.
LEMMA TypeStep == PoolInv /\ [Next]_vars => TypeOK'
<1> SUFFICES ASSUME PoolInv, [Next]_vars PROVE TypeOK' OBVIOUS
<1>0. TypeOK BY DEF PoolInv
<1> USE <1>0 DEF TypeOK
<1>1. ASSUME NEW h \in Handles, NEW g \in Handles, Clone(h, g) PROVE TypeOK'
  BY <1>1 DEF Clone, HandleGoto, workerVars, HandleStates
<1>2. ASSUME NEW h \in Handles, DropHandle(h) PROVE TypeOK'
  <2>1. shutdown' \in BOOLEAN BY <1>2 DEF DropHandle
  <2> QED BY <2>1, <1>2 DEF DropHandle, HandleGoto, workerVars, HandleStates
<1>3. ASSUME NEW h \in Handles, RunBatchEmpty(h) PROVE TypeOK'
  BY <1>3 DEF RunBatchEmpty, workerVars
<1>4. ASSUME NEW h \in Handles, NEW n \in 1 .. MaxBatch, RunBatch(h, n)
      PROVE  TypeOK'
  <2>1. n \in Nat /\ n \in 0 .. MaxBatch BY PoolAssumption
  <2>2. chunk' \in Nat \ {0} BY <1>4, <2>1, ChunkPositive DEF RunBatch
  <2>3. slots' \in [Handles -> [Idx -> Outcome \cup {NoOutcome}]]
    BY <1>4 DEF RunBatch, Uninit
  <2>4. /\ batch' \in [Handles -> Nat]
        /\ size' \in [Handles -> 0 .. MaxBatch]
        /\ done' \in [Handles -> Nat]
        /\ out' \in [Handles -> Seq(Outcome)]
        /\ hpc' \in [Handles -> HandleStates]
    BY <1>4, <2>1 DEF RunBatch, HandleGoto, HandleStates
  <2> QED BY <1>4, <2>2, <2>3, <2>4 DEF RunBatch, workerVars
<1>5. ASSUME NEW h \in Handles, Push(h) PROVE TypeOK'
  <2>1. queue' \in Seq(Task) BY <1>5, TasksOfFacts DEF Push
  <2> QED BY <1>5, <2>1 DEF Push, HandleGoto, workerVars, HandleStates
<1>6. ASSUME NEW h \in Handles, NotifyAll(h) PROVE TypeOK'
  BY <1>6 DEF NotifyAll, HandleGoto, HandleStates, WorkerStates
<1>7. ASSUME NEW h \in Handles,
             SpinDone(h) \/ SpinGiveUp(h) \/ CheckDone(h) \/ Park(h)
               \/ SpuriousWakeHandle(h)
      PROVE  TypeOK'
  BY <1>7 DEF SpinDone, SpinGiveUp, CheckDone, Park, SpuriousWakeHandle,
              HandleGoto, workerVars, HandleStates
<1>8. ASSUME NEW h \in Handles, Collect(h) PROVE TypeOK'
  <2>1. InBarrier(h) /\ done[h] >= size[h]
    BY <1>8 DEF Collect, HandleGoto, InBarrier, PoolInv, CollectDone
  <2>2. \A i \in 1 .. size[h] : slots[h][i] \in Outcome
    BY <2>1, NothingLeft, PoolAssumption DEF Idx
  <2>3. [i \in 1 .. size[h] |-> slots[h][i]] \in Seq(Outcome)
    <3>1. size[h] \in Nat OBVIOUS
    <3>2. \A T, f : \A n \in Nat :
            (\A i \in 1 .. n : f[i] \in T) => [i \in 1 .. n |-> f[i]] \in Seq(T)
      OBVIOUS
    <3> QED BY <2>2, <3>1, <3>2
  <2>4. out' \in [Handles -> Seq(Outcome)] BY <1>8, <2>3 DEF Collect
  <2> QED BY <1>8, <2>4 DEF Collect, HandleGoto, workerVars, HandleStates
<1>9. ASSUME NEW w \in Workers, PopLocal(w) PROVE TypeOK'
  BY <1>9 DEF PopLocal, WorkerGoto, handleVars, WorkerStates
<1>10. ASSUME NEW w \in Workers,
              PopEmpty(w) \/ FoundEmpty(w) \/ Sleep(w) \/ SpuriousWakeWorker(w)
       PROVE  TypeOK'
  BY <1>10 DEF PopEmpty, FoundEmpty, Sleep, SpuriousWakeWorker, WorkerGoto,
               handleVars, WorkerStates
<1>11. ASSUME NEW w \in Workers, Refill(w) PROVE TypeOK'
  BY <1>11, DrainFacts DEF Refill, WorkerGoto, handleVars, WorkerStates
<1>12. ASSUME NEW w \in Workers, NEW p \in BOOLEAN, Execute(w, p)
       PROVE  TypeOK'
  <2>1. task[w] \in Task
    BY <1>12 DEF Execute, WorkerGoto, PoolInv, TasksCurrent
  <2>2. [item |-> task[w], panicked |-> p] \in Outcome
    BY <2>1 DEF Outcome
  <2>3. slots' \in [Handles -> [Idx -> Outcome \cup {NoOutcome}]]
    BY <1>12, <2>1, <2>2 DEF Execute, Task
  <2> QED BY <1>12, <2>3 DEF Execute, WorkerGoto, WorkerStates
<1>13. ASSUME NEW w \in Workers, CountDone(w) PROVE TypeOK'
  <2>1. task[w] \in Task
    BY <1>13 DEF CountDone, WorkerGoto, PoolInv, TasksCurrent
  <2>2. task[w].h \in Handles BY <2>1 DEF Task
  <2>3. done' \in [Handles -> Nat] BY <1>13, <2>2 DEF CountDone
  <2>4. wpc' \in [Workers -> WorkerStates]
    BY <1>13 DEF CountDone, WorkerGoto, WorkerStates
  <2> QED BY <1>13, <2>3, <2>4 DEF CountDone
<1>14. ASSUME NEW w \in Workers, NotifyOne(w) PROVE TypeOK'
  BY <1>14 DEF NotifyOne, WorkerGoto, WorkerStates, HandleStates
<1>15. CASE UNCHANGED vars BY <1>15 DEF vars
<1> QED
  BY <1>1, <1>2, <1>3, <1>4, <1>5, <1>6, <1>7, <1>8, <1>9, <1>10, <1>11,
     <1>12, <1>13, <1>14, <1>15
  DEF Next, HandleStep, WorkerStep


\* A new batch: the sink is fresh and no task of the handle is left.
LEMMA RunBatchStep ==
  ASSUME PoolInv, TypeOK', NEW h \in Handles, NEW n \in 1 .. MaxBatch,
         RunBatch(h, n)
  PROVE  PoolInv'
<1> USE DEF PoolInv
<1>0. /\ hpc \in [Handles -> HandleStates] /\ hpc[h] = "idle"
      /\ hpc' = [hpc EXCEPT ![h] = "push"]
      /\ batch \in [Handles -> Nat] /\ size \in [Handles -> 0 .. MaxBatch]
      /\ done \in [Handles -> Nat]
      /\ slots \in [Handles -> [Idx -> Outcome \cup {NoOutcome}]]
      /\ batch' = [batch EXCEPT ![h] = @ + 1]
      /\ size' = [size EXCEPT ![h] = n]
      /\ done' = [done EXCEPT ![h] = 0]
      /\ slots' = [slots EXCEPT ![h] = Uninit]
      /\ queue \in Seq(Task) /\ local \in [Workers -> Seq(Task)]
      /\ UNCHANGED <<queue, wpc, local, task>>
  BY DEF TypeOK, RunBatch, HandleGoto, workerVars
<1>1. \A t \in Task : Current(t) => t.h # h
  BY <1>0 DEF Current, InBarrier
<1>2. /\ \A t \in Task : Current(t) => Current(t)'
      /\ \A t \in Task : Unwritten(t) => Unwritten(t)'
  BY <1>0, <1>1 DEF Current, Unwritten, InBarrier, Task
<1>3. TasksCurrent'
  <2>1. \A i \in 1 .. Len(queue) : Unwritten(queue[i])'
    BY <1>0, <1>2 DEF TasksCurrent
  <2>2. \A w \in Workers : \A i \in 1 .. Len(local[w]) : Unwritten(local[w][i])'
    BY <1>0, <1>2 DEF TasksCurrent
  <2>3. \A w \in Workers : wpc[w] = "exec" =>
          task[w] \in Task /\ Unwritten(task[w])'
    BY <1>0, <1>2 DEF TasksCurrent
  <2>4. \A w \in Workers : wpc[w] = "count" =>
          /\ task[w] \in Task
          /\ Current(task[w])'
          /\ slots'[task[w].h][task[w].idx] # NoOutcome
    BY <1>0, <1>1, <1>2 DEF TasksCurrent, Task
  <2> QED BY <1>0, <2>1, <2>2, <2>3, <2>4 DEF TasksCurrent
<1>4. TasksUnique' BY <1>0, UniqueUnchanged DEF Active
<1>5. SlotsOwned' BY <1>0 DEF SlotsOwned, Uninit
<1>6. DoneExact'
  <2> SUFFICES ASSUME NEW g \in Handles, InBarrier(g)' \/ hpc'[g] = "push"
               PROVE  done'[g] = Cardinality(Counted(g)')
    BY DEF DoneExact
  <2>1. CASE g = h
    <3>1. Counted(h)' = {}
      BY <1>0, PoolAssumption DEF Counted, Uninit, Idx
    <3> QED BY <1>0, <2>1, <3>1, FS_EmptySet
  <2>2. CASE g # h
    <3>1. Counted(g)' = Counted(g) BY <1>0, <2>2 DEF Counted
    <3>2. InBarrier(g) \/ hpc[g] = "push" BY <1>0, <2>2 DEF InBarrier
    <3> QED BY <1>0, <2>2, <3>1, <3>2 DEF DoneExact
  <2> QED BY <2>1, <2>2
<1>7. PushFresh' BY <1>0 DEF PushFresh
<1>8. CollectDone' BY <1>0 DEF CollectDone
<1> QED BY <1>3, <1>4, <1>5, <1>6, <1>7, <1>8

\* The batch enters the queue: its tasks are new and their slots unwritten.
LEMMA PushStep ==
  ASSUME PoolInv, TypeOK', NEW h \in Handles, Push(h)
  PROVE  PoolInv'
<1> USE DEF PoolInv
<1>n. PICK new : new = TasksOf(h) OBVIOUS
<1>0. /\ hpc \in [Handles -> HandleStates] /\ hpc[h] = "push"
      /\ hpc' = [hpc EXCEPT ![h] = "notify"]
      /\ queue \in Seq(Task) /\ local \in [Workers -> Seq(Task)]
      /\ size[h] \in Nat /\ size[h] <= MaxBatch
      /\ queue' = queue \o new
      /\ UNCHANGED <<wpc, local, task, batch, size, done, slots>>
  BY PoolAssumption, <1>n DEF TypeOK, Push, HandleGoto, workerVars
<1>1. /\ new \in Seq(Task)
      /\ Len(new) = size[h]
      /\ \A i \in 1 .. size[h] :
           new[i].h = h /\ new[i].b = batch[h] /\ new[i].idx = i
  BY TasksOfFacts, <1>n
<1>2. /\ Len(queue') = Len(queue) + size[h]
      /\ \A i \in 1 .. Len(queue) : queue'[i] = queue[i]
      /\ \A i \in 1 .. Len(queue') : i > Len(queue) =>
           /\ i - Len(queue) \in 1 .. size[h]
           /\ queue'[i] = new[i - Len(queue)]
  BY <1>0, <1>1, ConcatFacts
<1>3. \A t \in Task : Current(t) => t.h # h
  BY <1>0 DEF Current, InBarrier
<1>4. /\ \A t \in Task : Current(t) => Current(t)'
      /\ \A t \in Task : Unwritten(t) => Unwritten(t)'
  BY <1>0 DEF Current, Unwritten, InBarrier, Task
<1>5. \A i \in 1 .. size[h] : new[i] \in Task /\ Unwritten(new[i])'
  <2> SUFFICES ASSUME NEW i \in 1 .. size[h], NEW t, t = new[i]
               PROVE  t \in Task /\ Unwritten(t)'
    OBVIOUS
  <2>1. t \in Task /\ t.h = h /\ t.b = batch[h] /\ t.idx = i BY <1>1
  <2>2. InBarrier(h)' BY <1>0 DEF InBarrier
  <2>3. slots'[h][i] = NoOutcome
    BY <1>0, PoolAssumption DEF PushFresh, Uninit, Idx
  <2> QED BY <1>0, <2>1, <2>2, <2>3 DEF Unwritten, Current
<1>6. \A i \in 1 .. Len(queue) : queue[i] \in Task /\ Current(queue[i])
  BY <1>0 DEF TasksCurrent, Unwritten
<1>7. \A w \in Workers : \A i \in 1 .. Len(local[w]) :
        local[w][i] \in Task /\ Current(local[w][i])
  BY <1>0 DEF TasksCurrent, Unwritten
<1>8. \A w \in Workers : Active(w) => task[w] \in Task /\ Current(task[w])
  BY DEF TasksCurrent, Unwritten, Active
<1>9. TasksCurrent'
  <2>1. ASSUME NEW i \in 1 .. Len(queue')
        PROVE  Unwritten(queue[i])'
    <3>1. CASE i \in 1 .. Len(queue)
      BY <1>2, <1>4, <1>6, <3>1 DEF TasksCurrent
    <3>2. CASE i \notin 1 .. Len(queue)
      <4>1. i > Len(queue) BY <1>0, <1>2, <3>2
      <4>2. PICK k \in 1 .. size[h] : k = i - Len(queue)
        BY <1>2, <4>1
      <4> QED BY <1>2, <1>5, <4>1, <4>2
    <3> QED BY <3>1, <3>2
  <2>2. \A w \in Workers : \A i \in 1 .. Len(local[w]) : Unwritten(local[w][i])'
    BY <1>0, <1>4, <1>7 DEF TasksCurrent
  <2>3. \A w \in Workers : wpc[w] = "exec" =>
          task[w] \in Task /\ Unwritten(task[w])'
    BY <1>0, <1>4 DEF TasksCurrent
  <2>4. \A w \in Workers : wpc[w] = "count" =>
          task[w] \in Task /\ Current(task[w])'
    BY <1>0, <1>4 DEF TasksCurrent
  <2> QED BY <1>0, <2>1, <2>2, <2>3, <2>4 DEF TasksCurrent
<1>10. TasksUnique'
  <2>0. \A i \in 1 .. Len(queue') :
          \/ /\ i \in 1 .. Len(queue)
             /\ queue'[i] = queue[i]
             /\ queue'[i].h # h
          \/ /\ i \notin 1 .. Len(queue)
             /\ queue'[i].h = h
             /\ queue'[i].idx = i - Len(queue)
    <3> SUFFICES ASSUME NEW i \in 1 .. Len(queue')
                 PROVE  \/ /\ i \in 1 .. Len(queue)
                           /\ queue'[i] = queue[i]
                           /\ queue'[i].h # h
                        \/ /\ i \notin 1 .. Len(queue)
                           /\ queue'[i].h = h
                           /\ queue'[i].idx = i - Len(queue)
      OBVIOUS
    <3>1. CASE i \in 1 .. Len(queue) BY <1>2, <1>3, <1>6, <3>1
    <3>2. CASE i \notin 1 .. Len(queue)
      <4>1. i > Len(queue) BY <1>0, <1>2, <3>2
      <4>2. PICK k \in 1 .. size[h] : k = i - Len(queue) /\ queue'[i] = new[k]
        BY <1>2, <4>1
      <4>3. new[k].h = h /\ new[k].idx = k BY <1>1
      <4> QED BY <3>2, <4>2, <4>3
    <3> QED BY <3>1, <3>2
  <2>1. \A i, j \in 1 .. Len(queue') : queue'[i] = queue'[j] => i = j
    <3>1. \A i, j \in 1 .. Len(queue) : queue[i] = queue[j] => i = j
      BY DEF TasksUnique
    <3>2. Len(queue) \in Nat BY <1>0
    <3>3. Len(queue') \in Nat BY <1>0, <1>2
    <3> SUFFICES ASSUME NEW i \in 1 .. Len(queue'), NEW j \in 1 .. Len(queue'),
                        queue'[i] = queue'[j]
                 PROVE  i = j
      OBVIOUS
    <3>4. i \in Int /\ j \in Int BY <3>3
    <3>5. CASE i \in 1 .. Len(queue)
      <4>1. j \in 1 .. Len(queue) /\ queue'[j] = queue[j] BY <2>0, <3>5
      <4>2. queue'[i] = queue[i] BY <2>0, <3>5
      <4> QED BY <3>1, <3>5, <4>1, <4>2
    <3>6. CASE i \notin 1 .. Len(queue)
      <4>1. queue'[i].idx = i - Len(queue) /\ queue'[j].idx = j - Len(queue)
        BY <2>0, <3>6
      <4>2. i - Len(queue) = j - Len(queue) BY <4>1
      <4> QED BY <3>2, <3>4, <4>2
    <3> QED BY <3>5, <3>6
  <2>2. \A w \in Workers : \A i \in 1 .. Len(queue') :
          \A j \in 1 .. Len(local[w]) : queue'[i] # local[w][j]
    BY <1>3, <1>7, <2>0 DEF TasksUnique
  <2>3. \A w \in Workers : Active(w) =>
          \A i \in 1 .. Len(queue') : queue'[i] # task[w]
    BY <1>3, <1>8, <2>0 DEF TasksUnique
  <2>4. /\ local' = local /\ task' = task
        /\ \A w \in Workers : Active(w)' <=> Active(w)
    BY <1>0 DEF Active
  <2> QED BY <2>1, <2>2, <2>3, <2>4 DEF TasksUnique
<1>11. SlotsOwned' BY <1>0 DEF SlotsOwned
<1>12. DoneExact'
  <2>1. \A g \in Handles : Counted(g)' = Counted(g) BY <1>0 DEF Counted
  <2>2. \A g \in Handles : InBarrier(g)' \/ hpc'[g] = "push" =>
          InBarrier(g) \/ hpc[g] = "push"
    BY <1>0 DEF InBarrier
  <2> QED BY <1>0, <2>1, <2>2 DEF DoneExact
<1>13. PushFresh' BY <1>0 DEF PushFresh
<1>14. CollectDone' BY <1>0 DEF CollectDone
<1> QED BY <1>9, <1>10, <1>11, <1>12, <1>13, <1>14

\* Returning from run_batch: no task of the handle is left to be stale.
LEMMA CollectStep ==
  ASSUME PoolInv, TypeOK', NEW h \in Handles, Collect(h)
  PROVE  PoolInv'
<1> USE DEF PoolInv
<1>0. /\ hpc \in [Handles -> HandleStates] /\ hpc[h] = "collect"
      /\ hpc' = [hpc EXCEPT ![h] = "idle"]
      /\ queue \in Seq(Task) /\ local \in [Workers -> Seq(Task)]
      /\ UNCHANGED <<queue, wpc, local, task, batch, size, done, slots>>
  BY DEF TypeOK, Collect, HandleGoto, workerVars
<1>1. InBarrier(h) /\ done[h] >= size[h]
  BY <1>0 DEF InBarrier, CollectDone
<1>2. /\ \A t \in Task : t.h # h /\ Current(t) => Current(t)'
      /\ \A t \in Task : t.h # h /\ Unwritten(t) => Unwritten(t)'
  BY <1>0 DEF Current, Unwritten, InBarrier, Task
<1>3. TasksCurrent'
  <2>1. \A i \in 1 .. Len(queue) : Unwritten(queue[i])'
    BY <1>0, <1>1, <1>2, NothingLeft DEF TasksCurrent
  <2>2. \A w \in Workers : \A i \in 1 .. Len(local[w]) : Unwritten(local[w][i])'
    BY <1>0, <1>1, <1>2, NothingLeft DEF TasksCurrent
  <2>3. \A w \in Workers : wpc[w] = "exec" =>
          task[w] \in Task /\ Unwritten(task[w])'
    BY <1>0, <1>1, <1>2, NothingLeft DEF TasksCurrent, Active
  <2>4. \A w \in Workers : wpc[w] = "count" =>
          task[w] \in Task /\ Current(task[w])'
    BY <1>0, <1>1, <1>2, NothingLeft DEF TasksCurrent, Active
  <2> QED BY <1>0, <2>1, <2>2, <2>3, <2>4 DEF TasksCurrent
<1>4. TasksUnique' BY <1>0, UniqueUnchanged DEF Active
<1>5. SlotsOwned' BY <1>0 DEF SlotsOwned
<1>6. DoneExact'
  <2>1. \A g \in Handles : Counted(g)' = Counted(g) BY <1>0 DEF Counted
  <2>2. \A g \in Handles : InBarrier(g)' \/ hpc'[g] = "push" =>
          InBarrier(g) \/ hpc[g] = "push"
    BY <1>0 DEF InBarrier
  <2> QED BY <1>0, <2>1, <2>2 DEF DoneExact
<1>7. PushFresh' BY <1>0 DEF PushFresh
<1>8. CollectDone' BY <1>0 DEF CollectDone
<1> QED BY <1>3, <1>4, <1>5, <1>6, <1>7, <1>8


\* When only the places of tasks change, the invariant follows from those
\* two parts, provided no worker starts or stops counting.
LEMMA TaskMoves ==
  ASSUME PoolInv, TypeOK', TasksCurrent', TasksUnique',
         UNCHANGED <<hpc, batch, size, done, slots>>,
         \A w \in Workers : wpc'[w] = "count" <=> wpc[w] = "count",
         \A w \in Workers : wpc[w] = "count" => task'[w] = task[w]
  PROVE  PoolInv'
<1> USE DEF PoolInv
<1>1. SlotsOwned' BY DEF SlotsOwned
<1>2. DoneExact'
  <2>1. \A g \in Handles : Counted(g)' = Counted(g) BY DEF Counted
  <2> QED BY <2>1 DEF DoneExact, InBarrier
<1>3. PushFresh' BY DEF PushFresh
<1>4. CollectDone' BY DEF CollectDone
<1> QED BY <1>1, <1>2, <1>3, <1>4

\* A task goes from the ring into the worker's hands.
LEMMA PopLocalStep ==
  ASSUME PoolInv, TypeOK', NEW w \in Workers, PopLocal(w)
  PROVE  PoolInv'
<1> USE DEF PoolInv
<1>0. /\ wpc \in [Workers -> WorkerStates] /\ wpc[w] = "pop"
      /\ wpc' = [wpc EXCEPT ![w] = "exec"]
      /\ task \in [Workers -> Task \cup {NoTask}]
      /\ task' = [task EXCEPT ![w] = Head(local[w])]
      /\ local \in [Workers -> Seq(Task)]
      /\ local' = [local EXCEPT ![w] = Tail(local[w])]
      /\ queue \in Seq(Task)
      /\ UNCHANGED <<queue, hpc, batch, size, done, slots>>
  BY DEF TypeOK, PopLocal, WorkerGoto, handleVars
<1>1. /\ local[w] \in Seq(Task) /\ Len(local[w]) \in Nat \ {0}
      /\ task'[w] = local[w][1]
      /\ Len(local'[w]) = Len(local[w]) - 1
      /\ \A i \in 1 .. Len(local'[w]) :
           i + 1 \in 1 .. Len(local[w]) /\ local'[w][i] = local[w][i + 1]
  BY <1>0 DEF PopLocal
<1>2. \A v \in Workers : v # w =>
        wpc'[v] = wpc[v] /\ task'[v] = task[v] /\ local'[v] = local[v]
  BY <1>0
<1>3. \A t : (Current(t)' <=> Current(t)) /\ (Unwritten(t)' <=> Unwritten(t))
  BY <1>0 DEF Current, Unwritten, InBarrier
<1>4. 1 \in 1 .. Len(local[w]) /\ local[w][1] \in Task /\ Unwritten(local[w][1])
  BY <1>1 DEF TasksCurrent
<1>r. \A v \in Workers : \A i \in 1 .. Len(local'[v]) :
        \E j \in 1 .. Len(local[v]) : local'[v][i] = local[v][j]
  <2> SUFFICES ASSUME NEW v \in Workers, NEW i \in 1 .. Len(local'[v])
               PROVE  \E j \in 1 .. Len(local[v]) : local'[v][i] = local[v][j]
    OBVIOUS
  <2>1. CASE v = w BY <1>1, <2>1
  <2>2. CASE v # w
    <3>1. local'[v] = local[v] BY <1>2, <2>2
    <3> QED BY <3>1
  <2> QED BY <2>1, <2>2
<1>5. TasksCurrent'
  <2>2. (\A v \in Workers : \A i \in 1 .. Len(local[v]) : Unwritten(local[v][i]))'
    BY <1>3, <1>r DEF TasksCurrent
  <2>3. (\A v \in Workers : wpc[v] = "exec" =>
           task[v] \in Task /\ Unwritten(task[v]))'
    BY <1>1, <1>2, <1>3, <1>4 DEF TasksCurrent
  <2>4. (\A v \in Workers : wpc[v] = "count" =>
           /\ task[v] \in Task
           /\ Current(task[v])
           /\ slots[task[v].h][task[v].idx] # NoOutcome)'
    BY <1>0, <1>2, <1>3 DEF TasksCurrent
  <2>5. (\A v \in Workers : wpc[v] = "notify" => task[v] \in Task)'
    BY <1>0, <1>2 DEF TasksCurrent
  <2>6. (\A i \in 1 .. Len(queue) : Unwritten(queue[i]))'
    BY <1>0, <1>3 DEF TasksCurrent
  <2> QED BY <2>2, <2>3, <2>4, <2>5, <2>6 DEF TasksCurrent
<1>6. TasksUnique'
  <2>0. \A v \in Workers : v # w => (Active(v)' <=> Active(v))
    BY <1>2 DEF Active
  <2>1. (\A i, j \in 1 .. Len(queue) : queue[i] = queue[j] => i = j)'
    BY <1>0 DEF TasksUnique
  <2>2. (\A v \in Workers : \A i, j \in 1 .. Len(local[v]) :
           local[v][i] = local[v][j] => i = j)'
    <3> SUFFICES ASSUME NEW v \in Workers,
                        NEW i \in 1 .. Len(local'[v]), NEW j \in 1 .. Len(local'[v]),
                        local'[v][i] = local'[v][j]
                 PROVE  i = j
      OBVIOUS
    <3>1. CASE v = w
      <4>0. /\ i + 1 \in 1 .. Len(local[w]) /\ j + 1 \in 1 .. Len(local[w])
            /\ local[w][i + 1] = local[w][j + 1]
        BY <1>1, <3>1
      <4>1. i + 1 = j + 1 BY <4>0 DEF TasksUnique
      <4> QED BY <1>1, <3>1, <4>1
    <3>2. CASE v # w
      <4>1. local'[v] = local[v] BY <1>2, <3>2
      <4> QED BY <4>1 DEF TasksUnique
    <3> QED BY <3>1, <3>2
  <2>3. (\A v \in Workers : \A i \in 1 .. Len(queue) :
           \A j \in 1 .. Len(local[v]) : queue[i] # local[v][j])'
    BY <1>0, <1>1, <1>2 DEF TasksUnique
  <2>4. (\A u, v \in Workers : u # v =>
           \A i \in 1 .. Len(local[u]) : \A j \in 1 .. Len(local[v]) :
             local[u][i] # local[v][j])'
    BY <1>r DEF TasksUnique
  <2>5. (\A v \in Workers : Active(v) =>
           \A i \in 1 .. Len(queue) : queue[i] # task[v])'
    BY <1>0, <1>1, <1>2, <1>4, <2>0 DEF TasksUnique
  <2>6. (\A u, v \in Workers : Active(v) =>
           \A i \in 1 .. Len(local[u]) : local[u][i] # task[v])'
    BY <1>1, <1>2, <1>4, <2>0 DEF TasksUnique
  <2>7. (\A u, v \in Workers : u # v /\ Active(u) /\ Active(v) =>
           task[u] # task[v])'
    BY <1>1, <1>2, <1>4, <2>0 DEF TasksUnique
  <2> QED BY <2>1, <2>2, <2>3, <2>4, <2>5, <2>6, <2>7 DEF TasksUnique
<1>7. \A v \in Workers : wpc'[v] = "count" <=> wpc[v] = "count"
  BY <1>0
<1>8. \A v \in Workers : wpc[v] = "count" => task'[v] = task[v]
  BY <1>0, <1>2
<1> QED BY <1>0, <1>5, <1>6, <1>7, <1>8, TaskMoves

\* A chunk goes from the queue into the ring, its first task into the
\* worker's hands.
LEMMA RefillStep ==
  ASSUME PoolInv, TypeOK', NEW w \in Workers, Refill(w)
  PROVE  PoolInv'
<1> USE DEF PoolInv
<1>k. PICK k : k = Least(AtLeastOne(chunk), Len(queue)) OBVIOUS
<1>0. /\ wpc \in [Workers -> WorkerStates] /\ wpc[w] = "lock"
      /\ wpc' = [wpc EXCEPT ![w] = "exec"]
      /\ task \in [Workers -> Task \cup {NoTask}]
      /\ task' = [task EXCEPT ![w] = Head(queue)]
      /\ local \in [Workers -> Seq(Task)]
      /\ local' = [local EXCEPT ![w] = SubSeq(queue, 2, k)]
      /\ queue \in Seq(Task) /\ Len(queue) \in Nat
      /\ queue' = SubSeq(queue, k + 1, Len(queue))
      /\ UNCHANGED <<hpc, batch, size, done, slots>>
  BY <1>k DEF TypeOK, Refill, WorkerGoto, handleVars
<1>1. /\ k \in 1 .. Len(queue)
      /\ task'[w] = queue[1] /\ queue[1] \in Task
      /\ Len(local'[w]) = k - 1
      /\ \A i \in 1 .. k - 1 : local'[w][i] = queue[i + 1]
      /\ Len(queue') = Len(queue) - k
      /\ \A i \in 1 .. Len(queue) - k : queue'[i] = queue[i + k]
  <2>1. TypeOK /\ queue # << >> BY DEF Refill
  <2>2. /\ k \in 1 .. Len(queue)
        /\ Head(queue) = queue[1] /\ Head(queue) \in Task
        /\ Len(SubSeq(queue, 2, k)) = k - 1
        /\ \A i \in 1 .. k - 1 : SubSeq(queue, 2, k)[i] = queue[i + 1]
        /\ Len(SubSeq(queue, k + 1, Len(queue))) = Len(queue) - k
        /\ \A i \in 1 .. Len(queue) - k :
             SubSeq(queue, k + 1, Len(queue))[i] = queue[i + k]
    BY <1>k, <2>1, DrainFacts, Zenon
  <2>3. /\ task'[w] = Head(queue)
        /\ local'[w] = SubSeq(queue, 2, k)
        /\ queue' = SubSeq(queue, k + 1, Len(queue))
    BY <1>0
  <2> HIDE DEF PoolInv
  <2> QED BY <2>2, <2>3, Zenon
<1>2. \A v \in Workers : v # w =>
        wpc'[v] = wpc[v] /\ task'[v] = task[v] /\ local'[v] = local[v]
  BY <1>0
<1>3. \A t : (Current(t)' <=> Current(t)) /\ (Unwritten(t)' <=> Unwritten(t))
  BY <1>0 DEF Current, Unwritten, InBarrier
<1>4. /\ 1 \in 1 .. Len(queue)
      /\ \A i \in 1 .. Len(local'[w]) :
           i + 1 \in 2 .. k /\ i + 1 \in 1 .. Len(queue)
             /\ local'[w][i] = queue[i + 1]
      /\ \A i \in 1 .. Len(queue') :
           i + k \in k + 1 .. Len(queue) /\ i + k \in 1 .. Len(queue)
             /\ queue'[i] = queue[i + k]
  <2>1. k \in Nat \ {0} /\ k <= Len(queue) /\ Len(queue) \in Nat
    BY <1>0, <1>1
  <2>2. \A i \in 1 .. k - 1 : i + 1 \in 2 .. k /\ i + 1 \in 1 .. Len(queue)
    BY <2>1
  <2>3. \A i \in 1 .. Len(queue) - k :
          i + k \in k + 1 .. Len(queue) /\ i + k \in 1 .. Len(queue)
    BY <2>1
  <2> QED BY <1>1, <2>1, <2>2, <2>3
<1>5. TasksCurrent'
  <2>1. (\A i \in 1 .. Len(queue) : Unwritten(queue[i]))'
    BY <1>3, <1>4 DEF TasksCurrent
  <2>2. (\A v \in Workers : \A i \in 1 .. Len(local[v]) : Unwritten(local[v][i]))'
    BY <1>2, <1>3, <1>4 DEF TasksCurrent
  <2>3. (\A v \in Workers : wpc[v] = "exec" =>
           task[v] \in Task /\ Unwritten(task[v]))'
    BY <1>1, <1>2, <1>3, <1>4 DEF TasksCurrent
  <2>4. (\A v \in Workers : wpc[v] = "count" =>
           /\ task[v] \in Task
           /\ Current(task[v])
           /\ slots[task[v].h][task[v].idx] # NoOutcome)'
    BY <1>0, <1>2, <1>3 DEF TasksCurrent
  <2>5. (\A v \in Workers : wpc[v] = "notify" => task[v] \in Task)'
    BY <1>0, <1>2 DEF TasksCurrent
  <2> QED BY <2>1, <2>2, <2>3, <2>4, <2>5 DEF TasksCurrent
<1>6. TasksUnique'
  <2>0. \A v \in Workers : v # w => (Active(v)' <=> Active(v))
    BY <1>2 DEF Active
  <2>1. (\A i, j \in 1 .. Len(queue) : queue[i] = queue[j] => i = j)'
    BY <1>0, <1>1, <1>4 DEF TasksUnique
  <2>2. (\A v \in Workers : \A i, j \in 1 .. Len(local[v]) :
           local[v][i] = local[v][j] => i = j)'
    <3> SUFFICES ASSUME NEW v \in Workers,
                        NEW i \in 1 .. Len(local'[v]), NEW j \in 1 .. Len(local'[v]),
                        local'[v][i] = local'[v][j]
                 PROVE  i = j
      OBVIOUS
    <3>1. CASE v = w
      <4>1. i + 1 = j + 1 BY <1>4, <3>1 DEF TasksUnique
      <4> QED BY <1>0, <1>1, <3>1, <4>1
    <3>2. CASE v # w
      <4>1. local'[v] = local[v] BY <1>2, <3>2
      <4> QED BY <4>1 DEF TasksUnique
    <3> QED BY <3>1, <3>2
  <2>3. (\A v \in Workers : \A i \in 1 .. Len(queue) :
           \A j \in 1 .. Len(local[v]) : queue[i] # local[v][j])'
    <3> SUFFICES ASSUME NEW v \in Workers,
                        NEW i \in 1 .. Len(queue'), NEW j \in 1 .. Len(local'[v])
                 PROVE  queue'[i] # local'[v][j]
      OBVIOUS
    <3>1. CASE v = w
      <4>1. j + 1 # i + k BY <1>0, <1>1, <1>4, <3>1
      <4> QED BY <1>4, <3>1, <4>1 DEF TasksUnique
    <3>2. CASE v # w
      <4>1. local'[v] = local[v] BY <1>2, <3>2
      <4>2. i + k \in 1 .. Len(queue) /\ queue'[i] = queue[i + k] BY <1>4
      <4> QED BY <4>1, <4>2 DEF TasksUnique
    <3> QED BY <3>1, <3>2
  <2>4. (\A u, v \in Workers : u # v =>
           \A i \in 1 .. Len(local[u]) : \A j \in 1 .. Len(local[v]) :
             local[u][i] # local[v][j])'
    BY <1>2, <1>4 DEF TasksUnique
  <2>5. (\A v \in Workers : Active(v) =>
           \A i \in 1 .. Len(queue) : queue[i] # task[v])'
    BY <1>0, <1>1, <1>2, <1>4, <2>0 DEF TasksUnique
  <2>6. (\A u, v \in Workers : Active(v) =>
           \A i \in 1 .. Len(local[u]) : local[u][i] # task[v])'
    BY <1>0, <1>1, <1>2, <1>4, <2>0 DEF TasksUnique
  <2>7. (\A u, v \in Workers : u # v /\ Active(u) /\ Active(v) =>
           task[u] # task[v])'
    BY <1>1, <1>2, <1>4, <2>0 DEF TasksUnique
  <2> QED BY <2>1, <2>2, <2>3, <2>4, <2>5, <2>6, <2>7 DEF TasksUnique
<1>7. \A v \in Workers : wpc'[v] = "count" <=> wpc[v] = "count"
  BY <1>0
<1>8. \A v \in Workers : wpc[v] = "count" => task'[v] = task[v]
  BY <1>0, <1>2
<1> QED BY <1>0, <1>5, <1>6, <1>7, <1>8, TaskMoves


\* The slot write: it hits the slot of the worker's own task, which no other
\* task in the pool names.
LEMMA ExecuteStep ==
  ASSUME PoolInv, TypeOK', NEW w \in Workers, NEW p \in BOOLEAN,
         Execute(w, p)
  PROVE  PoolInv'
<1> USE DEF PoolInv
<1>t. PICK t : t = task[w] OBVIOUS
<1>o. PICK o : o = [item |-> t, panicked |-> p] OBVIOUS
<1>0. /\ wpc \in [Workers -> WorkerStates] /\ wpc[w] = "exec"
      /\ wpc' = [wpc EXCEPT ![w] = "count"]
      /\ slots \in [Handles -> [Idx -> Outcome \cup {NoOutcome}]]
      /\ slots' = [slots EXCEPT ![t.h][t.idx] = o]
      /\ queue \in Seq(Task) /\ local \in [Workers -> Seq(Task)]
      /\ UNCHANGED <<queue, local, task, hpc, batch, size, done>>
  BY <1>t, <1>o DEF TypeOK, Execute, WorkerGoto
<1>1. t \in Task /\ Unwritten(t) BY <1>t, <1>0 DEF TasksCurrent
<1>2. /\ t.h \in Handles /\ t.idx \in Idx /\ t.b = batch[t.h]
      /\ t.idx \in 1 .. size[t.h] /\ slots[t.h][t.idx] = NoOutcome
  BY <1>1 DEF Task, Unwritten, Current
<1>3. /\ o \in Outcome /\ o # NoOutcome /\ o.item = t
      /\ t = [h |-> t.h, b |-> t.b, idx |-> t.idx]
  BY <1>1, <1>o, NoOutcomeAssumption DEF Outcome, Task
<1>4. /\ slots'[t.h][t.idx] = o
      /\ \A g \in Handles : \A i \in Idx : g # t.h \/ i # t.idx =>
           slots'[g][i] = slots[g][i]
  BY <1>0, <1>2
<1>5. \A s \in Task : Current(s) => Current(s)'
  BY <1>0 DEF Current, InBarrier
<1>6. \A s \in Task : Unwritten(s) /\ s # t => Unwritten(s)'
  <2> SUFFICES ASSUME NEW s \in Task, Unwritten(s), s # t
               PROVE  Unwritten(s)'
    OBVIOUS
  <2>1. s.h \in Handles /\ s.idx \in Idx /\ s.b = batch[s.h]
    BY DEF Task, Unwritten, Current
  <2>2. s.h # t.h \/ s.idx # t.idx BY <1>1, <1>2, <2>1, TaskExt
  <2>3. slots'[s.h][s.idx] = NoOutcome BY <1>4, <2>1, <2>2 DEF Unwritten
  <2> QED BY <1>5, <2>3 DEF Unwritten
<1>7. TasksCurrent'
  <2>1. (\A i \in 1 .. Len(queue) : Unwritten(queue[i]))'
    <3>1. \A i \in 1 .. Len(queue) :
            queue[i] \in Task /\ Unwritten(queue[i]) /\ queue[i] # t
      BY <1>t, <1>0 DEF TasksCurrent, TasksUnique, Active
    <3> QED BY <1>0, <1>6, <3>1
  <2>2. (\A v \in Workers : \A i \in 1 .. Len(local[v]) : Unwritten(local[v][i]))'
    <3>1. \A v \in Workers : \A i \in 1 .. Len(local[v]) :
            local[v][i] \in Task /\ Unwritten(local[v][i]) /\ local[v][i] # t
      BY <1>t, <1>0 DEF TasksCurrent, TasksUnique, Active
    <3> QED BY <1>0, <1>6, <3>1
  <2>3. (\A v \in Workers : wpc[v] = "exec" =>
           task[v] \in Task /\ Unwritten(task[v]))'
    <3>1. \A v \in Workers : wpc'[v] = "exec" =>
            task[v] \in Task /\ Unwritten(task[v]) /\ task[v] # t
      BY <1>t, <1>0 DEF TasksCurrent, TasksUnique, Active
    <3> QED BY <1>0, <1>6, <3>1
  <2>4. (\A v \in Workers : wpc[v] = "count" =>
           /\ task[v] \in Task
           /\ Current(task[v])
           /\ slots[task[v].h][task[v].idx] # NoOutcome)'
    <3> SUFFICES ASSUME NEW v \in Workers, wpc'[v] = "count", NEW s, s = task[v]
                 PROVE  /\ s \in Task
                        /\ Current(s)'
                        /\ slots'[s.h][s.idx] # NoOutcome
      BY <1>0
    <3>1. CASE v = w
      BY <1>t, <1>1, <1>3, <1>4, <1>5, <3>1 DEF Unwritten
    <3>2. CASE v # w
      <4>1. s \in Task /\ Current(s) /\ slots[s.h][s.idx] # NoOutcome
        BY <1>0, <3>2 DEF TasksCurrent
      <4>2. s.h \in Handles /\ s.idx \in Idx BY <4>1 DEF Task
      <4> QED BY <1>3, <1>4, <1>5, <4>1, <4>2
    <3> QED BY <3>1, <3>2
  <2>5. (\A v \in Workers : wpc[v] = "notify" => task[v] \in Task)'
    BY <1>0 DEF TasksCurrent
  <2> QED BY <2>1, <2>2, <2>3, <2>4, <2>5 DEF TasksCurrent
<1>8. TasksUnique'
  <2>1. \A v \in Workers : Active(v)' <=> Active(v) BY <1>0 DEF Active
  <2> QED BY <1>0, <2>1, UniqueUnchanged
<1>9. SlotsOwned'
  BY <1>0, <1>2, <1>3, <1>4 DEF SlotsOwned
<1>10. DoneExact'
  <2>1. \A g \in Handles : Counted(g)' = Counted(g)
    <3> SUFFICES ASSUME NEW g \in Handles, NEW i \in 1 .. size[g]
                 PROVE  i \in Counted(g)' <=> i \in Counted(g)
      BY <1>0 DEF Counted
    <3>s. size[g] \in 0 .. MaxBatch /\ MaxBatch \in Nat
      BY PoolAssumption DEF TypeOK
    <3>0. i \in Idx BY <3>s DEF Idx
    <3>1. CASE g = t.h /\ i = t.idx
      <4>1. i \notin Counted(g) BY <1>2, <3>1 DEF Counted
      <4>2. i \notin Counted(g)' BY <1>t, <1>0, <3>1 DEF Counted
      <4> QED BY <4>1, <4>2
    <3>2. CASE g # t.h \/ i # t.idx
      <4>1. slots'[g][i] = slots[g][i] BY <1>4, <3>0, <3>2
      <4>2. (\A v \in Workers : wpc[v] = "count" /\ task[v].h = g
                                  => task[v].idx # i)
            <=> (\A v \in Workers : wpc'[v] = "count" /\ task[v].h = g
                                      => task[v].idx # i)
        BY <1>t, <1>0, <3>2
      <4> QED BY <1>0, <4>1, <4>2 DEF Counted
    <3> QED BY <3>1, <3>2
  <2> QED BY <1>0, <2>1 DEF DoneExact, InBarrier
<1>11. PushFresh'
  <2>1. hpc[t.h] # "push" BY <1>1 DEF Unwritten, Current, InBarrier
  <2> QED BY <1>0, <1>2, <2>1 DEF PushFresh
<1>12. CollectDone' BY <1>0 DEF CollectDone
<1> QED BY <1>7, <1>8, <1>9, <1>10, <1>11, <1>12

\* fetch_add: exactly the worker's own slot becomes counted.
LEMMA CountDoneStep ==
  ASSUME PoolInv, TypeOK', NEW w \in Workers, CountDone(w)
  PROVE  PoolInv'
<1> USE DEF PoolInv
<1>t. PICK t : t = task[w] OBVIOUS
<1>0. /\ wpc \in [Workers -> WorkerStates] /\ wpc[w] = "count"
      /\ wpc' = [wpc EXCEPT ![w] = IF done[t.h] + 1 = size[t.h] THEN "notify"
                                                                ELSE "pop"]
      /\ done \in [Handles -> Nat]
      /\ done' = [done EXCEPT ![t.h] = @ + 1]
      /\ queue \in Seq(Task) /\ local \in [Workers -> Seq(Task)]
      /\ UNCHANGED <<queue, local, task, hpc, batch, size, slots>>
  BY <1>t DEF TypeOK, CountDone, WorkerGoto
<1>1. /\ t \in Task /\ Current(t) /\ slots[t.h][t.idx] # NoOutcome
      /\ t.h \in Handles /\ t.idx \in 1 .. size[t.h] /\ t.b = batch[t.h]
  BY <1>t, <1>0 DEF TasksCurrent, Current, Task
<1>2. /\ wpc'[w] \in {"notify", "pop"}
      /\ \A v \in Workers : v # w => wpc'[v] = wpc[v]
  BY <1>0
<1>3. \A s : (Current(s)' <=> Current(s)) /\ (Unwritten(s)' <=> Unwritten(s))
  BY <1>0 DEF Current, Unwritten, InBarrier
<1>4. TasksCurrent' BY <1>t, <1>0, <1>1, <1>2, <1>3 DEF TasksCurrent
<1>5. TasksUnique'
  <2>1. \A v \in Workers : Active(v)' => Active(v) BY <1>2 DEF Active
  <2> QED BY <1>0, <2>1, UniqueUnchanged
<1>6. SlotsOwned' BY <1>0 DEF SlotsOwned
<1>7. \A g \in Handles : g # t.h => Counted(g)' = Counted(g)
  BY <1>t, <1>0, <1>2 DEF Counted
<1>8. Counted(t.h)' = Counted(t.h) \cup {t.idx} /\ t.idx \notin Counted(t.h)
  <2>1. t.idx \notin Counted(t.h) BY <1>t, <1>0 DEF Counted
  <2>2. ASSUME NEW v \in Workers, wpc'[v] = "count", task[v].h = t.h
        PROVE  wpc[v] = "count" /\ task[v].idx # t.idx
    <3>1. v # w /\ wpc[v] = "count" BY <1>2, <2>2
    <3>2. task[v] \in Task /\ task[v].b = batch[t.h] /\ task[v] # t
      BY <1>t, <1>0, <2>2, <3>1 DEF TasksCurrent, Current, TasksUnique, Active
    <3> QED BY <1>1, <2>2, <3>1, <3>2, TaskExt
  <2>3. t.idx \in Counted(t.h)' BY <1>0, <1>1, <2>2 DEF Counted
  <2>4. \A i \in 1 .. size[t.h] : i # t.idx =>
          (i \in Counted(t.h)' <=> i \in Counted(t.h))
    BY <1>t, <1>0, <1>2 DEF Counted
  <2> QED BY <1>0, <1>1, <2>1, <2>3, <2>4 DEF Counted
<1>9. DoneExact'
  <2> SUFFICES ASSUME NEW g \in Handles, InBarrier(g)' \/ hpc'[g] = "push"
               PROVE  done'[g] = Cardinality(Counted(g)')
    BY DEF DoneExact
  <2>1. done[g] = Cardinality(Counted(g)) BY <1>0 DEF DoneExact, InBarrier
  <2>2. CASE g # t.h BY <1>0, <1>7, <2>1, <2>2
  <2>3. CASE g = t.h
    <3>1. size[g] \in Nat BY DEF TypeOK
    <3>2. Counted(g) \subseteq 1 .. size[g] BY DEF Counted
    <3>i. IsFiniteSet(1 .. size[g]) BY <3>1, FS_Interval
    <3>3. IsFiniteSet(Counted(g)) BY <3>2, <3>i, FS_Subset
    <3>4. Cardinality(Counted(g) \cup {t.idx}) = Cardinality(Counted(g)) + 1
      BY <1>8, <2>3, <3>3, FS_AddElement
    <3> QED BY <1>0, <1>1, <1>8, <2>1, <2>3, <3>4
  <2> QED BY <2>2, <2>3
<1>10. PushFresh' BY <1>0 DEF PushFresh
<1>11. CollectDone' BY <1>0, <1>1 DEF CollectDone, TypeOK
<1> QED BY <1>4, <1>5, <1>6, <1>9, <1>10, <1>11


\* notify_one: at most the engine thread of the finished batch moves, from
\* the condvar back to its check.
LEMMA NotifyOneStep ==
  ASSUME PoolInv, TypeOK', NEW w \in Workers, NotifyOne(w)
  PROVE  PoolInv'
<1> USE DEF PoolInv
<1>t. PICK t : t = task[w] OBVIOUS
<1>0. /\ wpc \in [Workers -> WorkerStates] /\ wpc[w] = "notify"
      /\ wpc' = [wpc EXCEPT ![w] = "pop"]
      /\ hpc \in [Handles -> HandleStates]
      /\ \/ hpc' = hpc
         \/ hpc[t.h] = "parked" /\ hpc' = [hpc EXCEPT ![t.h] = "check"]
      /\ queue \in Seq(Task) /\ local \in [Workers -> Seq(Task)]
      /\ UNCHANGED <<queue, local, task, batch, size, done, slots>>
  BY <1>t DEF TypeOK, NotifyOne, WorkerGoto
<1>1. t.h \in Handles BY <1>t, <1>0 DEF TasksCurrent, Task
<1>2. \A g \in Handles :
        /\ InBarrier(g)' <=> InBarrier(g)
        /\ hpc'[g] = "push" <=> hpc[g] = "push"
        /\ hpc'[g] = "collect" <=> hpc[g] = "collect"
  BY <1>0, <1>1 DEF InBarrier
<1>3. \A s \in Task : (Current(s)' <=> Current(s))
                        /\ (Unwritten(s)' <=> Unwritten(s))
  BY <1>0, <1>2 DEF Current, Unwritten, Task
<1>4. \A v \in Workers :
        /\ wpc'[v] = "exec" <=> wpc[v] = "exec"
        /\ wpc'[v] = "count" <=> wpc[v] = "count"
        /\ wpc'[v] = "notify" => wpc[v] = "notify"
  BY <1>0
<1>5. TasksCurrent' BY <1>0, <1>3, <1>4 DEF TasksCurrent
<1>6. TasksUnique' BY <1>0, <1>4, UniqueUnchanged DEF Active
<1>7. SlotsOwned' BY <1>0 DEF SlotsOwned
<1>8. DoneExact'
  <2>1. \A g \in Handles : Counted(g)' = Counted(g) BY <1>0, <1>4 DEF Counted
  <2> QED BY <1>0, <1>2, <2>1 DEF DoneExact
<1>9. PushFresh' BY <1>0, <1>2 DEF PushFresh
<1>10. CollectDone' BY <1>0, <1>2 DEF CollectDone
<1> QED BY <1>5, <1>6, <1>7, <1>8, <1>9, <1>10

\* Stuttering steps.
LEMMA UnchangedStep ==
  ASSUME PoolInv, TypeOK', UNCHANGED vars
  PROVE  PoolInv'
<1> USE DEF PoolInv, vars
<1>1. TasksCurrent' BY DEF TasksCurrent, Unwritten, Current, InBarrier
<1>2. TasksUnique' BY UniqueUnchanged DEF Active
<1> QED BY <1>1, <1>2, TaskMoves

\* The inductive step: every action of Next, and stuttering.
LEMMA NextPoolInv == PoolInv /\ [Next]_vars => PoolInv'
<1> SUFFICES ASSUME PoolInv, [Next]_vars PROVE PoolInv' OBVIOUS
<1>0. TypeOK' BY TypeStep
<1>t. /\ hpc \in [Handles -> HandleStates]
      /\ wpc \in [Workers -> WorkerStates]
      /\ wpc' \in [Workers -> WorkerStates]
  BY <1>0 DEF PoolInv, TypeOK
<1>1. ASSUME NEW h \in Handles, NEW g \in Handles, Clone(h, g) PROVE PoolInv'
  <2>1. /\ ~ InBarrier(g) /\ hpc' = [hpc EXCEPT ![g] = "idle"]
        /\ UNCHANGED <<queue, wpc, local, task, batch, size, done, slots>>
    BY <1>1 DEF Clone, HandleGoto, InBarrier, workerVars
  <2> QED BY <1>0, <1>t, <2>1, HandleMoves DEF HandleStates
<1>2. ASSUME NEW h \in Handles, DropHandle(h) PROVE PoolInv'
  <2>1. /\ ~ InBarrier(h) /\ hpc' = [hpc EXCEPT ![h] = "dropped"]
        /\ UNCHANGED <<queue, wpc, local, task, batch, size, done, slots>>
    BY <1>2 DEF DropHandle, HandleGoto, InBarrier, workerVars
  <2> QED BY <1>0, <1>t, <2>1, HandleMoves DEF HandleStates
<1>3. ASSUME NEW h \in Handles, RunBatchEmpty(h) PROVE PoolInv'
  <2>1. /\ ~ InBarrier(h) /\ hpc' = [hpc EXCEPT ![h] = "idle"]
        /\ UNCHANGED <<queue, wpc, local, task, batch, size, done, slots>>
    BY <1>3, <1>t DEF RunBatchEmpty, InBarrier, workerVars
  <2> QED BY <1>0, <1>t, <2>1, HandleMoves DEF HandleStates
<1>4. ASSUME NEW h \in Handles, NEW n \in 1 .. MaxBatch, RunBatch(h, n)
      PROVE  PoolInv'
  BY <1>0, <1>4, RunBatchStep
<1>5. ASSUME NEW h \in Handles, Push(h) PROVE PoolInv'
  BY <1>0, <1>5, PushStep
<1>6. ASSUME NEW h \in Handles, NotifyAll(h) PROVE PoolInv'
  <2>1. /\ InBarrier(h) /\ hpc' = [hpc EXCEPT ![h] = "spin"]
        /\ UNCHANGED <<queue, local, task, batch, size, done, slots>>
    BY <1>6 DEF NotifyAll, HandleGoto, InBarrier
  <2>2. \A w \in Workers :
          wpc'[w] = wpc[w] \/ (~ Active(w) /\ wpc'[w] = "lock")
    BY <1>6 DEF NotifyAll, Active
  <2> QED BY <1>0, <1>t, <2>1, <2>2, HandleMoves DEF HandleStates
<1>7. ASSUME NEW h \in Handles,
             SpinDone(h) \/ SpinGiveUp(h) \/ CheckDone(h) \/ Park(h)
               \/ SpuriousWakeHandle(h)
      PROVE  PoolInv'
  <2>d. done[h] \in Nat /\ size[h] \in Nat BY DEF PoolInv, TypeOK
  <2>1. PICK to \in {"check", "park", "parked", "collect"} :
          /\ InBarrier(h) /\ hpc' = [hpc EXCEPT ![h] = to]
          /\ to = "collect" => done[h] >= size[h]
    BY <1>7, <2>d DEF SpinDone, SpinGiveUp, CheckDone, Park,
                      SpuriousWakeHandle, HandleGoto, InBarrier
  <2>2. UNCHANGED <<queue, wpc, local, task, batch, size, done, slots>>
    BY <1>7 DEF SpinDone, SpinGiveUp, CheckDone, Park,
                SpuriousWakeHandle, workerVars
  <2> QED BY <1>0, <1>t, <2>1, <2>2, HandleMoves DEF HandleStates
<1>8. ASSUME NEW h \in Handles, Collect(h) PROVE PoolInv'
  BY <1>0, <1>8, CollectStep
<1>9. ASSUME NEW w \in Workers, PopLocal(w) PROVE PoolInv'
  BY <1>0, <1>9, PopLocalStep
<1>10. ASSUME NEW w \in Workers,
              PopEmpty(w) \/ FoundEmpty(w) \/ Sleep(w) \/ SpuriousWakeWorker(w)
       PROVE  PoolInv'
  <2>1. PICK to \in {"lock", "exited", "wait", "asleep"} :
          wpc' = [wpc EXCEPT ![w] = to] /\ ~ Active(w)
    BY <1>10 DEF PopEmpty, FoundEmpty, Sleep, SpuriousWakeWorker, WorkerGoto,
                 Active
  <2>2. UNCHANGED <<queue, local, task, handleVars>>
    BY <1>10 DEF PopEmpty, FoundEmpty, Sleep, SpuriousWakeWorker
  <2> QED BY <1>0, <2>1, <2>2, WorkerMoves DEF WorkerStates
<1>11. ASSUME NEW w \in Workers, Refill(w) PROVE PoolInv'
  BY <1>0, <1>11, RefillStep
<1>12. ASSUME NEW w \in Workers, NEW p \in BOOLEAN, Execute(w, p)
       PROVE  PoolInv'
  BY <1>0, <1>12, ExecuteStep
<1>13. ASSUME NEW w \in Workers, CountDone(w) PROVE PoolInv'
  BY <1>0, <1>13, CountDoneStep
<1>14. ASSUME NEW w \in Workers, NotifyOne(w) PROVE PoolInv'
  BY <1>0, <1>14, NotifyOneStep
<1>15. CASE UNCHANGED vars
  BY <1>15, <1>0, UnchangedStep
<1> QED
  BY <1>1, <1>2, <1>3, <1>4, <1>5, <1>6, <1>7, <1>8, <1>9, <1>10, <1>11,
     <1>12, <1>13, <1>14, <1>15
  DEF Next, HandleStep, WorkerStep

-----------------------------------------------------------------------------
(* The theorems.                                                           *)

\* The worker pool keeps its types: in particular current_chunk is never 0
\* and run_batch only ever returns initialised outcomes.
THEOREM PoolTypeCorrect == Spec => []TypeOK
<1>1. PoolInv => TypeOK BY DEF PoolInv
<1> QED BY <1>1, InitPoolInv, NextPoolInv, PTL DEF Spec

\* The inductive invariant holds throughout.
THEOREM PoolInvariant == Spec => []PoolInv
BY InitPoolInv, NextPoolInv, PTL DEF Spec

\* The safety argument of the unsafe block in run_batch: when the engine
\* thread reads the slots, every slot holds the outcome of its own item and
\* no worker can write one any more, however many handles share the pool.
THEOREM PoolBarrierSafe == Spec => []BarrierSafe
<1>1. PoolInv => BarrierSafe
  <2> SUFFICES ASSUME PoolInv, NEW h \in Handles, hpc[h] = "collect"
               PROVE  /\ \A i \in 1 .. size[h] :
                           /\ slots[h][i] # NoOutcome
                           /\ slots[h][i].item
                                = [h |-> h, b |-> batch[h], idx |-> i]
                      /\ Outstanding(h) = {}
    BY DEF BarrierSafe
  <2>1. InBarrier(h) /\ done[h] >= size[h]
    BY DEF InBarrier, PoolInv, CollectDone
  <2>2. size[h] \in 0 .. MaxBatch /\ MaxBatch \in Nat
    BY PoolAssumption DEF PoolInv, TypeOK
  <2>3. \A i \in 1 .. size[h] : i \in Idx BY <2>2 DEF Idx
  <2>4. \A i \in 1 .. size[h] : slots[h][i] # NoOutcome BY <2>1, NothingLeft
  <2>5. Outstanding(h) = {}
    <3> SUFFICES ASSUME NEW x \in Outstanding(h) PROVE FALSE OBVIOUS
    <3>0. x.h = h BY DEF Outstanding
    <3>1. CASE x \in SeqRange(queue)
      BY <2>1, <3>0, <3>1, NothingLeft DEF SeqRange
    <3>2. CASE \E w \in Workers : x \in SeqRange(local[w])
      BY <2>1, <3>0, <3>2, NothingLeft DEF SeqRange
    <3>3. CASE \E w \in Workers : Active(w) /\ x = task[w]
      BY <2>1, <3>0, <3>3, NothingLeft
    <3>4. \/ x \in SeqRange(queue)
          \/ x \in UNION {SeqRange(local[w]) : w \in Workers}
          \/ x \in {task[w] : w \in {v \in Workers : Active(v)}}
      BY DEF Outstanding
    <3>5. x \in UNION {SeqRange(local[w]) : w \in Workers} =>
            \E w \in Workers : x \in SeqRange(local[w])
      OBVIOUS
    <3>6. x \in {task[w] : w \in {v \in Workers : Active(v)}} =>
            \E w \in Workers : Active(w) /\ x = task[w]
      OBVIOUS
    <3> QED BY <3>1, <3>2, <3>3, <3>4, <3>5, <3>6
  <2> QED BY <2>3, <2>4, <2>5 DEF PoolInv, SlotsOwned
<1> QED BY <1>1, PoolInvariant, PTL

-----------------------------------------------------------------------------
(* No lost wake-up on the queue.                                           *)

\* While a handle is being dropped, that handle and every worker hold the
\* Arc: the count Drop compares with 1 is at least 2.
LEMMA StrongCountAboveOne ==
  ASSUME TypeOK, NobodyStops, NEW h \in Handles, hpc[h] = "idle"
  PROVE  StrongCount # 1
<1> DEFINE H == {g \in Handles : hpc[g] \notin {"none", "dropped"}}
           W == {w \in Workers : wpc[w] # "exited"}
<1>1. W = Workers BY DEF NobodyStops
<1>2. IsFiniteSet(H) /\ H # {}
  <2>1. H \subseteq Handles /\ h \in H OBVIOUS
  <2> QED BY <2>1, PoolAssumption, FS_Subset
<1>3. Cardinality(H) \in Nat /\ Cardinality(H) # 0
  BY <1>2, FS_CardinalityType, FS_EmptySet
<1>4. Cardinality(W) \in Nat /\ Cardinality(W) # 0
  BY <1>1, PoolAssumption, FS_CardinalityType, FS_EmptySet
<1>5. StrongCount = Cardinality(H) + Cardinality(W) BY DEF StrongCount
<1> HIDE DEF H, W
<1> QED BY <1>3, <1>4, <1>5

LEMMA InitWakeInv == Init => WakeInv
BY PoolAssumption
DEF Init, WakeInv, NobodyStops, WaitHoldsLock, WorkHasTaker

\* The step: pushes, notifications, refills and sleeps are the actions that
\* could strand a task.
LEMMA NextWakeInv == TypeOK /\ WakeInv /\ [Next]_vars => WakeInv'
<1> SUFFICES ASSUME TypeOK, WakeInv, [Next]_vars PROVE WakeInv' OBVIOUS
<1>t. /\ wpc \in [Workers -> WorkerStates] /\ hpc \in [Handles -> HandleStates]
      /\ Nobody \notin Workers /\ Workers # {}
  BY PoolAssumption DEF TypeOK
<1> USE <1>t DEF WakeInv, NobodyStops, WaitHoldsLock, WorkHasTaker
<1>1. ASSUME NEW h \in Handles,
             (\E g \in Handles : Clone(h, g)) \/ RunBatchEmpty(h)
               \/ (\E n \in 1 .. MaxBatch : RunBatch(h, n))
               \/ SpinDone(h) \/ SpinGiveUp(h) \/ CheckDone(h) \/ Park(h)
               \/ SpuriousWakeHandle(h) \/ Collect(h)
      PROVE  WakeInv'
  <2>1. UNCHANGED <<queue, qlock, shutdown, wpc>>
    BY <1>1 DEF Clone, RunBatchEmpty, RunBatch, SpinDone, SpinGiveUp,
                CheckDone, Park, SpuriousWakeHandle, Collect, workerVars
  <2>2. \A g \in Handles : hpc[g] = "notify" => hpc'[g] = "notify"
    BY <1>1 DEF Clone, RunBatchEmpty, RunBatch, SpinDone, SpinGiveUp,
                CheckDone, Park, SpuriousWakeHandle, Collect, HandleGoto
  <2> QED BY <2>1, <2>2
<1>2. ASSUME NEW h \in Handles, DropHandle(h) PROVE WakeInv'
  <2>1. StrongCount # 1 BY <1>2, StrongCountAboveOne DEF DropHandle, HandleGoto
  <2>2. shutdown' = FALSE BY <1>2, <2>1 DEF DropHandle
  <2>3. UNCHANGED <<queue, qlock, wpc>> BY <1>2 DEF DropHandle, workerVars
  <2>4. \A g \in Handles : hpc[g] = "notify" => hpc'[g] = "notify"
    BY <1>2 DEF DropHandle, HandleGoto
  <2> QED BY <2>2, <2>3, <2>4
<1>3. ASSUME NEW h \in Handles, Push(h) PROVE WakeInv'
  <2>1. hpc'[h] = "notify" BY <1>3 DEF Push, HandleGoto
  <2>2. qlock' = Nobody /\ qlock = Nobody /\ UNCHANGED <<shutdown, wpc>>
    BY <1>3 DEF Push, workerVars
  <2> QED BY <2>1, <2>2
<1>4. ASSUME NEW h \in Handles, NotifyAll(h) PROVE WakeInv'
  <2>1. /\ UNCHANGED <<queue, qlock, shutdown>>
        /\ wpc' = [w \in Workers |-> IF wpc[w] = "asleep" THEN "lock"
                                                          ELSE wpc[w]]
    BY <1>4 DEF NotifyAll
  <2>2. \A w \in Workers : /\ wpc'[w] # "asleep"
                           /\ wpc'[w] = "wait" => wpc[w] = "wait"
                           /\ wpc'[w] # "exited"
    BY <2>1
  <2>3. WorkHasTaker'
    <3> SUFFICES ASSUME queue # << >>
                 PROVE  \E w \in Workers : wpc'[w] \notin {"asleep", "wait"}
      BY <2>1
    <3>1. \A w \in Workers : wpc[w] # "wait" OBVIOUS
    <3> QED BY <2>2, <3>1
  <2> QED BY <2>1, <2>2, <2>3
<1>5. ASSUME NEW w \in Workers,
             PopLocal(w) \/ PopEmpty(w) \/ SpuriousWakeWorker(w)
               \/ (\E p \in BOOLEAN : Execute(w, p)) \/ CountDone(w)
      PROVE  WakeInv'
  <2>1. UNCHANGED <<queue, qlock, shutdown, hpc>>
    BY <1>5 DEF PopLocal, PopEmpty, SpuriousWakeWorker, Execute, CountDone,
                handleVars
  <2>2. PICK to \in {"exec", "lock", "count", "notify", "pop"} :
          wpc' = [wpc EXCEPT ![w] = to]
    BY <1>5 DEF PopLocal, PopEmpty, SpuriousWakeWorker, Execute, CountDone,
                WorkerGoto
  <2>3. wpc'[w] = to /\ \A v \in Workers : v # w => wpc'[v] = wpc[v]
    BY <2>2
  <2> QED BY <2>1, <2>2, <2>3
<1>6. ASSUME NEW w \in Workers, Refill(w) PROVE WakeInv'
  <2>1. /\ UNCHANGED <<qlock, shutdown, hpc>> /\ qlock = Nobody
        /\ wpc' = [wpc EXCEPT ![w] = "exec"]
    BY <1>6 DEF Refill, WorkerGoto, handleVars
  <2>2. wpc'[w] = "exec" /\ \A v \in Workers : v # w => wpc'[v] = wpc[v]
    BY <2>1
  <2> QED BY <2>1, <2>2
<1>7. ASSUME NEW w \in Workers, FoundEmpty(w) PROVE WakeInv'
  <2>1. /\ UNCHANGED <<queue, shutdown, hpc>> /\ qlock = Nobody
        /\ queue = << >> /\ qlock' = w
        /\ wpc' = [wpc EXCEPT ![w] = "wait"]
    BY <1>7 DEF FoundEmpty, WorkerGoto, handleVars
  <2> QED BY <2>1
<1>8. ASSUME NEW w \in Workers, Sleep(w) PROVE WakeInv'
  <2>1. /\ UNCHANGED <<queue, shutdown, hpc>> /\ qlock' = Nobody
        /\ wpc[w] = "wait" /\ wpc' = [wpc EXCEPT ![w] = "asleep"]
    BY <1>8 DEF Sleep, WorkerGoto, handleVars
  <2>2. qlock = w /\ queue = << >> BY <2>1
  <2>3. \A v \in Workers : wpc'[v] # "wait" BY <2>1, <2>2
  <2> QED BY <2>1, <2>2, <2>3
<1>9. ASSUME NEW w \in Workers, NotifyOne(w) PROVE WakeInv'
  <2>1. /\ UNCHANGED <<queue, qlock, shutdown>>
        /\ wpc' = [wpc EXCEPT ![w] = "pop"]
    BY <1>9 DEF NotifyOne, WorkerGoto
  <2>2. wpc'[w] = "pop" /\ \A v \in Workers : v # w => wpc'[v] = wpc[v]
    BY <2>1
  <2> QED BY <2>1, <2>2
<1>10. CASE UNCHANGED vars BY <1>10 DEF vars
<1> QED
  BY <1>1, <1>2, <1>3, <1>4, <1>5, <1>6, <1>7, <1>8, <1>9, <1>10
  DEF Next, HandleStep, WorkerStep

\* Tasks are never left in the queue with every worker asleep and no
\* notify_all still to come, whatever wake-ups are spurious.
THEOREM PoolNoStrandedWork == Spec => []NoStrandedWork
<1>1. WakeInv => NoStrandedWork
  BY DEF WakeInv, NobodyStops, WorkHasTaker, NoStrandedWork
<1> QED BY <1>1, InitWakeInv, NextWakeInv, PoolTypeCorrect, PTL DEF Spec

\* No sequence of clones and drops ever shuts the pool down: dropping the
\* last handle leaves every worker thread running.
THEOREM PoolNeverStops == Spec => []NobodyStops
<1>1. WakeInv => NobodyStops BY DEF WakeInv
<1> QED BY <1>1, InitWakeInv, NextWakeInv, PoolTypeCorrect, PTL DEF Spec

-----------------------------------------------------------------------------
(* No worker hoards a batch.                                               *)

\* The share of a batch is a natural number, and positive unless the batch
\* is empty.
LEMMA ShareNat ==
  ASSUME NEW n \in Nat
  PROVE  FairShare(n) \in Nat /\ (n >= 1 => FairShare(n) >= 1)
<1> DEFINE c == Cardinality(Workers)
<1>1. c \in Nat \ {0}
  BY PoolAssumption, FS_CardinalityType, FS_EmptySet
<1> HIDE DEF c
<1>2. /\ (n + c - 1) \div c \in Nat
      /\ n >= 1 => (n + c - 1) \div c >= 1
  BY <1>1, SMT
<1> QED BY <1>2 DEF c, FairShare, CeilDiv

\* A sequence has at most as many different elements as places.
LEMMA RangeBound ==
  ASSUME NEW s \in Seq(Task)
  PROVE  IsFiniteSet(SeqRange(s)) /\ Cardinality(SeqRange(s)) <= Len(s)
<1> DEFINE f == [i \in 1 .. Len(s) |-> s[i]]
<1>1. Len(s) \in Nat OBVIOUS
<1>2. IsFiniteSet(1 .. Len(s)) /\ Cardinality(1 .. Len(s)) = Len(s)
  BY <1>1, FS_Interval
<1>3. f \in Surjection(1 .. Len(s), SeqRange(s))
  BY DEF Surjection, SeqRange
<1> HIDE DEF f
<1> QED BY <1>2, <1>3, FS_Surjection

\* The load of a worker is a number.
LEMMA LoadNat ==
  ASSUME TypeOK, NEW w \in Workers
  PROVE  Load(w) \in Nat
<1>1. local[w] \in Seq(Task) BY DEF TypeOK
<1>2. Len(local[w]) \in Nat BY <1>1
<1>3. CASE Active(w)
  <2>1. Load(w) = Len(local[w]) + 1 BY <1>3 DEF Load
  <2> QED BY <1>2, <2>1
<1>4. CASE ~Active(w)
  <2>1. Load(w) = Len(local[w]) + 0 BY <1>4 DEF Load
  <2> QED BY <1>2, <2>1
<1> QED BY <1>3, <1>4

\* What a worker has taken of a batch is at most its load.
LEMMA HeldWithinLoad ==
  ASSUME TypeOK, NEW w \in Workers, NEW h \in Handles
  PROVE  Cardinality(HeldBy(w, h)) <= Load(w)
<1> DEFINE R == SeqRange(local[w])
           A == IF Active(w) THEN R \cup {task[w]} ELSE R
<1>1. local[w] \in Seq(Task) /\ Len(local[w]) \in Nat BY DEF TypeOK
<1>2. IsFiniteSet(R) /\ Cardinality(R) <= Len(local[w])
  BY <1>1, RangeBound
<1>3. Cardinality(R) \in Nat BY <1>2, FS_CardinalityType
<1>4. IsFiniteSet(A) /\ Cardinality(A) <= Load(w)
  <2> HIDE DEF R
  <2>1. CASE Active(w)
    <3>1. /\ IsFiniteSet(R \cup {task[w]})
          /\ Cardinality(R \cup {task[w]}) =
               IF task[w] \in R THEN Cardinality(R) ELSE Cardinality(R) + 1
      BY <1>2, FS_AddElement
    <3>2. Load(w) = Len(local[w]) + 1 BY <2>1 DEF Load
    <3> QED BY <1>1, <1>2, <1>3, <2>1, <3>1, <3>2
  <2>2. CASE ~Active(w)
    BY <1>1, <1>2, <2>2 DEF Load
  <2> QED BY <2>1, <2>2
<1>5. HeldBy(w, h) \in SUBSET A
  BY DEF HeldBy
<1> HIDE DEF A, R
<1>6. /\ IsFiniteSet(HeldBy(w, h))
      /\ Cardinality(HeldBy(w, h)) <= Cardinality(A)
  BY <1>4, <1>5, FS_Subset, Zenon
<1>7. Cardinality(HeldBy(w, h)) \in Nat /\ Cardinality(A) \in Nat
  BY <1>4, <1>6, FS_CardinalityType
<1>8. Load(w) \in Nat BY LoadNat
<1> QED BY <1>4, <1>6, <1>7, <1>8

LEMMA InitShareInv == Init => ShareInv
<1> SUFFICES ASSUME Init PROVE ShareInv OBVIOUS
<1>1. ChunkWithinShare BY DEF Init, ChunkWithinShare, InBarrier
<1>2. RefillsEmptyRing BY DEF Init, RefillsEmptyRing
<1>3. LoadWithinShare
  <2>1. size[Owner] = 0 BY PoolAssumption DEF Init
  <2>2. FairShare(size[Owner]) \in Nat BY <2>1, ShareNat
  <2>3. \A w \in Workers : Load(w) = 0 BY DEF Init, Load, Active
  <2> QED BY <2>2, <2>3 DEF LoadWithinShare
<1> QED BY <1>1, <1>2, <1>3 DEF ShareInv

\* The steps of the only engine thread.
LEMMA ShareHandle ==
  ASSUME Handles = {Owner}, PoolInv, ShareInv, HandleStep(Owner)
  PROVE  ShareInv'
<1> DEFINE h == Owner
<1>t. /\ h \in Handles
      /\ hpc \in [Handles -> HandleStates] /\ wpc \in [Workers -> WorkerStates]
      /\ size \in [Handles -> 0 .. MaxBatch] /\ size[h] \in Nat
      /\ local \in [Workers -> Seq(Task)]
      /\ \A w \in Workers : Len(local[w]) \in Nat
  BY PoolAssumption DEF PoolInv, TypeOK
<1> HIDE DEF h
<1>1. ASSUME NEW n \in 1 .. MaxBatch, RunBatch(h, n) PROVE ShareInv'
  <2>0. /\ hpc[h] = "idle" /\ size'[h] = n /\ n \in Nat /\ n >= 1
        /\ UNCHANGED <<wpc, local, task>>
        /\ \E base \in ChunkBases : chunk' = ChunkEff(n, base)
    BY <1>1, <1>t, PoolAssumption DEF RunBatch, HandleGoto, workerVars
  <2>1. FairShare(n) \in Nat /\ FairShare(n) >= 1 BY <2>0, ShareNat
  <2>2. \A t : t \in Task => ~Current(t)
    <3>1. \A t \in Task : t.h = h BY <1>t DEF Task, h
    <3> QED BY <2>0, <3>1 DEF Current, InBarrier
  <2>3. \A w \in Workers : Load(w) = 0
    <3> SUFFICES ASSUME NEW w \in Workers PROVE Load(w) = 0 OBVIOUS
    <3>1. ~Active(w)
      BY <2>2 DEF Active, PoolInv, TasksCurrent, Unwritten
    <3>2. \A i \in 1 .. Len(local[w]) : Unwritten(local[w][i])
      BY DEF PoolInv, TasksCurrent
    <3>3. Len(local[w]) = 0
      <4> SUFFICES ASSUME Len(local[w]) # 0 PROVE FALSE OBVIOUS
      <4>1. 1 \in 1 .. Len(local[w]) /\ local[w][1] \in Task BY <1>t
      <4> QED BY <2>2, <3>2, <4>1 DEF Unwritten
    <3> QED BY <3>1, <3>3 DEF Load
  <2>4. \A w \in Workers : Load(w)' = 0
    BY <2>0, <2>3 DEF Load, Active
  <2>5. chunk' <= FairShare(n)
    <3>1. PICK base \in ChunkBases : chunk' = ChunkEff(n, base) BY <2>0
    <3>2. base \in Nat BY PoolAssumption
    <3> QED BY <2>1, <3>1, <3>2 DEF ChunkEff, Least, AtLeastOne
  <2>6. ChunkWithinShare' BY <1>t, <2>0, <2>5 DEF ChunkWithinShare, h
  <2>7. RefillsEmptyRing' BY <2>0 DEF ShareInv, RefillsEmptyRing
  <2>8. LoadWithinShare' BY <2>0, <2>1, <2>4 DEF LoadWithinShare, h
  <2> QED BY <2>6, <2>7, <2>8 DEF ShareInv
<1>2. ASSUME UNCHANGED <<chunk, size, local>>,
             InBarrier(h)' => InBarrier(h) \/ hpc[h] = "push",
             hpc'[h] = "push" => hpc[h] = "push",
             \A w \in Workers : \/ wpc'[w] = wpc[w]
                                \/ wpc[w] = "asleep" /\ wpc'[w] = "lock"
      PROVE  ShareInv'
  <2>1. ChunkWithinShare' BY <1>2, <1>t DEF ShareInv, ChunkWithinShare, h
  <2>2. RefillsEmptyRing' BY <1>2 DEF ShareInv, RefillsEmptyRing
  <2>3. \A w \in Workers : Load(w)' = Load(w) BY <1>2 DEF Load, Active
  <2>4. LoadWithinShare' BY <1>2, <2>3 DEF ShareInv, LoadWithinShare
  <2> QED BY <2>1, <2>2, <2>4 DEF ShareInv
<1>3. CASE Push(h)
  BY <1>2, <1>3, <1>t DEF Push, HandleGoto, workerVars, InBarrier
<1>4. CASE NotifyAll(h)
  BY <1>2, <1>4, <1>t DEF NotifyAll, HandleGoto, InBarrier
<1>5. CASE \/ SpinDone(h) \/ SpinGiveUp(h) \/ CheckDone(h) \/ Park(h)
           \/ SpuriousWakeHandle(h) \/ Collect(h)
  BY <1>2, <1>5, <1>t DEF SpinDone, SpinGiveUp, CheckDone, Park,
     SpuriousWakeHandle, Collect, HandleGoto, workerVars, InBarrier
<1>6. CASE RunBatchEmpty(h) \/ DropHandle(h)
  BY <1>2, <1>6, <1>t DEF RunBatchEmpty, DropHandle, HandleGoto, workerVars,
     InBarrier
<1>7. ASSUME NEW new \in Handles, Clone(h, new) PROVE ShareInv'
  BY <1>2, <1>7, <1>t DEF Clone, HandleGoto, workerVars, InBarrier, h
<1> QED BY <1>1, <1>3, <1>4, <1>5, <1>6, <1>7 DEF HandleStep, h

\* The steps of a worker: only Refill adds to its load, from an empty ring
\* and by at most the chunk.
LEMMA ShareWorker ==
  ASSUME Handles = {Owner}, PoolInv, ShareInv, NEW w \in Workers, WorkerStep(w)
  PROVE  ShareInv'
<1>t. /\ Owner \in Handles
      /\ hpc \in [Handles -> HandleStates] /\ wpc \in [Workers -> WorkerStates]
      /\ size[Owner] \in Nat /\ chunk \in Nat \ {0}
      /\ local \in [Workers -> Seq(Task)] /\ queue \in Seq(Task)
      /\ \A v \in Workers : Len(local[v]) \in Nat
  BY PoolAssumption DEF PoolInv, TypeOK
<1>f. FairShare(size[Owner]) \in Nat BY <1>t, ShareNat
<1>1. ASSUME UNCHANGED <<chunk, size>>,
             \A g \in Handles :
               InBarrier(g)' \/ hpc'[g] = "push" => InBarrier(g) \/ hpc[g] = "push",
             \A v \in Workers \ {w} : wpc'[v] = wpc[v] /\ local'[v] = local[v],
             wpc'[w] \notin {"pop", "exec", "count", "notify"} => local'[w] = << >>,
             Load(w)' <= FairShare(size[Owner])
      PROVE  ShareInv'
  <2>1. ChunkWithinShare' BY <1>1 DEF ShareInv, ChunkWithinShare
  <2>2. RefillsEmptyRing' BY <1>1 DEF ShareInv, RefillsEmptyRing
  <2>3. \A v \in Workers \ {w} : Load(v)' = Load(v) BY <1>1 DEF Load, Active
  <2>4. LoadWithinShare' BY <1>1, <2>3 DEF ShareInv, LoadWithinShare
  <2> QED BY <2>1, <2>2, <2>4 DEF ShareInv
<1>2. Load(w) <= FairShare(size[Owner]) /\ Load(w) \in Nat
  BY <1>t DEF ShareInv, LoadWithinShare, Load
<1>3. CASE PopLocal(w)
  <2>1. /\ UNCHANGED <<chunk, size, hpc>> /\ wpc[w] = "pop" /\ wpc'[w] = "exec"
        /\ local[w] # << >> /\ local'[w] = Tail(local[w])
        /\ \A v \in Workers \ {w} : wpc'[v] = wpc[v] /\ local'[v] = local[v]
    BY <1>3, <1>t DEF PopLocal, WorkerGoto, handleVars
  <2>2. Len(local'[w]) = Len(local[w]) - 1 BY <1>t, <2>1
  <2>3. Load(w)' = Load(w) BY <1>t, <2>1, <2>2 DEF Load, Active
  <2> QED BY <1>1, <1>2, <2>1, <2>3 DEF InBarrier
<1>4. CASE Refill(w)
  <2>1. PICK k : k = Least(AtLeastOne(chunk), Len(queue)) OBVIOUS
  <2>2. /\ UNCHANGED <<chunk, size, hpc>> /\ wpc[w] = "lock" /\ wpc'[w] = "exec"
        /\ queue # << >> /\ local'[w] = SubSeq(queue, 2, k)
        /\ \A v \in Workers \ {w} : wpc'[v] = wpc[v] /\ local'[v] = local[v]
    BY <1>4, <1>t, <2>1 DEF Refill, WorkerGoto, handleVars
  <2>3. k \in 1 .. Len(queue) /\ Len(local'[w]) = k - 1
    <3>1. TypeOK BY DEF PoolInv
    <3> QED BY <2>1, <2>2, <3>1, DrainFacts
  <2>4. Load(w)' = k BY <2>2, <2>3, <1>t DEF Load, Active
  <2>5. InBarrier(Owner)
    <3>1. 1 \in 1 .. Len(queue) /\ queue[1] \in Task BY <1>t, <2>2
    <3>2. Unwritten(queue[1]) BY <3>1 DEF PoolInv, TasksCurrent
    <3>3. queue[1].h = Owner BY <3>1 DEF Task
    <3> QED BY <3>2, <3>3 DEF Unwritten, Current
  <2>6. chunk <= FairShare(size[Owner])
    BY <1>t, <2>5 DEF ShareInv, ChunkWithinShare
  <2>7. k <= chunk BY <1>t, <2>1 DEF Least, AtLeastOne
  <2>8. Load(w)' <= FairShare(size[Owner])
    BY <1>t, <1>f, <2>3, <2>4, <2>6, <2>7
  <2> QED BY <1>1, <2>2, <2>8 DEF InBarrier
<1>5. ASSUME \E p \in BOOLEAN : Execute(w, p) PROVE ShareInv'
  <2>1. /\ UNCHANGED <<chunk, size, hpc, local>>
        /\ wpc[w] = "exec" /\ wpc'[w] = "count"
        /\ \A v \in Workers \ {w} : wpc'[v] = wpc[v]
    BY <1>5, <1>t DEF Execute, WorkerGoto
  <2>2. Load(w)' = Load(w) BY <2>1 DEF Load, Active
  <2> QED BY <1>1, <1>2, <2>1, <2>2 DEF InBarrier
<1>6. ASSUME CountDone(w) \/ NotifyOne(w) PROVE ShareInv'
  <2>1. /\ UNCHANGED <<chunk, size, local>>
        /\ wpc[w] \in {"count", "notify"} /\ wpc'[w] \in {"notify", "pop"}
        /\ \A v \in Workers \ {w} : wpc'[v] = wpc[v]
    BY <1>6, <1>t DEF CountDone, NotifyOne, WorkerGoto
  <2>2. \A g \in Handles :
          InBarrier(g)' \/ hpc'[g] = "push" => InBarrier(g) \/ hpc[g] = "push"
    BY <1>6, <1>t DEF CountDone, NotifyOne, InBarrier
  <2>3. Load(w)' <= Load(w) /\ Load(w)' \in Nat
    BY <2>1, <1>t DEF Load, Active
  <2>4. Load(w)' <= FairShare(size[Owner]) BY <1>2, <1>f, <2>3
  <2> QED BY <1>1, <2>1, <2>2, <2>4
<1>7. ASSUME PopEmpty(w) \/ FoundEmpty(w) \/ Sleep(w) \/ SpuriousWakeWorker(w)
      PROVE  ShareInv'
  <2>1. /\ UNCHANGED <<chunk, size, hpc, local>>
        /\ wpc[w] \in {"pop", "lock", "wait", "asleep"}
        /\ wpc'[w] \in {"lock", "wait", "asleep", "exited"}
        /\ \A v \in Workers \ {w} : wpc'[v] = wpc[v]
        /\ wpc[w] = "pop" => local[w] = << >>
    BY <1>7, <1>t DEF PopEmpty, FoundEmpty, Sleep, SpuriousWakeWorker,
                      WorkerGoto, handleVars
  <2>2. local[w] = << >> BY <2>1 DEF ShareInv, RefillsEmptyRing
  <2>3. Load(w)' = Load(w) BY <2>1 DEF Load, Active
  <2> QED BY <1>1, <1>2, <2>1, <2>2, <2>3 DEF InBarrier
<1> QED BY <1>3, <1>4, <1>5, <1>6, <1>7 DEF WorkerStep

\* The documented purpose of the cap on the chunk: in a pool with one handle
\* no worker ever holds more than ceil(batch_size / workers) items, for any
\* numbers of workers and items and any chunk_base.
THEOREM PoolNoHoarding ==
  ASSUME Handles = {Owner}
  PROVE  Spec => []NoHoarding
<1>1. ASSUME PoolInv, ShareInv, [Next]_vars PROVE ShareInv'
  <2>1. CASE UNCHANGED vars
    <3>1. UNCHANGED <<chunk, wpc, local, hpc, size>> BY <2>1 DEF vars
    <3> QED BY <1>1, <3>1 DEF ShareInv, ChunkWithinShare, RefillsEmptyRing,
              LoadWithinShare, Load, Active, InBarrier
  <2> QED BY <1>1, <2>1, ShareHandle, ShareWorker DEF Next
<1>2. ASSUME PoolInv, ShareInv PROVE NoHoarding
  <2> SUFFICES ASSUME NEW w \in Workers, NEW h \in Handles
               PROVE  Cardinality(HeldBy(w, h)) <= FairShare(size[h])
    BY DEF NoHoarding
  <2>1. Cardinality(HeldBy(w, h)) <= Load(w)
    BY <1>2, HeldWithinLoad DEF PoolInv
  <2>2. h = Owner /\ size[h] \in Nat /\ Len(local[w]) \in Nat
    BY <1>2 DEF PoolInv, TypeOK
  <2>3. Load(w) <= FairShare(size[h])
    BY <1>2, <2>2 DEF ShareInv, LoadWithinShare
  <2>4. FairShare(size[h]) \in Nat /\ Load(w) \in Nat
    BY <1>2, <2>2, ShareNat, LoadNat DEF PoolInv
  <2>5. Cardinality(HeldBy(w, h)) \in Int
    <3>1. HeldBy(w, h) \in SUBSET (SeqRange(local[w]) \cup {task[w]})
      BY DEF HeldBy
    <3>2. local[w] \in Seq(Task) BY <1>2 DEF PoolInv, TypeOK
    <3>3. IsFiniteSet(SeqRange(local[w]) \cup {task[w]})
      BY <3>2, RangeBound, FS_AddElement
    <3>4. IsFiniteSet(HeldBy(w, h)) BY <3>1, <3>3, FS_Subset, Zenon
    <3> QED BY <3>4, FS_CardinalityType
  <2> QED BY <2>1, <2>3, <2>4, <2>5
<1> QED BY <1>1, <1>2, InitShareInv, PoolInvariant, PTL DEF Spec

-----------------------------------------------------------------------------
(* The pool implements the executor contract.                              *)

LEMMA InitBarrier == Init => Barrier!Init
BY DEF Init, Barrier!Init, Uninit, Idx

\* Steps that no caller can see: they change neither whether a handle is in
\* run_batch nor what it got.
LEMMA Invisible ==
  ASSUME UNCHANGED <<batch, size, slots, out>>,
         hpc \in [Handles -> HandleStates],
         \/ UNCHANGED hpc
         \/ \E h \in Handles : \E to \in HandleStates :
              /\ hpc' = [hpc EXCEPT ![h] = to]
              /\ {hpc[h], to} \cap {"none", "idle", "dropped"} = {}
  PROVE  UNCHANGED Barrier!vars
BY DEF Barrier!vars

\* Every step of the pool is a step of the contract or invisible.
LEMMA StepBarrier == PoolInv /\ [Next]_vars => [Barrier!Next]_(Barrier!vars)
<1> SUFFICES ASSUME PoolInv, [Next]_vars
             PROVE  Barrier!Next \/ UNCHANGED Barrier!vars
  OBVIOUS
<1>t. /\ hpc \in [Handles -> HandleStates]
      /\ slots \in [Handles -> [Idx -> Outcome \cup {NoOutcome}]]
  BY DEF PoolInv, TypeOK
<1>1. ASSUME NEW h \in Handles, NEW g \in Handles, Clone(h, g)
      PROVE  Barrier!Next
  <2>1. Barrier!Acquire(g) BY <1>1, <1>t DEF Clone, HandleGoto, Barrier!Acquire
  <2> QED BY <2>1 DEF Barrier!Next
<1>2. ASSUME NEW h \in Handles, DropHandle(h) PROVE Barrier!Next
  <2>1. Barrier!Release(h)
    BY <1>2, <1>t DEF DropHandle, HandleGoto, Barrier!Release
  <2> QED BY <2>1 DEF Barrier!Next
<1>3. ASSUME NEW h \in Handles, RunBatchEmpty(h) PROVE Barrier!Next
  <2>1. Barrier!SubmitNothing(h)
    BY <1>3, <1>t DEF RunBatchEmpty, Barrier!SubmitNothing
  <2> QED BY <2>1 DEF Barrier!Next
<1>4. ASSUME NEW h \in Handles, NEW n \in 1 .. MaxBatch, RunBatch(h, n)
      PROVE  Barrier!Next
  <2>1. Barrier!Submit(h, n)
    BY <1>4, <1>t DEF RunBatch, HandleGoto, Barrier!Submit, Uninit, Idx
  <2> QED BY <2>1 DEF Barrier!Next
<1>5. ASSUME NEW h \in Handles,
             Push(h) \/ NotifyAll(h) \/ SpinDone(h) \/ SpinGiveUp(h)
               \/ CheckDone(h) \/ Park(h) \/ SpuriousWakeHandle(h)
      PROVE  UNCHANGED Barrier!vars
  <2>1. UNCHANGED <<batch, size, slots, out>>
    BY <1>5 DEF Push, NotifyAll, SpinDone, SpinGiveUp, CheckDone, Park,
                SpuriousWakeHandle
  <2>2. \E to \in HandleStates :
          /\ hpc' = [hpc EXCEPT ![h] = to]
          /\ {hpc[h], to} \cap {"none", "idle", "dropped"} = {}
    BY <1>5 DEF Push, NotifyAll, SpinDone, SpinGiveUp, CheckDone, Park,
                SpuriousWakeHandle, HandleGoto, HandleStates
  <2> QED BY <1>t, <2>1, <2>2, Invisible
<1>6. ASSUME NEW h \in Handles, Collect(h) PROVE Barrier!Next
  <2>1. InBarrier(h) /\ done[h] >= size[h]
    BY <1>6 DEF Collect, HandleGoto, InBarrier, PoolInv, CollectDone
  <2>2. \A i \in 1 .. size[h] : slots[h][i] # NoOutcome BY <2>1, NothingLeft
  <2>3. Barrier!Return(h)
    BY <1>6, <1>t, <2>2 DEF Collect, HandleGoto, Barrier!Return
  <2> QED BY <2>3 DEF Barrier!Next
<1>7. ASSUME NEW w \in Workers,
             PopLocal(w) \/ PopEmpty(w) \/ Refill(w) \/ FoundEmpty(w)
               \/ Sleep(w) \/ SpuriousWakeWorker(w) \/ CountDone(w)
      PROVE  UNCHANGED Barrier!vars
  <2>1. UNCHANGED <<hpc, batch, size, slots, out>>
    BY <1>7 DEF PopLocal, PopEmpty, Refill, FoundEmpty, Sleep,
                SpuriousWakeWorker, CountDone, handleVars
  <2> QED BY <1>t, <2>1, Invisible
<1>8. ASSUME NEW w \in Workers, NEW p \in BOOLEAN, Execute(w, p)
      PROVE  Barrier!Next
  <2>t. PICK t : t = task[w] OBVIOUS
  <2>1. t \in Task /\ Unwritten(t)
    BY <1>8, <2>t DEF Execute, WorkerGoto, PoolInv, TasksCurrent
  <2>2. /\ t.h \in Handles /\ t.idx \in 1 .. MaxBatch /\ t.b = batch[t.h]
        /\ t.idx \in 1 .. size[t.h] /\ slots[t.h][t.idx] = NoOutcome
        /\ hpc[t.h] \notin {"none", "idle", "dropped"}
    BY <2>1 DEF Task, Idx, Unwritten, Current, InBarrier
  <2>3. t = [h |-> t.h, b |-> batch[t.h], idx |-> t.idx]
    BY <2>1, <2>2 DEF Task
  <2>4. /\ slots' = [slots EXCEPT ![t.h][t.idx] = [item |-> t, panicked |-> p]]
        /\ UNCHANGED <<hpc, batch, size, out>>
    BY <1>8, <2>t DEF Execute
  <2>5. Barrier!Finish(t.h, t.idx, p)
    BY <2>2, <2>3, <2>4 DEF Barrier!Finish
  <2> QED BY <2>2, <2>5 DEF Barrier!Next
<1>9. ASSUME NEW w \in Workers, NotifyOne(w) PROVE UNCHANGED Barrier!vars
  <2>1. UNCHANGED <<batch, size, slots, out>> BY <1>9 DEF NotifyOne
  <2>2. task[w] \in Task
    BY <1>9 DEF NotifyOne, WorkerGoto, PoolInv, TasksCurrent
  <2>3. \/ UNCHANGED hpc
        \/ /\ hpc' = [hpc EXCEPT ![task[w].h] = "check"]
           /\ hpc[task[w].h] = "parked"
    BY <1>9 DEF NotifyOne
  <2>4. task[w].h \in Handles BY <2>2 DEF Task
  <2> QED BY <1>t, <2>1, <2>3, <2>4, Invisible DEF HandleStates
<1>10. CASE UNCHANGED vars
  <2>1. UNCHANGED <<hpc, batch, size, slots, out>> BY <1>10 DEF vars
  <2> QED BY <1>t, <2>1, Invisible
<1> QED
  BY <1>1, <1>2, <1>3, <1>4, <1>5, <1>6, <1>7, <1>8, <1>9, <1>10
  DEF Next, HandleStep, WorkerStep

\* The worker pool refines the thread-free contract of trait Executor, for
\* every number of handles and workers: one outcome per input item, in its
\* item's place, and run_batch returns only when all are there.
THEOREM PoolImplementsBarrier == Spec => ImplementsBarrier
<1>1. Spec => [][Barrier!Next]_(Barrier!vars)
  BY StepBarrier, PoolInvariant, PTL DEF Spec
<1>2. Spec => Barrier!Init BY InitBarrier, PTL DEF Spec
<1> QED BY <1>1, <1>2, PTL DEF ImplementsBarrier, Barrier!Spec

=============================================================================
