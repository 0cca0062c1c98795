----------------------------- MODULE WorkerPool -----------------------------
(***************************************************************************)
(* The worker pool of imads-core/src/core/executor.rs: WorkerPoolExecutor, *)
(* its shared Inner, worker_loop and the per-batch BatchSink.              *)
(*                                                                         *)
(* Every handle (a WorkerPoolExecutor or a clone of it) is driven by one   *)
(* engine thread, a member of Handles; all handles share one Inner, hence  *)
(* one queue, one current_chunk and one set of worker threads.             *)
(*                                                                         *)
(* Granularity.  One action per critical section of the queue mutex and    *)
(* per access to an atomic.  The queue mutex is explicit (qlock) only      *)
(* where a thread acts between taking and releasing it with an unlocked    *)
(* access in between: the worker that found the queue empty and has not    *)
(* yet entered Condvar::wait.  BatchSink::mu is locked by the one engine   *)
(* thread that owns the sink and by nobody else, so it is never contended  *)
(* and is implied by hpc \in {"check", "park"}.                            *)
(*                                                                         *)
(* A sink is named by the pair (handle, batch number): a worker may still  *)
(* hold the sink of a batch that its handle has left.                      *)
(***************************************************************************)
EXTENDS Integers, Sequences, FiniteSets

CONSTANTS Handles,      \* engine threads, one per executor handle
          Owner,        \* the handle WorkerPoolExecutor::new returned
          Workers,      \* the worker threads spawned by new
          MaxBatch,     \* bound: largest batch a handle submits
          MaxBatches,   \* bound: batches each handle submits
          ChunkBases,   \* values ExecutorParams::chunk_base may have
          NoTask,       \* a worker's task before it has taken one
          NoOutcome,    \* MaybeUninit::uninit()
          Nobody        \* the queue mutex is free

ASSUME PoolAssumption ==
  /\ Owner \in Handles
  /\ IsFiniteSet(Handles)
  /\ IsFiniteSet(Workers)
  /\ Workers # {}
  /\ MaxBatch \in Nat \ {0}
  /\ MaxBatches \in [Handles -> Nat]
  /\ ChunkBases \subseteq Nat /\ ChunkBases # {}
  /\ Nobody \notin Workers

Idx == 1 .. MaxBatch

\* Task: the item (named by its batch and position), its slot and its sink.
Task == [h : Handles, b : Nat, idx : Idx]

ASSUME NoTaskAssumption == NoTask \notin Task

\* WorkOutcome: whose item it is, and whether execute_one unwound.
Outcome == [item : Task, panicked : BOOLEAN]

ASSUME NoOutcomeAssumption == NoOutcome \notin Outcome

VARIABLES
  queue,     \* Inner::queue
  qlock,     \* the worker holding the queue mutex across two steps, or Nobody
  chunk,     \* Inner::current_chunk
  shutdown,  \* Inner::shutdown
  wpc,       \* where each worker is in worker_loop
  local,     \* worker_loop's local ring
  task,      \* worker_loop's current task
  hpc,       \* where each engine thread is in run_batch
  batch,     \* number of the handle's current (or last) sink
  size,      \* BatchSink::total
  done,      \* BatchSink::done
  slots,     \* BatchSink::slots
  out        \* the vector run_batch returned last

vars == <<queue, qlock, chunk, shutdown, wpc, local, task,
          hpc, batch, size, done, slots, out>>

workerVars == <<wpc, local, task>>
handleVars == <<hpc, batch, size, done, slots, out>>

CeilDiv(a, b) == (a + b - 1) \div b

AtLeastOne(n) == IF n > 1 THEN n ELSE 1

Least(a, b) == IF a <= b THEN a ELSE b

\* A worker's fair share of a batch of n items.
FairShare(n) == CeilDiv(n, Cardinality(Workers))

\* Mutant of ChunkEff: rounds the share down and forgets max(1).
ChunkEffFloor(n, base) == Least(AtLeastOne(base), n \div Cardinality(Workers))

\* Mutant of ChunkEff: chunk_base alone, no cap by the share.
ChunkEffUncapped(n, base) == AtLeastOne(base)

\* chunk_eff of run_batch.
ChunkEff(n, base) == Least(AtLeastOne(base), AtLeastOne(FairShare(n)))

\* The engine's chunk tuning between two batches, by the spread of the costs
\* of the last one (fewer than four costs count as mixed).
TuneChunk(base, spread, lo, hi) ==
  LET target == CASE spread = "even" -> Least(2 * base, AtLeastOne(hi))
                  [] spread = "mixed" -> base
                  [] spread = "uneven" -> CeilDiv(base, 2)
      raised == IF target < AtLeastOne(lo) THEN AtLeastOne(lo) ELSE target
  IN  Least(raised, AtLeastOne(hi))

HandleStates == {"none", "idle", "push", "notify", "spin",
                 "check", "park", "parked", "collect", "dropped"}

WorkerStates == {"pop", "lock", "wait", "asleep",
                 "exec", "count", "notify", "exited"}

Uninit == [i \in Idx |-> NoOutcome]

TypeOK ==
  /\ queue \in Seq(Task)
  /\ qlock \in Workers \cup {Nobody}
  /\ chunk \in Nat \ {0}
  /\ shutdown \in BOOLEAN
  /\ wpc \in [Workers -> WorkerStates]
  /\ local \in [Workers -> Seq(Task)]
  /\ task \in [Workers -> Task \cup {NoTask}]
  /\ hpc \in [Handles -> HandleStates]
  /\ batch \in [Handles -> Nat]
  /\ size \in [Handles -> 0 .. MaxBatch]
  /\ done \in [Handles -> Nat]
  /\ slots \in [Handles -> [Idx -> Outcome \cup {NoOutcome}]]
  /\ out \in [Handles -> Seq(Outcome)]

\* WorkerPoolExecutor::new: empty queue, chunk 1, the workers spawned.
Init ==
  /\ queue = << >>
  /\ qlock = Nobody
  /\ chunk = 1
  /\ shutdown = FALSE
  /\ wpc = [w \in Workers |-> "pop"]
  /\ local = [w \in Workers |-> << >>]
  /\ task = [w \in Workers |-> NoTask]
  /\ hpc = [h \in Handles |-> IF h = Owner THEN "idle" ELSE "none"]
  /\ batch = [h \in Handles |-> 0]
  /\ size = [h \in Handles |-> 0]
  /\ done = [h \in Handles |-> 0]
  /\ slots = [h \in Handles |-> Uninit]
  /\ out = [h \in Handles |-> << >>]

HandleGoto(h, from, to) ==
  /\ hpc[h] = from
  /\ hpc' = [hpc EXCEPT ![h] = to]

WorkerGoto(w, from, to) ==
  /\ wpc[w] = from
  /\ wpc' = [wpc EXCEPT ![w] = to]

-----------------------------------------------------------------------------
(* The engine thread: Clone, run_batch, Drop.                              *)

\* Clone::clone: a second handle on the same Inner.
Clone(h, new) ==
  /\ hpc[h] = "idle"
  /\ HandleGoto(new, "none", "idle")
  /\ UNCHANGED <<queue, qlock, chunk, shutdown, workerVars,
                 batch, size, done, slots, out>>

\* Arc::strong_count(&self.inner): the handles and the worker threads, each
\* of which owns a clone of the Arc until worker_loop returns.
StrongCount ==
  Cardinality({h \in Handles : hpc[h] \notin {"none", "dropped"}})
    + Cardinality({w \in Workers : wpc[w] # "exited"})

\* Drop::drop.  Past the early return the count is 1, so no worker is left
\* for notify_all to wake or for join to wait for.
DropHandle(h) ==
  /\ HandleGoto(h, "idle", "dropped")
  /\ shutdown' = (shutdown \/ StrongCount = 1)
  /\ UNCHANGED <<queue, qlock, chunk, workerVars,
                 batch, size, done, slots, out>>

\* run_batch of an empty vector.
RunBatchEmpty(h) ==
  /\ hpc[h] = "idle"
  /\ out' = [out EXCEPT ![h] = << >>]
  /\ UNCHANGED <<queue, qlock, chunk, shutdown, workerVars,
                 hpc, batch, size, done, slots>>

\* run_batch of n items, with the chunk_base configure_params last set: store
\* the chunk, allocate the sink.
RunBatch(h, n) ==
  /\ batch[h] < MaxBatches[h]
  /\ HandleGoto(h, "idle", "push")
  /\ \E base \in ChunkBases : chunk' = ChunkEff(n, base)
  /\ batch' = [batch EXCEPT ![h] = @ + 1]
  /\ size' = [size EXCEPT ![h] = n]
  /\ done' = [done EXCEPT ![h] = 0]
  /\ slots' = [slots EXCEPT ![h] = Uninit]
  /\ out' = [out EXCEPT ![h] = << >>]
  /\ UNCHANGED <<queue, qlock, shutdown, workerVars>>

TasksOf(h) == [i \in 1 .. size[h] |-> [h |-> h, b |-> batch[h], idx |-> i]]

\* Push every task under the queue mutex.
Push(h) ==
  /\ qlock = Nobody
  /\ HandleGoto(h, "push", "notify")
  /\ queue' = queue \o TasksOf(h)
  /\ UNCHANGED <<qlock, chunk, shutdown, workerVars,
                 batch, size, done, slots, out>>

\* Mutant of NotifyAll: the notification is forgotten.
NotifyAllMissing(h) ==
  /\ HandleGoto(h, "notify", "spin")
  /\ UNCHANGED <<queue, qlock, chunk, shutdown, workerVars,
                 batch, size, done, slots, out>>

\* cv.notify_all(), after the mutex is released: woken workers go on to
\* re-acquire it.
NotifyAll(h) ==
  /\ HandleGoto(h, "notify", "spin")
  /\ wpc' = [w \in Workers |-> IF wpc[w] = "asleep" THEN "lock" ELSE wpc[w]]
  /\ UNCHANGED <<queue, qlock, chunk, shutdown, local, task,
                 batch, size, done, slots, out>>

\* The spin phase sees done = n: the mutex and the condvar are not touched.
SpinDone(h) ==
  /\ done[h] >= size[h]
  /\ HandleGoto(h, "spin", "collect")
  /\ UNCHANGED <<queue, qlock, chunk, shutdown, workerVars,
                 batch, size, done, slots, out>>

\* spin_limit loads saw done < n (any number of them): lock sink.mu.
SpinGiveUp(h) ==
  /\ done[h] < size[h]
  /\ HandleGoto(h, "spin", "check")
  /\ UNCHANGED <<queue, qlock, chunk, shutdown, workerVars,
                 batch, size, done, slots, out>>

\* while done.load() < n, with sink.mu held.
CheckDone(h) ==
  /\ HandleGoto(h, "check", IF done[h] < size[h] THEN "park" ELSE "collect")
  /\ UNCHANGED <<queue, qlock, chunk, shutdown, workerVars,
                 batch, size, done, slots, out>>

\* sink.cv.wait(guard): only now can a notify_one reach this thread.
Park(h) ==
  /\ HandleGoto(h, "park", "parked")
  /\ UNCHANGED <<queue, qlock, chunk, shutdown, workerVars,
                 batch, size, done, slots, out>>

\* Mutant of SpuriousWakeHandle: "if" for "while" around Condvar::wait.
SpuriousWakeUnchecked(h) ==
  /\ HandleGoto(h, "parked", "collect")
  /\ UNCHANGED <<queue, qlock, chunk, shutdown, workerVars,
                 batch, size, done, slots, out>>

\* Condvar::wait may return without a notification.
SpuriousWakeHandle(h) ==
  /\ HandleGoto(h, "parked", "check")
  /\ UNCHANGED <<queue, qlock, chunk, shutdown, workerVars,
                 batch, size, done, slots, out>>

\* assume_init_read every slot and return.
Collect(h) ==
  /\ HandleGoto(h, "collect", "idle")
  /\ out' = [out EXCEPT ![h] = [i \in 1 .. size[h] |-> slots[h][i]]]
  /\ UNCHANGED <<queue, qlock, chunk, shutdown, workerVars,
                 batch, size, done, slots>>

-----------------------------------------------------------------------------
(* A worker thread: worker_loop.                                           *)

\* local.pop_front() succeeds.
PopLocal(w) ==
  /\ local[w] # << >>
  /\ WorkerGoto(w, "pop", "exec")
  /\ task' = [task EXCEPT ![w] = Head(local[w])]
  /\ local' = [local EXCEPT ![w] = Tail(local[w])]
  /\ UNCHANGED <<queue, qlock, chunk, shutdown, handleVars>>

\* The ring is empty: go for the queue mutex.
PopEmpty(w) ==
  /\ local[w] = << >>
  /\ WorkerGoto(w, "pop", "lock")
  /\ UNCHANGED <<queue, qlock, chunk, shutdown, local, task, handleVars>>

\* Mutant of Refill: the last drained task stays in the queue as well.
RefillKeepsLast(w) ==
  LET k == Least(AtLeastOne(chunk), Len(queue)) IN
  /\ qlock = Nobody
  /\ queue # << >>
  /\ WorkerGoto(w, "lock", "exec")
  /\ task' = [task EXCEPT ![w] = Head(queue)]
  /\ local' = [local EXCEPT ![w] = SubSeq(queue, 2, k)]
  /\ queue' = SubSeq(queue, k, Len(queue))
  /\ UNCHANGED <<qlock, chunk, shutdown, handleVars>>

\* Under the mutex: drain up to current_chunk tasks into the ring, take the
\* first, release.
Refill(w) ==
  LET k == Least(AtLeastOne(chunk), Len(queue)) IN
  /\ qlock = Nobody
  /\ queue # << >>
  /\ WorkerGoto(w, "lock", "exec")
  /\ task' = [task EXCEPT ![w] = Head(queue)]
  /\ local' = [local EXCEPT ![w] = SubSeq(queue, 2, k)]
  /\ queue' = SubSeq(queue, k + 1, Len(queue))
  /\ UNCHANGED <<qlock, chunk, shutdown, handleVars>>

\* Mutant of FoundEmpty: the mutex is released before cv.wait is entered.
FoundEmptyUnlocks(w) ==
  /\ qlock = Nobody
  /\ queue = << >>
  /\ WorkerGoto(w, "lock", IF shutdown THEN "exited" ELSE "wait")
  /\ UNCHANGED <<queue, qlock, chunk, shutdown, local, task, handleVars>>

\* Under the mutex: nothing to drain.  Return if shut down (releasing the
\* mutex), else keep the mutex on the way into cv.wait.
FoundEmpty(w) ==
  /\ qlock = Nobody
  /\ queue = << >>
  /\ WorkerGoto(w, "lock", IF shutdown THEN "exited" ELSE "wait")
  /\ qlock' = IF shutdown THEN Nobody ELSE w
  /\ UNCHANGED <<queue, chunk, shutdown, local, task, handleVars>>

\* cv.wait(q): release the mutex and sleep, atomically.
Sleep(w) ==
  /\ WorkerGoto(w, "wait", "asleep")
  /\ qlock' = Nobody
  /\ UNCHANGED <<queue, chunk, shutdown, local, task, handleVars>>

SpuriousWakeWorker(w) ==
  /\ WorkerGoto(w, "asleep", "lock")
  /\ UNCHANGED <<queue, qlock, chunk, shutdown, local, task, handleVars>>

\* Mutant of Execute: the slot is taken from the length of the ring, not
\* from the task.
ExecuteWrongSlot(w, p) ==
  LET t == task[w] IN
  /\ WorkerGoto(w, "exec", "count")
  /\ slots' = [slots EXCEPT ![t.h][Len(local[w]) + 1] =
                              [item |-> t, panicked |-> p]]
  /\ UNCHANGED <<queue, qlock, chunk, shutdown, local, task,
                 hpc, batch, size, done, out>>

\* execute_one inside catch_unwind, then the slot write.
Execute(w, p) ==
  LET t == task[w] IN
  /\ WorkerGoto(w, "exec", "count")
  /\ slots' = [slots EXCEPT ![t.h][t.idx] = [item |-> t, panicked |-> p]]
  /\ UNCHANGED <<queue, qlock, chunk, shutdown, local, task,
                 hpc, batch, size, done, out>>

\* done.fetch_add(1); the last one goes on to notify.
CountDone(w) ==
  LET t == task[w] IN
  /\ WorkerGoto(w, "count",
                IF done[t.h] + 1 = size[t.h] THEN "notify" ELSE "pop")
  /\ done' = [done EXCEPT ![t.h] = @ + 1]
  /\ UNCHANGED <<queue, qlock, chunk, shutdown, local, task,
                 hpc, batch, size, slots, out>>

\* sink.cv.notify_one(), without sink.mu: it wakes the engine thread if that
\* is waiting on this very sink, and is lost otherwise.
NotifyOne(w) ==
  LET t == task[w] IN
  /\ WorkerGoto(w, "notify", "pop")
  /\ hpc' = IF hpc[t.h] = "parked" /\ batch[t.h] = t.b
              THEN [hpc EXCEPT ![t.h] = "check"]
              ELSE hpc
  /\ UNCHANGED <<queue, qlock, chunk, shutdown, local, task,
                 batch, size, done, slots, out>>

-----------------------------------------------------------------------------

HandleStep(h) ==
  \/ RunBatchEmpty(h)
  \/ \E n \in 1 .. MaxBatch : RunBatch(h, n)
  \/ Push(h)
  \/ NotifyAll(h)
  \/ SpinDone(h)
  \/ SpinGiveUp(h)
  \/ CheckDone(h)
  \/ Park(h)
  \/ SpuriousWakeHandle(h)
  \/ Collect(h)
  \/ DropHandle(h)
  \/ \E new \in Handles : Clone(h, new)

WorkerStep(w) ==
  \/ PopLocal(w)
  \/ PopEmpty(w)
  \/ Refill(w)
  \/ FoundEmpty(w)
  \/ Sleep(w)
  \/ SpuriousWakeWorker(w)
  \/ \E p \in BOOLEAN : Execute(w, p)
  \/ CountDone(w)
  \/ NotifyOne(w)

Next ==
  \/ \E h \in Handles : HandleStep(h)
  \/ \E w \in Workers : WorkerStep(w)

Spec == Init /\ [][Next]_vars

\* Threads run: an engine thread inside run_batch and a worker outside the
\* condvar take their next step; evaluations terminate; a thread that keeps
\* finding the queue mutex free at times gets it (strong fairness).  Nothing
\* obliges a caller to submit or drop, or a wake-up to be spurious.
Fairness ==
  /\ \A h \in Handles :
       /\ SF_vars(Push(h))
       /\ WF_vars(NotifyAll(h))
       /\ WF_vars(SpinDone(h))
       /\ WF_vars(SpinGiveUp(h))
       /\ WF_vars(CheckDone(h))
       /\ WF_vars(Park(h))
       /\ WF_vars(Collect(h))
  /\ \A w \in Workers :
       /\ SF_vars(Refill(w))
       /\ SF_vars(FoundEmpty(w))
       /\ WF_vars(PopLocal(w))
       /\ WF_vars(PopEmpty(w))
       /\ WF_vars(Sleep(w))
       /\ WF_vars(\E p \in BOOLEAN : Execute(w, p))
       /\ WF_vars(CountDone(w))
       /\ WF_vars(NotifyOne(w))

FairSpec == Spec /\ Fairness

-----------------------------------------------------------------------------
(* Properties.                                                             *)

\* The worker holds a task whose slot it is still going to write or count.
Active(w) == wpc[w] \in {"exec", "count"}

SeqRange(s) == {s[i] : i \in 1 .. Len(s)}

\* The tasks of handle h that are not yet counted in its sink.
Outstanding(h) ==
  {t \in SeqRange(queue)
         \cup (UNION {SeqRange(local[w]) : w \in Workers})
         \cup {task[w] : w \in {v \in Workers : Active(v)}} : t.h = h}

\* The unsafe block of run_batch ("barrier ensures every slot is
\* initialized"): while the engine thread reads the slots, each holds the
\* outcome of its own item of this very batch, and no task that could write
\* one is left in the queue, in a ring or in a worker's hands.
BarrierSafe ==
  \A h \in Handles : hpc[h] = "collect" =>
    /\ \A i \in 1 .. size[h] :
         /\ slots[h][i] # NoOutcome
         /\ slots[h][i].item = [h |-> h, b |-> batch[h], idx |-> i]
    /\ Outstanding(h) = {}

\* The thread-free contract, with the pool's handles as its callers.
Barrier == INSTANCE BatchBarrier WITH
  state <- [h \in Handles |->
              IF hpc[h] \in {"none", "idle", "dropped"} THEN hpc[h]
                                                       ELSE "running"]

\* The pool implements the contract of trait Executor ("must return a
\* Vec<WorkOutcome> with one outcome per input item"): queue, rings, chunks,
\* condvars, counters and panics are invisible to the callers.
ImplementsBarrier == Barrier!Spec

\* No lost wake-up on the queue: tasks never sit in the queue with every
\* worker asleep unless the engine thread that pushed them has yet to call
\* notify_all.
NoStrandedWork ==
  queue # << >> /\ (\A w \in Workers : wpc[w] \in {"asleep", "exited"})
    => \E h \in Handles : hpc[h] = "notify"

\* The tasks of h that worker w has taken and not finished.
HeldBy(w, h) ==
  {t \in SeqRange(local[w]) \cup (IF Active(w) THEN {task[w]} ELSE {}) :
     t.h = h}

\* ExecutorParams: the chunk is capped by ceil(batch_size / workers) "to
\* avoid one worker hoarding the entire batch": no worker ever holds more
\* than its fair share of a batch.
NoHoarding ==
  \A w \in Workers, h \in Handles :
    Cardinality(HeldBy(w, h)) <= FairShare(size[h])

\* Every submitted batch is executed to the last item, panicking
\* evaluations included.
BatchCompletes ==
  \A h \in Handles : hpc[h] = "push" ~> done[h] = size[h]

\* "run_batch blocks until all items complete" and then returns: a batch
\* whose items are all done is handed to the caller.
RunBatchReturns ==
  \A h \in Handles : hpc[h] = "push" ~> hpc[h] = "idle"

-----------------------------------------------------------------------------
(* The inductive invariant behind BarrierSafe and ImplementsBarrier.       *)

\* run_batch has pushed h's batch and has not returned.
InBarrier(h) ==
  hpc[h] \in {"notify", "spin", "check", "park", "parked", "collect"}

\* t belongs to the batch its handle is in.
Current(t) ==
  InBarrier(t.h) /\ t.b = batch[t.h] /\ t.idx \in 1 .. size[t.h]

\* ... and its slot is still uninitialised.
Unwritten(t) == Current(t) /\ slots[t.h][t.idx] = NoOutcome

\* Every task that is somewhere is current; its slot is written from
\* "count" on, not before.
TasksCurrent ==
  /\ \A i \in 1 .. Len(queue) : Unwritten(queue[i])
  /\ \A w \in Workers : \A i \in 1 .. Len(local[w]) : Unwritten(local[w][i])
  /\ \A w \in Workers : wpc[w] = "exec" =>
       task[w] \in Task /\ Unwritten(task[w])
  /\ \A w \in Workers : wpc[w] = "count" =>
       /\ task[w] \in Task
       /\ Current(task[w])
       /\ slots[task[w].h][task[w].idx] # NoOutcome
  /\ \A w \in Workers : wpc[w] = "notify" => task[w] \in Task

\* A task is in one place at a time.
TasksUnique ==
  /\ \A i, j \in 1 .. Len(queue) : queue[i] = queue[j] => i = j
  /\ \A w \in Workers : \A i, j \in 1 .. Len(local[w]) :
       local[w][i] = local[w][j] => i = j
  /\ \A w \in Workers : \A i \in 1 .. Len(queue) :
       \A j \in 1 .. Len(local[w]) : queue[i] # local[w][j]
  /\ \A v, w \in Workers : v # w =>
       \A i \in 1 .. Len(local[v]) : \A j \in 1 .. Len(local[w]) :
         local[v][i] # local[w][j]
  /\ \A w \in Workers : Active(w) =>
       \A i \in 1 .. Len(queue) : queue[i] # task[w]
  /\ \A v, w \in Workers : Active(w) =>
       \A i \in 1 .. Len(local[v]) : local[v][i] # task[w]
  /\ \A v, w \in Workers : v # w /\ Active(v) /\ Active(w) =>
       task[v] # task[w]

\* The slots counted in done: written, and not in the hands of a worker
\* between its slot write and its fetch_add.
Counted(h) ==
  {i \in 1 .. size[h] :
     /\ slots[h][i] # NoOutcome
     /\ \A w \in Workers :
          wpc[w] = "count" /\ task[w].h = h => task[w].idx # i}

SlotsOwned ==
  \A h \in Handles : \A i \in Idx : slots[h][i] # NoOutcome =>
    slots[h][i].item = [h |-> h, b |-> batch[h], idx |-> i]

DoneExact ==
  \A h \in Handles : InBarrier(h) \/ hpc[h] = "push" =>
    done[h] = Cardinality(Counted(h))

PushFresh ==
  \A h \in Handles : hpc[h] = "push" => slots[h] = Uninit

CollectDone ==
  \A h \in Handles : hpc[h] = "collect" => done[h] >= size[h]

\* The inductive invariant: done counts exactly the written slots whose
\* worker has passed its fetch_add, tasks are unique and current.
PoolInv ==
  /\ TypeOK
  /\ TasksCurrent
  /\ TasksUnique
  /\ SlotsOwned
  /\ DoneExact
  /\ PushFresh
  /\ CollectDone

\* The inductive invariant behind NoStrandedWork.  A worker between finding
\* the queue empty and sleeping holds the mutex, so nobody pushes meanwhile;
\* and no worker has exited, because a worker that runs keeps the strong
\* count of Inner above the value at which Drop would stop it.
NobodyStops == shutdown = FALSE /\ \A w \in Workers : wpc[w] # "exited"

WaitHoldsLock ==
  /\ \A w \in Workers : wpc[w] = "wait" => qlock = w
  /\ qlock \in Workers => queue = << >>

WorkHasTaker ==
  queue # << >> =>
    \/ \E h \in Handles : hpc[h] = "notify"
    \/ \E w \in Workers : wpc[w] \notin {"asleep", "wait"}

WakeInv == NobodyStops /\ WaitHoldsLock /\ WorkHasTaker

\* The inductive invariant behind NoHoarding, of a pool with a single handle.
\* The chunk in force is within the share of the batch it was computed for,
\* and a worker that may refill its ring has emptied it.
ChunkWithinShare ==
  \A h \in Handles : InBarrier(h) \/ hpc[h] = "push" =>
    chunk <= FairShare(size[h])

RefillsEmptyRing ==
  \A w \in Workers : wpc[w] \notin {"pop", "exec", "count", "notify"} =>
    local[w] = << >>

\* Tasks a worker has in hand, by the length of its ring.
Load(w) == Len(local[w]) + (IF Active(w) THEN 1 ELSE 0)

LoadWithinShare == \A w \in Workers : Load(w) <= FairShare(size[Owner])

ShareInv == ChunkWithinShare /\ RefillsEmptyRing /\ LoadWithinShare

=============================================================================
