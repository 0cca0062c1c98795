----------------------------- MODULE PyBinding -----------------------------
(***************************************************************************)
(* PyEngine and PyEvaluator of imads-py/src/lib.rs: Python threads call    *)
(* run_with_evaluator on engines they share; the engine calls back into    *)
(* Python, from the calling thread or from the threads of its pool.        *)
(*                                                                         *)
(* A thread that touches Python is attached to the interpreter; with a GIL *)
(* at most one is.  PyO3 enters run_with_evaluator attached and stays so   *)
(* until it returns.  Python code, and only Python code, may let go of the *)
(* GIL in between, and does so here at most once per callback.             *)
(*                                                                         *)
(* The engine is reduced to what touches Python: the batches it dispatches *)
(* and, for each item, the cache lookups, the evaluation, the cheap check  *)
(* and whether the outcome has estimates.  A point stands for (x, phi).    *)
(* The pool is its contract (BatchBarrier): a batch runs concurrently and  *)
(* the caller blocks until it is done.  smc calls of mc_sample are one.    *)
(***************************************************************************)
EXTENDS Naturals, FiniteSets

CONSTANTS
  Threads,       \* Python threads
  Engines,       \* PyEngine objects
  Points,        \* what may be evaluated
  WorkerCounts,  \* values of the argument workers
  MaxCalls,      \* bound: calls in all
  MaxBatches,    \* bound: batches of a call
  Nobody, NoCall

MaxWorkers == CHOOSE n \in WorkerCounts \cup {1} :
                \A m \in WorkerCounts \cup {1} : m <= n

PoolWorkers == Engines \X (1 .. MaxWorkers)

Agents == Threads \cup PoolWorkers

\* A call in progress, and an item of a batch.
Call == [engine : Engines, toy : BOOLEAN, left : Nat, checked : SUBSET Points,
         raised : SUBSET Points, rejected : SUBSET Points]
Item == [x : Points, st : {"lookup", "sample", "decided", "value", "missing"}]

ASSUME PyAssumption ==
  /\ IsFiniteSet(Threads) /\ IsFiniteSet(Engines) /\ IsFiniteSet(Points)
  /\ WorkerCounts \subseteq Nat /\ IsFiniteSet(WorkerCounts)
  /\ MaxCalls \in Nat /\ MaxBatches \in Nat
  /\ Nobody \notin Threads /\ Threads \cap PoolWorkers = {}
  /\ NoCall \notin Call

VARIABLES
  freeThreaded,  \* an interpreter without a GIL
  py,            \* how an agent stands to the interpreter
  pc,            \* where in the engine a Python thread is
  call,          \* the call it is in
  borrow,        \* the thread that has an engine's &mut self
  exec,          \* the AdaptiveExecutor: 0 for Inline, else the pool's size
  batch,         \* the batch of an engine: a function to Item
  evaluated, decided,  \* the points in an engine's two caches
  calls,         \* calls made
  last           \* history: how a thread's last call ended

cacheVars == <<evaluated, decided>>
vars == <<freeThreaded, py, pc, call, borrow, exec, batch, cacheVars, calls, last>>

-----------------------------------------------------------------------------
(* The interpreter.                                                        *)

\* "rust": attached, in native code; "python", "back": attached, in Python
\* code that has yet to, or did, release the GIL; "away": has released it;
\* "want": blocked in Python::attach; "out": elsewhere.
Attached == {a \in Agents : py[a] \in {"rust", "python", "back"}}

CanAttach == freeThreaded \/ Attached = {}

InCallback(a) == py[a] \in {"python", "back"}

\* Python code blocks, computes outside the GIL, or is asked to yield it.
ReleaseGil(a) ==
  /\ ~freeThreaded
  /\ py[a] = "python"
  /\ py' = [py EXCEPT ![a] = "away"]
  /\ UNCHANGED <<freeThreaded, pc, call, borrow, exec, batch, cacheVars, calls, last>>

\* Mutant of RetakeGil: Python code goes on without waiting for the GIL.
RetakeGilUnasked(a) ==
  /\ py[a] = "away"
  /\ py' = [py EXCEPT ![a] = "back"]
  /\ UNCHANGED <<freeThreaded, pc, call, borrow, exec, batch, cacheVars, calls, last>>

RetakeGil(a) ==
  /\ py[a] = "away"
  /\ CanAttach
  /\ py' = [py EXCEPT ![a] = "back"]
  /\ UNCHANGED <<freeThreaded, pc, call, borrow, exec, batch, cacheVars, calls, last>>

-----------------------------------------------------------------------------
(* run_with_evaluator.                                                     *)

Init ==
  /\ freeThreaded \in BOOLEAN
  /\ py = [a \in Agents |-> "out"]
  /\ pc = [t \in Threads |-> "idle"]
  /\ call = [t \in Threads |-> NoCall]
  /\ borrow = [e \in Engines |-> Nobody]
  /\ exec = [e \in Engines |-> 0]
  /\ batch = [e \in Engines |-> << >>]
  /\ evaluated = [e \in Engines |-> {}]
  /\ decided = [e \in Engines |-> {}]
  /\ calls = 0
  /\ last = [t \in Threads |-> NoCall]

\* AdaptiveExecutor::configure.
Configured(w) == IF w > 1 THEN w ELSE 0

\* A Python thread calls an engine; extracting &mut self fails if it is
\* borrowed.  configure, and then search_dim is asked of the evaluator, unless
\* the configuration has it (dimSet); run() brings the toy evaluator, which is
\* native code.
CallEngine(t, e, w, toy, dimSet) ==
  /\ pc[t] = "idle"
  /\ calls < MaxCalls
  /\ CanAttach
  /\ calls' = calls + 1
  /\ IF borrow[e] # Nobody
       THEN /\ last' = [last EXCEPT ![t] = [how |-> "busy"]]
            /\ UNCHANGED <<py, pc, call, borrow, exec>>
       ELSE /\ py' = [py EXCEPT ![t] = IF toy \/ dimSet THEN "rust" ELSE "python"]
            /\ pc' = [pc EXCEPT ![t] = IF toy \/ dimSet THEN "select" ELSE "dim"]
            /\ call' = [call EXCEPT ![t] =
                          [engine |-> e, toy |-> toy, left |-> MaxBatches,
                           checked |-> {}, raised |-> {}, rejected |-> {}]]
            /\ borrow' = [borrow EXCEPT ![e] = t]
            /\ exec' = [exec EXCEPT ![e] = Configured(w)]
            /\ UNCHANGED last
  /\ UNCHANGED <<freeThreaded, batch, cacheVars>>

\* search_dim returns; an exception counts as None.
SearchDimReturns(t) ==
  /\ pc[t] = "dim"
  /\ InCallback(t)
  /\ py' = [py EXCEPT ![t] = "rust"]
  /\ pc' = [pc EXCEPT ![t] = "select"]
  /\ UNCHANGED <<freeThreaded, call, borrow, exec, batch, cacheVars, calls, last>>

Width(e) == IF exec[e] = 0 THEN 1 ELSE exec[e]

\* A batch of at most `workers` items goes to the executor.
Dispatch(t) ==
  LET e == call[t].engine IN
  /\ pc[t] = "select"
  /\ call[t].left > 0
  /\ \E n \in 1 .. Width(e) : \E xs \in [1 .. n -> Points] :
       batch' = [batch EXCEPT ![e] =
                   [k \in 1 .. n |-> [x |-> xs[k], st |-> "lookup"]]]
  /\ call' = [call EXCEPT ![t].left = @ - 1]
  /\ pc' = [pc EXCEPT ![t] = "wait"]
  /\ UNCHANGED <<freeThreaded, py, borrow, exec, cacheVars, calls, last>>

\* The agent that executes item k of e's batch.
Runner(e, k) == IF exec[e] = 0 THEN borrow[e] ELSE <<e, k>>

HasItem(e, k, st) == k \in DOMAIN batch[e] /\ batch[e][k].st = st

SetItem(e, k, st) == batch' = [batch EXCEPT ![e][k].st = st]

\* execute_one: the decision cache, unless policy_rev has moved on; the
\* evaluation cache; or the black box, through Python::attach, which is
\* free for a thread that is attached.
Lookup(e, k) ==
  /\ HasItem(e, k, "lookup")
  /\ LET x == batch[e][k].x IN
       \/ x \in decided[e] /\ SetItem(e, k, "decided") /\ UNCHANGED py
       \/ x \in evaluated[e] /\ SetItem(e, k, "value") /\ UNCHANGED py
       \/ /\ x \notin evaluated[e] /\ ~call[borrow[e]].toy
          /\ SetItem(e, k, "sample")
          /\ py' = [py EXCEPT ![Runner(e, k)] =
                      IF @ = "rust" THEN "python" ELSE "want"]
  /\ UNCHANGED <<freeThreaded, pc, call, borrow, exec, cacheVars, calls, last>>

\* The toy evaluator is asked without Python.
ToySample(e, k) ==
  /\ HasItem(e, k, "lookup")
  /\ call[borrow[e]].toy
  /\ batch[e][k].x \notin evaluated[e]
  /\ SetItem(e, k, "value")
  /\ evaluated' = [evaluated EXCEPT ![e] = @ \cup {batch[e][k].x}]
  /\ UNCHANGED <<freeThreaded, py, pc, call, borrow, exec, decided, calls, last>>

\* Python::attach succeeds on a thread of the pool.
AttachWorker(a) ==
  /\ py[a] = "want"
  /\ CanAttach
  /\ py' = [py EXCEPT ![a] = "python"]
  /\ UNCHANGED <<freeThreaded, pc, call, borrow, exec, batch, cacheVars, calls, last>>

\* The runner goes back to native code: a thread of the pool detaches.
Left(a) == IF a \in Threads THEN "rust" ELSE "out"

\* mc_sample returns; the estimates go into the evaluation cache.
SampleReturns(e, k) ==
  /\ HasItem(e, k, "sample")
  /\ InCallback(Runner(e, k))
  /\ py' = [py EXCEPT ![Runner(e, k)] = Left(Runner(e, k))]
  /\ SetItem(e, k, "value")
  /\ evaluated' = [evaluated EXCEPT ![e] = @ \cup {batch[e][k].x}]
  /\ UNCHANGED <<freeThreaded, pc, call, borrow, exec, decided, calls, last>>

\* The call of thread t ends: &mut self is given back.
EndCall(t, how) ==
  LET e == call[t].engine IN
  /\ py' = [py EXCEPT ![t] = "out"]
  /\ pc' = [pc EXCEPT ![t] = "idle"]
  /\ call' = [call EXCEPT ![t] = NoCall]
  /\ borrow' = [borrow EXCEPT ![e] = Nobody]
  /\ batch' = [batch EXCEPT ![e] = << >>]
  /\ last' = [last EXCEPT ![t] =
                [how |-> how, inline |-> exec[e] = 0,
                 raised |-> call[t].raised, rejected |-> call[t].rejected]]

\* Mutant of SampleRaises: a thread of the pool asks again for ever.
SampleRaisesRetried(e, k) ==
  LET t == borrow[e] IN
  /\ HasItem(e, k, "sample")
  /\ InCallback(Runner(e, k))
  /\ \/ /\ exec[e] = 0
        /\ EndCall(t, "raised")
     \/ /\ exec[e] # 0
        /\ py' = [py EXCEPT ![<<e, k>>] = "want"]
        /\ UNCHANGED <<pc, call, borrow, batch, last>>
  /\ UNCHANGED <<freeThreaded, exec, cacheVars, calls>>

\* mc_sample raises and expect() panics.  On the calling thread that unwinds
\* through run_with_evaluator and becomes a PanicException; a thread of the
\* pool catches it and leaves an outcome without estimates.
SampleRaises(e, k) ==
  LET t == borrow[e] IN
  /\ HasItem(e, k, "sample")
  /\ InCallback(Runner(e, k))
  /\ \/ /\ exec[e] = 0
        /\ EndCall(t, "raised")
     \/ /\ exec[e] # 0
        /\ py' = [py EXCEPT ![<<e, k>>] = "out"]
        /\ SetItem(e, k, "missing")
        /\ call' = [call EXCEPT ![t].raised = @ \cup {batch[e][k].x}]
        /\ UNCHANGED <<pc, borrow, last>>
  /\ UNCHANGED <<freeThreaded, exec, cacheVars, calls>>

\* Mutant of Join: the barrier lets the engine go with the first outcome.
JoinEarly(t) ==
  LET e == call[t].engine IN
  /\ pc[t] = "wait"
  /\ \E k \in DOMAIN batch[e] : batch[e][k].st \in {"decided", "value", "missing"}
  /\ pc' = [pc EXCEPT ![t] = "join"]
  /\ UNCHANGED <<freeThreaded, py, call, borrow, exec, batch, cacheVars, calls, last>>

\* run_batch returns when every item has an outcome.
Join(t) ==
  LET e == call[t].engine IN
  /\ pc[t] = "wait"
  /\ \A k \in DOMAIN batch[e] : batch[e][k].st \in {"decided", "value", "missing"}
  /\ pc' = [pc EXCEPT ![t] = "join"]
  /\ UNCHANGED <<freeThreaded, py, call, borrow, exec, batch, cacheVars, calls, last>>

-----------------------------------------------------------------------------
(* materialize_job_result, item by item in order.                          *)

\* k is the next item of e's batch to be materialized.
Turn(e, k) == k \in DOMAIN batch[e] /\ \A j \in DOMAIN batch[e] : k <= j

Consume(e, k) ==
  batch' = [batch EXCEPT ![e] = [j \in DOMAIN @ \ {k} |-> @[j]]]

BatchDone(t) ==
  /\ pc[t] = "join"
  /\ DOMAIN batch[call[t].engine] = {}
  /\ pc' = [pc EXCEPT ![t] = "select"]
  /\ UNCHANGED <<freeThreaded, py, call, borrow, exec, batch, cacheVars, calls, last>>

\* A cached decision is applied as it is.
ApplyDecided(t) ==
  LET e == call[t].engine IN
  /\ pc[t] = "join"
  /\ \E k \in DOMAIN batch[e] :
       Turn(e, k) /\ HasItem(e, k, "decided") /\ Consume(e, k)
  /\ UNCHANGED <<freeThreaded, py, pc, call, borrow, exec, cacheVars, calls, last>>

\* The first outcome of a candidate: its cheap constraints are asked for.
AskCheap(t) ==
  LET e == call[t].engine IN
  /\ pc[t] = "join"
  /\ ~call[t].toy
  /\ \E k \in DOMAIN batch[e] : Turn(e, k) /\ ~HasItem(e, k, "decided")
  /\ pc' = [pc EXCEPT ![t] = "cheap"]
  /\ py' = [py EXCEPT ![t] = "python"]
  /\ UNCHANGED <<freeThreaded, call, borrow, exec, batch, cacheVars, calls, last>>

\* Mutant of TakeOutcome: an outcome without estimates is passed over.
TakeOutcomeSkips(t, k) ==
  LET e == call[t].engine IN
  /\ Consume(e, k)
  /\ decided' = IF HasItem(e, k, "value")
                  THEN [decided EXCEPT ![e] = @ \cup {batch[e][k].x}]
                  ELSE decided
  /\ pc' = [pc EXCEPT ![t] = "join"]
  /\ py' = [py EXCEPT ![t] = "rust"]
  /\ call' = [call EXCEPT ![t].checked = @ \cup {batch[e][k].x}]
  /\ UNCHANGED <<borrow, last>>

\* A candidate that passed the cheap check: without estimates expect()
\* panics, otherwise the decision is made and cached.
TakeOutcome(t, k) ==
  LET e == call[t].engine IN
  \/ /\ HasItem(e, k, "missing")
     /\ EndCall(t, "raised")
     /\ UNCHANGED decided
  \/ /\ HasItem(e, k, "value")
     /\ Consume(e, k)
     /\ decided' = [decided EXCEPT ![e] = @ \cup {batch[e][k].x}]
     /\ pc' = [pc EXCEPT ![t] = "join"]
     /\ py' = [py EXCEPT ![t] = "rust"]
     /\ call' = [call EXCEPT ![t].checked = @ \cup {batch[e][k].x}]
     /\ UNCHANGED <<borrow, last>>

\* cheap_constraints says yes, does not return a bool or raises; the toy
\* evaluator's always says yes.
CheapAccepts(t) ==
  /\ (pc[t] = "cheap" /\ InCallback(t)) \/ (pc[t] = "join" /\ call[t].toy)
  /\ \E k \in DOMAIN batch[call[t].engine] :
       Turn(call[t].engine, k) /\ TakeOutcome(t, k)
  /\ UNCHANGED <<freeThreaded, exec, evaluated, calls>>

\* It says no: the outcome is not looked at.
CheapRejects(t) ==
  LET e == call[t].engine IN
  /\ pc[t] = "cheap"
  /\ InCallback(t)
  /\ \E k \in DOMAIN batch[e] :
       /\ Turn(e, k)
       /\ Consume(e, k)
       /\ call' = [call EXCEPT ![t].rejected = @ \cup {batch[e][k].x}]
  /\ pc' = [pc EXCEPT ![t] = "join"]
  /\ py' = [py EXCEPT ![t] = "rust"]
  /\ UNCHANGED <<freeThreaded, borrow, exec, cacheVars, calls, last>>

\* A candidate that was checked at an earlier level.
TakeChecked(t) ==
  LET e == call[t].engine IN
  /\ pc[t] = "join"
  /\ \E k \in DOMAIN batch[e] :
       /\ Turn(e, k)
       /\ batch[e][k].x \in call[t].checked
       /\ TakeOutcome(t, k)
  /\ UNCHANGED <<freeThreaded, exec, evaluated, calls>>

\* The run is over.
ReturnOutput(t) ==
  /\ pc[t] = "select"
  /\ EndCall(t, "returned")
  /\ UNCHANGED <<freeThreaded, exec, cacheVars, calls>>

-----------------------------------------------------------------------------

\* A thread waits at the batch barrier with the GIL in its hand, and a thread
\* of the pool waits for the GIL.
GilDeadlock ==
  /\ ~freeThreaded
  /\ \E t \in Threads : pc[t] = "wait" /\ py[t] = "rust"
  /\ \E a \in PoolWorkers : py[a] = "want"

Hung == GilDeadlock /\ UNCHANGED vars

AllIdle == calls = MaxCalls /\ call = [t \in Threads |-> NoCall] /\ UNCHANGED vars

Progress ==
  \/ \E a \in Agents : ReleaseGil(a) \/ RetakeGil(a) \/ AttachWorker(a)
  \/ \E t \in Threads :
       \/ SearchDimReturns(t) \/ Dispatch(t) \/ Join(t) \/ BatchDone(t)
       \/ ApplyDecided(t) \/ AskCheap(t) \/ CheapAccepts(t) \/ CheapRejects(t)
       \/ TakeChecked(t) \/ ReturnOutput(t)
  \/ \E e \in Engines : \E k \in 1 .. MaxWorkers :
       Lookup(e, k) \/ ToySample(e, k) \/ SampleReturns(e, k) \/ SampleRaises(e, k)

Next ==
  \/ \E t \in Threads, e \in Engines, w \in WorkerCounts, toy, dimSet \in BOOLEAN :
       CallEngine(t, e, w, toy, dimSet)
  \/ Progress
  \/ Hung \/ AllIdle

Spec == Init /\ [][Next]_vars

\* Threads run, the interpreter hands a free GIL to someone who waits for it
\* and callbacks return.  A call makes finitely many steps, so that fairness
\* to all of them together is fairness to each.
FairSpec == Spec /\ WF_vars(Progress)

-----------------------------------------------------------------------------
(* Properties.                                                             *)

PyTypeOK ==
  /\ freeThreaded \in BOOLEAN
  /\ py \in [Agents -> {"out", "want", "rust", "python", "back", "away"}]
  /\ pc \in [Threads -> {"idle", "dim", "select", "wait", "join", "cheap"}]
  /\ call \in [Threads -> Call \cup {NoCall}]
  /\ \A t \in Threads : call[t] = NoCall <=> pc[t] = "idle"
  /\ borrow \in [Engines -> Threads \cup {Nobody}]
  /\ exec \in [Engines -> WorkerCounts \cup {0}]
  /\ \A e \in Engines : \A k \in DOMAIN batch[e] : batch[e][k] \in Item
  /\ evaluated \in [Engines -> SUBSET Points]
  /\ decided \in [Engines -> SUBSET Points]
  /\ ~freeThreaded => Cardinality(Attached) <= 1

\* "Safety: GIL protects all Python interactions": an engine is run by one
\* thread, which owns its borrow; Python code called for it, on whatever
\* thread, is running only while that thread is in the call and waits for
\* it, so nothing an evaluator does outlives the call or meets another one.
EngineExclusive ==
  /\ \A t \in Threads : call[t] # NoCall => borrow[call[t].engine] = t
  /\ \A e \in Engines : \A k \in 1 .. MaxWorkers :
       py[<<e, k>>] # "out" =>
         /\ borrow[e] # Nobody
         /\ pc[borrow[e]] = "wait"
         /\ call[borrow[e]].engine = e

\* An exception of mc_sample reaches the caller: a call that returns an
\* output had none, except one raised on a pool thread for a candidate that
\* the cheap constraints then rejected.
ErrorsSurface ==
  \A t \in Threads :
    last[t] # NoCall /\ last[t].how = "returned" =>
      /\ last[t].raised \subseteq last[t].rejected
      /\ last[t].inline => last[t].raised = {}

\* Every call comes back, whatever the other threads do, unless a thread of a
\* pool waits for the GIL that the thread at the batch barrier keeps.
ReturnsUnlessGilDeadlock ==
  \A t \in Threads : call[t] # NoCall ~> call[t] = NoCall \/ GilDeadlock

\* "Multi-worker execution parallelizes between GIL/JVM acquisitions": every
\* call comes back.
CallReturns == \A t \in Threads : call[t] # NoCall ~> call[t] = NoCall

=============================================================================
