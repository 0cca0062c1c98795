-------------------------- MODULE PyBindingProofs ---------------------------
(***************************************************************************)
(* Proofs about PyBinding, for any number of Python threads, engines and   *)
(* points, any worker counts and any number of calls and batches.          *)
(***************************************************************************)
EXTENDS PyBinding, FiniteSetTheorems, TLAPS

-----------------------------------------------------------------------------
(* The inductive invariant.                                                *)

\* The batches are functions from numbers to items.
ItemTypes ==
  /\ DOMAIN batch = Engines
  /\ \A e \in Engines :
       /\ batch[e] = [k \in DOMAIN batch[e] |-> batch[e][k]]
       /\ DOMAIN batch[e] \subseteq Nat
       /\ \A k \in DOMAIN batch[e] : batch[e][k] \in Item

\* Types: PyTypeOK without the GIL, and functions where it names values.
Types ==
  /\ freeThreaded \in BOOLEAN
  /\ py \in [Agents -> {"out", "want", "rust", "python", "back", "away"}]
  /\ pc \in [Threads -> {"idle", "dim", "select", "wait", "join", "cheap"}]
  /\ call \in [Threads -> Call \cup {NoCall}]
  /\ \A t \in Threads : call[t] = NoCall <=> pc[t] = "idle"
  /\ borrow \in [Engines -> Threads \cup {Nobody}]
  /\ exec \in [Engines -> WorkerCounts \cup {0}]
  /\ ItemTypes
  /\ evaluated \in [Engines -> SUBSET Points]
  /\ decided \in [Engines -> SUBSET Points]
  /\ DOMAIN last = Threads

\* A call and the borrow of its engine name each other.
Owner ==
  /\ \A t \in Threads : call[t] # NoCall => borrow[call[t].engine] = t
  /\ \A e \in Engines : borrow[e] # Nobody =>
       call[borrow[e]] # NoCall /\ call[borrow[e]].engine = e

\* The states in which an agent is in Python code.
Visiting == {"python", "back", "away"}

Sampling(e) == \E k \in DOMAIN batch[e] : batch[e][k].st = "sample"

\* How a calling thread stands to the interpreter, by its place in the run.
StandingOf(t) ==
  /\ pc[t] = "idle" => py[t] = "out"
  /\ pc[t] \in {"select", "join"} => py[t] = "rust"
  /\ pc[t] \in {"dim", "cheap"} => py[t] \in Visiting
  /\ pc[t] = "wait" =>
       IF exec[call[t].engine] = 0 /\ Sampling(call[t].engine)
         THEN py[t] \in Visiting
         ELSE py[t] = "rust"

Standing == \A t \in Threads : StandingOf(t)

\* Items exist while their call is past dispatch; before the barrier only
\* they can be unfinished; without a pool there is one at a time.
BatchOf(e) ==
  /\ exec[e] = 0 => DOMAIN batch[e] \subseteq {1}
  /\ borrow[e] = Nobody => DOMAIN batch[e] = {}
  /\ borrow[e] # Nobody =>
       /\ pc[borrow[e]] \in {"dim", "select"} => DOMAIN batch[e] = {}
       /\ pc[borrow[e]] \in {"join", "cheap"} =>
            \A k \in DOMAIN batch[e] :
              batch[e][k].st \in {"decided", "value", "missing"}

Batches == \A e \in Engines : BatchOf(e)

\* A thread of a pool touches Python exactly while it samples its item.
PoolOf(e, k) == py[<<e, k>>] # "out" <=> exec[e] # 0 /\ HasItem(e, k, "sample")

Pools == \A e \in Engines, k \in 1 .. MaxWorkers : PoolOf(e, k)

\* The GIL has at most one holder.
Gil == freeThreaded \/ \A a, b \in Attached : a = b

\* Where the exceptions of a call are: turned away by the cheap constraints,
\* or in an outcome that is still to be looked at.
ErrorsOf(t) ==
  call[t] # NoCall =>
    /\ exec[call[t].engine] = 0 => call[t].raised = {}
    /\ \A x \in call[t].raised :
         \/ x \in call[t].rejected
         \/ \E k \in DOMAIN batch[call[t].engine] :
              /\ batch[call[t].engine][k].x = x
              /\ batch[call[t].engine][k].st = "missing"

Errors == \A t \in Threads : ErrorsOf(t)

PyInv == /\ Types /\ Owner /\ Standing /\ Batches /\ Pools /\ Gil
         /\ Errors /\ ErrorsSurface


-----------------------------------------------------------------------------
(* What the actions' shared pieces do.                                     *)

\* A thread of a pool is an agent, is no Python thread and is known by its
\* engine and its number.
LEMMA PoolAgent ==
  /\ Threads \subseteq Agents
  /\ \A e \in Engines, k \in 1 .. MaxWorkers :
       <<e, k>> \in Agents /\ <<e, k>> \notin Threads
  /\ \A e, f, k, l : <<e, k>> = <<f, l>> <=> e = f /\ k = l
BY PyAssumption DEF Agents, PoolWorkers

\* SetItem changes the state of one item and nothing else.
LEMMA SetItemFacts ==
  ASSUME Types, NEW e \in Engines, NEW k \in DOMAIN batch[e],
         NEW st \in {"lookup", "sample", "decided", "value", "missing"},
         SetItem(e, k, st)
  PROVE  /\ ItemTypes'
         /\ \A f \in Engines :
              /\ DOMAIN batch'[f] = DOMAIN batch[f]
              /\ \A j \in DOMAIN batch[f] :
                   /\ batch'[f][j].x = batch[f][j].x
                   /\ f # e \/ j # k => batch'[f][j].st = batch[f][j].st
         /\ batch'[e][k].st = st
<1> USE DEF Types, ItemTypes, SetItem
<1>1. DOMAIN batch' = Engines
  OBVIOUS
<1>2. \A f \in Engines : f # e => batch'[f] = batch[f]
  OBVIOUS
<1>3. batch'[e] = [batch[e] EXCEPT ![k].st = st]
  OBVIOUS
<1>4. \A j \in DOMAIN batch[e] :
        batch'[e][j] = IF j = k THEN [batch[e][j] EXCEPT !.st = st] ELSE batch[e][j]
  BY <1>3
<1>5. DOMAIN batch'[e] = DOMAIN batch[e]
  BY <1>3
<1>6. batch'[e] = [j \in DOMAIN batch'[e] |-> batch'[e][j]]
  BY <1>3, <1>5
<1>7. batch[e][k] \in Item
  OBVIOUS
<1>8. [batch[e][k] EXCEPT !.st = st] \in Item
  BY <1>7 DEF Item
<1>9. [batch[e][k] EXCEPT !.st = st].st = st /\ [batch[e][k] EXCEPT !.st = st].x = batch[e][k].x
  BY <1>7 DEF Item
<1>10. \A j \in DOMAIN batch[e] :
         /\ batch'[e][j] \in Item
         /\ batch'[e][j].x = batch[e][j].x
         /\ j # k => batch'[e][j].st = batch[e][j].st
  BY <1>4, <1>8, <1>9
<1>11. ItemTypes'
  <2> SUFFICES ASSUME NEW f \in Engines
      PROVE  /\ batch'[f] = [j \in DOMAIN batch'[f] |-> batch'[f][j]]
             /\ DOMAIN batch'[f] \subseteq Nat
             /\ \A j \in DOMAIN batch'[f] : batch'[f][j] \in Item
    BY <1>1 DEF ItemTypes
  <2>1. CASE f = e
    BY <2>1, <1>5, <1>6, <1>10
  <2>2. CASE f # e
    BY <2>2, <1>2
  <2> QED BY <2>1, <2>2
<1>12. batch'[e][k].st = st
  BY <1>4, <1>9
<1>13. ASSUME NEW f \in Engines
       PROVE  /\ DOMAIN batch'[f] = DOMAIN batch[f]
              /\ \A j \in DOMAIN batch[f] :
                   /\ batch'[f][j].x = batch[f][j].x
                   /\ f # e \/ j # k => batch'[f][j].st = batch[f][j].st
  <2>1. CASE f = e
    BY <2>1, <1>5, <1>10
  <2>2. CASE f # e
    BY <2>2, <1>2
  <2> QED BY <2>1, <2>2
<1> QED BY <1>11, <1>12, <1>13

\* Consume takes one item out of a batch.
LEMMA ConsumeFacts ==
  ASSUME Types, NEW e \in Engines, NEW k \in DOMAIN batch[e], Consume(e, k)
  PROVE  /\ ItemTypes'
         /\ \A f \in Engines :
              /\ DOMAIN batch'[f] = IF f = e THEN DOMAIN batch[f] \ {k} ELSE DOMAIN batch[f]
              /\ \A j \in DOMAIN batch'[f] : batch'[f][j] = batch[f][j]
<1> USE DEF Types, ItemTypes, Consume
<1>1. DOMAIN batch' = Engines
  OBVIOUS
<1>2. \A f \in Engines : f # e => batch'[f] = batch[f]
  OBVIOUS
<1>3. batch'[e] = [j \in DOMAIN batch[e] \ {k} |-> batch[e][j]]
  OBVIOUS
<1>4. ASSUME NEW f \in Engines
      PROVE  /\ DOMAIN batch'[f] = IF f = e THEN DOMAIN batch[f] \ {k} ELSE DOMAIN batch[f]
             /\ \A j \in DOMAIN batch'[f] : batch'[f][j] = batch[f][j]
             /\ batch'[f] = [j \in DOMAIN batch'[f] |-> batch'[f][j]]
             /\ DOMAIN batch'[f] \subseteq Nat
             /\ \A j \in DOMAIN batch'[f] : batch'[f][j] \in Item
  <2>1. CASE f = e
    BY <2>1, <1>3
  <2>2. CASE f # e
    BY <2>2, <1>2
  <2> QED BY <2>1, <2>2
<1> QED BY <1>1, <1>4

\* The end of a call frees its engine and its thread and records the call.
LEMMA EndCallFacts ==
  ASSUME Types, NEW t \in Threads, NEW how, call[t] # NoCall, EndCall(t, how)
  PROVE  /\ call[t].engine \in Engines
         /\ ItemTypes'
         /\ py' = [py EXCEPT ![t] = "out"]
         /\ pc' = [pc EXCEPT ![t] = "idle"]
         /\ call' = [call EXCEPT ![t] = NoCall]
         /\ borrow' = [borrow EXCEPT ![call[t].engine] = Nobody]
         /\ DOMAIN batch'[call[t].engine] = {}
         /\ \A f \in Engines : f # call[t].engine => batch'[f] = batch[f]
         /\ DOMAIN last' = Threads
         /\ \A u \in Threads : u # t => last'[u] = last[u]
         /\ last'[t].how = how
         /\ last'[t].inline = (exec[call[t].engine] = 0)
         /\ last'[t].raised = call[t].raised
         /\ last'[t].rejected = call[t].rejected
<1> DEFINE e == call[t].engine
<1>1. e \in Engines
  BY DEF Types, Call
<1>2. batch'[e] = << >> /\ DOMAIN batch' = Engines /\ \A f \in Engines : f # e => batch'[f] = batch[f]
  BY <1>1 DEF EndCall, Types, ItemTypes
<1>3. << >> = [j \in {} |-> 0] /\ DOMAIN << >> = {}
  OBVIOUS
<1>4. ItemTypes'
  <2>1. ASSUME NEW f \in Engines
        PROVE  /\ batch'[f] = [k \in DOMAIN batch'[f] |-> batch'[f][k]]
               /\ DOMAIN batch'[f] \subseteq Nat
               /\ \A k \in DOMAIN batch'[f] : batch'[f][k] \in Item
    <3>1. CASE f = e
      BY <1>2, <1>3, <3>1
    <3>2. CASE f # e
      BY <1>2, <3>2 DEF Types, ItemTypes
    <3> QED BY <3>1, <3>2
  <2> QED BY <1>2, <2>1 DEF ItemTypes
<1>5. /\ DOMAIN last' = Threads
      /\ \A u \in Threads : u # t => last'[u] = last[u]
      /\ last'[t].how = how
      /\ last'[t].inline = (exec[e] = 0)
      /\ last'[t].raised = call[t].raised
      /\ last'[t].rejected = call[t].rejected
  BY DEF EndCall, Types
<1>6. /\ py' = [py EXCEPT ![t] = "out"]
      /\ pc' = [pc EXCEPT ![t] = "idle"]
      /\ call' = [call EXCEPT ![t] = NoCall]
      /\ borrow' = [borrow EXCEPT ![e] = Nobody]
  BY DEF EndCall
<1> QED BY <1>1, <1>2, <1>3, <1>4, <1>5, <1>6

\* A call's record after one of its fields has been replaced.
LEMMA CallFields ==
  ASSUME NEW c \in Call, NEW n \in Nat, NEW s \in SUBSET Points
  PROVE  /\ [c EXCEPT !.left = n] \in Call
         /\ [c EXCEPT !.checked = s] \in Call
         /\ [c EXCEPT !.raised = s] \in Call
         /\ [c EXCEPT !.rejected = s] \in Call
BY DEF Call

-----------------------------------------------------------------------------
(* Every action preserves it, part by part.                                *)

\* An unfinished item belongs to a call that waits for it.
LEMMA Waiting ==
  ASSUME PyInv, NEW e \in Engines, NEW k \in DOMAIN batch[e],
         batch[e][k].st \in {"lookup", "sample"}
  PROVE  /\ borrow[e] \in Threads
         /\ call[borrow[e]] \in Call
         /\ call[borrow[e]] # NoCall
         /\ call[borrow[e]].engine = e
         /\ pc[borrow[e]] = "wait"
         /\ exec[e] = 0 => DOMAIN batch[e] = {1} /\ k = 1
<1>1. borrow[e] # Nobody
  BY DEF PyInv, Batches, BatchOf
<1>2. borrow[e] \in Threads /\ call[borrow[e]] # NoCall /\ call[borrow[e]].engine = e
  BY <1>1 DEF PyInv, Owner, Types
<1>3. call[borrow[e]] \in Call /\ pc[borrow[e]] # "idle"
  BY <1>2 DEF PyInv, Types
<1>4. pc[borrow[e]] = "wait"
  BY <1>1, <1>2, <1>3 DEF PyInv, Types, Batches, BatchOf
<1> QED BY <1>2, <1>3, <1>4 DEF PyInv, Batches, BatchOf

\* The engine of a call in progress.
LEMMA InCall ==
  ASSUME PyInv, NEW t \in Threads, pc[t] # "idle"
  PROVE  /\ call[t] \in Call /\ call[t] # NoCall
         /\ call[t].engine \in Engines
         /\ borrow[call[t].engine] = t
         /\ t # Nobody
         /\ \A u \in Threads : call[u] # NoCall /\ call[u].engine = call[t].engine => u = t
BY PyAssumption DEF PyInv, Types, Owner, Call

\* What a step leaves alone stays in order.
LEMMA StillInv ==
  ASSUME PyInv, UNCHANGED <<freeThreaded, pc, call, borrow, exec, batch>>
  PROVE  /\ Owner' /\ Batches' /\ Errors'
         /\ (\A e \in Engines, k \in 1 .. MaxWorkers :
               py'[<<e, k>>] # "out" <=> py[<<e, k>>] # "out") => Pools'
         /\ UNCHANGED py => Standing' /\ Pools' /\ Gil'
<1>1. Owner'
  BY DEF PyInv, Owner
<1>2. Batches'
  BY DEF PyInv, Batches, BatchOf
<1>3. Errors'
  BY DEF PyInv, Errors, ErrorsOf
<1>4. (\A e \in Engines, k \in 1 .. MaxWorkers :
         py'[<<e, k>>] # "out" <=> py[<<e, k>>] # "out") => Pools'
  BY DEF PyInv, Pools, PoolOf, HasItem
<1>5. UNCHANGED py => Standing'
  BY DEF PyInv, Standing, StandingOf, Sampling, Visiting
<1>6. UNCHANGED py => Gil'
  BY DEF PyInv, Gil, Attached
<1> QED BY <1>1, <1>2, <1>3, <1>4, <1>5, <1>6

\* A caller that stays where it is in the run stands as before, in Python code
\* or not.
LEMMA StandsAsBefore ==
  ASSUME PyInv, NEW u \in Threads, UNCHANGED <<call, exec, batch>>,
         pc'[u] = pc[u],
         py'[u] = py[u] \/ (py[u] \in Visiting /\ py'[u] \in Visiting)
  PROVE  StandingOf(u)'
<1>1. StandingOf(u) /\ "out" \notin Visiting /\ "rust" \notin Visiting
  BY DEF PyInv, Standing, Visiting
<1>2. CASE py'[u] = py[u]
  BY <1>1, <1>2 DEF StandingOf, Sampling, Visiting
<1>3. CASE py[u] \in Visiting /\ py'[u] \in Visiting
  BY <1>1, <1>3 DEF StandingOf, Sampling
<1> QED BY <1>2, <1>3

\* A callback lets go of the GIL.
LEMMA ReleaseGilStep ==
  ASSUME PyInv, NEW a \in Agents, ReleaseGil(a)
  PROVE  PyInv'
<1> USE DEF PyInv, ReleaseGil, cacheVars
<1>1. Types'
  BY DEF Types, ItemTypes
<1>2. Owner' /\ Batches' /\ Errors'
  BY StillInv
<1>3. Standing'
  <2>1. \A u \in Threads :
          py'[u] = py[u] \/ (py[u] \in Visiting /\ py'[u] \in Visiting)
    BY PoolAgent DEF Types, Visiting
  <2> QED BY <2>1, StandsAsBefore DEF Standing
<1>5. Pools'
  <2>1. \A e \in Engines, k \in 1 .. MaxWorkers :
          py'[<<e, k>>] # "out" <=> py[<<e, k>>] # "out"
    BY PoolAgent DEF Types
  <2> QED BY <2>1, StillInv
<1>6. Gil'
  BY DEF Gil, Attached, Types
<1>8. ErrorsSurface'
  BY DEF ErrorsSurface
<1> QED BY <1>1, <1>2, <1>3, <1>5, <1>6, <1>8

\* It takes the GIL again.
LEMMA RetakeGilStep ==
  ASSUME PyInv, NEW a \in Agents, RetakeGil(a)
  PROVE  PyInv'
<1> USE DEF PyInv, RetakeGil, cacheVars
<1>1. Types'
  BY DEF Types, ItemTypes
<1>2. Owner' /\ Batches' /\ Errors'
  BY StillInv
<1>3. Standing'
  <2>1. \A u \in Threads :
          py'[u] = py[u] \/ (py[u] \in Visiting /\ py'[u] \in Visiting)
    BY PoolAgent DEF Types, Visiting
  <2> QED BY <2>1, StandsAsBefore DEF Standing
<1>5. Pools'
  <2>1. \A e \in Engines, k \in 1 .. MaxWorkers :
          py'[<<e, k>>] # "out" <=> py[<<e, k>>] # "out"
    BY PoolAgent DEF Types
  <2> QED BY <2>1, StillInv
<1>6. Gil'
  BY DEF Gil, Attached, CanAttach, Types
<1>8. ErrorsSurface'
  BY DEF ErrorsSurface
<1> QED BY <1>1, <1>2, <1>3, <1>5, <1>6, <1>8

\* A thread of a pool gets the GIL.
LEMMA AttachWorkerStep ==
  ASSUME PyInv, NEW a \in Agents, AttachWorker(a)
  PROVE  PyInv'
<1> USE DEF PyInv, AttachWorker, cacheVars
<1>1. Types'
  BY DEF Types, ItemTypes
<1>2. Owner' /\ Batches' /\ Errors'
  BY StillInv
<1>3. Standing'
  <2>1. ASSUME NEW u \in Threads PROVE py[u] # "want"
    <3>1. StandingOf(u)
      BY DEF Standing
    <3> QED BY <3>1 DEF StandingOf, Types, Visiting
  <2>2. \A u \in Threads : py'[u] = py[u]
    BY <2>1, PoolAgent DEF Types
  <2> QED BY <2>2, StandsAsBefore DEF Standing
<1>5. Pools'
  <2>1. \A e \in Engines, k \in 1 .. MaxWorkers :
          py'[<<e, k>>] # "out" <=> py[<<e, k>>] # "out"
    BY PoolAgent DEF Types
  <2> QED BY <2>1, StillInv
<1>6. Gil'
  BY DEF Gil, Attached, CanAttach, Types
<1>8. ErrorsSurface'
  BY DEF ErrorsSurface
<1> QED BY <1>1, <1>2, <1>3, <1>5, <1>6, <1>8

\* A Python thread calls an engine, busy or free.
LEMMA CallEngineStep ==
  ASSUME PyInv, NEW t \in Threads, NEW e \in Engines, NEW w \in WorkerCounts,
         NEW toy \in BOOLEAN, NEW dimSet \in BOOLEAN, CallEngine(t, e, w, toy, dimSet)
  PROVE  PyInv'
<1> DEFINE c == [engine |-> e, toy |-> toy, left |-> MaxBatches,
                 checked |-> {}, raised |-> {}, rejected |-> {}]
<1>0. c \in Call /\ c # NoCall /\ c.engine = e /\ c.raised = {}
  BY PyAssumption DEF Call
<1>t. t # Nobody /\ t \in Agents /\ call[t] = NoCall /\ py[t] = "out"
  BY PyAssumption, PoolAgent DEF PyInv, Types, Standing, StandingOf, CallEngine
<1>1. CASE borrow[e] # Nobody
  <2>1. UNCHANGED <<freeThreaded, py, pc, call, borrow, exec, batch, evaluated, decided>>
    BY <1>1 DEF CallEngine, cacheVars
  <2>2. last' = [last EXCEPT ![t] = [how |-> "busy"]]
    BY <1>1 DEF CallEngine
  <2>3. ErrorsSurface'
    BY <2>2 DEF PyInv, ErrorsSurface, Types
  <2>4. Types'
    BY <2>1, <2>2 DEF PyInv, Types, ItemTypes
  <2>5. Owner' /\ Standing' /\ Batches' /\ Pools' /\ Gil' /\ Errors'
    BY <2>1, StillInv
  <2> QED BY <2>3, <2>4, <2>5 DEF PyInv
<1>2. CASE borrow[e] = Nobody
  <2> DEFINE stand == IF toy \/ dimSet THEN "rust" ELSE "python"
             place == IF toy \/ dimSet THEN "select" ELSE "dim"
  <2>1. /\ py' = [py EXCEPT ![t] = stand]
        /\ pc' = [pc EXCEPT ![t] = place]
        /\ call' = [call EXCEPT ![t] = c]
        /\ borrow' = [borrow EXCEPT ![e] = t]
        /\ exec' = [exec EXCEPT ![e] = Configured(w)]
        /\ UNCHANGED <<freeThreaded, batch, evaluated, decided, last>>
        /\ CanAttach
    BY <1>2 DEF CallEngine, cacheVars
  <2>2. Configured(w) \in WorkerCounts \cup {0}
    BY DEF Configured
  <2>3. stand \in {"rust", "python"} /\ place \in {"select", "dim"}
        /\ (place = "select" <=> stand = "rust")
    OBVIOUS
  <2>4. DOMAIN batch[e] = {} /\ \A u \in Threads : call[u] # NoCall => call[u].engine # e
    BY <1>2, <1>t, PyAssumption DEF PyInv, Batches, BatchOf, Owner
  <2> HIDE DEF c, stand, place
  <2>5. Types'
    BY <2>1, <2>2, <2>3, <1>0, <1>t DEF PyInv, Types, ItemTypes
  <2>6. Owner'
    BY <2>1, <2>4, <1>0, <1>t, <1>2 DEF PyInv, Types, Owner, Call
  <2>7. Standing'
    <3> SUFFICES ASSUME NEW u \in Threads
        PROVE  StandingOf(u)'
      BY DEF Standing, StandingOf
    <3>1. CASE u = t
      BY <3>1, <2>1, <2>3, PoolAgent DEF PyInv, Types, Visiting, StandingOf
    <3>2. CASE u # t
      <4>1. pc'[u] = pc[u] /\ py'[u] = py[u] /\ call'[u] = call[u] /\ u \in Agents
        BY <3>2, <2>1, PoolAgent DEF PyInv, Types
      <4>2. pc[u] = "wait" => call[u] \in Call /\ call[u] # NoCall /\ call[u].engine # e
                              /\ call[u].engine \in Engines
        BY <2>4, InCall DEF PyInv, Types
      <4>3. pc[u] = "wait" => exec'[call[u].engine] = exec[call[u].engine]
        BY <4>2, <2>1 DEF PyInv, Types
      <4> QED BY <4>1, <4>2, <4>3, <2>1 DEF PyInv, Standing, StandingOf, Sampling
    <3> QED BY <3>1, <3>2
  <2>8. Batches'
    BY <2>1, <2>3, <2>4, <1>t DEF PyInv, Types, Batches, BatchOf, Owner
  <2>9. Pools'
    <3> SUFFICES ASSUME NEW f \in Engines, NEW k \in 1 .. MaxWorkers
        PROVE  PoolOf(f, k)'
      BY DEF Pools, PoolOf
    <3>1. py'[<<f, k>>] = py[<<f, k>>]
      BY <2>1, PoolAgent DEF PyInv, Types
    <3>2. f = e => py[<<f, k>>] = "out" /\ ~HasItem(f, k, "sample")'
      BY <2>1, <2>4 DEF PyInv, Pools, PoolOf, HasItem
    <3>3. f # e => exec'[f] = exec[f] /\ HasItem(f, k, "sample")' = HasItem(f, k, "sample")
      BY <2>1 DEF PyInv, Types, HasItem
    <3> QED BY <3>1, <3>2, <3>3 DEF PyInv, Pools, PoolOf
  <2>10. Gil'
    BY <2>1, <2>3, <1>t DEF PyInv, Types, Gil, Attached, CanAttach
  <2>11. Errors'
    <3> SUFFICES ASSUME NEW u \in Threads
        PROVE  ErrorsOf(u)'
      BY DEF Errors, ErrorsOf
    <3>1. CASE u = t
      BY <3>1, <2>1, <1>0 DEF PyInv, Types, ErrorsOf
    <3>2. CASE u # t
      <4>1. call'[u] = call[u] /\ (call[u] # NoCall => call[u].engine # e /\ call[u].engine \in Engines)
        BY <3>2, <2>1, <2>4 DEF PyInv, Types, Call
      <4>2. call[u] # NoCall => exec'[call[u].engine] = exec[call[u].engine]
        BY <4>1, <2>1 DEF PyInv, Types
      <4> QED BY <4>1, <4>2, <2>1 DEF PyInv, Errors, ErrorsOf
    <3> QED BY <3>1, <3>2
  <2>12. ErrorsSurface'
    BY <2>1 DEF PyInv, ErrorsSurface
  <2> QED BY <2>5, <2>6, <2>7, <2>8, <2>9, <2>10, <2>11, <2>12 DEF PyInv
<1> QED BY <1>1, <1>2

\* search_dim returns.
LEMMA SearchDimReturnsStep ==
  ASSUME PyInv, NEW t \in Threads, SearchDimReturns(t)
  PROVE  PyInv'
<1> USE DEF PyInv, SearchDimReturns, InCallback, cacheVars
<1>1. Types'
  BY PoolAgent DEF Types, ItemTypes
<1>2. Owner' /\ Errors'
  BY DEF Owner, Errors, ErrorsOf
<1>3. Standing'
  <2>1. \A u \in Threads : u # t => pc'[u] = pc[u] /\ py'[u] = py[u]
    BY PoolAgent DEF PyInv, Types
  <2>2. ASSUME NEW u \in Threads, u # t PROVE StandingOf(u)'
    BY <2>1, <2>2, StandsAsBefore
  <2>3. pc'[t] = "select" /\ py'[t] = "rust"
    BY PoolAgent DEF Types
  <2>4. StandingOf(t)'
    BY <2>3 DEF StandingOf
  <2> QED BY <2>2, <2>4 DEF Standing
<1>4. Batches'
  BY DEF Batches, BatchOf, Types
<1>5. Pools'
  <2>1. \A e \in Engines, k \in 1 .. MaxWorkers :
          py'[<<e, k>>] # "out" <=> py[<<e, k>>] # "out"
    BY PoolAgent DEF Types
  <2> QED BY <2>1 DEF Pools, PoolOf, HasItem
<1>6. Gil'
  BY PoolAgent DEF Gil, Attached, Types
<1>8. ErrorsSurface'
  BY DEF ErrorsSurface
<1> QED BY <1>1, <1>2, <1>3, <1>4, <1>5, <1>6, <1>8

\* A batch goes to the executor.
LEMMA DispatchStep ==
  ASSUME PyInv, NEW t \in Threads, Dispatch(t)
  PROVE  PyInv'
<1> DEFINE e == call[t].engine
<1>0. pc[t] = "select" /\ t \in Agents /\ py[t] = "rust"
  BY PoolAgent DEF PyInv, Dispatch, Standing, StandingOf
<1>c. /\ call[t] \in Call /\ call[t] # NoCall /\ e \in Engines /\ borrow[e] = t /\ t # Nobody
      /\ \A u \in Threads : call[u] # NoCall /\ call[u].engine = e => u = t
  BY <1>0, InCall
<1>b. DOMAIN batch[e] = {}
  BY <1>0, <1>c DEF PyInv, Batches, BatchOf
<1>n. PICK n \in 1 .. Width(e) : \E xs \in [1 .. n -> Points] :
        batch' = [batch EXCEPT ![e] = [k \in 1 .. n |-> [x |-> xs[k], st |-> "lookup"]]]
  BY DEF Dispatch
<1>1. PICK xs \in [1 .. n -> Points] :
        batch' = [batch EXCEPT ![e] = [k \in 1 .. n |-> [x |-> xs[k], st |-> "lookup"]]]
  BY <1>n
<1>2. /\ call' = [call EXCEPT ![t] = [call[t] EXCEPT !.left = call[t].left - 1]]
      /\ pc' = [pc EXCEPT ![t] = "wait"]
      /\ UNCHANGED <<freeThreaded, py, borrow, exec, evaluated, decided, last>>
      /\ call[t].left > 0
  BY DEF Dispatch, cacheVars
<1>3. call[t].left - 1 \in Nat
  BY <1>2, <1>c DEF Call
<1> DEFINE c == [call[t] EXCEPT !.left = call[t].left - 1]
<1>4. /\ c \in Call /\ c # NoCall /\ c.engine = e /\ c.raised = call[t].raised
      /\ c.rejected = call[t].rejected
  <2>1. c \in Call
    BY <1>3, <1>c, CallFields
  <2> QED BY <2>1, <1>c, PyAssumption DEF Call
<1>5. Width(e) \in Nat /\ (exec[e] = 0 => Width(e) = 1)
  BY <1>c, PyAssumption DEF PyInv, Types, Width
<1>6. /\ ItemTypes'
      /\ \A f \in Engines : f # e => batch'[f] = batch[f]
      /\ DOMAIN batch'[e] = 1 .. n
      /\ \A k \in DOMAIN batch'[e] : batch'[e][k].st = "lookup"
  <2> DEFINE b == [k \in 1 .. n |-> [x |-> xs[k], st |-> "lookup"]]
  <2>1. /\ batch'[e] = b /\ DOMAIN batch' = Engines
        /\ \A f \in Engines : f # e => batch'[f] = batch[f]
    BY <1>1, <1>c DEF PyInv, Types, ItemTypes
  <2>2. n \in Nat
    BY <1>5
  <2>3. /\ b = [k \in DOMAIN b |-> b[k]] /\ DOMAIN b = 1 .. n /\ DOMAIN b \subseteq Nat
        /\ \A k \in DOMAIN b : b[k] \in Item /\ b[k].st = "lookup"
    BY <2>2 DEF Item
  <2> HIDE DEF b
  <2>4. ASSUME NEW f \in Engines
        PROVE  /\ batch'[f] = [k \in DOMAIN batch'[f] |-> batch'[f][k]]
               /\ DOMAIN batch'[f] \subseteq Nat
               /\ \A k \in DOMAIN batch'[f] : batch'[f][k] \in Item
    <3>1. CASE f = e
      BY <2>1, <2>3, <3>1
    <3>2. CASE f # e
      BY <2>1, <3>2 DEF PyInv, Types, ItemTypes
    <3> QED BY <3>1, <3>2
  <2>5. ItemTypes'
    BY <2>1, <2>4 DEF ItemTypes
  <2> QED BY <2>1, <2>3, <2>5
<1> HIDE DEF c
<1>7. /\ \A u \in Threads : u # t => call'[u] = call[u] /\ pc'[u] = pc[u]
      /\ call'[t] = c /\ pc'[t] = "wait"
      /\ \A u \in Threads : u # t /\ call[u] # NoCall => batch'[call[u].engine] = batch[call[u].engine]
  <2>1. /\ \A u \in Threads : u # t => call'[u] = call[u] /\ pc'[u] = pc[u]
        /\ call'[t] = c /\ pc'[t] = "wait"
    BY <1>2 DEF PyInv, Types, c
  <2>2. ASSUME NEW u \in Threads, u # t, call[u] # NoCall
        PROVE  batch'[call[u].engine] = batch[call[u].engine]
    <3>1. call[u].engine \in Engines /\ call[u].engine # e
      BY <2>2, <1>c DEF PyInv, Types, Call
    <3> QED BY <3>1, <1>6
  <2> QED BY <2>1, <2>2
<1>8. Types'
  BY <1>2, <1>4, <1>6, <1>c DEF PyInv, Types, c
<1>9. Owner'
  BY <1>2, <1>4, <1>7, <1>c DEF PyInv, Owner, Types
<1>10. Standing'
  <2> SUFFICES ASSUME NEW u \in Threads PROVE StandingOf(u)'
    BY DEF Standing
  <2>1. CASE u = t
    <3>1. ~Sampling(call[u].engine)'
      BY <2>1, <1>7, <1>4, <1>6 DEF Sampling
    <3> QED BY <2>1, <3>1, <1>7, <1>2, <1>0 DEF StandingOf
  <2>2. CASE u # t
    <3>1. pc[u] = "wait" => call[u] # NoCall
      BY DEF PyInv, Types
    <3>2. pc[u] = "wait" => (Sampling(call[u].engine)' <=> Sampling(call[u].engine))
      BY <2>2, <3>1, <1>7 DEF Sampling
    <3>3. StandingOf(u)
      BY DEF PyInv, Standing
    <3> QED BY <2>2, <3>2, <3>3, <1>7, <1>2 DEF StandingOf, Visiting
  <2> QED BY <2>1, <2>2
<1>11. Batches'
  <2> SUFFICES ASSUME NEW f \in Engines PROVE BatchOf(f)'
    BY DEF Batches
  <2>1. CASE f = e
    BY <2>1, <1>1, <1>2, <1>5, <1>6, <1>7, <1>c DEF BatchOf
  <2>2. CASE f # e
    <3>1. borrow[f] # Nobody => borrow[f] \in Threads /\ borrow[f] # t
      BY <2>2, <1>c DEF PyInv, Owner, Types
    <3> QED BY <2>2, <3>1, <1>2, <1>6, <1>7 DEF BatchOf, PyInv, Batches
  <2> QED BY <2>1, <2>2
<1>12. Pools'
  <2> SUFFICES ASSUME NEW f \in Engines, NEW k \in 1 .. MaxWorkers PROVE PoolOf(f, k)'
    BY DEF Pools
  <2>1. CASE f = e
    <3>1. ~HasItem(f, k, "sample") /\ ~HasItem(f, k, "sample")'
      BY <2>1, <1>6, <1>b, <1>c DEF HasItem
    <3> QED BY <2>1, <3>1, <1>2 DEF PoolOf, PyInv, Pools
  <2>2. CASE f # e
    BY <2>2, <1>2, <1>6 DEF PoolOf, PyInv, Pools, HasItem
  <2> QED BY <2>1, <2>2
<1>13. Gil'
  BY <1>2 DEF PyInv, Gil, Attached
<1>14. Errors'
  <2> SUFFICES ASSUME NEW u \in Threads PROVE ErrorsOf(u)'
    BY DEF Errors
  <2>1. CASE u = t
    BY <2>1, <1>2, <1>4, <1>7, <1>b, <1>c DEF ErrorsOf, PyInv, Errors
  <2>2. CASE u # t
    BY <2>2, <1>2, <1>7 DEF ErrorsOf, PyInv, Errors
  <2> QED BY <2>1, <2>2
<1>15. ErrorsSurface'
  BY <1>2 DEF PyInv, ErrorsSurface
<1> QED BY <1>8, <1>9, <1>10, <1>11, <1>12, <1>13, <1>14, <1>15 DEF PyInv

\* Setting an item that was unfinished keeps what does not depend on py.
LEMMA SetItemInv ==
  ASSUME PyInv, NEW e \in Engines, NEW k \in DOMAIN batch[e],
         batch[e][k].st \in {"lookup", "sample"},
         NEW st \in {"sample", "decided", "value", "missing"}, SetItem(e, k, st),
         UNCHANGED <<freeThreaded, pc, borrow, exec, last>>,
         \/ UNCHANGED call
         \/ /\ st = "missing" /\ exec[e] # 0
            /\ call' = [call EXCEPT ![borrow[e]] =
                          [call[borrow[e]] EXCEPT !.raised =
                             call[borrow[e]].raised \cup {batch[e][k].x}]]
  PROVE  /\ call' \in [Threads -> Call \cup {NoCall}]
         /\ \A t \in Threads : /\ call'[t] = NoCall <=> call[t] = NoCall
                               /\ call[t] # NoCall => call'[t].engine = call[t].engine
         /\ ItemTypes' /\ Owner' /\ Batches' /\ Errors' /\ ErrorsSurface'
<1> DEFINE t == borrow[e]
           c == [call[t] EXCEPT !.raised = call[t].raised \cup {batch[e][k].x}]
<1>1. /\ t \in Threads /\ call[t] \in Call /\ call[t] # NoCall
      /\ call[t].engine = e /\ pc[t] = "wait"
  BY Waiting
<1>2. /\ ItemTypes'
      /\ \A f \in Engines :
           /\ DOMAIN batch'[f] = DOMAIN batch[f]
           /\ \A j \in DOMAIN batch[f] :
                /\ batch'[f][j].x = batch[f][j].x
                /\ f # e \/ j # k => batch'[f][j].st = batch[f][j].st
      /\ batch'[e][k].st = st
  BY SetItemFacts DEF PyInv
<1>3. batch[e][k].x \in Points
  BY DEF PyInv, Types, ItemTypes, Item
<1>4. /\ c \in Call /\ c # NoCall /\ c.engine = e /\ c.rejected = call[t].rejected
      /\ c.raised = call[t].raised \cup {batch[e][k].x}
  <2>1. c \in Call
    <3>1. call[t].raised \cup {batch[e][k].x} \in SUBSET Points
      BY <1>1, <1>3 DEF Call
    <3> QED BY <1>1, <3>1, CallFields
  <2> QED BY <2>1, <1>1, PyAssumption DEF Call
<1> HIDE DEF c
<1>5. UNCHANGED call \/ (call' = [call EXCEPT ![t] = c] /\ st = "missing" /\ exec[e] # 0)
  BY DEF c
<1> HIDE DEF t
<1>6. /\ call' \in [Threads -> Call \cup {NoCall}]
      /\ \A u \in Threads : /\ u # t => call'[u] = call[u]
                            /\ call'[u] = NoCall <=> call[u] = NoCall
                            /\ call[u] # NoCall => call'[u].engine = call[u].engine
      /\ \/ call'[t] = call[t]
         \/ call'[t] = c /\ st = "missing" /\ exec[e] # 0
  BY <1>1, <1>4, <1>5 DEF PyInv, Types
<1>7. Owner'
  BY <1>6 DEF PyInv, Owner, Types
<1>8. Batches'
  <2> SUFFICES ASSUME NEW f \in Engines PROVE BatchOf(f)'
    BY DEF Batches
  <2>1. BatchOf(f) /\ pc' = pc /\ borrow' = borrow /\ exec' = exec
    BY DEF PyInv, Batches
  <2>2. CASE f = e
    <3>1. borrow[f] = t /\ pc[t] = "wait"
      BY <2>2, <1>1 DEF t
    <3>2. DOMAIN batch'[f] = DOMAIN batch[f] /\ borrow[f] # Nobody
      BY <2>2, <1>2, <1>1, PyAssumption DEF t
    <3> QED BY <2>1, <3>1, <3>2 DEF BatchOf
  <2>3. CASE f # e
    BY <2>3, <2>1, <1>2 DEF BatchOf
  <2> QED BY <2>2, <2>3
<1>9. Errors'
  <2> SUFFICES ASSUME NEW u \in Threads, call'[u] # NoCall PROVE ErrorsOf(u)'
    BY DEF Errors, ErrorsOf
  <2> DEFINE g == call[u].engine
  <2>1. call[u] # NoCall /\ call'[u].engine = g /\ g \in Engines /\ exec' = exec /\ ErrorsOf(u)
    BY <1>6 DEF PyInv, Types, Errors, Call
  <2>2. ASSUME NEW x, NEW j \in DOMAIN batch[g], batch[g][j].x = x, batch[g][j].st = "missing"
        PROVE  \E i \in DOMAIN batch'[g] : batch'[g][i].x = x /\ batch'[g][i].st = "missing"
    <3>1. g # e \/ j # k
      BY <2>2
    <3> QED BY <3>1, <2>1, <2>2, <1>2
  <2>3. CASE call'[u] = call[u]
    BY <2>1, <2>2, <2>3 DEF ErrorsOf
  <2>4. CASE u = t /\ call'[u] = c /\ st = "missing" /\ exec[e] # 0
    <3>1. g = e
      BY <2>4, <1>1
    <3>2. \E i \in DOMAIN batch'[g] : batch'[g][i].x = batch[e][k].x /\ batch'[g][i].st = "missing"
      BY <3>1, <2>4, <1>2
    <3> QED BY <3>1, <3>2, <2>1, <2>2, <2>4, <1>4 DEF ErrorsOf
  <2> QED BY <2>3, <2>4, <1>6
<1>10. ErrorsSurface'
  BY DEF PyInv, ErrorsSurface
<1> QED BY <1>2, <1>6, <1>7, <1>8, <1>9, <1>10

\* How the callers stand to the interpreter when an item of engine e is set.
LEMMA SetItemStanding ==
  ASSUME PyInv, NEW e \in Engines, NEW k \in DOMAIN batch[e],
         batch[e][k].st \in {"lookup", "sample"},
         NEW st \in {"sample", "decided", "value", "missing"}, SetItem(e, k, st),
         UNCHANGED <<pc, exec>>,
         \A t \in Threads : /\ call'[t] = NoCall <=> call[t] = NoCall
                            /\ call[t] # NoCall => call'[t].engine = call[t].engine,
         \A t \in Threads : t # borrow[e] \/ exec[e] # 0 => py'[t] = py[t],
         exec[e] = 0 => IF st = "sample" THEN py'[borrow[e]] \in Visiting
                                         ELSE py'[borrow[e]] = "rust"
  PROVE  Standing'
<1>1. /\ borrow[e] \in Threads /\ call[borrow[e]] # NoCall
      /\ call[borrow[e]].engine = e /\ pc[borrow[e]] = "wait"
      /\ exec[e] = 0 => DOMAIN batch[e] = {1} /\ k = 1
  BY Waiting
<1>2. /\ \A f \in Engines :
           /\ DOMAIN batch'[f] = DOMAIN batch[f]
           /\ \A j \in DOMAIN batch[f] :
                f # e \/ j # k => batch'[f][j].st = batch[f][j].st
      /\ batch'[e][k].st = st
  BY SetItemFacts DEF PyInv
<1> SUFFICES ASSUME NEW u \in Threads PROVE StandingOf(u)'
  BY DEF Standing
<1>3. StandingOf(u)
  BY DEF PyInv, Standing
<1>4. pc[u] = "wait" =>
        call[u] # NoCall /\ call[u].engine \in Engines /\ call'[u].engine = call[u].engine
  BY DEF PyInv, Types, Call
<1>5. CASE u = borrow[e] /\ exec[e] = 0
  <2>1. call'[u].engine = e
    BY <1>1, <1>4, <1>5
  <2>2. Sampling(call[u].engine)' <=> st = "sample"
    BY <2>1, <1>1, <1>2, <1>5 DEF Sampling
  <2> QED BY <2>1, <2>2, <1>1, <1>5 DEF StandingOf
<1>6. CASE u # borrow[e]
  <2>1. pc[u] = "wait" => call[u].engine # e
    BY <1>4, <1>6 DEF PyInv, Owner
  <2>2. pc[u] = "wait" => (Sampling(call[u].engine)' <=> Sampling(call[u].engine))
    BY <2>1, <1>2, <1>4 DEF Sampling
  <2>3. py'[u] = py[u]
    BY <1>6
  <2> QED BY <2>2, <2>3, <1>3, <1>4 DEF StandingOf, Visiting
<1>7. CASE u = borrow[e] /\ exec[e] # 0
  <2>1. py'[u] = py[u]
    BY <1>7
  <2> QED BY <2>1, <1>1, <1>3, <1>4, <1>7 DEF StandingOf, Visiting
<1> QED BY <1>5, <1>6, <1>7

\* How the threads of the pools stand to it.
LEMMA SetItemPools ==
  ASSUME PyInv, NEW e \in Engines, NEW k \in 1 .. MaxWorkers, k \in DOMAIN batch[e],
         NEW st \in {"sample", "decided", "value", "missing"}, SetItem(e, k, st),
         UNCHANGED exec,
         \A f \in Engines, j \in 1 .. MaxWorkers :
           f # e \/ j # k \/ exec[e] = 0 => py'[<<f, j>>] = py[<<f, j>>],
         exec[e] # 0 => (py'[<<e, k>>] # "out" <=> st = "sample")
  PROVE  Pools'
<1>1. /\ \A f \in Engines :
           /\ DOMAIN batch'[f] = DOMAIN batch[f]
           /\ \A j \in DOMAIN batch[f] :
                f # e \/ j # k => batch'[f][j].st = batch[f][j].st
      /\ batch'[e][k].st = st
  BY SetItemFacts DEF PyInv
<1> SUFFICES ASSUME NEW f \in Engines, NEW j \in 1 .. MaxWorkers PROVE PoolOf(f, j)'
  BY DEF Pools
<1>2. PoolOf(f, j)
  BY DEF PyInv, Pools
<1>3. CASE f # e \/ j # k
  <2>1. HasItem(f, j, "sample")' <=> HasItem(f, j, "sample")
    BY <1>1, <1>3 DEF HasItem
  <2> QED BY <2>1, <1>2, <1>3 DEF PoolOf
<1>4. CASE f = e /\ j = k
  <2>1. HasItem(f, j, "sample")' <=> st = "sample"
    BY <1>1, <1>4 DEF HasItem
  <2> QED BY <2>1, <1>2, <1>4 DEF PoolOf
<1> QED BY <1>3, <1>4

\* An item looks into the caches, or its evaluation begins.
LEMMA LookupStep ==
  ASSUME PyInv, NEW e \in Engines, NEW k \in 1 .. MaxWorkers, Lookup(e, k)
  PROVE  PyInv'
<1>0. k \in DOMAIN batch[e] /\ batch[e][k].st = "lookup"
  BY DEF Lookup, HasItem
<1>1. UNCHANGED <<freeThreaded, pc, call, borrow, exec, evaluated, decided, last>>
  BY DEF Lookup, cacheVars
<1>2. /\ borrow[e] \in Threads /\ call[borrow[e]] # NoCall
      /\ call[borrow[e]].engine = e /\ pc[borrow[e]] = "wait"
      /\ exec[e] = 0 => DOMAIN batch[e] = {1} /\ k = 1
  BY <1>0, Waiting
<1>3. exec[e] = 0 => py[borrow[e]] = "rust"
  <2>1. exec[e] = 0 => ~Sampling(e)
    BY <1>0, <1>2 DEF Sampling
  <2> QED BY <2>1, <1>2 DEF PyInv, Standing, StandingOf
<1>4. exec[e] # 0 => py[<<e, k>>] = "out"
  BY <1>0 DEF PyInv, Pools, PoolOf, HasItem
<1>5. CASE UNCHANGED py /\ (SetItem(e, k, "decided") \/ SetItem(e, k, "value"))
  <2>1. PICK st \in {"decided", "value"} : SetItem(e, k, st)
    BY <1>5
  <2>2. ItemTypes' /\ Owner' /\ Batches' /\ Errors' /\ ErrorsSurface'
    BY <2>1, <1>0, <1>1, SetItemInv
  <2>3. Standing'
    BY <2>1, <1>0, <1>1, <1>3, <1>5, SetItemStanding
  <2>4. Pools'
    BY <2>1, <1>0, <1>1, <1>4, <1>5, SetItemPools
  <2>5. Types'
    BY <2>2, <1>1, <1>5 DEF PyInv, Types
  <2>6. Gil'
    BY <1>1, <1>5 DEF PyInv, Gil, Attached
  <2> QED BY <2>2, <2>3, <2>4, <2>5, <2>6 DEF PyInv
<1>6. CASE SetItem(e, k, "sample") /\ py' = [py EXCEPT ![Runner(e, k)] =
                                               IF @ = "rust" THEN "python" ELSE "want"]
  <2>1. ItemTypes' /\ Owner' /\ Batches' /\ Errors' /\ ErrorsSurface'
    BY <1>0, <1>1, <1>6, SetItemInv
  <2>2. /\ Runner(e, k) \in Agents
        /\ exec[e] = 0 => Runner(e, k) = borrow[e]
        /\ exec[e] # 0 => Runner(e, k) = <<e, k>>
    BY <1>2, PoolAgent DEF Runner
  <2>3. /\ \A a \in Agents : a # Runner(e, k) => py'[a] = py[a]
        /\ exec[e] = 0 => py'[borrow[e]] = "python"
        /\ exec[e] # 0 => py'[<<e, k>>] = "want"
        /\ py' \in [Agents -> {"out", "want", "rust", "python", "back", "away"}]
    BY <2>2, <1>3, <1>4, <1>6 DEF PyInv, Types
  <2>4. \A t \in Threads : t # borrow[e] \/ exec[e] # 0 => py'[t] = py[t]
    BY <2>2, <2>3, PoolAgent
  <2>5. \A f \in Engines, j \in 1 .. MaxWorkers :
          f # e \/ j # k \/ exec[e] = 0 => py'[<<f, j>>] = py[<<f, j>>]
    BY <2>2, <2>3, <1>2, PoolAgent
  <2>6. Standing'
    BY <1>0, <1>1, <1>6, <2>3, <2>4, SetItemStanding DEF Visiting
  <2>7. Pools'
    <3>1. exec[e] # 0 => py'[<<e, k>>] # "out"
      BY <2>3
    <3>2. k \in DOMAIN batch[e] /\ exec' = exec /\ SetItem(e, k, "sample")
      BY <1>0, <1>1, <1>6
    <3> QED BY <2>5, <3>1, <3>2, SetItemPools
  <2>8. Types'
    BY <2>1, <2>3, <1>1 DEF PyInv, Types
  <2>9. Gil'
    <3>1. Attached' \subseteq Attached
      BY <2>2, <2>3, <1>3 DEF Attached
    <3> QED BY <3>1, <1>1 DEF PyInv, Gil
  <2> QED BY <2>1, <2>6, <2>7, <2>8, <2>9 DEF PyInv
<1> QED BY <1>5, <1>6 DEF Lookup

\* The toy evaluator is asked.
LEMMA ToySampleStep ==
  ASSUME PyInv, NEW e \in Engines, NEW k \in 1 .. MaxWorkers, ToySample(e, k)
  PROVE  PyInv'
<1>0. k \in DOMAIN batch[e] /\ batch[e][k].st = "lookup" /\ SetItem(e, k, "value")
  BY DEF ToySample, HasItem
<1>1. /\ UNCHANGED <<freeThreaded, py, pc, call, borrow, exec, decided, last>>
      /\ evaluated' = [evaluated EXCEPT ![e] = evaluated[e] \cup {batch[e][k].x}]
  BY DEF ToySample
<1>2. /\ borrow[e] \in Threads /\ call[borrow[e]].engine = e /\ pc[borrow[e]] = "wait"
      /\ exec[e] = 0 => DOMAIN batch[e] = {1} /\ k = 1
  BY <1>0, Waiting
<1>3. exec[e] = 0 => py[borrow[e]] = "rust"
  <2>1. exec[e] = 0 => ~Sampling(e)
    BY <1>0, <1>2 DEF Sampling
  <2> QED BY <2>1, <1>2 DEF PyInv, Standing, StandingOf
<1>4. exec[e] # 0 => py[<<e, k>>] = "out"
  BY <1>0 DEF PyInv, Pools, PoolOf, HasItem
<1>5. ItemTypes' /\ Owner' /\ Batches' /\ Errors' /\ ErrorsSurface'
  BY <1>0, <1>1, SetItemInv
<1>6. Standing'
  BY <1>0, <1>1, <1>3, SetItemStanding
<1>7. Pools'
  BY <1>0, <1>1, <1>4, SetItemPools
<1>8. Types'
  <2>1. batch[e][k].x \in Points
    BY <1>0 DEF PyInv, Types, ItemTypes, Item
  <2> QED BY <2>1, <1>5, <1>1 DEF PyInv, Types
<1>9. Gil'
  BY <1>1 DEF PyInv, Gil, Attached
<1> QED BY <1>5, <1>6, <1>7, <1>8, <1>9 DEF PyInv

\* The runner of an item that is sampled, when its callback is over.
LEMMA RunnerLeaves ==
  ASSUME PyInv, NEW e \in Engines, NEW k \in 1 .. MaxWorkers, HasItem(e, k, "sample"),
         py' = [py EXCEPT ![Runner(e, k)] = Left(Runner(e, k))],
         InCallback(Runner(e, k)), UNCHANGED freeThreaded
  PROVE  /\ py' \in [Agents -> {"out", "want", "rust", "python", "back", "away"}]
         /\ exec[e] = 0 => py'[borrow[e]] = "rust"
         /\ exec[e] # 0 => py'[<<e, k>>] = "out"
         /\ \A t \in Threads : t # borrow[e] \/ exec[e] # 0 => py'[t] = py[t]
         /\ \A f \in Engines, j \in 1 .. MaxWorkers :
              f # e \/ j # k \/ exec[e] = 0 => py'[<<f, j>>] = py[<<f, j>>]
         /\ Gil'
<1>0. borrow[e] \in Threads
  BY Waiting DEF HasItem
<1>1. /\ Runner(e, k) \in Agents
      /\ exec[e] = 0 => Runner(e, k) = borrow[e]
      /\ exec[e] # 0 => Runner(e, k) = <<e, k>>
  BY <1>0, PoolAgent DEF Runner
<1>2. /\ exec[e] = 0 => Left(Runner(e, k)) = "rust"
      /\ exec[e] # 0 => Left(Runner(e, k)) = "out"
  BY <1>0, <1>1, PoolAgent DEF Left
<1>3. /\ \A a \in Agents : a # Runner(e, k) => py'[a] = py[a]
      /\ py'[Runner(e, k)] = Left(Runner(e, k))
      /\ py' \in [Agents -> {"out", "want", "rust", "python", "back", "away"}]
  BY <1>1, <1>2 DEF PyInv, Types
<1>4. \A t \in Threads : t # borrow[e] \/ exec[e] # 0 => py'[t] = py[t]
  BY <1>1, <1>3, PoolAgent
<1>5. \A f \in Engines, j \in 1 .. MaxWorkers :
        f # e \/ j # k \/ exec[e] = 0 => py'[<<f, j>>] = py[<<f, j>>]
  BY <1>0, <1>1, <1>3, PoolAgent
<1>6. Attached' \subseteq Attached
  BY <1>1, <1>3 DEF Attached, InCallback
<1> QED BY <1>1, <1>2, <1>3, <1>4, <1>5, <1>6 DEF PyInv, Gil

\* An evaluation returns.
LEMMA SampleReturnsStep ==
  ASSUME PyInv, NEW e \in Engines, NEW k \in 1 .. MaxWorkers, SampleReturns(e, k)
  PROVE  PyInv'
<1>0. k \in DOMAIN batch[e] /\ batch[e][k].st = "sample" /\ SetItem(e, k, "value")
  BY DEF SampleReturns, HasItem
<1>1. /\ UNCHANGED <<freeThreaded, pc, call, borrow, exec, decided, last>>
      /\ evaluated' = [evaluated EXCEPT ![e] = evaluated[e] \cup {batch[e][k].x}]
  BY DEF SampleReturns
<1>2. /\ py' \in [Agents -> {"out", "want", "rust", "python", "back", "away"}]
      /\ exec[e] = 0 => py'[borrow[e]] = "rust"
      /\ exec[e] # 0 => py'[<<e, k>>] = "out"
      /\ \A t \in Threads : t # borrow[e] \/ exec[e] # 0 => py'[t] = py[t]
      /\ \A f \in Engines, j \in 1 .. MaxWorkers :
           f # e \/ j # k \/ exec[e] = 0 => py'[<<f, j>>] = py[<<f, j>>]
      /\ Gil'
  BY RunnerLeaves DEF SampleReturns
<1>3. ItemTypes' /\ Owner' /\ Batches' /\ Errors' /\ ErrorsSurface'
  BY <1>0, <1>1, SetItemInv
<1>4. Standing'
  BY <1>0, <1>1, <1>2, SetItemStanding
<1>5. Pools'
  BY <1>0, <1>1, <1>2, SetItemPools
<1>6. Types'
  <2>1. batch[e][k].x \in Points
    BY <1>0 DEF PyInv, Types, ItemTypes, Item
  <2> QED BY <2>1, <1>1, <1>2, <1>3 DEF PyInv, Types
<1> QED BY <1>2, <1>3, <1>4, <1>5, <1>6 DEF PyInv

\* A call that ends takes nothing with it that others need; its exceptions
\* are told, or were turned away if it returns an output.
LEMMA EndCallInv ==
  ASSUME PyInv, NEW t \in Threads, NEW how \in {"raised", "returned"},
         call[t] # NoCall, EndCall(t, how), UNCHANGED <<freeThreaded, exec>>,
         evaluated' \in [Engines -> SUBSET Points],
         decided' \in [Engines -> SUBSET Points],
         \A k \in 1 .. MaxWorkers : py[<<call[t].engine, k>>] = "out",
         how = "returned" => DOMAIN batch[call[t].engine] = {}
  PROVE  PyInv'
<1> DEFINE e == call[t].engine
<1>1. /\ e \in Engines
      /\ ItemTypes'
      /\ py' = [py EXCEPT ![t] = "out"]
      /\ pc' = [pc EXCEPT ![t] = "idle"]
      /\ call' = [call EXCEPT ![t] = NoCall]
      /\ borrow' = [borrow EXCEPT ![e] = Nobody]
      /\ DOMAIN batch'[e] = {}
      /\ \A f \in Engines : f # e => batch'[f] = batch[f]
      /\ DOMAIN last' = Threads
      /\ \A u \in Threads : u # t => last'[u] = last[u]
      /\ last'[t].how = how
      /\ last'[t].inline = (exec[e] = 0)
      /\ last'[t].raised = call[t].raised
      /\ last'[t].rejected = call[t].rejected
  BY EndCallFacts DEF PyInv
<1>2. borrow[e] = t /\ \A u \in Threads : call[u] # NoCall /\ call[u].engine = e => u = t
  BY DEF PyInv, Owner
<1>p. ~\E k \in 1 .. MaxWorkers : py[<<e, k>>] # "out"
  OBVIOUS
<1>3. Types'
  BY <1>1, PoolAgent DEF PyInv, Types
<1>e. exec' = exec /\ freeThreaded' = freeThreaded
  OBVIOUS
<1>r. how = "returned" => DOMAIN batch[e] = {}
  OBVIOUS
<1> HIDE DEF e
<1>4. Owner'
  BY <1>1, <1>2 DEF PyInv, Owner, Types, e
<1>5. Standing'
  <2> SUFFICES ASSUME NEW u \in Threads PROVE StandingOf(u)'
    BY DEF Standing
  <2>1. CASE u = t
    BY <2>1, <1>1, PoolAgent DEF PyInv, Types, StandingOf
  <2>2. CASE u # t
    <3>1. py'[u] = py[u] /\ pc'[u] = pc[u] /\ call'[u] = call[u]
      BY <2>2, <1>1, PoolAgent DEF PyInv, Types
    <3>2. pc[u] = "wait" => call[u].engine \in Engines /\ call[u].engine # e
      BY <2>2, <1>2 DEF PyInv, Types, Call
    <3>3. pc[u] = "wait" => batch'[call'[u].engine] = batch[call[u].engine]
      BY <3>1, <3>2, <1>1
    <3>4. pc[u] = "wait" => (Sampling(call[u].engine)' <=> Sampling(call[u].engine))
      BY <3>3 DEF Sampling
    <3>5. StandingOf(u)
      BY DEF PyInv, Standing
    <3> QED BY <3>1, <3>4, <3>5, <1>e DEF StandingOf, Visiting
  <2> QED BY <2>1, <2>2
<1>6. Batches'
  <2> SUFFICES ASSUME NEW f \in Engines PROVE BatchOf(f)'
    BY DEF Batches
  <2>1. CASE f = e
    BY <2>1, <1>1 DEF BatchOf, PyInv, Types
  <2>2. CASE f # e
    <3>1. borrow'[f] = borrow[f] /\ batch'[f] = batch[f]
      BY <2>2, <1>1 DEF PyInv, Types
    <3>2. borrow[f] # Nobody => pc'[borrow[f]] = pc[borrow[f]]
      <4>1. borrow[f] # Nobody => borrow[f] \in Threads /\ borrow[f] # t
        BY <2>2 DEF PyInv, Owner, Types, e
      <4> QED BY <4>1, <1>1 DEF PyInv, Types
    <3>3. BatchOf(f)
      BY DEF PyInv, Batches
    <3> QED BY <3>1, <3>2, <3>3, <1>e DEF BatchOf
  <2> QED BY <2>1, <2>2
<1>7. Pools'
  <2> SUFFICES ASSUME NEW f \in Engines, NEW k \in 1 .. MaxWorkers PROVE PoolOf(f, k)'
    BY DEF Pools
  <2>0. PoolOf(f, k) /\ py'[<<f, k>>] = py[<<f, k>>]
    BY <1>1, PoolAgent DEF PyInv, Pools, Types
  <2>1. CASE f = e
    BY <2>0, <2>1, <1>1, <1>p DEF PoolOf, HasItem
  <2>2. CASE f # e
    BY <2>0, <2>2, <1>1, <1>e DEF PoolOf, HasItem
  <2> QED BY <2>1, <2>2
<1>8. Gil'
  BY <1>1, <1>e, PoolAgent DEF PyInv, Gil, Attached, Types
<1>9. Errors'
  <2> SUFFICES ASSUME NEW u \in Threads, call'[u] # NoCall PROVE ErrorsOf(u)'
    BY DEF Errors, ErrorsOf
  <2>1. u # t /\ call'[u] = call[u] /\ call[u] # NoCall
    BY <1>1 DEF PyInv, Types
  <2>2. call[u].engine \in Engines /\ call[u].engine # e
    BY <2>1, <1>2 DEF PyInv, Types, Call
  <2> QED BY <2>1, <2>2, <1>1, <1>e DEF PyInv, Errors, ErrorsOf
<1>10. ErrorsSurface'
  <2>1. ErrorsOf(t) /\ call[t] \in Call
    BY DEF PyInv, Errors, Types
  <2>2. how = "returned" => /\ call[t].raised \subseteq call[t].rejected
                            /\ exec[e] = 0 => call[t].raised = {}
    BY <2>1, <1>r DEF ErrorsOf, e
  <2>3. ASSUME NEW u \in Threads, u # t PROVE last'[u] = last[u]
    BY <1>1, <2>3 DEF PyInv, Types
  <2>4. last'[t].how = "returned" =>
          /\ last'[t].raised \subseteq last'[t].rejected
          /\ last'[t].inline => last'[t].raised = {}
    BY <1>1, <2>2
  <2> QED BY <2>3, <2>4 DEF PyInv, ErrorsSurface
<1> QED BY <1>3, <1>4, <1>5, <1>6, <1>7, <1>8, <1>9, <1>10 DEF PyInv

\* An evaluation raises: the call ends, or the outcome has no estimates.
LEMMA SampleRaisesStep ==
  ASSUME PyInv, NEW e \in Engines, NEW k \in 1 .. MaxWorkers, SampleRaises(e, k)
  PROVE  PyInv'
<1> DEFINE t == borrow[e]
<1>0. k \in DOMAIN batch[e] /\ batch[e][k].st = "sample" /\ InCallback(Runner(e, k))
  BY DEF SampleRaises, HasItem
<1>1. UNCHANGED <<freeThreaded, exec, evaluated, decided>>
  BY DEF SampleRaises, cacheVars
<1>2. t \in Threads /\ call[t] \in Call /\ call[t] # NoCall /\ call[t].engine = e
  BY <1>0, Waiting
<1>3. CASE exec[e] = 0 /\ EndCall(t, "raised")
  <2>1. \A j \in 1 .. MaxWorkers : py[<<call[t].engine, j>>] = "out"
    BY <1>2, <1>3 DEF PyInv, Pools, PoolOf
  <2>2. evaluated' \in [Engines -> SUBSET Points] /\ decided' \in [Engines -> SUBSET Points]
    BY <1>1 DEF PyInv, Types
  <2> QED BY <2>1, <2>2, <1>1, <1>2, <1>3, EndCallInv
<1>4. CASE /\ exec[e] # 0
           /\ py' = [py EXCEPT ![<<e, k>>] = "out"]
           /\ SetItem(e, k, "missing")
           /\ call' = [call EXCEPT ![t].raised = @ \cup {batch[e][k].x}]
           /\ UNCHANGED <<pc, borrow, last>>
  <2>1. Runner(e, k) = <<e, k>> /\ Left(<<e, k>>) = "out"
    BY <1>4, PoolAgent DEF Runner, Left
  <2>2. /\ py' \in [Agents -> {"out", "want", "rust", "python", "back", "away"}]
        /\ py'[<<e, k>>] = "out"
        /\ \A u \in Threads : py'[u] = py[u]
        /\ \A f \in Engines, j \in 1 .. MaxWorkers :
             f # e \/ j # k \/ exec[e] = 0 => py'[<<f, j>>] = py[<<f, j>>]
        /\ Gil'
    BY <2>1, <1>0, <1>1, <1>4, RunnerLeaves DEF HasItem
  <2>3. call' = [call EXCEPT ![borrow[e]] =
                   [call[borrow[e]] EXCEPT !.raised =
                      call[borrow[e]].raised \cup {batch[e][k].x}]]
    BY <1>4
  <2>4. /\ call' \in [Threads -> Call \cup {NoCall}]
        /\ \A u \in Threads : /\ call'[u] = NoCall <=> call[u] = NoCall
                              /\ call[u] # NoCall => call'[u].engine = call[u].engine
        /\ ItemTypes' /\ Owner' /\ Batches' /\ Errors' /\ ErrorsSurface'
    BY <2>3, <1>0, <1>1, <1>4, SetItemInv
  <2>5. Standing'
    BY <2>2, <2>4, <1>0, <1>1, <1>4, SetItemStanding
  <2>6. Pools'
    BY <2>2, <1>0, <1>1, <1>4, SetItemPools
  <2>7. Types'
    BY <2>2, <2>4, <1>1, <1>4 DEF PyInv, Types
  <2> QED BY <2>2, <2>4, <2>5, <2>6, <2>7 DEF PyInv
<1> QED BY <1>3, <1>4 DEF SampleRaises

\* Past the barrier a call has no unfinished item and its pool is idle.
LEMMA PastBarrier ==
  ASSUME PyInv, NEW t \in Threads, pc[t] \in {"select", "join", "cheap"}
  PROVE  /\ \A k \in DOMAIN batch[call[t].engine] :
              batch[call[t].engine][k].st \in {"decided", "value", "missing"}
         /\ \A k \in 1 .. MaxWorkers : py[<<call[t].engine, k>>] = "out"
<1>1. call[t].engine \in Engines /\ borrow[call[t].engine] = t /\ t # Nobody
  BY InCall
<1>2. \A k \in DOMAIN batch[call[t].engine] :
        batch[call[t].engine][k].st \in {"decided", "value", "missing"}
  BY <1>1 DEF PyInv, Batches, BatchOf
<1> QED BY <1>1, <1>2 DEF PyInv, Pools, PoolOf, HasItem

\* The batch barrier opens.
LEMMA JoinStep ==
  ASSUME PyInv, NEW t \in Threads, Join(t)
  PROVE  PyInv'
<1> DEFINE e == call[t].engine
<1>1. /\ pc[t] = "wait" /\ pc' = [pc EXCEPT ![t] = "join"]
      /\ \A k \in DOMAIN batch[e] : batch[e][k].st \in {"decided", "value", "missing"}
      /\ UNCHANGED <<freeThreaded, py, call, borrow, exec, batch, evaluated, decided, last>>
  BY DEF Join, cacheVars
<1>2. call[t] # NoCall /\ e \in Engines /\ borrow[e] = t
  BY <1>1, InCall
<1>3. py[t] = "rust"
  <2>1. ~Sampling(e)
    BY <1>1 DEF Sampling
  <2> QED BY <2>1, <1>1 DEF PyInv, Standing, StandingOf
<1>4. Types'
  BY <1>1, <1>2 DEF PyInv, Types, ItemTypes
<1>5. Owner' /\ Pools' /\ Gil' /\ Errors' /\ ErrorsSurface'
  BY <1>1 DEF PyInv, Owner, Pools, PoolOf, HasItem, Gil, Attached, Errors, ErrorsOf, ErrorsSurface
<1>6. Standing'
  <2>1. \A u \in Threads : u # t => pc'[u] = pc[u] /\ py'[u] = py[u]
    BY <1>1, PoolAgent DEF PyInv, Types
  <2>2. ASSUME NEW u \in Threads, u # t PROVE StandingOf(u)'
    BY <1>1, <2>1, <2>2, StandsAsBefore
  <2>3. pc'[t] = "join" /\ py'[t] = "rust"
    BY <1>1, <1>3 DEF PyInv, Types
  <2>4. StandingOf(t)'
    BY <2>3 DEF StandingOf
  <2> QED BY <2>2, <2>4 DEF Standing
<1>7. Batches'
  <2> SUFFICES ASSUME NEW f \in Engines PROVE BatchOf(f)'
    BY DEF Batches
  <2>1. BatchOf(f) /\ (borrow[f] # Nobody => borrow[f] \in Threads)
    BY DEF PyInv, Batches, Types
  <2>2. CASE f = e
    BY <2>1, <2>2, <1>1, <1>2 DEF BatchOf, PyInv, Types
  <2>3. CASE f # e
    <3>1. borrow[f] # Nobody => borrow[f] # t
      BY <2>3 DEF PyInv, Owner
    <3> QED BY <2>1, <3>1, <1>1 DEF BatchOf, PyInv, Types
  <2> QED BY <2>2, <2>3
<1> QED BY <1>4, <1>5, <1>6, <1>7 DEF PyInv

\* The batch is used up.
LEMMA BatchDoneStep ==
  ASSUME PyInv, NEW t \in Threads, BatchDone(t)
  PROVE  PyInv'
<1> DEFINE e == call[t].engine
<1>1. /\ pc[t] = "join" /\ pc' = [pc EXCEPT ![t] = "select"]
      /\ DOMAIN batch[e] = {}
      /\ UNCHANGED <<freeThreaded, py, call, borrow, exec, batch, evaluated, decided, last>>
  BY DEF BatchDone, cacheVars
<1>2. call[t] # NoCall /\ e \in Engines /\ borrow[e] = t
  BY <1>1, InCall
<1>4. Types'
  BY <1>1, <1>2 DEF PyInv, Types, ItemTypes
<1>5. Owner' /\ Pools' /\ Gil' /\ Errors' /\ ErrorsSurface'
  BY <1>1 DEF PyInv, Owner, Pools, PoolOf, HasItem, Gil, Attached, Errors, ErrorsOf, ErrorsSurface
<1>6. Standing'
  <2>1. \A u \in Threads : u # t => pc'[u] = pc[u] /\ py'[u] = py[u]
    BY <1>1, PoolAgent DEF PyInv, Types
  <2>2. ASSUME NEW u \in Threads, u # t PROVE StandingOf(u)'
    BY <1>1, <2>1, <2>2, StandsAsBefore
  <2>3. pc'[t] = "select" /\ py'[t] = "rust"
    BY <1>1 DEF PyInv, Types, Standing, StandingOf
  <2>4. StandingOf(t)'
    BY <2>3 DEF StandingOf
  <2> QED BY <2>2, <2>4 DEF Standing
<1>7. Batches'
  <2> SUFFICES ASSUME NEW f \in Engines PROVE BatchOf(f)'
    BY DEF Batches
  <2>1. BatchOf(f) /\ (borrow[f] # Nobody => borrow[f] \in Threads)
    BY DEF PyInv, Batches, Types
  <2>2. CASE f = e
    BY <2>1, <2>2, <1>1, <1>2 DEF BatchOf, PyInv, Types
  <2>3. CASE f # e
    <3>1. borrow[f] # Nobody => borrow[f] # t
      BY <2>3 DEF PyInv, Owner
    <3> QED BY <2>1, <3>1, <1>1 DEF BatchOf, PyInv, Types
  <2> QED BY <2>2, <2>3
<1> QED BY <1>4, <1>5, <1>6, <1>7 DEF PyInv

\* The cheap constraints are asked for.
LEMMA AskCheapStep ==
  ASSUME PyInv, NEW t \in Threads, AskCheap(t)
  PROVE  PyInv'
<1>1. /\ pc[t] = "join" /\ pc' = [pc EXCEPT ![t] = "cheap"] /\ py' = [py EXCEPT ![t] = "python"]
      /\ UNCHANGED <<freeThreaded, call, borrow, exec, batch, evaluated, decided, last>>
  BY DEF AskCheap, cacheVars
<1>2. /\ call[t] # NoCall /\ call[t].engine \in Engines /\ borrow[call[t].engine] = t
      /\ py[t] = "rust" /\ t \in Agents
  BY <1>1, InCall, PoolAgent DEF PyInv, Standing, StandingOf
<1>3. Types'
  BY <1>1, <1>2 DEF PyInv, Types, ItemTypes
<1>4. Owner' /\ Errors' /\ ErrorsSurface'
  BY <1>1 DEF PyInv, Owner, Errors, ErrorsOf, ErrorsSurface
<1>5. Standing'
  <2>1. \A u \in Threads : u # t => pc'[u] = pc[u] /\ py'[u] = py[u]
    BY <1>1, PoolAgent DEF PyInv, Types
  <2>2. ASSUME NEW u \in Threads, u # t PROVE StandingOf(u)'
    BY <1>1, <2>1, <2>2, StandsAsBefore
  <2>3. pc'[t] = "cheap" /\ py'[t] \in Visiting
    BY <1>1, <1>2 DEF PyInv, Types, Visiting
  <2>4. StandingOf(t)'
    BY <2>3 DEF StandingOf
  <2> QED BY <2>2, <2>4 DEF Standing
<1>6. Batches'
  BY <1>1, <1>2 DEF PyInv, Batches, BatchOf, Types, Owner
<1>7. Pools'
  <2>1. \A a \in Agents : a # t => py'[a] = py[a]
    BY <1>1, <1>2 DEF PyInv, Types
  <2>2. ASSUME NEW f \in Engines, NEW k \in 1 .. MaxWorkers
        PROVE  py'[<<f, k>>] = py[<<f, k>>]
    <3>1. <<f, k>> \in Agents /\ <<f, k>> # t
      BY PoolAgent
    <3> QED BY <2>1, <3>1
  <2> QED BY <2>2, <1>1 DEF PyInv, Pools, PoolOf, HasItem
<1>8. Gil'
  BY <1>1, <1>2 DEF PyInv, Gil, Attached, Types
<1> QED BY <1>3, <1>4, <1>5, <1>6, <1>7, <1>8 DEF PyInv

\* An item leaves the batch; if it had no estimates it was turned away.
LEMMA ConsumeInv ==
  ASSUME PyInv, NEW t \in Threads, pc[t] \in {"join", "cheap"},
         InCallback(t) \/ py[t] = "rust",
         NEW k \in DOMAIN batch[call[t].engine], Consume(call[t].engine, k),
         pc' = [pc EXCEPT ![t] = "join"], py' = [py EXCEPT ![t] = "rust"],
         NEW c \in Call, call' = [call EXCEPT ![t] = c],
         c.engine = call[t].engine, c.raised = call[t].raised,
         call[t].rejected \subseteq c.rejected,
         batch[call[t].engine][k].st = "missing" =>
           batch[call[t].engine][k].x \in c.rejected,
         UNCHANGED <<freeThreaded, borrow, exec, last>>,
         evaluated' \in [Engines -> SUBSET Points],
         decided' \in [Engines -> SUBSET Points]
  PROVE  PyInv'
<1> DEFINE e == call[t].engine
<1>0. /\ pc' = [pc EXCEPT ![t] = "join"] /\ py' = [py EXCEPT ![t] = "rust"]
      /\ call' = [call EXCEPT ![t] = c] /\ c \in Call /\ c.engine = e
      /\ c.raised = call[t].raised /\ call[t].rejected \subseteq c.rejected
      /\ batch[e][k].st = "missing" => batch[e][k].x \in c.rejected
      /\ UNCHANGED <<freeThreaded, borrow, exec, last>>
      /\ k \in DOMAIN batch[e]
  OBVIOUS
<1>1. /\ call[t] # NoCall /\ e \in Engines /\ borrow[e] = t /\ t # Nobody
      /\ \A u \in Threads : call[u] # NoCall /\ call[u].engine = e => u = t
  BY InCall
<1>2. /\ ItemTypes'
      /\ \A f \in Engines :
           /\ DOMAIN batch'[f] = IF f = e THEN DOMAIN batch[f] \ {k} ELSE DOMAIN batch[f]
           /\ \A j \in DOMAIN batch'[f] : batch'[f][j] = batch[f][j]
  BY <1>1, ConsumeFacts DEF PyInv
<1>3. c # NoCall /\ t \in Agents /\ (py[t] \in {"rust", "python", "back"})
  BY PyAssumption, PoolAgent DEF InCallback
<1>4. /\ \A j \in DOMAIN batch[e] : batch[e][j].st \in {"decided", "value", "missing"}
      /\ \A j \in 1 .. MaxWorkers : py[<<e, j>>] = "out"
  BY PastBarrier
<1>5. /\ pc'[t] = "join" /\ py'[t] = "rust" /\ call'[t] = c
      /\ \A u \in Threads : u # t => pc'[u] = pc[u] /\ py'[u] = py[u] /\ call'[u] = call[u]
      /\ \A f \in Engines, j \in 1 .. MaxWorkers : py'[<<f, j>>] = py[<<f, j>>]
  BY <1>0, <1>3, PoolAgent DEF PyInv, Types
<1>6. Types'
  BY <1>0, <1>1, <1>2, <1>3 DEF PyInv, Types
<1> HIDE DEF e
<1>7. Owner'
  BY <1>0, <1>1, <1>3, <1>5 DEF PyInv, Owner, Types, e
<1>8. Standing'
  <2> SUFFICES ASSUME NEW u \in Threads PROVE StandingOf(u)'
    BY DEF Standing
  <2>1. CASE u = t
    BY <2>1, <1>5 DEF StandingOf
  <2>2. CASE u # t
    <3>1. pc[u] = "wait" => call[u].engine \in Engines /\ call[u].engine # e
      BY <2>2, <1>1 DEF PyInv, Types, Call
    <3>a. call'[u] = call[u]
      BY <2>2, <1>5
    <3>b. \A f \in Engines : f # e => (Sampling(f)' <=> Sampling(f))
      BY <1>2 DEF Sampling
    <3>2. pc[u] = "wait" => (Sampling(call[u].engine)' <=> Sampling(call[u].engine))
      BY <3>1, <3>a, <3>b DEF Sampling
    <3>3. StandingOf(u)
      BY DEF PyInv, Standing
    <3> QED BY <2>2, <3>2, <3>3, <1>0, <1>5 DEF StandingOf, Visiting
  <2> QED BY <2>1, <2>2
<1>9. Batches'
  <2> SUFFICES ASSUME NEW f \in Engines PROVE BatchOf(f)'
    BY DEF Batches
  <2>0. BatchOf(f)
    BY DEF PyInv, Batches
  <2>1. CASE f = e
    <3>1. borrow'[f] = t /\ pc'[t] = "join" /\ exec'[f] = exec[f]
      BY <2>1, <1>0, <1>1, <1>5
    <3>2. DOMAIN batch'[f] \subseteq DOMAIN batch[f]
      BY <2>1, <1>2
    <3>3. \A j \in DOMAIN batch'[f] : batch'[f][j].st \in {"decided", "value", "missing"}
      BY <2>1, <3>2, <1>1, <1>2, <1>4
    <3> QED BY <2>0, <3>1, <3>2, <3>3, <1>1 DEF BatchOf
  <2>2. CASE f # e
    <3>1. borrow[f] # Nobody => borrow[f] \in Threads /\ borrow[f] # t
      BY <2>2 DEF PyInv, Owner, Types, e
    <3>2. /\ borrow'[f] = borrow[f] /\ exec'[f] = exec[f]
          /\ borrow[f] # Nobody => pc'[borrow[f]] = pc[borrow[f]]
      BY <3>1, <1>0, <1>5
    <3>3. /\ DOMAIN batch'[f] = DOMAIN batch[f]
          /\ \A j \in DOMAIN batch[f] : batch'[f][j] = batch[f][j]
      BY <2>2, <1>2
    <3> QED BY <2>0, <3>2, <3>3 DEF BatchOf
  <2> QED BY <2>1, <2>2
<1>10. Pools'
  <2> SUFFICES ASSUME NEW f \in Engines, NEW j \in 1 .. MaxWorkers PROVE PoolOf(f, j)'
    BY DEF Pools
  <2>0. PoolOf(f, j)
    BY DEF PyInv, Pools
  <2>1. CASE f = e
    <3>1. ~HasItem(f, j, "sample")'
      BY <2>1, <1>1, <1>2, <1>4 DEF HasItem
    <3> QED BY <3>1, <2>1, <1>4, <1>5 DEF PoolOf
  <2>2. CASE f # e
    <3>1. HasItem(f, j, "sample")' <=> HasItem(f, j, "sample")
      BY <2>2, <1>2 DEF HasItem
    <3> QED BY <3>1, <2>0, <1>0, <1>5 DEF PoolOf
  <2> QED BY <2>1, <2>2
<1>11. Gil'
  <2>1. Attached' \subseteq Attached
    BY <1>0, <1>3 DEF Attached, PyInv, Types
  <2> QED BY <2>1, <1>0 DEF PyInv, Gil
<1>12. Errors'
  <2> SUFFICES ASSUME NEW u \in Threads, call'[u] # NoCall PROVE ErrorsOf(u)'
    BY DEF Errors, ErrorsOf
  <2>0. ErrorsOf(u)
    BY DEF PyInv, Errors
  <2>1. CASE u = t
    <3>1. exec'[call'[u].engine] = 0 => call'[u].raised = {}
      BY <2>0, <2>1, <1>0, <1>1, <1>5 DEF ErrorsOf, e
    <3>2. ASSUME NEW x \in call[t].raised, x \notin c.rejected
          PROVE  \E j \in DOMAIN batch'[e] : batch'[e][j].x = x /\ batch'[e][j].st = "missing"
      <4>1. PICK j \in DOMAIN batch[e] : batch[e][j].x = x /\ batch[e][j].st = "missing"
        BY <2>0, <2>1, <3>2, <1>0, <1>1 DEF ErrorsOf, e
      <4>2. j # k
        BY <4>1, <3>2, <1>0
      <4> QED BY <4>1, <4>2, <1>1, <1>2
    <3> QED BY <2>1, <3>1, <3>2, <1>0, <1>5 DEF ErrorsOf
  <2>2. CASE u # t
    <3>1. call[u] # NoCall /\ call'[u] = call[u]
      BY <2>2, <1>5
    <3>2. call[u].engine \in Engines /\ call[u].engine # e
      BY <2>2, <3>1, <1>1 DEF PyInv, Types, Call
    <3>3. /\ DOMAIN batch'[call[u].engine] = DOMAIN batch[call[u].engine]
          /\ \A j \in DOMAIN batch[call[u].engine] :
               batch'[call[u].engine][j] = batch[call[u].engine][j]
      BY <3>2, <1>2
    <3> QED BY <3>1, <3>3, <2>0, <1>0 DEF ErrorsOf
  <2> QED BY <2>1, <2>2
<1>13. ErrorsSurface'
  BY <1>0 DEF PyInv, ErrorsSurface
<1> QED BY <1>6, <1>7, <1>8, <1>9, <1>10, <1>11, <1>12, <1>13 DEF PyInv

\* A cached decision is applied.
LEMMA ApplyDecidedStep ==
  ASSUME PyInv, NEW t \in Threads, ApplyDecided(t)
  PROVE  PyInv'
<1> DEFINE e == call[t].engine
<1>1. /\ pc[t] = "join"
      /\ UNCHANGED <<freeThreaded, py, pc, call, borrow, exec, evaluated, decided, last>>
  BY DEF ApplyDecided, cacheVars
<1>2. PICK k \in DOMAIN batch[e] : HasItem(e, k, "decided") /\ Consume(e, k)
  BY DEF ApplyDecided
<1>3. call[t] \in Call /\ e \in Engines /\ py[t] = "rust" /\ t \in Agents
  BY <1>1, InCall, PoolAgent DEF PyInv, Standing, StandingOf
<1>4. /\ pc' = [pc EXCEPT ![t] = "join"] /\ py' = [py EXCEPT ![t] = "rust"]
      /\ call' = [call EXCEPT ![t] = call[t]]
      /\ evaluated' \in [Engines -> SUBSET Points] /\ decided' \in [Engines -> SUBSET Points]
  BY <1>1, <1>3 DEF PyInv, Types
<1>5. batch[e][k].st # "missing"
  BY <1>2 DEF HasItem
<1> QED BY <1>1, <1>2, <1>3, <1>4, <1>5, ConsumeInv

\* The outcome of a candidate that passed the cheap check is taken.
LEMMA TakeOutcomeInv ==
  ASSUME PyInv, NEW t \in Threads, pc[t] \in {"join", "cheap"},
         InCallback(t) \/ py[t] = "rust",
         NEW k \in DOMAIN batch[call[t].engine], TakeOutcome(t, k),
         UNCHANGED <<freeThreaded, exec, evaluated, calls>>
  PROVE  PyInv'
<1> DEFINE e == call[t].engine
<1>1. call[t] \in Call /\ call[t] # NoCall /\ e \in Engines
  BY InCall
<1>2. evaluated' \in [Engines -> SUBSET Points]
  BY DEF PyInv, Types
<1>3. CASE EndCall(t, "raised") /\ UNCHANGED decided
  <2>1. decided' \in [Engines -> SUBSET Points]
    BY <1>3 DEF PyInv, Types
  <2>2. \A j \in 1 .. MaxWorkers : py[<<call[t].engine, j>>] = "out"
    BY PastBarrier
  <2> QED BY <2>1, <2>2, <1>1, <1>2, <1>3, EndCallInv
<1>4. CASE /\ HasItem(e, k, "value")
           /\ Consume(e, k)
           /\ decided' = [decided EXCEPT ![e] = @ \cup {batch[e][k].x}]
           /\ pc' = [pc EXCEPT ![t] = "join"]
           /\ py' = [py EXCEPT ![t] = "rust"]
           /\ call' = [call EXCEPT ![t].checked = @ \cup {batch[e][k].x}]
           /\ UNCHANGED <<borrow, last>>
  <2> DEFINE s == call[t].checked \cup {batch[e][k].x}
             c == [call[t] EXCEPT !.checked = s]
  <2>1. batch[e][k].x \in Points /\ batch[e][k].st = "value"
    BY <1>1, <1>4 DEF PyInv, Types, ItemTypes, Item, HasItem
  <2>2. s \in SUBSET Points
    BY <2>1, <1>1 DEF Call
  <2>3. c \in Call
    BY <2>2, <1>1, CallFields
  <2>4. c.engine = e /\ c.raised = call[t].raised /\ c.rejected = call[t].rejected
    BY <1>1 DEF Call
  <2>5. call' = [call EXCEPT ![t] = c]
    BY <1>4
  <2>6. decided' \in [Engines -> SUBSET Points]
    BY <2>1, <1>1, <1>4 DEF PyInv, Types
  <2> HIDE DEF c, s
  <2> QED BY <2>1, <2>3, <2>4, <2>5, <2>6, <1>2, <1>4, ConsumeInv
<1> QED BY <1>3, <1>4 DEF TakeOutcome

\* The cheap constraints accept.
LEMMA CheapAcceptsStep ==
  ASSUME PyInv, NEW t \in Threads, CheapAccepts(t)
  PROVE  PyInv'
<1>1. pc[t] \in {"join", "cheap"} /\ (InCallback(t) \/ py[t] = "rust")
  BY DEF CheapAccepts, PyInv, Standing, StandingOf
<1> QED BY <1>1, TakeOutcomeInv DEF CheapAccepts

\* A candidate that was checked before.
LEMMA TakeCheckedStep ==
  ASSUME PyInv, NEW t \in Threads, TakeChecked(t)
  PROVE  PyInv'
<1>1. pc[t] = "join" /\ py[t] = "rust"
  BY DEF TakeChecked, PyInv, Standing, StandingOf
<1> QED BY <1>1, TakeOutcomeInv DEF TakeChecked

\* The cheap constraints reject.
LEMMA CheapRejectsStep ==
  ASSUME PyInv, NEW t \in Threads, CheapRejects(t)
  PROVE  PyInv'
<1> DEFINE e == call[t].engine
<1>1. /\ pc[t] = "cheap" /\ InCallback(t)
      /\ pc' = [pc EXCEPT ![t] = "join"] /\ py' = [py EXCEPT ![t] = "rust"]
      /\ UNCHANGED <<freeThreaded, borrow, exec, evaluated, decided, last>>
  BY DEF CheapRejects, cacheVars
<1>2. PICK k \in DOMAIN batch[e] :
        Consume(e, k) /\ call' = [call EXCEPT ![t].rejected = @ \cup {batch[e][k].x}]
  BY DEF CheapRejects
<1>3. call[t] \in Call /\ e \in Engines
  BY <1>1, InCall
<1> DEFINE s == call[t].rejected \cup {batch[e][k].x}
           c == [call[t] EXCEPT !.rejected = s]
<1>4. batch[e][k].x \in Points
  BY <1>2, <1>3 DEF PyInv, Types, ItemTypes, Item
<1>5. s \in SUBSET Points /\ batch[e][k].x \in s /\ call[t].rejected \subseteq s
  BY <1>3, <1>4 DEF Call
<1>6. c \in Call
  BY <1>3, <1>5, CallFields
<1>7. c.engine = e /\ c.raised = call[t].raised /\ c.rejected = s
  BY <1>3 DEF Call
<1>8. call' = [call EXCEPT ![t] = c]
  BY <1>2
<1>9. evaluated' \in [Engines -> SUBSET Points] /\ decided' \in [Engines -> SUBSET Points]
  BY <1>1 DEF PyInv, Types
<1> HIDE DEF c, s
<1> QED BY <1>1, <1>2, <1>5, <1>6, <1>7, <1>8, <1>9, ConsumeInv

\* The run is over.
LEMMA ReturnOutputStep ==
  ASSUME PyInv, NEW t \in Threads, ReturnOutput(t)
  PROVE  PyInv'
<1>1. pc[t] = "select" /\ EndCall(t, "returned") /\ UNCHANGED <<freeThreaded, exec, evaluated, decided>>
  BY DEF ReturnOutput, cacheVars
<1>2. /\ call[t] # NoCall /\ call[t].engine \in Engines
      /\ borrow[call[t].engine] = t /\ t # Nobody
  BY <1>1, InCall
<1>3. DOMAIN batch[call[t].engine] = {}
  BY <1>1, <1>2 DEF PyInv, Batches, BatchOf
<1>4. \A k \in 1 .. MaxWorkers : py[<<call[t].engine, k>>] = "out"
  BY <1>1, PastBarrier
<1>5. evaluated' \in [Engines -> SUBSET Points] /\ decided' \in [Engines -> SUBSET Points]
  BY <1>1 DEF PyInv, Types
<1> QED BY <1>1, <1>2, <1>3, <1>4, <1>5, EndCallInv

-----------------------------------------------------------------------------
(* The theorems.                                                           *)

\* Nobody has called yet.
LEMMA PyInit == Init => PyInv
<1> SUFFICES ASSUME Init PROVE PyInv
  OBVIOUS
<1>1. << >> = [k \in {} |-> 0] /\ DOMAIN << >> = {}
  OBVIOUS
<1>2. \A e \in Engines : batch[e] = << >>
  BY DEF Init
<1>3. Types
  BY <1>1, <1>2, PyAssumption DEF Init, Types, ItemTypes
<1>4. Owner /\ Errors /\ ErrorsSurface
  BY DEF Init, Owner, Errors, ErrorsOf, ErrorsSurface
<1>5. Standing
  BY PoolAgent DEF Init, Standing, StandingOf
<1>6. Batches
  BY <1>1, <1>2 DEF Init, Batches, BatchOf
<1>7. Pools
  BY PoolAgent DEF Init, Pools, PoolOf
<1>8. Gil
  BY DEF Init, Gil, Attached
<1> QED BY <1>3, <1>4, <1>5, <1>6, <1>7, <1>8 DEF PyInv

\* Every step preserves the invariant.
LEMMA PyNext == PyInv /\ [Next]_vars => PyInv'
<1> SUFFICES ASSUME PyInv, [Next]_vars PROVE PyInv'
  OBVIOUS
<1>1. CASE UNCHANGED vars
  <2>1. UNCHANGED <<freeThreaded, py, pc, call, borrow, exec, batch, evaluated, decided, last>>
    BY <1>1 DEF vars, cacheVars
  <2>2. Types' /\ ErrorsSurface'
    BY <2>1 DEF PyInv, Types, ItemTypes, ErrorsSurface
  <2> QED BY <2>1, <2>2, StillInv DEF PyInv
<1>2. CASE \E t \in Threads, e \in Engines, w \in WorkerCounts, toy, dimSet \in BOOLEAN :
             CallEngine(t, e, w, toy, dimSet)
  BY <1>2, CallEngineStep
<1>3. ASSUME NEW a \in Agents, ReleaseGil(a) \/ RetakeGil(a) \/ AttachWorker(a)
      PROVE  PyInv'
  BY <1>3, ReleaseGilStep, RetakeGilStep, AttachWorkerStep
<1>4. ASSUME NEW t \in Threads,
             \/ SearchDimReturns(t) \/ Dispatch(t) \/ Join(t) \/ BatchDone(t)
             \/ ApplyDecided(t) \/ AskCheap(t) \/ CheapAccepts(t) \/ CheapRejects(t)
             \/ TakeChecked(t) \/ ReturnOutput(t)
      PROVE  PyInv'
  BY <1>4, SearchDimReturnsStep, DispatchStep, JoinStep, BatchDoneStep, ApplyDecidedStep,
     AskCheapStep, CheapAcceptsStep, CheapRejectsStep, TakeCheckedStep, ReturnOutputStep
<1>5. ASSUME NEW e \in Engines, NEW k \in 1 .. MaxWorkers,
             Lookup(e, k) \/ ToySample(e, k) \/ SampleReturns(e, k) \/ SampleRaises(e, k)
      PROVE  PyInv'
  BY <1>5, LookupStep, ToySampleStep, SampleReturnsStep, SampleRaisesStep
<1>6. CASE Progress
  BY <1>3, <1>4, <1>5, <1>6 DEF Progress
<1> QED BY <1>1, <1>2, <1>6 DEF Next, Hung, AllIdle

\* The invariant holds in every state of every execution.
THEOREM PyInvariant == Spec => []PyInv
BY PyInit, PyNext, PTL DEF Spec

\* Types, and "the GIL has one holder": the states of PyEngine and PyEvaluator
\* are the ones PyTypeOK lists, whatever the threads, engines and pools.
THEOREM PyTypeCorrect == Spec => []PyTypeOK
<1>1. PyInv => PyTypeOK
  <2> SUFFICES ASSUME PyInv PROVE PyTypeOK
    OBVIOUS
  <2>1. ~freeThreaded => Cardinality(Attached) <= 1
    <3>1. CASE Attached = {}
      BY <3>1, FS_EmptySet
    <3>2. CASE ~freeThreaded /\ Attached # {}
      <4>1. PICK a \in Attached : TRUE
        BY <3>2
      <4>2. Attached = {a}
        BY <4>1, <3>2 DEF PyInv, Gil
      <4>3. Cardinality({a}) = 1
        BY FS_Singleton
      <4> QED BY <4>2, <4>3
    <3> QED BY <3>1, <3>2
  <2> QED BY <2>1 DEF PyInv, Types, ItemTypes, PyTypeOK
<1> QED BY <1>1, PyInvariant, PTL

\* "Safety: GIL protects all Python interactions": an engine is run by the
\* thread that has its &mut self, and what an evaluator does on a thread of
\* the pool is over before the call that asked for it goes on.
THEOREM PyEngineExclusive == Spec => []EngineExclusive
<1>1. PyInv => EngineExclusive
  <2> SUFFICES ASSUME PyInv PROVE EngineExclusive
    OBVIOUS
  <2>1. ASSUME NEW e \in Engines, NEW k \in 1 .. MaxWorkers, py[<<e, k>>] # "out"
        PROVE  borrow[e] # Nobody /\ pc[borrow[e]] = "wait" /\ call[borrow[e]].engine = e
    <3>1. k \in DOMAIN batch[e] /\ batch[e][k].st = "sample"
      BY <2>1 DEF PyInv, Pools, PoolOf, HasItem
    <3> QED BY <3>1, Waiting, PyAssumption
  <2> QED BY <2>1 DEF EngineExclusive, PyInv, Owner
<1> QED BY <1>1, PyInvariant, PTL

\* An exception of mc_sample is not lost: the panic unwinds to the caller,
\* except for candidates the cheap constraints turned away.
THEOREM PyErrorsSurface == Spec => []ErrorsSurface
<1>1. PyInv => ErrorsSurface
  BY DEF PyInv
<1> QED BY <1>1, PyInvariant, PTL

=============================================================================
