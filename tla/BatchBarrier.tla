---------------------------- MODULE BatchBarrier ----------------------------
(***************************************************************************)
(* What an Executor promises the engine (the contract of trait Executor in *)
(* imads-core/src/core/executor.rs), with no threads in it: a caller       *)
(* submits a batch, every item is evaluated once, in any order and         *)
(* concurrently with other callers' items, and run_batch returns only      *)
(* then, with one outcome per input item, each in the place of its item.   *)
(***************************************************************************)
EXTENDS Integers, Sequences

CONSTANTS Handles, Owner, MaxBatch, MaxBatches, NoOutcome

VARIABLES
  state,    \* "none" (no executor), "idle", "running" or "dropped"
  batch,    \* how many batches the caller has submitted
  size,     \* number of items of the current batch
  slots,    \* outcomes so far of the current batch
  out       \* what run_batch returned last

vars == <<state, batch, size, slots, out>>

Init ==
  /\ state = [h \in Handles |-> IF h = Owner THEN "idle" ELSE "none"]
  /\ batch = [h \in Handles |-> 0]
  /\ size = [h \in Handles |-> 0]
  /\ slots = [h \in Handles |-> [i \in 1 .. MaxBatch |-> NoOutcome]]
  /\ out = [h \in Handles |-> << >>]

\* Another caller gets an executor on the same pool.
Acquire(h) ==
  /\ state[h] = "none"
  /\ state' = [state EXCEPT ![h] = "idle"]
  /\ UNCHANGED <<batch, size, slots, out>>

Release(h) ==
  /\ state[h] = "idle"
  /\ state' = [state EXCEPT ![h] = "dropped"]
  /\ UNCHANGED <<batch, size, slots, out>>

SubmitNothing(h) ==
  /\ state[h] = "idle"
  /\ out' = [out EXCEPT ![h] = << >>]
  /\ UNCHANGED <<state, batch, size, slots>>

Submit(h, n) ==
  /\ state[h] = "idle"
  /\ batch[h] < MaxBatches[h]
  /\ state' = [state EXCEPT ![h] = "running"]
  /\ batch' = [batch EXCEPT ![h] = @ + 1]
  /\ size' = [size EXCEPT ![h] = n]
  /\ slots' = [slots EXCEPT ![h] = [i \in 1 .. MaxBatch |-> NoOutcome]]
  /\ out' = [out EXCEPT ![h] = << >>]

\* Item i of the running batch gets its outcome, once.
Finish(h, i, p) ==
  /\ state[h] = "running"
  /\ i \in 1 .. size[h]
  /\ slots[h][i] = NoOutcome
  /\ slots' = [slots EXCEPT ![h][i] =
                 [item |-> [h |-> h, b |-> batch[h], idx |-> i],
                  panicked |-> p]]
  /\ UNCHANGED <<state, batch, size, out>>

Return(h) ==
  /\ state[h] = "running"
  /\ \A i \in 1 .. size[h] : slots[h][i] # NoOutcome
  /\ state' = [state EXCEPT ![h] = "idle"]
  /\ out' = [out EXCEPT ![h] = [i \in 1 .. size[h] |-> slots[h][i]]]
  /\ UNCHANGED <<batch, size, slots>>

Next ==
  \E h \in Handles :
    \/ Acquire(h)
    \/ Release(h)
    \/ SubmitNothing(h)
    \/ \E n \in 1 .. MaxBatch : Submit(h, n)
    \/ \E i \in 1 .. MaxBatch, p \in BOOLEAN : Finish(h, i, p)
    \/ Return(h)

Spec == Init /\ [][Next]_vars

=============================================================================
