# IMADS: a TLA+ verification project

This directory holds TLA+ models of the optimisation engine of IMADS
(`imads-core`), TLC configurations that check them on small instances, and
TLAPS proofs that establish nearly all of their safety properties for every
instance.
`PROJECT.json` lists the components, the runs, the definition-to-source map,
the mutants, the findings, the hazards and the theorems. Paths below are
relative to `imads-core/src/` unless they begin with `imads-` or `docs/`.

## 1. Inventory of the system

IMADS is a mesh adaptive direct search for expensive, noisy black boxes. One
engine thread proposes lattice points, climbs each of them through a *ladder*
of fidelities (tolerance tau, sample count S), stops hopeless ones early, and
accepts points on the result of the top level (TRUTH) only. Work items of a
batch may be evaluated by a pool of threads; everything else happens on the
engine thread, in a deterministic order.

| Component | State | Operations | Interacts with |
|---|---|---|---|
| `WorkerPoolExecutor` (`core/executor.rs`) | queue + mutex + condvar, `current_chunk`, `shutdown`, worker-local rings; per batch a sink: slots, `done`, mutex, condvar | `new`, `Clone`, `Drop`, `run_batch`, `worker_loop`, `configure` | engine thread (batch barrier), evaluator (may panic), caches |
| `execute_one` (`core/executor.rs`) | none | decision-cache lookup, eval-cache lookup, black box | both caches, concurrently |
| Caches (`backends/cache.rs`) | two maps, which outlive a run | `get`, `put` | workers and engine thread |
| `Engine` (`core/engine.rs`) | candidate store, incumbent, mesh, policy revision, thresholds, assignment | `run_with_evaluator`, `materialize_job_result`, `apply_state_transition_from_result` | all of the others |
| `DefaultAcceptance` (`core/acceptance.rs`) | barrier `h`, filter points, feasible incumbent | `decide_truth`, `on_iteration_end` | engine, on TRUTH only |
| Poll and mesh (`core/poll.rs`, `types.rs`) | mesh multipliers | `generate_points_aniso`, `refine`, `quantize_*` | engine |
| Margin, audit, scheduler (`policies/`) | none / worker count | `early_infeasible`, `objective_bounds`, `should_audit`, `select_next` | engine |
| Calibrator (`policies/calibrator.rs`) | counters, pending audits, K samples, delta, revision | `init`, `configure`, `update` | engine at the batch boundary, DIDS |
| DIDS (`policies/dids.rs`) | history, assignment | `init`, `record`, `update_assignment` | engine at the batch boundary |
| Ladder (`policies/ladder.rs`) | none | `build_ladder` | engine |
| Search (`policies/search.rs`, `policies/stratified_search.rs`) | generator, previous incumbent, direction, place in the Halton sequence | `reset`, `set_context`, `propose`, `score` | engine, at the top of an iteration |
| Ready queue (`core/engine.rs`, `make_ready_view`) | base score and last estimates of a candidate | `make_ready_view`, the sort, `select_next` | engine, before every batch |
| Python binding (`imads-py/src/lib.rs`) | the borrow of an engine, the GIL it does not own | `run`, `run_with_evaluator`, the callbacks `search_dim`, `cheap_constraints`, `mc_sample` | Python threads, engine thread, pool threads |
| Presets, other bindings (`presets.rs`, `imads-ffi`, `-jvm`, `-kotlin`, `-scala`, `-clj`, `-wasm`) | none of their own | conversion of configurations and callbacks | engine |

What is hard: the lock-free slots and the two condvars of the pool; the
shared chunk size; panicking evaluations; cache lookups that race with
computations of the same batch; decisions that are cached under a policy
revision and replayed later, in another batch or another run; audits that
must survive early cuts, policy changes and pruning; iteration-level
conclusions (a failed poll, a termination) that rest on what happened to
every candidate on the way; a result that should not depend on the number of
workers although batches, incumbents and pruning do; and callbacks into an
interpreter whose lock the caller may be holding.

What makes the components correct:

* pool: `run_batch` returns exactly one outcome per item, in its place, and
  reads no slot that is unwritten or may still be written; no wake-up is lost;
* caches: a hit is a value of the same point and level, a cached decision was
  taken under the policy in force, a hit decides as a miss would;
* engine: only TRUTH values are reported, the reported one is the best, a
  candidate only climbs, audits reach TRUTH, an iteration ends, what pruning
  stops could not have won;
* search and ready queue: the batch is picked by the documented priorities,
  the search follows the last move of the incumbent, the incumbent stays on
  the mesh, a run is reproducible;
* poll and mesh: the mesh shrinks only at a local minimum of the mesh;
* calibrator: every audited cut is judged once, the margins it learns stay
  within the true bias, every change of a margin is a new policy revision;
* DIDS: no cut at a level whose audits raise an alarm;
* acceptance: the barrier only shrinks, the filter is non-dominated and never
  loses the best feasible value;
* Python binding: an engine runs for one thread at a time, no callback
  outlives its call, errors reach the caller, calls return.

## 2. Modules

| Module | Models | Used by |
|---|---|---|
| `WorkerPool` | the pool, at the grain of critical sections and atomic accesses | `MCWorkerPool`, `WorkerPoolProofs` |
| `BatchBarrier` | the contract of `trait Executor`, without threads | instantiated in `WorkerPool` |
| `MCWorkerPool` | instances for TLC, worker symmetry | pool runs |
| `WorkerPoolProofs` | theorems on the pool | |
| `Acceptance` | barrier and filter | extended by `Engine` |
| `AcceptanceProofs` | theorems on acceptance | `EngineProofs` |
| `LadderPolicy` | `resolve_ladder_levels`, `build_ladder` | `MCEngine`, `MCCalibrator` |
| `AuditPath` | the ladder as a constant, the audit checkpoints on it | extended by `Engine`, `Calibrator` |
| `Engine` | the run loop, the batch on the two caches, candidate lifecycle | `MCEngine`, `ScheduledEngine`, `EngineProofs` |
| `EngineProofs` | theorems on the engine: types, caches, audits, pruning | `EngineBestProofs` |
| `EngineBestProofs` | theorems that compare states: the best value, a failed poll, a candidate's climb | `ScheduledProofs` |
| `MCEngine` | evaluators, ladders, margins for TLC | engine runs |
| `Calibrator` | delta and K learning, closed by the engine's audits | `MCCalibrator`, `CalibratorProofs` |
| `MCCalibrator` | evaluators and configurations for TLC | calibrator run |
| `CalibratorProofs` | theorems on the calibrator | |
| `Dids` | the assignment a_j, closed by cuts and audits | DIDS run, `DidsProofs` |
| `DidsProofs` | theorems on DIDS | |
| `SearchPolicy` | `DefaultSearch`, `StratifiedSearch`, projection onto the mesh | extended by `ScheduledEngine` |
| `ScheduledEngine` | `Engine` composed with the search, the scores and the sorted ready queue; the same problem on one engine after another | `MCScheduled`, `ScheduledProofs` |
| `MCScheduled` | problems and generators for TLC | `scheduled` |
| `ScheduledCore` | what of the state of `ScheduledEngine` decides the rest of a run, and the step it takes next, as operators | `ScheduledProofs` |
| `ScheduledProofs` | theorems on the scheduled engine, which it inherits from `Engine` or has of its own | |
| `PyBinding` | `PyEngine`, `PyEvaluator`, the GIL, over the batch barrier | `py_binding`, `py_gil_deadlock`, `PyBindingProofs` |
| `PyBindingProofs` | theorems on the binding | |

The pool and the engine meet at the batch barrier. `WorkerPool` is shown to
implement `BatchBarrier`, in which items of a batch get their outcomes in any
order and the caller goes on when all have one. `Engine` builds on exactly
that: the items of a batch interleave freely (`LookupDecision`, `LookupEval`,
`Compute` per item) and `Join` waits for all of them. The engine model
therefore needs no threads, queue or condvars.

Engine, calibrator and DIDS meet at the batch boundary, and each is modelled
with the least it needs of the others. `Engine!PolicyUpdate` lets the margins
become any of a set, with a revision bump at each change; that the calibrator
gives the bump is `RevisionTracksMargins` of `Calibrator`. `Calibrator` lets
the engine audit any candidate its margins cut, at any level; `Engine` shows
that audits do climb through their checkpoints (`AuditReachesTruth`,
`LadderClimbs`). `Dids` takes judged audits as they come, one verdict per
audit; that the counters it reads behave so is `AuditsBalance` of
`Calibrator`.

`Engine` leaves the proposals, the choice of a batch and the hash of
`should_audit` open, so that what it shows holds for any search and any
scheduler. `ScheduledEngine` extends it and fixes all three as the code does,
and lets the policies be some fixed function of the events:
every step of a run is a step of `Engine` with a particular choice, plus the
search and score state (theorem `SchedulingIsAChoice`). What is left is the
interleaving inside a batch, and with it questions become meaningful that
`Engine` cannot ask: in which order candidates run, and whether two runs agree. `PyBinding` looks at the same
engine from the other side, as a caller of Python code on several threads,
and keeps of it only batches, lookups, the cheap check and missing estimates.

### WorkerPool

One variable per piece of shared state (`queue`, `chunk`, `shutdown`, and
`done`, `slots`, `size` for the sink of each handle's current batch), and a
program counter per engine thread (`hpc`) and worker (`wpc`). The queue mutex
is explicit only where a worker acts between taking and releasing it (`qlock`:
found empty, not yet waiting). Between the check of `done` and
`Condvar::wait` the engine thread is in state `park`; `NotifyOne` reaches it
only in `parked`. Condvars may wake spuriously. Evaluations may panic
(`Execute(w, TRUE)`): the slot is written all the same. A sink is named by
handle and batch number, so a worker that is late with its notification
cannot wake a later batch. `StrongCount` counts handles and live workers,
because every worker owns a clone of the `Arc`. The base of the chunk size,
which the engine tunes after a batch and hands to `configure`, is any of
`ChunkBases` at each `run_batch`; `TuneChunk` is the tuning itself, and an
assumption of `MCWorkerPool` says that the bases of the instances are what
repeated tuning reaches and stay within the configured bounds.

### Acceptance

`decide_truth` is one action, `on_iteration_end` another. The `Vec` of filter
points is a set of records with a copy number, because the code keeps equal
points side by side and counts them towards the cap. Values are fixed-point
integers; slack, shrink factor, floor and cap are constants without a range,
since the code clamps them.

### Engine

A candidate is a record of its point, next level, status, audit flag, cut
level and cheap-check state. Levels count from 1; level `L` is TRUTH.
`work` maps the candidates in flight to their work items and, once an item is
done, to its outcome. `materialize_job_result` is split along its branches
(`CachedPartial`, `CachedEarly`, `CachedTruth`, `RejectInvalid`,
`RejectCheap`, `ExpectFails`, `CutEarly`, `StopPartial`, `Continue`, `Truth`),
each with the cache write, the state transition and the acceptance that go
with it, taken in the order of candidate ids (poll ids are the larger ones).
`NewRun` starts a second run on the same engine, perhaps with another number
of workers: everything is reset but the caches. `Ingest` and `Submit` are the
parts of proposing and dispatching that do not depend on the policies; `Propose`
and `Dispatch` call them with any points and any candidates.

Abstractions: one lattice dimension, one constraint, one objective; the
z-scaled standard error is one number per estimate; `should_audit`, a hash, is
a free choice; the score order is left open (the scheduler takes any
candidates, as many as `DefaultScheduler`; `ScheduledEngine` closes both); what the calibrator computes is
left open, with the bump it gives, and so is what DIDS computes. The environment, and with it
`env_rev`, is fixed. Converting a lattice point to a real one does not fail.
`decCache` remembers, as history, the policy a decision was taken under.
`EngineAssumption` says what the instances of TLC and the proofs share: levels
of the same fidelity give the same estimates (an evaluator sees tau and S, not
the index of the level), the lattice is closed under polling from a point that
passes the cheap constraints, and `PruneEps` is not negative.

### LadderPolicy and AuditPath

`BuildLadder` is the `while` loop of `StaircaseLadder` as a recursive function
of the two indices; `ResolveLevels` are the defaults and the filter on
positive levels. TLC evaluates the contract of `trait LadderPolicy` as an
assumption of `MCEngine` (`LadderContract`: tolerances never loosen, sample
counts never decrease, one of the two moves at a time, TRUTH is the tightest
tolerance with the most samples) for all configurations of up to three levels
of each kind, with zero and repeated levels, and for the defaults.
`AuditPath` has the two functions that choose the next level of an audited
candidate.

### SearchPolicy and ScheduledEngine

The state of a search policy is the previous incumbent, the sign of the last
step and the index into the Halton sequence. The random generator is a table
of draws by iteration and candidate (`Seeds`): the number that selects the
mode, and what each mode needs. `Mode` translates the thresholds of both
policies, with the share of the directional mode that goes to the coordinate
mode while there is no direction. Raw points are in quarters of a lattice unit,
so that projecting them (`Quantize`, rounding halves away from zero) does
something; `QuantizeContract` is evaluated over a range of points and meshes.

`Score` is `make_ready_view`: base score, audit and age bonus, the minimum
with the lower confidence bound of the last estimates, the level bonus.
Infinite base scores (poll points) stay infinite, and next to the audit bonus
of 1e12 the small ones vanish, as they do in an `f64`. The scale of scores and
bonuses is a set of constants; `ScoreAssumption` asks of it that the ages and
levels of a run, the lower confidence bounds and the distances of the proposals
are small next to the audit bonus, as they are next to 1e12. `track` and
`first` are history: incumbents by iteration, and the output of the engine
before, with which `RunAnotherEngine`, up to `MaxRuns` times, lets the next one
be compared.

At a batch boundary calibrator and DIDS revise the policy by what they were told
(`engine.rs:905-914`). What they compute is the matter of `Calibrator` and
`Dids`; here it is enough that it is a function of the results in the order of
candidate ids and of where the batches ended, which is so in the code: events are
sorted by id, records are made in that order, and neither policy reads a clock or
the iteration order of a hash map. `events` is that sequence; `Learn` is the
function, by a `rule`
that `calib` names; `ScheduledUpdate` takes over what it gives (`Revised`), with
the revision bumps of the code, while there were fewer than `MaxPolicies`. Whether a run has
revised its policy is seen from its revision, and `first` keeps it for the run
before. `ProposalsAssumption` says that the box of
the search holds whatever the policies propose around a point that passes the
cheap constraints; TLC evaluates it on the instance, where the box is the
lattice. `Nested` says when the meshes of a run are nested: the initial
multiplier can be divided by `refine_div` without remainder until it is the
least one.

### PyBinding

Per thread: how it stands to the interpreter (`py`), where in the engine it is
(`pc`) and the call it is in. Per engine: who has `&mut self` (`borrow`), the
executor `configure` chose, the batch and which points are in the caches. The
interpreter is external: with a GIL at most one thread is attached
(`CanAttach`), Python code may release it (`ReleaseGil`), and native code
keeps it. A call asks the evaluator for its `search_dim` unless the configuration
has one (`dimSet`). `freeThreaded` chooses an interpreter without a GIL, in which pool
threads really meet. An exception in `mc_sample` unwinds the call if it
happens on the calling thread, and leaves an outcome without estimates if it
happens on a pool thread; `TakeOutcome` is where the engine thread notices.
`GilDeadlock` is the state in which a thread waits at the batch barrier with
the GIL and a pool thread waits for the GIL; `Hung` stutters there, so that
TLC's deadlock check stays on for every other state.

### Calibrator

The state is that of `DeltaKCalibrator`: the map of pending audits, the
counters by constraint and level of the cut, `delta_rel`, and the sample
windows and coefficients in their three families (global, per fidelity, per
tolerance interval). `cursor` is the place in the batch's events, which come
in candidate order; any candidates may have an event in a batch, so every
batching is covered. `CutAndAudit`, `Checkpoint`, `Lose` and `Resolve` are the
events, `Update` is the part of `update` after the event loop.
`DeltaCalibrator` is the same without K (`learnsK` false); `NoopCalibrator`
learns nothing and is left out. The loop is closed: the margins decide through
`early_infeasible` which candidates are cut and audited.

Numbers are fixed-point integers. `CalibratorAssumption` asks for evaluators
whose slopes divide exactly, so that no rounding hides or makes a difference.
Averages and narrowed deltas are rounded down: the code applies a change only
above 1e-15, so a sequence of shrinking changes ends there as it does here.
Evaluators are exact, so a level of a candidate names its estimates.
`Quantile` says what the sort and the index of the code select, without the
sort: the least sample that more than `idx` samples of the window do not exceed.
`LinkSamples` lists the slopes of a judged audit in the order of its levels. The
tolerances of the ladder never loosen, as `StaircaseLadder` guarantees.

### Dids

`ev` holds the judged audits by constraint and level (n, false cuts,
confirmed cuts). Steps 2 (alarm), 2b (relaxation) and 3 (delta guard) of
`compute_assignment` are translated with their thresholds; the Wilson bounds
with z = 1.96 are compared by squaring, in exact integers. Step 1, the
recency-weighted quantile of recorded cuts, is a free choice among the levels
a cut can be recorded at. The loop is closed: a cut, hence an audit, happens
only where the assignment in force allows it. Levels are counted from 1, as
the code's a_j are. `AlarmIsFinal` is about a level that is alarmed, out of use
and without open audits (`Closed`): it stays so.

## 3. Runs

| Run | Checks | Shows |
|---|---|---|
| `pool_safety` | `TypeOK`, `BarrierSafe`, `NoStrandedWork`, `ImplementsBarrier` | the unsafe block is safe, no work is stranded, the pool implements the contract |
| `pool_single` | `NoHoarding`, `BatchCompletes` | chunk cap and completion for a single caller |
| `acceptance` | `AcceptTypeOK`, `NonDominated`, `FeasibleKept`, `BarrierMonotone` | barrier and filter over all sequences of results |
| `engine_ladder` | `TypeOK`, `BestSoFar`, `HitUnderCurrentPolicy`, `FailedPollMeansLocalBest`, `StoppedIsBeaten` | the main engine run |
| `engine_audit` | `AuditReachesTruth`, `BestIsTruth`, `LadderClimbs`, `Terminates` | audits and termination, two runs on the same caches, staircase ladder, positive barrier, with and without a step budget |
| `calibrator` | `CalibTypeOK`, `AuditsBalance`, `PendingMatchesOrigin`, `KWithinBias`, `RefutedCutNotRepeated`, `RevisionTracksMargins`, `CalibrationSettles` | what audits teach and what it does to the margins |
| `dids` | `DidsTypeOK`, `AlarmedLevelNotUsed`, `AlarmIsFinal` | alarms hold, and are final once no audit is open |
| `pool_lost_wakeup` | `RunBatchReturns` is violated | finding 1 |
| `engine_stale` | `HitUnderCurrentPolicy` is violated | finding 2 |
| `scheduled` | `DirectionIsLastMove`, `IncumbentOnMesh`, `Reproducible`, `WorkerCountIrrelevant`, `AuditedFirst`, `OlderFirst`, `SearchBeforePoll` | the priorities of the ready queue, the state of the search, and that a run gives the same result on another engine, and under which conditions with another number of workers |
| `py_binding` | `PyTypeOK`, `EngineExclusive`, `ErrorsSurface`, `ReturnsUnlessGilDeadlock` | two Python threads, two engines, callbacks on pool threads, exceptions |
| `py_gil_deadlock` | `CallReturns` is violated | finding 3 |

**Bounds.** Pool: two workers and two handles are enough for a worker to hold
tasks of two sinks, for one to sleep while another drains, and for a late
notification to meet the next batch (`MaxBatches` gives the owner two
batches). `pool_single` uses five items so that the share of a worker (3) is
above the chunk (2). `MaxBatch` and `MaxBatches` are the only bounds; the
proofs need neither to be small. Acceptance: five objective values, six
violations and a cap of three give filters that are full, truncated, and
chains in which slack makes dominance intransitive; the shrink factor and the
floor of the run are within their ranges, values outside them are covered by
`BarrierNonIncreasing` and `AcceptTypeCorrect`. Engine: `MaxIters` of 2 or 3
covers a poll after a search, a refined mesh (`engine_audit` starts at a
multiplier of 2) and the iteration after it; the lattice
`-2 .. 4` is closed under polling from the cheap box `0 .. 2`; `MaxPolicies`
bounds the revisions of a run, so both kinds of change occur between batches;
`MaxRuns` = 2 for warm caches. The evaluators of `MCEngine` are a valley, a
ramp whose best points are infeasible and whose loose levels overstate the
violation, one that looks infeasible at the two loosest levels only, a
plateau, one invalid and one panicking evaluation. Calibrator: three
candidates let two audits be open while a third is judged, in every order and
batching; the ladder gives audits with a paired checkpoint and audits that go
straight to TRUTH; the evaluators have uniform, mixed and non-linear bias; the
configurations have full, smoothed and median learning, values that
`apply_cfg` clamps, and no K at all. There is no bound on batches: candidates
are audited once, which makes the state space finite. DIDS: `MaxAudits` = 9
audits with a minimum of 2 and a target of 1/2 reach both alarms, their
clearing and the eight audits relaxation asks for; `MaxOpen` = 2 lets verdicts
arrive after the assignment moved on; the second constraint has no audits and
moves only by `delta_rel`. Scheduled: four iterations give a direction, a later
one, and meshes refined twice; three proposals per iteration, budgets of 1, 3
and 7 steps and 1 to 3 workers leave candidates over to later iterations; a
valley without ties, a plateau of ties and a valley with biased loose levels
(pruning and audited false cuts) under three generators and two search
policies. The policy is frozen, or a rule learns from the first batch, from cuts
and from audits: it bumps the revision with each batch that brings one, and after
a false cut widens the margins and cuts no more at the first level. `MaxPolicies`
= 3 lets a cut and its refutation be learned from after the first batch, with more
batches to come. `Reproducible` is checked under both rules,
`WorkerCountIrrelevant` speaks of the frozen one. Python: two threads and two engines
are enough for a borrowed engine to be called, for two calls to compete for
the GIL and for pools of two engines to run; two batches of a call let a
second one meet its caches, and `MaxCalls` = 2 a second call meet those of a
first.

**Fairness.** The pool's fairness is that of threads that are scheduled: weak
for steps a thread can always take, strong where it competes for the queue
mutex. Spurious wake-ups and calls by the owner of a handle are not fair. The
engine's fairness says that the engine thread and the workers take steps while
a run is in progress; it says nothing of a caller starting another run. It
builds on a batch barrier that returns, which finding 1 shows to need care.
The calibrator's is `WF(Update)`: the engine goes on running batches, and each
ends in an `update`. `Dids` and `ScheduledEngine` have none, their properties
are safety. The binding's is weak fairness of all its steps together except
calls: threads run, callbacks return, a free GIL is handed to a thread that
waits for it. A call takes finitely many steps (`MaxBatches`, one release of
the GIL per callback), so that no step is put off for ever by the others.

**Deadlock** is checked everywhere. The pool can always submit nothing or
wait; the engine's end states (`run()` returned or unwound) stutter
explicitly by `Stopped`.

**Mutants.** Each property of a passing run has a mutated definition in its
module (marked "Mutant of") under which TLC finds the property violated.

## 4. Findings

1. *Lost wake-up* (`core/executor.rs:286`). The last worker calls
   `notify_one` without `sink.mu`. If it does so after the engine thread has
   checked `done` under the mutex and before it waits, nobody wakes the engine
   thread. All items are complete (`BatchCompletes` holds) and `run_batch`
   does not return. A batch that finishes within the spin phase is not
   affected.
2. *Decisions survive their policy* (`core/engine.rs:638`). The policy
   revision restarts at 0 with each run, the decision cache does not.
3. *Python callbacks deadlock with more than one worker*
   (`imads-py/src/lib.rs:299`). `run_with_evaluator` keeps the GIL while it
   runs the engine; with `workers > 1` the calling thread blocks at the batch
   barrier and the pool threads block in `Python::attach`. Without workers, with
   the toy evaluator, when every lookup hits, or in an interpreter without a GIL,
   calls return (`ReturnsUnlessGilDeadlock`).

Other divergences met while modelling, visible in the models and not the
subject of a run:

* A cached stop continues (`core/engine.rs:1417`, against
  `docs/guides/en/policy-contract-checklist.md:216`). A promotion stop is
  cached as a plain `Partial`, which on a hit means "go on" (`CachedPartial`).
* An infeasible incumbent prunes feasible points (`core/engine.rs:1402`,
  against line 239 of the same checklist). `StoppedIsBeaten` therefore
  promises a feasible incumbent only behind a barrier at 0.
* a_j falls without strong evidence (`policies/dids.rs:196`). The
  assignment starts from the base rule at every boundary, so it also falls
  when an alarm merely clears: five audits that all confirm their cut are
  enough where step 2b asks for eight and stricter bounds.
* The number of workers can change the result (`docs/guides/en/architecture.md:137`:
  "1-worker and N-worker produce identical results"). Batches decide which
  incumbent a candidate is compared with. `WorkerCountIrrelevant` names what
  it rests on: sound margins, a barrier at 0, no slack in acceptance
  (`EpsF`, `EpsV` at most 0) or pruning (`PruneEps` 0), no ties, no step budget,
  and no policy revision in either run.
  Without any one of the last three TLC finds runs of the `scheduled` instance
  that differ; that the others matter the instance does not show, the proof
  needs them. Revisions matter because they fall at batch boundaries
  (`core/engine.rs:905-914`). Say what the first batch brings bumps the revision,
  and that batch is `y` with one worker, `y` and `x` with two. When `x`, later
  the incumbent, is proposed again, the run with one worker finds its partial
  result under the revision in force, comes to the cached TRUTH, counts an
  improvement and does not poll; the one with two workers misses, is stopped by
  pruning against `x` itself (`core/engine.rs:1402`), and polls. The default calibrator and DIDS do revise,
  so the document's claim holds for frozen policies at best.
* Meshes are nested only if the initial multiplier can be divided by
  `refine_div` down to the least one without remainder (`IncumbentOnMesh`);
  otherwise the incumbent can lie off the refined mesh.
* An audited poll point gets no priority: its base score is infinite
  (`core/engine.rs:1040`), so that neither the audit bonus nor age applies.
* An exception of `mc_sample` on a pool thread is lost if the cheap constraints
  reject the candidate afterwards (`ErrorsSurface`).
* The evaluator is no part of the cache keys (`types.rs:415`): a second
  `run_with_evaluator` of an engine with another Python evaluator and the same
  environment reads the estimates of the first (`Lookup`).
* Workers are never stopped (`core/executor.rs:228`). `Drop` tests for a
  strong count of one, but every worker owns a clone of the `Arc`. Theorem
  `PoolNeverStops`: `shutdown` stays false in every instance. `configure`
  with another worker count leaves the old threads behind.
* Statistics depend on timing (`core/executor.rs:469`): duplicate points of
  one batch may both compute, or one may hit (`LookupEval` against `Compute`).
* The cheap constraints are asked after the black box has run (`Compute`
  precedes `RejectCheap`; `types.rs:378` says "No black-box evaluation
  performed").
* An evaluation that panics in the pool ends in the `expect` of
  `core/engine.rs:1290` (`ExpectFails`).
* With `max_steps_per_iter` the mesh is refined although the poll points were
  never evaluated. `FailedPollMeansLocalBest` assumes there is no budget, so
  that no property covers this case.
* `current_chunk` is shared by all handles, so that with two of them the cap
  of `NoHoarding` is not kept. What is checked with two handles (`pool_safety`)
  is that no task is stranded, lost or run twice, whatever the chunk.
* A K bucket of a fidelity starts at 0 and from then on hides the global K
  (`policies/calibrator.rs:898`, `policies/margin.rs:13`): the allowance at
  that fidelity can fall when its first sample arrives. The revision is bumped
  (`PhiChanged` compares the list of buckets).
* delta and K go on moving at batch boundaries without new evidence, until
  they reach a clamp or the quantile (`CalibrationSettles` says they do).
* Once a level is alarmed and its audits are judged, nothing cuts there any
  more and the alarm cannot clear (`AlarmIsFinal`). Twenty audits without a
  false cut still have an upper Wilson bound far above a target of 0.01, so
  the default thresholds alarm every level they can judge.
* The delta guard of step 3 is relative to the least delta of the
  constraints: with a single constraint it never acts.

## 5. Proofs

`WorkerPoolProofs` proves, for any sets of handles and workers and any batch
bound, from `PoolAssumption`, `NoTaskAssumption` and `NoOutcomeAssumption`
(each assumption named here is evaluated by TLC on the instances of the runs):

* `PoolTypeCorrect`: `TypeOK`;
* `PoolInvariant`: `PoolInv` is inductive. `BarrierSafe` alone is not: that no
  slot is missing when `done = size` needs `DoneExact` (`done` is the number
  of slots written *and* reported), which needs that each task exists once
  (`TasksUnique`) and belongs to the batch in progress with its slot unwritten
  until it is executed (`TasksCurrent`), and that slots hold their own item's
  outcome (`SlotsOwned`). A counting argument on the finite set `1 .. size`
  then gives that `done >= size` leaves no task anywhere;
* `PoolBarrierSafe` and `PoolImplementsBarrier` follow from it: every step of
  the pool is a step of `BatchBarrier` or leaves its variables unchanged;
* `PoolNoStrandedWork` by a second inductive invariant (`WakeInv`): a worker
  on its way to sleep holds the mutex, the queue is empty while it does, and
  queued work has a taker awake or a notification due. It needs
  `NobodyStops`, which is `PoolNeverStops`;
* `PoolNoHoarding`, for a pool with a single handle: `current_chunk` is shared,
  and another handle's batch would set it for a batch of another size. The
  invariant `ShareInv` says that the chunk in force is within the share of the
  batch it was computed for, that a worker refills only an empty ring, and that
  ring and task in hand together stay within the share. Held tasks are counted
  by places of the ring, which bounds the cardinality `NoHoarding` speaks of.

`AcceptanceProofs` proves, for every configuration (any slack, shrink factor,
floor, cap) from `AcceptanceAssumption`: `AcceptTypeCorrect`,
`BarrierNonIncreasing`, `FilterNonDominated` (dropping what the new point
dominates and rejecting what a filter point dominates keeps the filter
non-dominated, although dominance with slack is not transitive) and
`BestFeasibleKept` (truncation keeps the least point of the sort order, and a
best feasible point is least).

`EngineProofs` proves, for every ladder, evaluator and configuration, any
number of workers, iterations, revisions and runs, and whatever the search,
scheduler, calibrator and DIDS choose, from `EngineAssumption`,
`AcceptanceAssumption` and `LadderAssumption`, that `EngineInv` is inductive
(`EngineInvariant`). Its parts:

* `EvalTrue` and `DecTrue`: what either cache holds under a key is a value, or a
  decision, of that point and level (a cached `Partial` has estimates). The interleaved lookups and computations
  of a batch keep this, because every key names all that the value depends on
  (the evaluator is fixed per engine);
* `Batch`: the work items are the candidates in flight, each at the level its
  candidate waits at, and there are none between `Join` and the next dispatch;
* `Candidates` and `Best`: what the flags of a candidate say is true of its
  point; the incumbent and the filter points are evaluations at TRUTH;
* `FirstRun`: in an engine's first run an entry that bears the current revision
  was decided under the current policy, and none bears a later one.

From it: `EngineTypeCorrect` (no candidate leaves ladder or lattice),
`OnlyTruthAccepted` (`BestIsTruth`), `AuditsComplete` (`AuditReachesTruth`),
`StopsOnlyBeaten` (`StoppedIsBeaten`; its own inductive part, as the incumbent
that beat a stopped candidate is only ever replaced by a better one) and
`FirstRunHits` (`HitUnderCurrentPolicy` in the first run; in later ones it is
false, finding 2).

`EngineBestProofs` adds `SearchInv`. `Lowest` says that under exact acceptance
the incumbents of engine and filter are the same and no feasible TRUTH is below:
the filter alone may be truncated, so neither half is inductive without the
other; it gives `BestNeverLost` (`BestSoFar`). `PollLast`, `PollFails`,
`NearBest` and `Unlimited` follow the two poll points from injection to the end
of the iteration: they are the last in the store, stay what they are, and one
that is done without an improvement would not have won. They give
`RefinedForAReason` (`FailedPollMeansLocalBest`). `CandidatesClimb`
(`LadderClimbs`) is an action property: a case per branch of
`materialize_job_result`, from what `EngineInv` says of levels and outcomes.

`ScheduledProofs` proves, from `ScheduleAssumption`, `ScoreAssumption` and
`ProposalsAssumption`:

* `SchedulingIsAChoice`: the engine with the code's search, scores and sorted
  queue starts as `Engine` does, and each step is a step of `Engine`, a stutter,
  or the change to a new engine between runs. The projection of every proposal
  is a point of the current mesh within the lattice, and the head of the
  sorted queue is a set of ready candidates of the right size;
* `PromisesKept`: the invariants of `Engine` therefore hold in it;
  `RunAnotherEngine`, which is not a step of `Engine`, restores them;
* `SearchFollowsIncumbent` (`DirectionIsLastMove`), by `TrackKept` and
  `SearchKept`: the policy remembers the incumbent of the last iteration, and
  once there is an incumbent there always is one;
* `NestedMeshesKeepIncumbent` (`IncumbentOnMesh`), by `StoreOnMesh`: the
  incumbent is a candidate of some earlier iteration, so the invariant is that
  every candidate of the store is on the current mesh, and that the multiplier
  can be divided on;
* `AuditsGoFirst` (`AuditedFirst`), `NoStarvationByYounger` (`OlderFirst`) and
  `SearchGoesFirst` (`SearchBeforePoll`), action properties of the dispatch. They
  rest on `InfoKept`: a poll point, and nothing else, has an infinite base score,
  the distance of any other is bounded, and the level of its last estimates is
  one at which the point has estimates. So every score lies in the band its kind
  of candidate has (`ScoreBounds`), and who is picked ranks before who is passed
  over (`PickedBeforePassed`);
* `RunsRepeat` (`Reproducible`): two runs on the same problem with as many
  workers end with the same output, whatever function of the events revises the
  policies, and however often. `ScheduledCore` separates what decides the
  rest of a run (`CoreNow`: the engine thread's state, the decisions known and
  the verdict on every item in flight) from what the workers may do in any order
  (how far each item is, the evaluation cache, cached invalid evaluations). What
  an item comes back with is settled when it is dispatched: nothing that counts
  enters the decision cache under its key while it is in flight and has missed
  the cache (`Missed`). So a worker's step leaves the core alone (`ItemQuiet`),
  and a step of the engine thread takes it one step on (`CoreStep`), by a
  function `After` of the core alone: the step of the engine whose variables are
  the fields of the core, a parametrized INSTANCE. It needs that the queue has
  one head (`OneHead`) and the batch one item whose turn it is (`TurnInCore`).
  The inductive invariant `ReplayInv` keeps the way from the start to the core
  of the present run, and that the recorded output is at the end of the way of
  the run before (`Replayed`). The events are part of the core, and a policy
  revision is a step of it (`CoreRevised`). A way is determined by its start (`WaysAgree`),
  so both ways have one end (`OneEnd`);
* `WorkersDoNotMatter` (`WorkerCountIrrelevant`): with another number of workers
  and no revision in either run the runs do not pass through the same cores, but their iterations start from
  the same point, multiplier and search state. An iteration that starts from `t`
  leaves the best viable point of `t` and of all the points it came to
  (`Iterated`), and polls if no proposal is better or `t` itself (`Polls`). That is one
  point, since no two feasible points tie, so where `n` iterations arrive
  (`Arrives`) is determined by the problem alone. Within an iteration `Midway`
  holds: it bears the mesh and the search of `t` (`Bearing`), has a candidate
  for every point it came to and waits only for those (`Covering`), has improved
  on `t` or kept it (`Improving`), and finds what it knew of `t` in the decision
  cache (`Recalling`). A point that is proposed once more counts as an
  improvement, so that whether the poll happens depends on the cache: `Climbing`
  says that the levels behind a feasible candidate went well and are remembered,
  under the revision in force, which is why it is kept only while there has been
  none (`NoneBefore`: a run without a revision had none at any time). The inductive invariant `JourneyInv` joins these with `ScheduledInv` and the
  journeys of the present run and of the one before it.

`CalibratorProofs` proves from `CalibratorAssumption` and `LadderAssumption`,
for every evaluator and configuration, any number of candidates and constraints
and whatever cuts are audited:

* `AuditInv` (`LoopTypes`, `AuditPaths`, `AuditsBalance`) is inductive: a
  candidate that was cut is on its way up from the level of the cut, and an
  open audit is the one its candidate is under. Hence `AuditsInBalance` and
  `PendingFollowsOrigin`;
* `CalibTypeCorrect`, with `Learning` on windows and coefficients;
* `RevisionFollowsMargins` (`RevisionTracksMargins`), an action property;
* `CoefficientsWithinBias` (`KWithinBias`), by `WithinBias`: samples and
  coefficients are at most the largest bias; an average rounded down of two
  such numbers is again, and so is a sample that the quantile selects;
* `RefutedCutsNotRepeated`, by `SharpInv`: without smoothing, the window is
  large enough to forget nothing (`WindowsFit`), a judged audit has left a
  sample that accounts for the bias of its cut (`CutExplained`), and between
  batches the coefficient is the largest sample (`LargestInForce`).

The arithmetic rests on lemmas about integer division and about the extremes
of finite sets. The latter need that a finite set of integers is bounded, which
is proved by descent from a least counterexample, because the induction
theorems of the library are out of reach.

`DidsProofs` proves from `DidsAssumption` `DidsTypeCorrect`,
`AlarmedLevelsExcluded` (`AlarmedLevelNotUsed`) and `AlarmsAreFinal`
(`AlarmIsFinal`). `DidsInv` is inductive as it stands; the work is in the
thresholds: an alarm of step 2 and the relaxation of step 2b exclude each other
for every target and minimum, because the lower Wilson bound is below the rate
and the upper one above it, which the squared comparisons keep; and step 3 only
raises a_j.

`PyBindingProofs` proves from `PyAssumption`, for any number of threads,
engines, workers, calls and batches, that `PyInv` is inductive: calls and
borrows name each other (`Owner`), the place of a thread in the run determines
how it stands to the interpreter (`Standing`), items exist only while their
call is past dispatch (`Batches`), a pool thread touches Python exactly while
it samples (`Pools`), the GIL has one holder (`Gil`), and an exception of the
call is in an outcome still to be looked at or was turned away by the cheap
constraints (`Errors`). From it `PyTypeCorrect`, `PyEngineExclusive` and
`PyErrorsSurface`.

Only model-checked:

* liveness (`BatchCompletes`, `Terminates`, `CalibrationSettles`,
  `ReturnsUnlessGilDeadlock`), which the prover does not reach;
* the contracts of the pure operators (`LadderContract`, `QuantizeContract`,
  `TuningBounded`), evaluated over bounded inputs. `BuildLadder` is recursive,
  and what it computes for every input needs induction over data.

## 6. Not modelled

Floating-point arithmetic as such (means, standard errors, recency weights),
the random generators and the Halton sequence themselves (their output is a
constant of `SearchPolicy`), hashing, statistics other than `did_compute`,
configuration validation and presets. `InlineExecutor` is the engine model with
one item at a time. Several dimensions: poll, quantization and refinement act
on each dimension alone, so one is modelled; the order of poll directions over
dimensions and the saturation of `i64` coordinates are not. The bindings for
C, WebAssembly, the JVM and their wrappers (`imads-ffi`, `-wasm`, `-jvm`,
`-kotlin`, `-scala`, `-clj`) convert configurations and callbacks and keep no
state of their own; the Python binding stands for callbacks into a foreign
runtime. In `PyBinding`, a callback that calls an engine itself is left out.

## 7. Plan

Modelled, in this order: the pool and its contract, acceptance, the engine,
the audit path and ladder, the calibrator, DIDS, chunk tuning, the search
policies with the ready queue, the Python binding. Proved: every invariant and
every action property of the passing runs, except those listed as only
model-checked in section 5.
