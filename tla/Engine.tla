------------------------------- MODULE Engine -------------------------------
(***************************************************************************)
(* Engine::run_with_evaluator of imads-core/src/core/engine.rs: the        *)
(* run-global candidate store, the step loop, the batch of work items run  *)
(* by the executor against the two caches (execute_one of executor.rs),    *)
(* materialize_job_result, acceptance (module Acceptance), the policy      *)
(* update at the batch boundary and the mesh update.                       *)
(*                                                                         *)
(* Data.  The lattice has one dimension and there is one constraint.       *)
(* Estimates are fixed-point: f and c stand for f_hat and c_hat, s for the *)
(* z-scaled standard error.  The environment, hence env_rev, is fixed, and *)
(* converting a lattice point to a real one does not fail.  What the       *)
(* calibrator and DIDS compute from their events is left open: at a batch  *)
(* boundary the thresholds and the assignment may become any others, with  *)
(* the revision bumps the code gives them.  So is the score order: the     *)
(* scheduler may pick any ready candidates, as many as DefaultScheduler.   *)
(***************************************************************************)
EXTENDS Acceptance, AuditPath, Sequences

CONSTANTS
  XMesh,           \* the lattice points evaluators are defined on
  Evaluators,      \* the evaluators considered: [cheap, est]
  SearchBox,       \* where the search proposes
  Thresholds,      \* margins the calibrator may set: [delta, k]
  InitThresholds,  \* the margins configure() may leave at revision 0
  WorkerCounts,    \* values of workers a run may be given
  Boundary,        \* batch_boundary
  PerIter, MaxIters,             \* candidates_per_iter, iterations
  StepBudgets,     \* values of max_steps_per_iter a run may be given
  MulInit, MulMin, RefineDiv, PollMult, \* mesh parameters
  PruneMinLevel, PruneMinRank, PruneBackHalf, PruneNotAudited,
  PruneEps,        \* Thresholds::eps_f
  MaxPolicies,     \* bound: policy revisions in a run
  MaxRuns,         \* bound: runs of one engine, which share the caches
  NoX,             \* Option::None for a mesh point
  NoBudget         \* max_steps_per_iter = None

\* What compute_estimates may give: estimates, None, or an unwinding panic.
Invalid == [none |-> "invalid"]
Panic == [none |-> "panic"]
Estimates == [f : Int, c : Int, s : Nat]

\* An evaluator is given phi, not its place in the ladder.  The lattice is
\* unbounded; XMesh is as much of it as polling around points that pass the
\* cheap constraints can reach.
ASSUME EngineAssumption ==
  /\ XMesh \subseteq Int /\ SearchBox \subseteq XMesh
  /\ \A e \in Evaluators :
       /\ e.cheap \in [XMesh -> BOOLEAN]
       /\ \A x \in XMesh, p \in Levels :
            /\ e.est[x][p] \in Estimates \cup {Invalid, Panic}
            /\ \A q \in Levels : Ladder[p] = Ladder[q] => e.est[x][p] = e.est[x][q]
       /\ \A x \in XMesh, m \in 1 .. Larger(MulInit, 1) :
            e.cheap[x] => {x + m * Larger(PollMult, 1),
                           x - m * Larger(PollMult, 1)} \subseteq XMesh
  /\ InitThresholds \subseteq Thresholds
  /\ \A t \in Thresholds : t.delta \in Int /\ t.k \in Int
  /\ WorkerCounts \subseteq Nat \ {0} /\ Boundary \in Nat \ {0}
  /\ {PerIter, MaxIters, MaxPolicies, MaxRuns} \subseteq Nat
  /\ StepBudgets \subseteq Nat \cup {NoBudget} /\ NoBudget \notin Nat
  /\ {MulInit, MulMin, RefineDiv, PollMult} \subseteq Int
  /\ PruneEps \in Nat
  /\ NoX \notin XMesh

VARIABLES
  ev,         \* the evaluator
  run,        \* number of the run (history)
  budget,     \* max_steps_per_iter of the run
  workers,    \* worker count of the run
  phase,      \* where the engine thread is
  iter, polled, improved, stepsLeft,   \* per-iteration locals
  mul,        \* mesh_mul
  cands,      \* the candidate store
  xBest, fBest,
  th, asg, rev,        \* thresholds, assignment a_1, policy_rev
  work,       \* the batch: candidate -> its WorkItem, or its WorkOutcome
  evalCache, decCache

policyVars == <<th, asg, rev>>
cacheVars == <<evalCache, decCache>>
bestVars == <<xBest, fBest>>
runVars == <<run, budget, workers>>
iterVars == <<iter, polled, improved, stepsLeft, mul>>
vars == <<ev, runVars, phase, iterVars, cands, bestVars, policyVars, work,
          cacheVars, acceptVars>>

-----------------------------------------------------------------------------
(* The policies' decisions on estimates.                                   *)

Bias(p, t) == t.k * Ladder[p].tau

\* DefaultMargin::early_infeasible.
EarlyInfeasible(e, p, t) == e.c - e.s - Bias(p, t) > t.delta

\* The optimistic bound of DefaultMargin::objective_bounds.
Lcb(e, p, t) == e.f - e.s - Bias(p, t)

SmcLevels == {Ladder[p].smc : p \in Levels}

\* Mutant of PruningAllowed: audited candidates are pruned like any other.
PruningAllowedAudited(p, audited) == p >= Larger(PruneMinLevel, 1)

\* objective_pruning_allowed: the level, its rank among the sample counts
\* (the last one when there are fewer), the back half of the ladder.
PruningAllowed(p, audited) ==
  /\ ~(audited /\ PruneNotAudited)
  /\ p >= Larger(PruneMinLevel, 1)
  /\ LET n == Cardinality(SmcLevels)
         rank == Clamp(PruneMinRank, 1, n)
     IN  Cardinality({s \in SmcLevels : s <= Ladder[p].smc}) >= rank
  /\ PruneBackHalf => p >= Larger(L \div 2 + 1, 2)

\* Mutant of Prunes: eps_f is added to the incumbent's side with a unit too
\* many, so that a better candidate is stopped.
PrunesTooSoon(e, p, audited) ==
  /\ fBest # NoF
  /\ PruningAllowed(p, audited)
  /\ Lcb(e, p, th) >= fBest - PruneEps - 1

\* The promotion stop of materialize_job_result.
Prunes(e, p, audited) ==
  /\ fBest # NoF
  /\ PruningAllowed(p, audited)
  /\ Lcb(e, p, th) >= fBest - PruneEps

\* Where a candidate continues after level p.
NextLevel(c, p) == IF c.audit THEN NextAuditTarget(c.cut, p) ELSE p + 1

-----------------------------------------------------------------------------
(* Candidates and caches.                                                  *)

DoneStatus == {"truth", "early", "stopped", "cheap", "invalid"}

\* CandidateStageState as ingested.
NewCandidate(x, isPoll) ==
  [x |-> x, poll |-> isPoll, epoch |-> iter, next |-> 1, status |-> "ready",
   audit |-> FALSE, cut |-> 0, cheap |-> "unchecked"]

Ready == {i \in DOMAIN cands : cands[i].status = "ready"}

\* CandidateId order: poll ids have the high bit set.
IdLess(i, j) ==
  IF cands[i].poll = cands[j].poll THEN i < j ELSE cands[j].poll

TagOf(p) == IF p = L THEN "truth" ELSE "partial"

\* Mutant of EvalKey: the fidelity is left out.
EvalKeyNoPhi(x, p) == <<x, Ladder[1]>>

EvalKey(x, p) == <<x, Ladder[p]>>

\* Mutant of DecisionKey: the policy revision is left out.
DecisionKeyNoRev(x, p, tag) == <<x, Ladder[p], 0, tag>>

DecisionKey(x, p, tag) == <<x, Ladder[p], rev, tag>>

\* A JobResult in the decision cache, with (history) the policy it was
\* decided under.
Decided(kind, e) == [kind |-> kind, est |-> e, policy |-> <<th, asg>>]

Put(cache, key, value) ==
  [k \in DOMAIN cache \cup {key} |-> IF k = key THEN value ELSE cache[k]]

EmptyCache == [k \in {} |-> k]

-----------------------------------------------------------------------------
(* A run: setup, propose, select, dispatch.                                *)

\* for iter in 0 .. max_iters: entered, or not.
LoopPhase(i) == IF i < MaxIters THEN "propose" ELSE "done"

\* The locals of run_with_evaluator, with the policies reset: search, dids
\* and calibrator start over, and the policy revision with them.
Init ==
  /\ ev \in Evaluators
  /\ run = 1
  /\ budget \in StepBudgets
  /\ workers \in WorkerCounts
  /\ phase = LoopPhase(0)
  /\ iter = 0 /\ polled = FALSE /\ improved = FALSE /\ stepsLeft = 0
  /\ mul = Larger(MulInit, 1)
  /\ cands = << >>
  /\ xBest = NoX /\ fBest = NoF
  /\ th \in InitThresholds /\ asg = 1 /\ rev = 0
  /\ work = EmptyCache
  /\ AcceptInit
  /\ evalCache = EmptyCache
  /\ decCache = EmptyCache

\* run() again on the same engine, perhaps with another calibrator
\* configuration: everything starts over but the two caches.
NewRun ==
  /\ phase = "done"
  /\ run < MaxRuns
  /\ run' = run + 1
  /\ budget' \in StepBudgets
  /\ workers' \in WorkerCounts
  /\ phase' = LoopPhase(0)
  /\ iter' = 0 /\ polled' = FALSE /\ improved' = FALSE /\ stepsLeft' = 0
  /\ mul' = Larger(MulInit, 1)
  /\ cands' = << >>
  /\ xBest' = NoX /\ fBest' = NoF
  /\ th' \in InitThresholds /\ asg' = 1 /\ rev' = 0
  /\ h' = InitialBarrier /\ points' = {} /\ incumbent' = NoF
  /\ UNCHANGED <<ev, work, cacheVars>>

OnMesh(x) == x % mul = 0

\* Top of the iteration: ingest the proposals, projected onto the mesh.
Ingest(xs) ==
  /\ phase = "propose"
  /\ cands' = cands \o [i \in 1 .. PerIter |-> NewCandidate(xs[i], FALSE)]
  /\ improved' = FALSE
  /\ polled' = FALSE
  /\ stepsLeft' = budget
  /\ phase' = "select"
  /\ UNCHANGED <<ev, runVars, iter, mul, bestVars, policyVars, work, cacheVars,
                 acceptVars>>

\* The search proposes any mesh points of its box.
Propose ==
  \E xs \in [1 .. PerIter -> {x \in SearchBox : OnMesh(x)}] : Ingest(xs)

PollStep == mul * Larger(PollMult, 1)

\* Mutant of PollPoints: a one-sided poll.
PollPointsOneSided(x) == <<x + PollStep>>

\* DefaultPoll::generate_points_aniso.
PollPoints(x) == <<x + PollStep, x - PollStep>>

CanPoll == ~polled /\ ~improved /\ xBest # NoX

\* Search exhausted: inject the poll points, once per iteration.
InjectPoll ==
  /\ phase = "select"
  /\ stepsLeft # 0
  /\ Ready = {}
  /\ CanPoll
  /\ LET pts == PollPoints(xBest) IN
       cands' = cands \o [d \in 1 .. Len(pts) |-> NewCandidate(pts[d], TRUE)]
  /\ polled' = TRUE
  /\ UNCHANGED <<ev, runVars, phase, iter, improved, stepsLeft, mul, bestVars,
                 policyVars, work, cacheVars, acceptVars>>

\* The step loop ends: no budget, or nothing to do and nothing to poll.
EndSteps ==
  /\ phase = "select"
  /\ stepsLeft = 0 \/ (Ready = {} /\ ~CanPoll)
  /\ phase' = "iterend"
  /\ UNCHANGED <<ev, runVars, iterVars, cands, bestVars, policyVars, work,
                 cacheVars, acceptVars>>

\* min(picked.len(), boundary, steps_left), where picked is the scheduler's
\* choice of min(ready, workers).
BatchSize ==
  LET bounds == {Cardinality(Ready), workers, Boundary}
                  \cup ({stepsLeft} \ {NoBudget})
  IN  CHOOSE n \in bounds : \A m \in bounds : n <= m

\* steps_left after n steps; usize::MAX is never used up.
Spend(n) == IF stepsLeft = NoBudget THEN NoBudget ELSE stepsLeft - n

\* The picked candidates go in flight as one-step work items.
Submit(picked) ==
  /\ phase = "select"
  /\ stepsLeft # 0
  /\ picked # {}
  /\ Cardinality(picked) = BatchSize
  /\ cands' = [i \in DOMAIN cands |->
                 IF i \in picked THEN [cands[i] EXCEPT !.status = "flight"]
                                 ELSE cands[i]]
  /\ work' = [i \in picked |-> [pc |-> "decision", phi |-> cands[i].next]]
  /\ stepsLeft' = Spend(Cardinality(picked))
  /\ phase' = "batch"
  /\ UNCHANGED <<ev, runVars, iter, polled, improved, mul, bestVars, policyVars,
                 cacheVars, acceptVars>>

\* Dispatch whatever the scheduler picks.
Dispatch == \E picked \in SUBSET Ready : Submit(picked)

-----------------------------------------------------------------------------
(* execute_one, concurrently for the items of the batch.                   *)

ItemAt(i, pc) == phase = "batch" /\ i \in DOMAIN work /\ work[i].pc = pc

ItemUnchanged ==
  UNCHANGED <<ev, runVars, phase, iterVars, cands, bestVars, policyVars,
              acceptVars>>

\* The WorkOutcome of item i: a cached decision, estimates, or neither.
Outcome(i, out) ==
  work' = [work EXCEPT ![i] = [pc |-> "done", phi |-> work[i].phi,
                               out |-> out]]

\* 1) The decision cache.
LookupDecision(i) ==
  LET key == DecisionKey(cands[i].x, work[i].phi, TagOf(work[i].phi)) IN
  /\ ItemAt(i, "decision")
  /\ IF key \in DOMAIN decCache
       THEN Outcome(i, [cached |-> decCache[key]])
       ELSE work' = [work EXCEPT ![i].pc = "eval"]
  /\ UNCHANGED cacheVars
  /\ ItemUnchanged

\* 2) The evaluation cache.
LookupEval(i) ==
  LET key == EvalKey(cands[i].x, work[i].phi) IN
  /\ ItemAt(i, "eval")
  /\ IF key \in DOMAIN evalCache
       THEN Outcome(i, [est |-> evalCache[key]])
       ELSE work' = [work EXCEPT ![i].pc = "compute"]
  /\ UNCHANGED cacheVars
  /\ ItemUnchanged

\* 3) The black box: estimates enter the evaluation cache, an invalid
\* evaluation the decision cache, a panic (caught by the worker) neither.
Compute(i) ==
  LET x == cands[i].x
      p == work[i].phi
      e == ev.est[x][p]
  IN
  /\ ItemAt(i, "compute")
  /\ CASE e = Invalid ->
            /\ Outcome(i, [cached |-> Decided("invalid", e)])
            /\ decCache' = Put(decCache, DecisionKey(x, p, TagOf(p)),
                               Decided("invalid", e))
            /\ UNCHANGED evalCache
       [] e = Panic ->
            /\ Outcome(i, [none |-> TRUE])
            /\ UNCHANGED cacheVars
       [] OTHER ->
            /\ Outcome(i, [est |-> e])
            /\ evalCache' = Put(evalCache, EvalKey(x, p), e)
            /\ UNCHANGED decCache
  /\ ItemUnchanged

\* run_batch returns: the batch barrier.
Join ==
  /\ phase = "batch"
  /\ \A i \in DOMAIN work : work[i].pc = "done"
  /\ phase' = "join"
  /\ UNCHANGED <<ev, runVars, iterVars, cands, bestVars, policyVars, work,
                 cacheVars, acceptVars>>

-----------------------------------------------------------------------------
(* materialize_job_result, in the order of candidate ids.                  *)

\* Mutant of Turn: TRUTH outcomes are taken first, and as they complete.
TurnAsCompleted(i) ==
  /\ phase = "join"
  /\ i \in DOMAIN work
  /\ work[i].phi = L \/
       \A j \in DOMAIN work : work[j].phi # L /\ (j = i \/ IdLess(i, j))

\* The next outcome to process is i's.
Turn(i) ==
  /\ phase = "join"
  /\ i \in DOMAIN work
  /\ \A j \in DOMAIN work : j = i \/ IdLess(i, j)

Without(i) == [j \in DOMAIN work \ {i} |-> work[j]]

\* Candidate i becomes c; its outcome is consumed.
Settle(i, c) ==
  /\ cands' = [cands EXCEPT ![i] = c]
  /\ work' = Without(i)

MatUnchanged == UNCHANGED <<ev, runVars, phase, iter, polled, stepsLeft, mul,
                            policyVars, evalCache>>

NoTruth == UNCHANGED <<improved, bestVars, acceptVars>>

HasCached(i) == "cached" \in DOMAIN work[i].out
CachedKind(i, k) == HasCached(i) /\ work[i].out.cached.kind = k
HasEst(i) == "est" \in DOMAIN work[i].out

\* The sticky cheap check, made on the first outcome that is not a cached
\* decision.
CheapChecked(c) ==
  IF c.cheap = "unchecked"
    THEN [c EXCEPT !.cheap = IF ev.cheap[c.x] THEN "ok" ELSE "bad"]
    ELSE c

Record(i, kind, e) ==
  decCache' = Put(decCache,
                  DecisionKey(cands[i].x, work[i].phi, TagOf(work[i].phi)),
                  Decided(kind, e))

\* should_audit is asked only of a candidate not yet under audit; its answer,
\* a hash of (x, phi, env_rev), may be either.
AuditChoice(c, p) ==
  IF c.audit THEN {c} ELSE {c, [c EXCEPT !.audit = TRUE, !.cut = p]}

\* After an early-infeasible decision at level p: an audited candidate goes
\* on to its next target, another is finished.
AfterEarly(c, p) ==
  IF c.audit
    THEN [c EXCEPT !.status = "ready", !.next = NextAuditTarget(c.cut, p)]
    ELSE [c EXCEPT !.status = "early"]

\* Mutant of Accept: every TRUTH result within the barrier becomes the
\* incumbent, whatever the filter says.
AcceptUnfiltered(c, e) ==
  LET v == Larger(e.c, 0) IN
  /\ DecideTruth(e.f, v)
  /\ IF v <= h
       THEN improved' = TRUE /\ xBest' = c.x /\ fBest' = e.f
       ELSE UNCHANGED <<improved, bestVars>>

\* Acceptance of a TRUTH result e for candidate c.
Accept(c, e) ==
  LET v == Larger(e.c, 0) IN
  /\ DecideTruth(e.f, v)
  /\ IF Accepts(e.f, v)
       THEN improved' = TRUE /\ xBest' = c.x /\ fBest' = e.f
       ELSE UNCHANGED <<improved, bestVars>>

CachedPartial(i) ==
  /\ Turn(i)
  /\ CachedKind(i, "partial")
  /\ Settle(i, [cands[i] EXCEPT !.status = "ready",
                                !.next = NextLevel(cands[i], work[i].phi)])
  /\ NoTruth
  /\ UNCHANGED decCache
  /\ MatUnchanged

CachedEarly(i) ==
  LET p == work[i].phi IN
  /\ Turn(i)
  /\ CachedKind(i, "early")
  /\ \E c \in IF p >= asg THEN AuditChoice(cands[i], p) ELSE {cands[i]} :
       Settle(i, AfterEarly(c, p))
  /\ NoTruth
  /\ UNCHANGED decCache
  /\ MatUnchanged

CachedTruth(i) ==
  /\ Turn(i)
  /\ CachedKind(i, "truth")
  /\ Settle(i, [cands[i] EXCEPT !.status = "truth"])
  /\ Accept(cands[i], work[i].out.cached.est)
  /\ UNCHANGED decCache
  /\ MatUnchanged

\* An invalid evaluation, cached or of this batch.
RejectInvalid(i) ==
  /\ Turn(i)
  /\ CachedKind(i, "invalid")
  /\ Settle(i, [cands[i] EXCEPT !.status = "invalid"])
  /\ NoTruth
  /\ UNCHANGED decCache
  /\ MatUnchanged

\* The cheap constraints reject, whatever the black box returned.
RejectCheap(i) ==
  LET c == CheapChecked(cands[i]) IN
  /\ Turn(i)
  /\ ~HasCached(i)
  /\ c.cheap = "bad"
  /\ Settle(i, [c EXCEPT !.status = "cheap"])
  /\ decCache' = Put(decCache, DecisionKey(c.x, work[i].phi, "cheap"),
                     Decided("cheap", NoX))
  /\ NoTruth
  /\ MatUnchanged

\* The evaluation unwound: expect() finds no estimates and the engine thread
\* panics.
ExpectFails(i) ==
  /\ Turn(i)
  /\ "none" \in DOMAIN work[i].out
  /\ CheapChecked(cands[i]).cheap = "ok"
  /\ phase' = "panicked"
  /\ UNCHANGED <<ev, runVars, iterVars, cands, bestVars, policyVars, work,
                 cacheVars, acceptVars>>

\* Estimates below TRUTH, with c the candidate after the cheap check.
PartialTurn(i) ==
  /\ Turn(i)
  /\ HasEst(i)
  /\ CheapChecked(cands[i]).cheap = "ok"
  /\ work[i].phi < L

Cuts(i) ==
  /\ EarlyInfeasible(work[i].out.est, work[i].phi, th)
  /\ work[i].phi >= asg

Stops(i) == Prunes(work[i].out.est, work[i].phi, cands[i].audit)

CutEarly(i) ==
  LET p == work[i].phi IN
  /\ PartialTurn(i)
  /\ Cuts(i)
  /\ \E c \in AuditChoice(CheapChecked(cands[i]), p) :
       Settle(i, AfterEarly(c, p))
  /\ Record(i, "early", work[i].out.est)
  /\ NoTruth
  /\ MatUnchanged

\* The promotion stop; the cached result is a plain Partial.
StopPartial(i) ==
  /\ PartialTurn(i)
  /\ ~Cuts(i)
  /\ Stops(i)
  /\ Settle(i, [CheapChecked(cands[i]) EXCEPT !.status = "stopped"])
  /\ Record(i, "partial", work[i].out.est)
  /\ NoTruth
  /\ MatUnchanged

Continue(i) ==
  /\ PartialTurn(i)
  /\ ~Cuts(i)
  /\ ~Stops(i)
  /\ Settle(i, [CheapChecked(cands[i]) EXCEPT
                  !.status = "ready",
                  !.next = NextLevel(cands[i], work[i].phi)])
  /\ Record(i, "partial", work[i].out.est)
  /\ NoTruth
  /\ MatUnchanged

Truth(i) ==
  /\ Turn(i)
  /\ HasEst(i)
  /\ CheapChecked(cands[i]).cheap = "ok"
  /\ work[i].phi = L
  /\ Settle(i, [CheapChecked(cands[i]) EXCEPT !.status = "truth"])
  /\ Record(i, "truth", work[i].out.est)
  /\ Accept(cands[i], work[i].out.est)
  /\ MatUnchanged

Materialize(i) ==
  \/ CachedPartial(i) \/ CachedEarly(i) \/ CachedTruth(i)
  \/ RejectInvalid(i) \/ RejectCheap(i) \/ ExpectFails(i)
  \/ CutEarly(i) \/ StopPartial(i) \/ Continue(i) \/ Truth(i)

-----------------------------------------------------------------------------
(* Batch boundary and end of the iteration.                                *)

Bump(changed) == IF changed THEN 1 ELSE 0

\* Mutant of PolicyUpdate: a new assignment does not bump the revision.
PolicyUpdateOneBump ==
  /\ phase = "join"
  /\ DOMAIN work = {}
  /\ \E t \in Thresholds, a \in Levels, learned \in BOOLEAN :
       /\ t # th => learned
       /\ rev < MaxPolicies \/ (~learned /\ a = asg)
       /\ th' = t
       /\ asg' = a
       /\ rev' = rev + Bump(learned)
  /\ phase' = "select"
  /\ UNCHANGED <<ev, runVars, iterVars, cands, bestVars, work, cacheVars,
                 acceptVars>>

\* calibrator.update, then dids.update_assignment: each reports whether it
\* changed anything and bumps the revision if so.  The calibrator may have
\* learned something that the margins do not show.
PolicyUpdate ==
  /\ phase = "join"
  /\ DOMAIN work = {}
  /\ \E t \in Thresholds, a \in Levels, learned \in BOOLEAN :
       /\ t # th => learned
       /\ rev < MaxPolicies \/ (~learned /\ a = asg)
       /\ th' = t
       /\ asg' = a
       /\ rev' = rev + Bump(learned) + Bump(a # asg)
  /\ phase' = "select"
  /\ UNCHANGED <<ev, runVars, iterVars, cands, bestVars, work, cacheVars,
                 acceptVars>>

\* Mutant of Refined: the floor is forgotten.
RefinedNoFloor == mul \div Larger(RefineDiv, 2)

\* Mutant of Refined: the multiplier goes down by refine_div.
RefinedBySubtraction ==
  IF mul > Larger(RefineDiv, 2) THEN mul - Larger(RefineDiv, 2) + 1 ELSE 1

\* AnisotropicMeshGeometry::refine.
Refined ==
  LET minm == Larger(MulMin, 1)
  IN  IF mul > minm THEN Larger(mul \div Larger(RefineDiv, 2), minm) ELSE mul

EndIteration ==
  /\ phase = "iterend"
  /\ OnIterationEnd(polled, improved)
  /\ mul' = IF polled /\ ~improved THEN Refined ELSE mul
  /\ iter' = iter + 1
  /\ phase' = LoopPhase(iter + 1)
  /\ UNCHANGED <<ev, runVars, polled, improved, stepsLeft, cands, bestVars,
                 policyVars, work, cacheVars>>

-----------------------------------------------------------------------------

Step ==
  \/ Propose
  \/ InjectPoll
  \/ EndSteps
  \/ Dispatch
  \/ Join
  \/ PolicyUpdate
  \/ EndIteration
  \/ NewRun
  \/ \E i \in DOMAIN work :
       LookupDecision(i) \/ LookupEval(i) \/ Compute(i) \/ Materialize(i)

\* run() has returned, or unwound.
Stopped ==
  /\ phase = "panicked" \/ (phase = "done" /\ run = MaxRuns)
  /\ UNCHANGED vars

Next == Step \/ Stopped

Spec == Init /\ [][Next]_vars

\* The engine thread and the workers run; a caller need not call run() again.
FairSpec == Spec /\ WF_vars(Step /\ phase # "done")

-----------------------------------------------------------------------------
(* Properties.                                                             *)

Phases == {"propose", "select", "batch", "join", "iterend", "done", "panicked"}

TypeOK ==
  /\ AcceptTypeOK
  /\ ev \in Evaluators
  /\ run \in 1 .. Larger(MaxRuns, 1)
  /\ workers \in WorkerCounts
  /\ phase \in Phases
  /\ iter \in 0 .. MaxIters
  /\ polled \in BOOLEAN /\ improved \in BOOLEAN
  /\ stepsLeft \in Nat \cup {NoBudget}
  /\ mul \in Nat \ {0}
  /\ \A i \in DOMAIN cands :
       /\ cands[i].x \in XMesh
       /\ cands[i].next \in Levels
       /\ cands[i].status \in DoneStatus \cup {"ready", "flight"}
       /\ cands[i].cut \in 0 .. L
  /\ xBest \in XMesh \cup {NoX}
  /\ fBest \in Int \cup {NoF}
  /\ th \in Thresholds /\ asg \in Levels /\ rev \in Nat
  /\ DOMAIN work = {i \in DOMAIN cands : cands[i].status = "flight"}

TruthOf(x) == ev.est[x][L]
Violation(x) == Larger(TruthOf(x).c, 0)

\* "Only TRUTH results can be accepted": the incumbent the engine reports and
\* every point of the filter are the top-level evaluation of a lattice point
\* that passes the cheap constraints, whatever route the values took through
\* the two caches, in this run or an earlier one.
BestIsTruth ==
  /\ xBest # NoX =>
       ev.cheap[xBest] /\ TruthOf(xBest) \in Estimates
                       /\ fBest = TruthOf(xBest).f
  /\ \A p \in points : \E i \in DOMAIN cands :
       /\ cands[i].status = "truth"
       /\ ev.cheap[cands[i].x]
       /\ p.f = TruthOf(cands[i].x).f
       /\ p.v = Violation(cands[i].x)

\* With a feasible-only barrier and exact dominance, the reported value is
\* the least objective among all feasible TRUTH evaluations of the run: no
\* order of completion, cached truth or tie loses the best one.
BestSoFar ==
  H0 <= 0 /\ HMin <= 0 /\ EpsF <= 0 /\ EpsV <= 0 =>
    LET feasible == {cands[i].x : i \in {j \in DOMAIN cands :
                       /\ cands[j].status = "truth"
                       /\ Violation(cands[j].x) = 0}}
    IN  IF feasible = {} THEN xBest = NoX
        ELSE /\ xBest \in feasible
             /\ \A y \in feasible : fBest <= TruthOf(y).f

\* A candidate only climbs: every step it takes is at a higher level than the
\* one before, finished stays finished, and the audit flag is sticky.
LadderClimbs ==
  [][run' = run => \A i \in DOMAIN cands :
       /\ cands[i].status \in DoneStatus => cands'[i] = cands[i]
       /\ cands[i].status = "flight" /\ cands'[i].status = "ready" =>
            cands'[i].next > cands[i].next
       /\ cands[i].audit => cands'[i].audit]_vars

\* With objective pruning off for audited candidates, an audit is never
\* dropped half-way: an audited candidate ends at TRUTH, unless an
\* evaluation on the way is invalid.
AuditReachesTruth ==
  PruneNotAudited => \A i \in DOMAIN cands :
    cands[i].audit =>
      cands[i].status \in {"ready", "flight", "truth", "invalid"}

\* A decision-cache hit was decided under the thresholds and the assignment
\* in force: "policy_rev must be bumped to prevent DecisionCache
\* contamination".
HitUnderCurrentPolicy ==
  phase = "join" => \A i \in DOMAIN work :
    CachedKind(i, "partial") \/ CachedKind(i, "early") =>
      work[i].out.cached.policy = <<th, asg>>

\* The margins are sound for the evaluator: estimates below TRUTH, corrected
\* by any of the margins, exclude only what TRUTH excludes.
SoundMargins ==
  \A x \in XMesh : \A p \in 1 .. L - 1 : \A t \in Thresholds :
    ev.est[x][p] \in Estimates /\ TruthOf(x) \in Estimates =>
      /\ EarlyInfeasible(ev.est[x][p], p, t) => TruthOf(x).c > 0
      /\ Lcb(ev.est[x][p], p, t) <= TruthOf(x).f

\* y is a point whose TRUTH would beat the incumbent.
Beats(y) ==
  /\ ev.cheap[y]
  /\ \A p \in Levels : ev.est[y][p] \in Estimates
  /\ Violation(y) = 0
  /\ TruthOf(y).f < fBest - PruneEps

\* "Refine mesh only when Poll was attempted and failed": when the iteration
\* ends that way under sound margins and a feasible-only barrier, no poll
\* neighbour of the incumbent beats it.  (A step budget may end the iteration
\* before the poll points are evaluated, so there is none.)
FailedPollMeansLocalBest ==
  /\ phase = "iterend" /\ polled /\ ~improved
  /\ budget = NoBudget
  /\ SoundMargins
  /\ H0 <= 0 /\ HMin <= 0
  => ~Beats(xBest + PollStep) /\ ~Beats(xBest - PollStep)

\* The step loop of every iteration ends although max_steps_per_iter is
\* unlimited, so run() returns.
Terminates == phase = "propose" ~> phase \in {"done", "panicked"}

\* "Objective pruning is merely a candidate promotion stop": under sound
\* margins a stopped candidate is one that an incumbent of the run beats on
\* the objective, to within eps_f, and with a feasible-only barrier that
\* incumbent is feasible, so the stop costs nothing.  (Behind a positive
\* barrier the incumbent may be infeasible and the stopped candidate not.)
StoppedIsBeaten ==
  SoundMargins => \A i \in DOMAIN cands :
    cands[i].status = "stopped" /\ TruthOf(cands[i].x) \in Estimates =>
      \E j \in DOMAIN cands :
        /\ cands[j].status = "truth"
        /\ TruthOf(cands[j].x).f - PruneEps <= TruthOf(cands[i].x).f
        /\ H0 <= 0 /\ HMin <= 0 => Violation(cands[j].x) = 0

=============================================================================
