-------------------------- MODULE ScheduledEngine --------------------------
(***************************************************************************)
(* The engine with its search policy and its ready queue: where Engine     *)
(* lets the search propose anything and the scheduler pick anyone, here    *)
(* the proposals come from SearchPolicy, every ready candidate has the     *)
(* score of make_ready_view, and the batch is the head of the queue sorted *)
(* by score and id.  should_audit is the fixed hash it is in the code, and *)
(* calibrator and DIDS revise the policy by some fixed function of the     *)
(* events of the run.  Nothing is left open but the interleaving of the    *)
(* items of a batch.                                                       *)
(*                                                                         *)
(* When a run ends the same problem is run on another, new engine, perhaps *)
(* with another number of workers: the two outputs can be compared.        *)
(*                                                                         *)
(* Scores are integers, Unit for 1.0.  The bonuses of the code, 1e-9 for   *)
(* an iteration of age, 1e-6 for a level and 1e12 for an audit, are        *)
(* AgeBonus, LevelBonus and AuditBonus, on a scale the model is given.     *)
(***************************************************************************)
EXTENDS Engine, SearchPolicy

CONSTANTS
  Bundles,    \* search policies: "default", "stratified"
  Seeds,      \* generators: [halton, draws], draws by iteration and candidate
  AuditSet,   \* the pairs (x, level) that should_audit selects
  Calibrations,   \* configurations of the calibrator and DIDS: [start, rule]
  Learn(_, _),    \* the policy a rule makes of a sequence of events
  NoRun,      \* there was no earlier run
  Unit, Infinity,                   \* scores: 1.0 and f64::INFINITY
  AgeBonus, LevelBonus, AuditBonus  \* 1e-9, 1e-6 and 1e12

ASSUME ScheduleAssumption ==
  /\ None = NoX
  /\ Bundles \subseteq {"default", "stratified"}
  /\ AuditSet \subseteq XMesh \X Levels
  /\ \A c \in Calibrations : c.start \in InitThresholds
  /\ \A s \in Seeds :
       /\ s.halton \in Nat /\ DOMAIN s.draws = 0 .. MaxIters - 1
       /\ \A i \in 0 .. MaxIters - 1 : Len(s.draws[i]) = PerIter

\* Against the audit bonus everything else that makes up a score is small:
\* the ages and levels of a run together, the optimistic bounds and (below)
\* the distances of the proposals, as objectives and squared distances are
\* next to 1e12.
ASSUME ScoreAssumption ==
  /\ {Unit, AgeBonus, LevelBonus, AuditBonus, Infinity} \subseteq Nat \ {0}
  /\ AuditBonus <= Infinity
  /\ 4 * (AgeBonus * MaxIters) < AuditBonus /\ 4 * (LevelBonus * L) < AuditBonus
  /\ \A e \in Evaluators, x \in XMesh, p \in Levels, t \in Thresholds :
       e.est[x][p] \in Estimates =>
         -AuditBonus < 4 * (Unit * Lcb(e.est[x][p], p, t))

\* base_score of a raw point.
Distance(raw, inc) == Distance2(raw, inc) * (Unit \div (Frac * Frac))

\* SearchBox holds whatever either policy can propose around an incumbent,
\* which passes the cheap constraints, along any direction, on any mesh, from
\* any place in the Halton sequence the run can have come to.
ASSUME ProposalsAssumption ==
  \A b \in Bundles, s \in Seeds, i \in 0 .. MaxIters - 1, dir \in {-1, 0, 1} :
    \A n \in 0 .. PerIter * i, m \in 1 .. Larger(MulInit, 1), k \in 1 .. PerIter :
      \A inc \in {x \in XMesh : \E e \in Evaluators : e.cheap[x]} \cup {NoX} :
        LET raw == RawPoint(b, [prev |-> inc, dir |-> dir, halton |-> s.halton + n],
                            inc, s.draws[i], m, k)
        IN  /\ raw \in Int /\ Quantize(raw, m) \in SearchBox
            /\ 4 * Distance(raw, inc) < AuditBonus

VARIABLES
  bundle, seed,  \* the search policy and its generator
  calib,         \* the calibrator's configuration
  events,        \* what calibrator and DIDS were told in the run
  search,        \* the policy's state
  info,          \* per candidate: base_score, level of last_estimates or 0
  track,         \* history: the incumbent at the top of every iteration
  first          \* history: the run on the engine before

scheduleVars == <<bundle, seed, calib, events, search, info, track, first>>
allVars == <<vars, scheduleVars>>

-----------------------------------------------------------------------------
(* The ready queue.                                                        *)

Lesser(a, b) == IF a <= b THEN a ELSE b

\* Mutant of OwnScore: age counts against a candidate.
OwnScoreYoungFirst(i) ==
  IF info[i].base = Infinity THEN Infinity
  ELSE IF cands[i].audit THEN info[i].base - AuditBonus
  ELSE info[i].base + AgeBonus * (iter - cands[i].epoch)

\* Mutant of OwnScore: the audit bonus is forgotten.
OwnScoreNoAudit(i) ==
  IF info[i].base = Infinity THEN Infinity
  ELSE info[i].base - AgeBonus * (iter - cands[i].epoch)

\* base_score with the audit and age bonuses.  Infinity less anything is
\* infinity; and next to 1e12 the age, and later the level, are lost in
\* rounding.
OwnScore(i) ==
  IF info[i].base = Infinity THEN Infinity
  ELSE IF cands[i].audit THEN info[i].base - AuditBonus
  ELSE info[i].base - AgeBonus * (iter - cands[i].epoch)

\* score.min(lcb), when there are estimates.
BoundedScore(i) ==
  LET p == info[i].last IN
  IF p = 0 THEN OwnScore(i)
  ELSE Lesser(OwnScore(i), Unit * Lcb(ev.est[cands[i].x][p], p, th))

\* The score of make_ready_view.
Score(i) ==
  LET s == BoundedScore(i) IN
  IF s = Infinity \/ s < -(AuditBonus \div 2) THEN s
  ELSE s - LevelBonus * (cands[i].next - 1)

\* The order of ready_view.sort_by.
RanksBefore(i, j) ==
  Score(i) < Score(j) \/ (Score(i) = Score(j) /\ IdLess(i, j))

-----------------------------------------------------------------------------

ScheduledInit ==
  /\ Init
  /\ bundle \in Bundles
  /\ seed \in Seeds
  /\ calib \in Calibrations /\ th = calib.start
  /\ events = << >>
  /\ search = Reset(seed.halton)
  /\ info = << >>
  /\ track = << >>
  /\ first = NoRun

\* set_context, propose, score, project and ingest.
ScheduledPropose ==
  LET draws == seed.draws[iter]
      s == SetContext(search, xBest)
      raw == [k \in 1 .. PerIter |-> RawPoint(bundle, s, xBest, draws, mul, k)]
  IN
  /\ Ingest([k \in 1 .. PerIter |-> Quantize(raw[k], mul)])
  /\ info' = info \o [k \in 1 .. PerIter |->
                        [base |-> Distance(raw[k], xBest), last |-> 0]]
  /\ search' = AfterPropose(bundle, s, xBest, draws)
  /\ track' = Append(track, xBest)
  /\ UNCHANGED <<bundle, seed, calib, events, first>>

\* Mutant of PollScore: poll points are scored like points at the incumbent.
PollScoreZero == 0

\* base_score of a poll point.
PollScore == Infinity

ScheduledPoll ==
  /\ InjectPoll
  /\ info' = info \o [d \in 1 .. Len(PollPoints(xBest)) |->
                        [base |-> PollScore, last |-> 0]]
  /\ UNCHANGED <<bundle, seed, calib, events, search, track, first>>

\* DefaultScheduler::select_next: the head of the queue.
ScheduledDispatch ==
  /\ \E picked \in SUBSET Ready :
       /\ \A i \in picked, j \in Ready \ picked : RanksBefore(i, j)
       /\ Submit(picked)
  /\ UNCHANGED scheduleVars

\* Auditing a cut is decided by a hash of the point and the level.
AuditByHash(i) ==
  IF work[i].phi >= asg /\ <<cands[i].x, work[i].phi>> \in AuditSet
    THEN cands'[i].status # "early"
    ELSE cands'[i].audit = cands[i].audit

\* The kind of a WorkOutcome.
KindOf(out) ==
  IF "cached" \in DOMAIN out THEN out.cached.kind
  ELSE IF "est" \in DOMAIN out THEN "est" ELSE "none"

\* What calibrator.update and dids.record learn of a candidate that had an
\* outcome of this kind and became c: at least what a CalibEvent carries.  (Of
\* an evaluation that unwinds they learn nothing, and the run ends there.)
Event(i, phi, kind, c) ==
  [id |-> i, phi |-> phi, kind |-> kind, est |-> ev.est[c.x][phi], cand |-> c]

\* last_estimates are those of the step, for a candidate that goes on.
ScheduledMaterialize(i) ==
  /\ Materialize(i)
  /\ AuditByHash(i)
  /\ info' = [info EXCEPT ![i].last = work[i].phi]
  /\ events' = Append(events, Event(i, work[i].phi, KindOf(work[i].out), cands'[i]))
  /\ UNCHANGED <<bundle, seed, calib, search, track, first>>

Policies == [th : Thresholds, asg : Levels, learned : BOOLEAN]

\* The policy after the events so far; whatever Learn gives that is no policy
\* stands for no change.
Revised ==
  LET p == Learn(calib.rule, events) IN
  IF rev < MaxPolicies /\ p \in Policies THEN p
  ELSE [th |-> th, asg |-> asg, learned |-> FALSE]

\* calibrator.update reports a change, with which the revision goes up.
Learning(p) == p.learned \/ p.th # th

\* Where a batch ends among the events.
BatchEnd == [end |-> TRUE]

\* calibrator.update and dids.update_assignment, as functions of the events.
ScheduledUpdate ==
  /\ PolicyUpdate
  /\ th' = Revised.th /\ asg' = Revised.asg
  /\ rev' = rev + Bump(Learning(Revised)) + Bump(Revised.asg # asg)
  /\ events' = Append(events, BatchEnd)
  /\ UNCHANGED <<bundle, seed, calib, search, info, track, first>>

\* The rest of the engine does not touch the search, the queue or the policy.
Elsewhere ==
  /\ \/ EndSteps \/ Join \/ EndIteration
     \/ \E i \in DOMAIN work : LookupDecision(i) \/ LookupEval(i) \/ Compute(i)
  /\ UNCHANGED scheduleVars

Output == [x |-> xBest, f |-> fBest, cands |-> cands]

\* The same problem on another engine: new policies, empty caches.
RunAnotherEngine ==
  /\ phase = "done"
  /\ run < MaxRuns
  /\ first' = [workers |-> workers, revised |-> rev # 0, out |-> Output]
  /\ run' = run + 1
  /\ workers' \in WorkerCounts
  /\ phase' = LoopPhase(0)
  /\ iter' = 0 /\ polled' = FALSE /\ improved' = FALSE /\ stepsLeft' = 0
  /\ mul' = Larger(MulInit, 1)
  /\ cands' = << >>
  /\ xBest' = NoX /\ fBest' = NoF
  /\ th' = calib.start /\ asg' = 1 /\ rev' = 0
  /\ h' = InitialBarrier /\ points' = {} /\ incumbent' = NoF
  /\ evalCache' = EmptyCache /\ decCache' = EmptyCache
  /\ events' = << >>
  /\ search' = Reset(seed.halton)
  /\ info' = << >>
  /\ track' = << >>
  /\ UNCHANGED <<ev, budget, work, bundle, seed, calib>>

Finished ==
  /\ phase = "done" /\ run >= MaxRuns
  /\ UNCHANGED allVars

ScheduledNext ==
  \/ ScheduledPropose \/ ScheduledPoll \/ ScheduledDispatch
  \/ ScheduledUpdate \/ Elsewhere \/ RunAnotherEngine \/ Finished
  \/ \E i \in DOMAIN work : ScheduledMaterialize(i)

ScheduledSpec == ScheduledInit /\ [][ScheduledNext]_allVars

-----------------------------------------------------------------------------
(* Properties.                                                             *)

Picked(i) == cands[i].status = "ready" /\ cands'[i].status = "flight"

PassedOver(i) == cands[i].status = "ready" /\ cands'[i].status = "ready"

\* "Priority score: audit-required first": as long as an audited search
\* candidate waits, nothing else is dispatched, whatever its bound.  (An
\* audited poll point has an infinite base score and gets no such bonus.)
AuditedFirst ==
  [][phase = "select" /\ phase' = "batch" => \A i, j \in DOMAIN cands :
       PassedOver(i) /\ cands[i].audit /\ ~cands[i].poll /\ Picked(j) =>
         cands[j].audit /\ ~cands[j].poll]_allVars

\* "Anti-starvation": a search candidate left over from an earlier iteration
\* by max_steps_per_iter is never passed over for a younger one that has
\* neither a better base score, nor an audit, nor estimates to show.
OlderFirst ==
  [][phase = "select" /\ phase' = "batch" => \A i, j \in DOMAIN cands :
       ~(/\ PassedOver(i) /\ Picked(j)
         /\ ~cands[i].poll /\ ~cands[j].poll
         /\ cands[i].epoch < cands[j].epoch
         /\ info[i].base <= info[j].base
         /\ ~cands[j].audit /\ info[j].last = 0)]_allVars

\* Poll is for when the search is exhausted, over the whole run: a poll point
\* that has not started runs only if no search candidate is left waiting,
\* those of later iterations included.
SearchBeforePoll ==
  [][phase = "select" /\ phase' = "batch" => \A i, j \in DOMAIN cands :
       Picked(j) /\ cands[j].poll /\ info[j].last = 0 /\ PassedOver(i) =>
         cands[i].poll]_allVars

\* The iterations after which the incumbent, once there was one, moved.
Moves(t) == {k \in 1 .. Len(t) - 1 : t[k] # NoX /\ t[k] # t[k + 1]}

LastMove(t) == CHOOSE m \in Moves(t) : \A k \in Moves(t) : k <= m

LastDirection(t) ==
  IF Moves(t) = {} THEN 0 ELSE Sign(t[LastMove(t) + 1] - t[LastMove(t)])

\* The search extrapolates along the last move the incumbent made between
\* two iterations, however many iterations ago that was, and along nothing
\* before it has moved.
DirectionIsLastMove == search.dir = LastDirection(track)

\* Multipliers, none below the least one, of which each but that is divisible
\* by refine_div and stays among them when divided.
DivisibleRepeatedly(M) ==
  \A m \in M :
    /\ m >= Larger(MulMin, 1)
    /\ m > Larger(MulMin, 1) =>
         m % Larger(RefineDiv, 2) = 0 /\ m \div Larger(RefineDiv, 2) \in M

Nested ==
  \E M \in SUBSET (1 .. Larger(MulInit, 1)) :
    Larger(MulInit, 1) \in M /\ DivisibleRepeatedly(M)

\* "This preserves nested meshes when mesh_mul is chosen to be divisible by
\* refine_div repeatedly": with such parameters the incumbent is a point of
\* every mesh the run refines to, so that polling around it stays on the mesh.
IncumbentOnMesh == Nested => xBest = NoX \/ OnMesh(xBest)

Rerun == phase = "done" /\ run > 1

\* "Reorderably deterministic": on a new engine with as many workers the
\* same problem takes every candidate through the same decisions to the same
\* output, whatever the interleaving of the evaluations and whatever the
\* calibrator and DIDS learn on the way.
Reproducible ==
  Rerun /\ first.workers = workers => Output = first.out

\* No two feasible points have the same objective.
NoTies ==
  \A x, y \in XMesh :
    x # y /\ TruthOf(x) \in Estimates /\ TruthOf(y) \in Estimates =>
      Violation(x) > 0 \/ Violation(y) > 0 \/ TruthOf(x).f # TruthOf(y).f

\* What the order of evaluation cannot change.
OrderIrrelevant ==
  /\ budget = NoBudget
  /\ H0 <= 0 /\ HMin <= 0 /\ EpsF <= 0 /\ EpsV <= 0 /\ PruneEps = 0
  /\ SoundMargins /\ NoTies

\* "1-worker and N-worker produce identical results", as far as it goes: the
\* number of workers, which sets the batches and with them the order of
\* evaluation and pruning, leaves the result alone as long as the margins are
\* sound, the barrier lets only feasible points in, neither acceptance nor
\* pruning has any slack, no two feasible points are tied, the steps are not
\* rationed, and neither run has revised its policy.  (A revision falls at a
\* batch boundary.  Which decisions are cached before it, and so whether the
\* incumbent, proposed again, is reached in the cache or stopped, is a matter
\* of the batches: with a hit there is no poll, with a stop there is.)
WorkerCountIrrelevant ==
  Rerun /\ OrderIrrelevant /\ rev = 0 /\ ~first.revised =>
    xBest = first.out.x /\ fBest = first.out.f

=============================================================================
