----------------------------- MODULE Calibrator -----------------------------
(***************************************************************************)
(* DeltaKCalibrator and DeltaCalibrator of                                 *)
(* imads-core/src/policies/calibrator.rs, closed by the audit loop of the  *)
(* engine: the margins it learns decide (DefaultMargin::early_infeasible)  *)
(* which candidates are cut, hence which audits it learns from.            *)
(*                                                                         *)
(* Data.  Every number is fixed-point.  Stream 0 is the primary objective, *)
(* stream j > 0 constraint j.  Evaluators are exact (no standard error)    *)
(* and deterministic, so estimates are named by candidate and level.       *)
(* delta_rel is stepped by exp(eta_delta) = DeltaStep.  Which levels DIDS  *)
(* assigns and which cuts the hash selects for audit is left open.         *)
(***************************************************************************)
EXTENDS AuditPath, SequencesExt

CONSTANTS
  Ids,          \* CandidateIds, in the order of events
  Constraints,  \* 1 .. m
  Evaluators,   \* candidate -> level -> stream -> value
  Configs,      \* CalibratorConfigs, and whether K is learned
  InitDelta,    \* delta_rel as initialised
  DeltaStep     \* exp(eta_delta)

Streams == {0} \cup Constraints

\* The tau-normalised loss of precision between two estimates, and whether
\* fixed-point arithmetic represents it exactly.
Slope(loose, tight, d) == Max({loose - tight, 0}) \div d
Exact(loose, tight, d) == (loose - tight) % d = 0

DTau(p, q) == Ladder[p].tau - Ladder[q].tau

ASSUME CalibratorAssumption ==
  /\ Ids \subseteq Nat \ {0} /\ IsFiniteSet(Ids)
  /\ Constraints \subseteq Nat \ {0}
  /\ \A p, q \in Levels : p < q => Ladder[p].tau >= Ladder[q].tau
  /\ InitDelta \in Nat /\ DeltaStep \in Nat \ {0}
  /\ \A e \in Evaluators, i \in Ids, s \in Streams, p \in Levels :
       /\ e[i][p][s] \in Int
       /\ Exact(e[i][p][s], e[i][L][s], Ladder[p].tau)
       /\ LET q == NextAuditTarget(p, p) IN
            q \in Paired(p) => Exact(e[i][p][s], e[i][q][s], DTau(p, q))
  /\ \A c \in Configs :
       /\ c.learnsK \in BOOLEAN
       /\ {c.targetNum, c.minAudits, c.deltaMin, c.deltaMax, c.kWindow,
           c.kMinPairs, c.qNum, c.etaNum} \subseteq Nat
       /\ {c.targetDen, c.qDen, c.etaDen} \subseteq Nat \ {0}
       /\ c.deltaMin <= c.deltaMax

VARIABLES
  ev, cfg,    \* the evaluator and the configuration, fixed
  cursor,     \* last candidate whose event the batch has delivered, or 0
  at,         \* engine: the candidate's next level; 0 fresh, L+1 finished
  origin,     \* engine: CandidateAuditOrigin, [j, cut]
  pending,    \* audits the calibrator has open: [j, cut, pairs]
  counts,     \* Counts, by constraint and level at the cut
  delta,      \* delta_rel
  k,          \* learned coefficients: [glob, phi, interval]
  samples,    \* their sample windows
  revDelta    \* what the last update returned

engineVars == <<cursor, at, origin>>
learned == <<delta, k>>
vars == <<ev, cfg, engineVars, pending, counts, learned, samples, revDelta>>

None == [j |-> 0, cut |-> 0]
NoKeys == [key \in {} |-> key]
Zero == [s \in Streams |-> 0]
NoCounts == [p \in Levels |->
               [cut |-> 0, audit |-> 0, falseInfeas |-> 0, confirmed |-> 0]]
Empty == [s \in Streams |-> << >>]

\* apply_cfg.
KWindow == Max({cfg.kWindow, 1})
KMinPairs == Min({Max({cfg.kMinPairs, 1}), KWindow})
KQuantileNum == Min({cfg.qNum, cfg.qDen})
KEtaNum == Min({cfg.etaNum, cfg.etaDen})
ClampDelta(d) == Min({Max({d, cfg.deltaMin}), cfg.deltaMax})

\* init, then configure.
Init ==
  /\ ev \in Evaluators
  /\ cfg \in Configs
  /\ cursor = 0
  /\ at = [i \in Ids |-> 0]
  /\ origin = [i \in Ids |-> None]
  /\ pending = NoKeys
  /\ counts = [j \in Constraints |-> NoCounts]
  /\ delta = [j \in Constraints |-> ClampDelta(InitDelta)]
  /\ k = [glob |-> Zero, phi |-> NoKeys, interval |-> NoKeys]
  /\ samples = [glob |-> Empty, phi |-> NoKeys, interval |-> NoKeys]
  /\ revDelta = 0

-----------------------------------------------------------------------------
(* The margins in force.                                                   *)

\* Thresholds::k_f_for, k_c_for: a bucket hides the global coefficient.
KFor(p, s) == IF Ladder[p] \in DOMAIN k.phi THEN k.phi[Ladder[p]][s]
                                            ELSE k.glob[s]

Cuts(i, p, j) == ev[i][p][j] - KFor(p, j) * Ladder[p].tau > delta[j]

\* DefaultMargin::early_infeasible: the first constraint that cuts.
EarlyInfeasible(i, p, j) ==
  Cuts(i, p, j) /\ \A j2 \in Constraints : j2 < j => ~Cuts(i, p, j2)

-----------------------------------------------------------------------------
(* Events, in candidate order within a batch.                              *)

Deliver(i) == cursor < i /\ cursor' = i

Count(j, p, field) ==
  counts' = [counts EXCEPT ![j][p][field] = @ + 1]

Put(f, x, v) == [y \in DOMAIN f \cup {x} |-> IF y = x THEN v ELSE f[y]]

\* Mutant of NoteAuditCheckpoint: every checkpoint counts as a cut.
NoteAuditCheckpointRecount(i, o, ps) ==
  /\ pending' = Put(pending, i, [j |-> o.j, cut |-> o.cut, pairs |-> ps])
  /\ Count(o.j, o.cut, "cut")

\* Mutant of NoteAuditCheckpoint: later paired samples are not added.
NoteAuditCheckpointIgnores(i, o, ps) ==
  IF i \in DOMAIN pending
    THEN UNCHANGED <<pending, counts>>
    ELSE /\ pending' = Put(pending, i, [j |-> o.j, cut |-> o.cut, pairs |-> ps])
         /\ Count(o.j, o.cut, "cut")

\* note_audit_checkpoint: the first event of an audit opens it, later ones
\* add their paired sample.
NoteAuditCheckpoint(i, o, ps) ==
  IF i \in DOMAIN pending
    THEN /\ pending' = [pending EXCEPT ![i].pairs = @ \cup ps]
         /\ UNCHANGED counts
    ELSE /\ pending' = Put(pending, i, [j |-> o.j, cut |-> o.cut, pairs |-> ps])
         /\ Count(o.j, o.cut, "cut")

\* The engine cuts a candidate early at level p and selects it for audit.
CutAndAudit(i, p) ==
  /\ Deliver(i)
  /\ at[i] = 0
  /\ p < L
  /\ \E j \in Constraints :
       /\ EarlyInfeasible(i, p, j)
       /\ origin' = [origin EXCEPT ![i] = [j |-> j, cut |-> p]]
       /\ NoteAuditCheckpoint(i, [j |-> j, cut |-> p], {})
  /\ at' = [at EXCEPT ![i] = NextAuditTarget(p, p)]
  /\ UNCHANGED <<ev, cfg, learned, samples, revDelta>>

\* paired_audit_sample_from_estimates.
PairedSample(i, p) == {p} \cap Paired(origin[i].cut)

\* An audited candidate's partial result below TRUTH.
Checkpoint(i) ==
  /\ Deliver(i)
  /\ at[i] \in 1 .. L - 1
  /\ NoteAuditCheckpoint(i, origin[i], PairedSample(i, at[i]))
  /\ at' = [at EXCEPT ![i] = NextAuditTarget(origin[i].cut, at[i])]
  /\ UNCHANGED <<ev, cfg, origin, learned, samples, revDelta>>

\* An audited candidate's evaluation is invalid: the audit stays open.
Lose(i) ==
  /\ Deliver(i)
  /\ at[i] \in 1 .. L
  /\ at' = [at EXCEPT ![i] = L + 1]
  /\ UNCHANGED <<ev, cfg, origin, pending, counts, learned, samples, revDelta>>

-----------------------------------------------------------------------------
(* A TRUTH event: what its audit teaches.                                  *)

\* Mutant of PushAll: the window keeps one sample too many.
PushAllOneMore(w, vs) ==
  LET all == w \o vs
      excess == Max({Len(all) - KWindow - 1, 0})
  IN  SubSeq(all, excess + 1, Len(all))

\* push_k_sample for a sequence of values: the window keeps the last ones.
PushAll(w, vs) ==
  LET all == w \o vs
      excess == Max({Len(all) - KWindow, 0})
  IN  SubSeq(all, excess + 1, Len(all))

\* Neighbouring checkpoints of an audit with the same sample count and a
\* tighter tolerance: structured pairs.
Links(cut, pairs) ==
  LET chain == {cut} \cup pairs
  IN  {l \in chain \X chain :
         /\ l[1] < l[2]
         /\ \A p \in chain : p <= l[1] \/ l[2] <= p
         /\ Ladder[l[1]].smc = Ladder[l[2]].smc
         /\ DTau(l[1], l[2]) > 0}

\* Mutant of LinkSample: not divided by the step in tau.
LinkSampleRaw(i, l, s) == Slope(ev[i][l[1]][s], ev[i][l[2]][s], 1)

\* Mutant of LinkSample: divided by the loose tau, like the fallback.
LinkSampleByTau(i, l, s) ==
  Slope(ev[i][l[1]][s], ev[i][l[2]][s], Ladder[l[1]].tau)

\* register_interval_sample's df and dc.
LinkSample(i, l, s) ==
  Slope(ev[i][l[1]][s], ev[i][l[2]][s], DTau(l[1], l[2]))

\* register_cut_to_truth_fallback's df and dc.
FallbackSample(i, cut, s) ==
  Slope(ev[i][cut][s], ev[i][L][s], Ladder[cut].tau)

IntervalKey(l) == [loose |-> Ladder[l[1]].tau, tight |-> Ladder[l[2]].tau,
                   smc |-> Ladder[l[1]].smc]

\* One sample per stream, v[s], into the bucket of every key.
PushBuckets(b, v) ==
  [key \in DOMAIN b \cup DOMAIN v |->
     [s \in Streams |->
        PushAll(IF key \in DOMAIN b THEN b[key][s] ELSE << >>,
                IF key \in DOMAIN v THEN <<v[key][s]>> ELSE << >>)]]

\* The n-th smallest of a set of numbers.
Nth(S, n) == Min({p \in S : Cardinality({q \in S : q <= p}) >= n})

\* The samples of the links, from the loosest on.
LinkSamples(i, links, s) ==
  LET starts == {l[1] : l \in links}
  IN  [n \in 1 .. Cardinality(starts) |->
         LinkSample(i, CHOOSE l \in links : l[1] = Nth(starts, n), s)]

RegisterPairs(i, links) ==
  LET of(l) == [s \in Streams |-> LinkSample(i, l, s)]
  IN  [glob |-> [s \in Streams |->
                   PushAll(samples.glob[s], LinkSamples(i, links, s))],
       phi |-> PushBuckets(samples.phi,
                 [key \in {Ladder[l[1]] : l \in links} |->
                    of(CHOOSE l \in links : Ladder[l[1]] = key)]),
       interval |-> PushBuckets(samples.interval,
                 [key \in {IntervalKey(l) : l \in links} |->
                    of(CHOOSE l \in links : IntervalKey(l) = key)])]

RegisterFallback(i, cut) ==
  LET v == [s \in Streams |-> FallbackSample(i, cut, s)]
  IN  [glob |-> [s \in Streams |-> PushAll(samples.glob[s], <<v[s]>>)],
       phi |-> PushBuckets(samples.phi, [key \in {Ladder[cut]} |-> v]),
       interval |-> samples.interval]

Feasible(i) == \A j \in Constraints : ev[i][L][j] <= 0

\* The counters of the cut an audit was opened for.
Tally(i, c, j) ==
  [c EXCEPT !.audit = @ + 1,
            !.falseInfeas = IF Feasible(i) THEN @ + 1 ELSE @,
            !.confirmed = IF ev[i][L][j] > 0 THEN @ + 1 ELSE @]

\* The Truth arm of update.
Resolve(i) ==
  /\ Deliver(i)
  /\ at[i] = L
  /\ i \in DOMAIN pending
  /\ LET a == pending[i]
         links == Links(a.cut, a.pairs \cup PairedSample(i, L))
     IN  /\ counts' = [counts EXCEPT ![a.j][a.cut] = Tally(i, @, a.j)]
         /\ samples' = IF ~cfg.learnsK THEN samples
                       ELSE IF links = {} THEN RegisterFallback(i, a.cut)
                       ELSE RegisterPairs(i, links)
  /\ pending' = [x \in DOMAIN pending \ {i} |-> pending[x]]
  /\ at' = [at EXCEPT ![i] = L + 1]
  /\ UNCHANGED <<ev, cfg, origin, learned, revDelta>>

-----------------------------------------------------------------------------
(* The batch boundary: the rest of update.                                 *)

Total(j, field) == SumFunction([p \in Levels |-> counts[j][p][field]])

EnoughAudits(j) == Total(j, "audit") >= Max({cfg.minAudits, 1})

\* The smoothed false-infeasible rate (f + 1) / (n + 2) is above n / d.
RateAbove(j, n, d) ==
  (Total(j, "falseInfeas") + 1) * d > n * (Total(j, "audit") + 2)
RateBelow(j, n, d) ==
  (Total(j, "falseInfeas") + 1) * d < n * (Total(j, "audit") + 2)

\* update_delta: widen above the target rate, narrow below a third of it.
NextDelta(j) ==
  LET t == Min({cfg.targetNum, cfg.targetDen})
      up == RateAbove(j, t, cfg.targetDen)
      down == RateBelow(j, t, 3 * cfg.targetDen)
  IN  CASE EnoughAudits(j) /\ up -> ClampDelta(delta[j] * DeltaStep)
        [] EnoughAudits(j) /\ ~up /\ down -> ClampDelta(delta[j] \div DeltaStep)
        [] OTHER -> delta[j]

\* quantile_of: the sample of index round(q * (n - 1)) in ascending order,
\* the least that more than idx samples do not exceed.
Quantile(w) ==
  LET idx == (2 * KQuantileNum * (Len(w) - 1) + cfg.qDen) \div (2 * cfg.qDen)
  IN  Min({v \in Range(w) : Cardinality({n \in DOMAIN w : w[n] <= v}) > idx})

\* ema_quantile_update.
Ema(old, w) ==
  IF Len(w) < KMinPairs
    THEN old
    ELSE ((cfg.etaDen - KEtaNum) * old + KEtaNum * Quantile(w)) \div cfg.etaDen

OldK(old, key, s) == IF key \in DOMAIN old THEN old[key][s] ELSE 0

\* update_global_k.
NextGlob == [s \in Streams |-> Ema(k.glob[s], samples.glob[s])]

\* update_phi_bucket_k, update_interval_k: a new bucket starts from 0.
NextBuckets(old, windows) ==
  [key \in DOMAIN windows |->
     [s \in Streams |-> Ema(OldK(old, key, s), windows[key][s])]]

\* A coefficient moved; a bucket that appears with 0 does not count.
ValuesChanged(old, new) ==
  \E key \in DOMAIN new, s \in Streams : new[key][s] # OldK(old, key, s)

\* Mutant of PhiChanged: a bucket that appears with 0 does not count.
PhiChangedByValue(new) == ValuesChanged(k.phi, new)

\* update_phi_bucket_k compares the whole list of buckets.
PhiChanged(new) == new # k.phi

\* Mutant of GlobChanged: an update with enough samples always counts.
GlobChangedEager == \E s \in Streams : Len(samples.glob[s]) >= KMinPairs

GlobChanged == NextGlob # k.glob

AnyChange ==
  \/ \E j \in Constraints : NextDelta(j) # delta[j]
  \/ GlobChanged
  \/ ValuesChanged(k.interval, NextBuckets(k.interval, samples.interval))
  \/ PhiChanged(NextBuckets(k.phi, samples.phi))

\* The end of update, at every batch boundary: also after a batch in which
\* no candidate was under audit.
Update ==
  /\ cursor' = 0
  /\ delta' = [j \in Constraints |-> NextDelta(j)]
  /\ k' = [glob |-> NextGlob,
           phi |-> NextBuckets(k.phi, samples.phi),
           interval |-> NextBuckets(k.interval, samples.interval)]
  /\ revDelta' = IF AnyChange THEN 1 ELSE 0
  /\ UNCHANGED <<ev, cfg, at, origin, pending, counts, samples>>

Next ==
  \/ \E i \in Ids, p \in Levels : CutAndAudit(i, p)
  \/ \E i \in Ids : Checkpoint(i) \/ Lose(i) \/ Resolve(i)
  \/ Update

\* The engine keeps running batches.
Spec == Init /\ [][Next]_vars /\ WF_vars(Update)

-----------------------------------------------------------------------------
(* Properties.                                                             *)

KeysOf(lvls) == {Ladder[p] : p \in lvls}

\* Types, with the ranges the code relies on: delta within its clamps,
\* coefficients not negative, windows within their capacity.
CalibTypeOK ==
  /\ cursor \in {0} \cup Ids
  /\ at \in [Ids -> 0 .. L + 1]
  /\ origin \in [Ids -> [j : {0} \cup Constraints, cut : 0 .. L]]
  /\ DOMAIN pending \subseteq Ids
  /\ \A i \in DOMAIN pending : pending[i].pairs \subseteq Paired(pending[i].cut)
  /\ \A j \in Constraints : delta[j] \in cfg.deltaMin .. cfg.deltaMax
  /\ DOMAIN k.phi \subseteq DOMAIN samples.phi
  /\ DOMAIN samples.phi \subseteq KeysOf(1 .. L - 1)
  /\ \A s \in Streams :
       /\ k.glob[s] \in Nat
       /\ Len(samples.glob[s]) <= KWindow
       /\ \A key \in DOMAIN samples.phi :
            Len(samples.phi[key][s]) \in 1 .. KWindow
  /\ revDelta \in {0, 1}

Open(j, p) == {i \in DOMAIN pending : pending[i].j = j /\ pending[i].cut = p}

\* Every cut selected for audit (note_audit_checkpoint) is either still open
\* or was judged exactly once by its TRUTH result, and no judgement calls a
\* cut both false and confirmed.  DIDS divides these counters by one another.
AuditsBalance ==
  \A j \in Constraints, p \in Levels :
    LET c == counts[j][p] IN
    /\ c.cut = c.audit + Cardinality(Open(j, p))
    /\ c.falseInfeas + c.confirmed <= c.audit

\* The calibrator's pending map and the engine's audit origins, kept on the
\* two sides of CalibEvent, name the same audits: an open audit is the one
\* its candidate is under, and holds the paired levels the candidate has
\* visited.
PendingMatchesOrigin ==
  /\ \A i \in Ids : at[i] \in 1 .. L => i \in DOMAIN pending
  /\ \A i \in DOMAIN pending :
       /\ pending[i].j = origin[i].j /\ pending[i].cut = origin[i].cut
       /\ at[i] \in 1 .. L =>
            pending[i].pairs = {q \in Paired(origin[i].cut) : q < at[i]}

\* What early_infeasible and objective_bounds read.
Margins == <<delta, [p \in Levels |-> [s \in Streams |-> KFor(p, s)]]>>

\* Whenever the margins that decide a cut change, update returns a revision
\* bump, so decisions cached under the old ones are not found again.
RevisionTracksMargins == [][Margins' # Margins => revDelta' = 1]_vars

\* Margins settle: candidates are audited once, so in the end update reports
\* no change and the decision cache can be hit again.
CalibrationSettles == <>[](revDelta = 0)

\* The evaluator is off by a multiple of the tolerance: per candidate and
\* stream one coefficient.
LinearBias(i, s, b) ==
  \A p, q \in Levels : ev[i][p][s] - ev[i][q][s] = b * DTau(p, q)
BiasOf(i, s) == IF DTau(1, L) = 0 THEN 0
                ELSE (ev[i][1][s] - ev[i][L][s]) \div DTau(1, L)
Linear == \A i \in Ids, s \in Streams : LinearBias(i, s, BiasOf(i, s))

\* For such an evaluator no coefficient learned from audits exceeds the
\* largest true one: the bias allowance never grows beyond the bias, whatever
\* mix of checkpoint pairs and cut-to-TRUTH fallbacks it was learned from.
KWithinBias ==
  Linear => \A s \in Streams :
    LET b == Max({BiasOf(i, s) : i \in Ids} \cup {0}) IN
    /\ k.glob[s] <= b
    /\ \A key \in DOMAIN k.phi : k.phi[key][s] <= b
    /\ \A key \in DOMAIN k.interval : k.interval[key][s] <= b

\* The calibrator follows its latest audits without smoothing.
Sharp == /\ cfg.learnsK /\ KMinPairs = 1
         /\ KQuantileNum = cfg.qDen /\ KEtaNum = cfg.etaDen
         /\ KWindow >= Cardinality(Ids) * L

\* For such an evaluator and calibrator, once an audit has shown a cut to be
\* false, the margins no longer cut that candidate there.
RefutedCutNotRepeated ==
  Linear /\ Sharp /\ cursor = 0 =>
    \A i \in Ids :
      origin[i] # None /\ i \notin DOMAIN pending /\ Feasible(i) =>
        ~Cuts(i, origin[i].cut, origin[i].j)

=============================================================================
