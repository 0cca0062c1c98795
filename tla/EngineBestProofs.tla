-------------------------- MODULE EngineBestProofs --------------------------
(***************************************************************************)
(* Proofs about Engine that compare states: the incumbent with everything  *)
(* evaluated so far, a failed poll with the neighbours it was made of, a   *)
(* candidate with itself one step earlier.  They rest on EngineInv of      *)
(* EngineProofs and on two further invariants.                             *)
(***************************************************************************)
EXTENDS EngineProofs

-----------------------------------------------------------------------------
(* The further invariants.                                                 *)

\* Feasible-only acceptance without slack.
ExactBarrier == FeasibleOnly /\ EpsF <= 0 /\ EpsV <= 0

\* While acceptance is exact, the engine's incumbent is the filter's, every
\* filter point is a copy of it, and no feasible TRUTH of the run is below.
Lowest ==
  ExactBarrier =>
    /\ IncumbentLowest /\ FirstCopyKept
    /\ incumbent = fBest
    /\ \A q \in points : q.v = 0 /\ q.f = fBest
    /\ \A j \in DOMAIN cands :
         cands[j].status = "truth" /\ Violation(cands[j].x) = 0 =>
           fBest # NoF /\ fBest <= TruthOf(cands[j].x).f

\* Behind a feasible-only barrier the filter holds feasible points, none of
\* them better than the incumbent by more than the slack.
NearBest ==
  FeasibleOnly => \A q \in points :
    q.v = 0 /\ fBest # NoF /\ q.f >= fBest - Larger(EpsF, 0)

\* Where the step loop of an iteration is.
InSteps == phase \in {"select", "batch", "join", "iterend"}

\* Without a step budget the loop ends only when nothing is ready.
Unlimited ==
  budget = NoBudget =>
    /\ InSteps => stepsLeft = NoBudget
    /\ phase = "iterend" => Ready = {}

\* The poll points are in the store and nothing has improved yet.
Polling == InSteps /\ polled = TRUE /\ improved = FALSE

\* The last two candidates are then the poll neighbours of the incumbent.
PollLast ==
  Polling =>
    /\ xBest # NoX
    /\ Len(cands) - 1 \in DOMAIN cands /\ Len(cands) \in DOMAIN cands
    /\ cands[Len(cands) - 1].x = xBest + PollStep
    /\ cands[Len(cands)].x = xBest - PollStep

\* In an iteration that has not improved, a neighbour that is done would not
\* have beaten the incumbent.
PollFails ==
  Polling /\ SoundMargins /\ FeasibleOnly =>
    \A j \in {Len(cands) - 1, Len(cands)} :
      cands[j].status \in DoneStatus => ~Beats(cands[j].x)

SearchInv == Lowest /\ NearBest /\ Unlimited /\ PollLast /\ PollFails

-----------------------------------------------------------------------------
(* What processing an outcome does to its candidate.                       *)

\* Candidate i becomes c, and with a TRUTH result acceptance is asked.
Effect(i, c) ==
  /\ Turn(i) /\ Settle(i, c) /\ MatUnchanged
  /\ c \in Candidate /\ c.status # "flight" /\ c.x = cands[i].x
  /\ cands[i].audit => c.audit
  /\ c.status = "ready" => c.next > cands[i].next
  /\ \/ /\ NoTruth /\ c.status # "truth"
        /\ c.status \in DoneStatus /\ SoundMargins /\ FeasibleOnly => ~Beats(c.x)
     \/ /\ c.status = "truth" /\ TruthOf(c.x) \in Estimates
        /\ Accept(cands[i], TruthOf(c.x))

\* Under sound margins what is early-infeasible at some level is infeasible.
LEMMA EarlyDoesNotBeat ==
  ASSUME NEW x \in XMesh, NEW p \in Levels, p < L, NEW t \in Thresholds,
         ev.est[x][p] \in Estimates, EarlyInfeasible(ev.est[x][p], p, t), SoundMargins
  PROVE  ~Beats(x)
<1> SUFFICES ASSUME Beats(x) PROVE FALSE
  OBVIOUS
<1>1. L \in Levels /\ p \in 1 .. L - 1
  BY LadderAssumption DEF Levels
<1>2. TruthOf(x) \in Estimates /\ Violation(x) = 0
  BY <1>1 DEF Beats, TruthOf
<1>3. TruthOf(x).c > 0
  BY <1>1, <1>2 DEF SoundMargins
<1>4. TruthOf(x).c \in Int
  BY <1>2 DEF Estimates
<1> QED BY <1>2, <1>3, <1>4 DEF Violation, Larger

\* Under sound margins what is pruned at some level is no better than the
\* incumbent.
LEMMA PrunedDoesNotBeat ==
  ASSUME EngineInv, NEW x \in XMesh, NEW p \in Levels, p < L, NEW b,
         ev.est[x][p] \in Estimates, Prunes(ev.est[x][p], p, b), SoundMargins
  PROVE  ~Beats(x)
<1> DEFINE e == ev.est[x][p]
<1> SUFFICES ASSUME Beats(x) PROVE FALSE
  OBVIOUS
<1>1. L \in Levels /\ p \in 1 .. L - 1
  BY LadderAssumption DEF Levels
<1>2. TruthOf(x) \in Estimates /\ TruthOf(x).f < fBest - PruneEps
  BY <1>1 DEF Beats, TruthOf
<1>3. fBest \in Int /\ th \in Thresholds
  BY DEF Prunes, EngineInv, EngineTypes
<1>4. Lcb(e, p, th) <= TruthOf(x).f
  BY <1>1, <1>2, <1>3 DEF SoundMargins
<1>5. Lcb(e, p, th) >= fBest - PruneEps
  BY DEF Prunes
<1>6. TruthOf(x).f \in Int /\ Lcb(e, p, th) \in Int /\ PruneEps \in Int
  <2>1. TruthOf(x).f \in Int /\ e.f \in Int /\ e.s \in Int
    BY <1>2 DEF Estimates
  <2>2. Bias(p, th) \in Int
    BY <1>3, EngineAssumption, LadderAssumption DEF Bias
  <2> QED BY <2>1, <2>2, EngineAssumption DEF Lcb
<1> HIDE DEF e
<1> QED BY <1>2, <1>3, <1>4, <1>5, <1>6

\* An early cut, cached or new.
LEMMA EffectEarly ==
  ASSUME EngineInv, NEW i, NEW b \in Candidate, CandidateOK(ev, b), b.status = "flight",
         b.x = cands[i].x, b.next = cands[i].next, b.x \in XMesh, b.next \in Levels,
         cands[i].audit => b.audit,
         b.next < L, NEW t \in Thresholds, ev.est[b.x][b.next] \in Estimates,
         EarlyInfeasible(ev.est[b.x][b.next], b.next, t),
         Turn(i), Settle(i, AfterEarly(b, b.next)), NoTruth, MatUnchanged
  PROVE  \E c : Effect(i, c)
<1> DEFINE p == b.next
           c == AfterEarly(b, p)
<1>1. /\ c \in Candidate /\ c.status \in {"ready", "early"} /\ c.x = b.x
      /\ c.audit = b.audit /\ (c.status = "ready" => c.next > p)
  BY EarlyMoved
<1>2. SoundMargins => ~Beats(b.x)
  BY EarlyDoesNotBeat
<1>3. Settle(i, c)
  OBVIOUS
<1> HIDE DEF c
<1>4. Effect(i, c)
  BY <1>1, <1>2, <1>3 DEF Effect
<1> QED BY <1>4

\* Every outcome but an unwound evaluation has such an effect.
LEMMA Effects ==
  ASSUME EngineInv, NEW i, Materialize(i)
  PROVE  ExpectFails(i) \/ \E c : Effect(i, c)
<1> DEFINE a == cands[i]
           p == work[i].phi
           b == CheapChecked(a)
<1>1. CASE CachedPartial(i)
  <2> DEFINE n == NextLevel(a, p)
             c == [a EXCEPT !.status = "ready", !.next = n]
  <2>1. Turn(i) /\ CachedKind(i, "partial") /\ Settle(i, c) /\ NoTruth /\ MatUnchanged
    BY <1>1 DEF CachedPartial
  <2>2. a \in Candidate /\ CandidateOK(ev, a) /\ p \in Levels /\ p = a.next
        /\ ResultOK(ev, work[i].out.cached, a.x, p) /\ work[i].out.cached.kind = "partial"
    BY <2>1, AtTurn DEF CachedKind
  <2>3. p < L
    BY <2>2 DEF ResultOK
  <2>4. n \in Levels /\ n > p
    BY <2>2, <2>3, NextLevelUp
  <2>5. c \in Candidate /\ c.status = "ready" /\ c.x = a.x /\ c.next = n /\ c.audit = a.audit
    <3> HIDE DEF n, a
    <3> QED BY <2>2, <2>4, Moved
  <2> HIDE DEF c, n
  <2>6. Effect(i, c)
    BY <2>1, <2>2, <2>4, <2>5 DEF Effect, DoneStatus
  <2> QED BY <2>6
<1>2. CASE CachedEarly(i)
  <2>1. Turn(i) /\ CachedKind(i, "early") /\ NoTruth /\ MatUnchanged
    BY <1>2 DEF CachedEarly
  <2>2. a \in Candidate /\ CandidateOK(ev, a) /\ p \in Levels /\ p = a.next /\ a.x \in XMesh
        /\ a.status = "flight"
        /\ ResultOK(ev, work[i].out.cached, a.x, p) /\ work[i].out.cached.kind = "early"
    BY <2>1, AtTurn DEF CachedKind
  <2>3. /\ p < L /\ ev.cheap[a.x] /\ ev.est[a.x][p] \in Estimates
        /\ \E t \in Thresholds : EarlyInfeasible(ev.est[a.x][p], p, t)
    BY <2>2 DEF ResultOK
  <2>4. PICK d \in AuditChoice(a, p) \cup {a} : Settle(i, AfterEarly(d, p))
    BY <1>2 DEF CachedEarly
  <2>5. d \in Candidate /\ CandidateOK(ev, d) /\ d.x = a.x /\ d.status = "flight"
        /\ d.next = p /\ (a.audit => d.audit)
    <3> HIDE DEF a
    <3> QED BY <2>2, <2>3, Audited
  <2> QED BY <2>1, <2>2, <2>3, <2>4, <2>5, EffectEarly
<1>3. CASE CachedTruth(i)
  <2> DEFINE c == [a EXCEPT !.status = "truth"]
             e == work[i].out.cached.est
  <2>1. Turn(i) /\ CachedKind(i, "truth") /\ Settle(i, c) /\ Accept(a, e) /\ MatUnchanged
    BY <1>3 DEF CachedTruth
  <2>2. a \in Candidate /\ CandidateOK(ev, a) /\ a.status = "flight"
        /\ ResultOK(ev, work[i].out.cached, a.x, a.next) /\ work[i].out.cached.kind = "truth"
    BY <2>1, AtTurn DEF CachedKind
  <2>3. e = TruthOf(a.x) /\ e \in Estimates
    BY <2>2 DEF ResultOK, TruthOf
  <2>4. c \in Candidate /\ c.status = "truth" /\ c.x = a.x /\ c.audit = a.audit
    <3>1. "truth" \in DoneStatus
      BY DEF DoneStatus
    <3> QED BY <2>2, <3>1 DEF Candidate
  <2> HIDE DEF c, e
  <2>5. Effect(i, c)
    BY <2>1, <2>3, <2>4 DEF Effect
  <2> QED BY <2>5
<1>4. CASE RejectInvalid(i)
  <2> DEFINE c == [a EXCEPT !.status = "invalid"]
  <2>1. Turn(i) /\ CachedKind(i, "invalid") /\ Settle(i, c) /\ NoTruth /\ MatUnchanged
    BY <1>4 DEF RejectInvalid
  <2>2. a \in Candidate /\ a.status = "flight" /\ a.next \in Levels
        /\ ResultOK(ev, work[i].out.cached, a.x, a.next) /\ work[i].out.cached.kind = "invalid"
    BY <2>1, AtTurn DEF CachedKind
  <2>3. ev.est[a.x][a.next] = Invalid
    BY <2>2 DEF ResultOK
  <2>4. Invalid \notin Estimates
    BY DEF Invalid, Estimates
  <2>5. ~Beats(a.x)
    BY <2>2, <2>3, <2>4 DEF Beats
  <2>6. c \in Candidate /\ c.status = "invalid" /\ c.x = a.x /\ c.audit = a.audit
    <3>1. "invalid" \in DoneStatus
      BY DEF DoneStatus
    <3> QED BY <2>2, <3>1 DEF Candidate
  <2> HIDE DEF c
  <2>7. Effect(i, c)
    BY <2>1, <2>5, <2>6 DEF Effect
  <2> QED BY <2>7
<1>5. CASE RejectCheap(i)
  <2> DEFINE c == [b EXCEPT !.status = "cheap"]
  <2>1. Turn(i) /\ b.cheap = "bad" /\ Settle(i, c) /\ NoTruth /\ MatUnchanged
    BY <1>5 DEF RejectCheap
  <2>2. a \in Candidate /\ CandidateOK(ev, a) /\ ev \in Evaluators
    BY <2>1, AtTurn
  <2>3. b \in Candidate /\ b.x = a.x /\ b.audit = a.audit /\ ~ev.cheap[a.x]
    <3> HIDE DEF a
    <3> QED BY <2>1, <2>2, CheckedFacts
  <2>4. ~Beats(a.x)
    BY <2>3 DEF Beats
  <2> HIDE DEF b
  <2>5. c \in Candidate /\ c.status = "cheap" /\ c.x = a.x /\ c.audit = a.audit
    <3>1. "cheap" \in DoneStatus
      BY DEF DoneStatus
    <3> QED BY <2>3, <3>1 DEF Candidate
  <2> HIDE DEF c
  <2>6. Effect(i, c)
    BY <2>1, <2>4, <2>5 DEF Effect
  <2> QED BY <2>6
<1>6. CASE CutEarly(i)
  <2> DEFINE e == work[i].out.est
  <2>1. Turn(i) /\ HasEst(i) /\ b.cheap = "ok" /\ p < L /\ EarlyInfeasible(e, p, th)
        /\ NoTruth /\ MatUnchanged
    BY <1>6 DEF CutEarly, PartialTurn, Cuts
  <2>2. a \in Candidate /\ CandidateOK(ev, a) /\ p \in Levels /\ p = a.next /\ a.x \in XMesh
        /\ a.status = "flight" /\ ev \in Evaluators
        /\ e = ev.est[a.x][p] /\ e \in Estimates
    BY <2>1, AtTurn
  <2>3. b \in Candidate /\ CandidateOK(ev, b) /\ b.x = a.x /\ b.status = "flight"
        /\ b.audit = a.audit /\ b.next = a.next /\ ev.cheap[b.x]
    <3> HIDE DEF a
    <3> QED BY <2>1, <2>2, CheckedFacts
  <2>4. PICK d \in AuditChoice(b, p) : Settle(i, AfterEarly(d, p))
    BY <1>6 DEF CutEarly
  <2>5. d \in Candidate /\ CandidateOK(ev, d) /\ d.x = a.x /\ d.status = "flight"
        /\ d.next = p /\ (a.audit => d.audit)
    <3> HIDE DEF b
    <3> QED BY <2>2, <2>3, Audited
  <2>6. th \in Thresholds
    BY DEF EngineInv, EngineTypes
  <2> HIDE DEF b
  <2> QED BY <2>1, <2>2, <2>4, <2>5, <2>6, EffectEarly
<1>7. CASE StopPartial(i)
  <2> DEFINE e == work[i].out.est
             c == [b EXCEPT !.status = "stopped"]
  <2>1. Turn(i) /\ HasEst(i) /\ p < L /\ Prunes(e, p, a.audit) /\ Settle(i, c)
        /\ NoTruth /\ MatUnchanged
    BY <1>7 DEF StopPartial, PartialTurn, Stops
  <2>2. a \in Candidate /\ CandidateOK(ev, a) /\ p \in Levels /\ p = a.next /\ a.x \in XMesh
        /\ ev \in Evaluators /\ e = ev.est[a.x][p] /\ e \in Estimates
    BY <2>1, AtTurn
  <2>3. b \in Candidate /\ b.x = a.x /\ b.audit = a.audit
    <3> HIDE DEF a
    <3> QED BY <2>2, CheckedFacts
  <2>4. SoundMargins => ~Beats(a.x)
    <3> HIDE DEF b
    <3> QED BY <2>1, <2>2, PrunedDoesNotBeat
  <2> HIDE DEF b
  <2>5. c \in Candidate /\ c.status = "stopped" /\ c.x = a.x /\ c.audit = a.audit
    <3>1. "stopped" \in DoneStatus
      BY DEF DoneStatus
    <3> QED BY <2>3, <3>1 DEF Candidate
  <2> HIDE DEF c
  <2>6. Effect(i, c)
    BY <2>1, <2>4, <2>5 DEF Effect
  <2> QED BY <2>6
<1>8. CASE Continue(i)
  <2> DEFINE n == NextLevel(a, p)
             c == [b EXCEPT !.status = "ready", !.next = n]
  <2>1. Turn(i) /\ p < L /\ Settle(i, c) /\ NoTruth /\ MatUnchanged
    BY <1>8 DEF Continue, PartialTurn
  <2>2. a \in Candidate /\ CandidateOK(ev, a) /\ p \in Levels /\ p = a.next /\ ev \in Evaluators
    BY <2>1, AtTurn
  <2>3. b \in Candidate /\ CandidateOK(ev, b) /\ b.x = a.x /\ b.audit = a.audit
    <3> HIDE DEF a
    <3> QED BY <2>2, CheckedFacts
  <2>4. n \in Levels /\ n > p
    BY <2>1, <2>2, NextLevelUp
  <2>5. c \in Candidate /\ c.status = "ready" /\ c.x = a.x /\ c.next = n /\ c.audit = a.audit
    <3> HIDE DEF n, b
    <3>1. /\ c \in Candidate /\ c.status = "ready" /\ c.x = b.x /\ c.next = n
          /\ c.audit = b.audit
      BY <2>3, <2>4, Moved
    <3> QED BY <2>3, <3>1
  <2> HIDE DEF c, n, b
  <2>6. Effect(i, c)
    BY <2>1, <2>2, <2>4, <2>5 DEF Effect, DoneStatus
  <2> QED BY <2>6
<1>9. CASE Truth(i)
  <2> DEFINE c == [b EXCEPT !.status = "truth"]
             e == work[i].out.est
  <2>1. Turn(i) /\ HasEst(i) /\ p = L /\ Settle(i, c) /\ Accept(a, e) /\ MatUnchanged
    BY <1>9 DEF Truth
  <2>2. a \in Candidate /\ CandidateOK(ev, a) /\ p = a.next /\ ev \in Evaluators
        /\ e = ev.est[a.x][p] /\ e \in Estimates
    BY <2>1, AtTurn
  <2>3. b \in Candidate /\ b.x = a.x /\ b.audit = a.audit
    <3> HIDE DEF a
    <3> QED BY <2>2, CheckedFacts
  <2>4. e = TruthOf(a.x)
    BY <2>1, <2>2 DEF TruthOf
  <2> HIDE DEF b
  <2>5. c \in Candidate /\ c.status = "truth" /\ c.x = a.x /\ c.audit = a.audit
    <3>1. "truth" \in DoneStatus
      BY DEF DoneStatus
    <3> QED BY <2>3, <3>1 DEF Candidate
  <2> HIDE DEF c, e
  <2>6. Effect(i, c)
    BY <2>1, <2>2, <2>4, <2>5 DEF Effect
  <2> QED BY <2>6
<1> QED BY <1>1, <1>2, <1>3, <1>4, <1>5, <1>6, <1>7, <1>8, <1>9 DEF Materialize

-----------------------------------------------------------------------------
(* The incumbent against everything evaluated so far.                      *)

\* A step without acceptance.
LEMMA LowestKept ==
  ASSUME EngineInv, Lowest, NearBest, UNCHANGED <<ev, points, incumbent, bestVars>>,
         \A j \in DOMAIN cands' : cands'[j].status = "truth" =>
           j \in DOMAIN cands /\ cands'[j] = cands[j]
  PROVE  Lowest' /\ NearBest'
<1>1. /\ ev' = ev /\ points' = points /\ incumbent' = incumbent
      /\ xBest' = xBest /\ fBest' = fBest
  BY DEF bestVars
<1>2. NearBest'
  BY <1>1 DEF NearBest, FeasibleOnly
<1>3. \A x : TruthOf(x)' = TruthOf(x) /\ Violation(x)' = Violation(x)
  BY <1>1 DEF TruthOf, Violation
<1>4. ExactBarrier => \A j \in DOMAIN cands' :
        cands'[j].status = "truth" /\ Violation(cands'[j].x) = 0 =>
          fBest # NoF /\ fBest <= TruthOf(cands'[j].x).f
  BY DEF Lowest
<1>5. Lowest'
  BY <1>1, <1>4 DEF Lowest, ExactBarrier, FeasibleOnly, IncumbentLowest, FirstCopyKept,
                    TruthOf, Violation
<1> QED BY <1>2, <1>5

\* decide_truth on the TRUTH of candidate c.
LEMMA LowestAccepted ==
  ASSUME EngineInv, Lowest, NearBest, UNCHANGED ev,
         NEW c \in Candidate, NEW e, e = TruthOf(c.x), e \in Estimates, Accept(c, e),
         \A j \in DOMAIN cands' : cands'[j].status = "truth" =>
           \/ cands'[j].x = c.x
           \/ j \in DOMAIN cands /\ cands'[j] = cands[j]
  PROVE  Lowest' /\ NearBest'
<1> DEFINE v == Larger(e.c, 0)
           ef == Larger(EpsF, 0)
           ec == Larger(EpsV, 0)
           f == e.f
           new == [f |-> f, v |-> v]
<1>1. f \in Int /\ v \in Nat /\ v = Violation(c.x) /\ f = TruthOf(c.x).f
  BY DEF Estimates, Larger, Violation
<1>2. /\ DecideTruth(f, v)
      /\ Accepts(f, v) => fBest' = f
      /\ ~Accepts(f, v) => fBest' = fBest
  BY DEF Accept, bestVars
<1>3. /\ AcceptTypeOK /\ (FeasibleOnly => h = 0) /\ fBest \in Int \cup {NoF}
      /\ NoF \notin Int
  BY AcceptanceAssumption DEF EngineInv, EngineTypes, Best
<1>4. \A q \in points : q.f \in Int /\ q.v \in Nat
  BY <1>3 DEF AcceptTypeOK, FilterPoint
<1>5. ef \in Nat /\ ec \in Nat
  BY AcceptanceAssumption DEF Larger
<1>6. \A a, b : Dominates(a, b) <=>
        /\ a.f <= b.f + ef /\ a.v <= b.v + ec
        /\ a.f < b.f - ef \/ a.v < b.v - ec
  BY DEF Dominates
<1>7. new.f = f /\ new.v = v /\ (Accepts(f, v) <=> v <= h /\ \A q \in points : ~Dominates(q, new))
  BY DEF Accepts, Dominated
<1>8. /\ Accepts(f, v) => \A q \in points' :
            (q \in points /\ ~Dominates(new, q)) \/ (q.f = f /\ q.v = v)
      /\ ~Accepts(f, v) => points' = points
      /\ incumbent' = IF v <= h /\ BetterFeasible(f, v) THEN f ELSE incumbent
  BY <1>2 DEF DecideTruth, FilterInsert, Truncate, NewPoint
<1> HIDE DEF v, ef, ec, f, new
<1>9. NearBest'
  <2>1. ASSUME FeasibleOnly, NEW q \in points'
        PROVE  q.v = 0 /\ fBest' # NoF /\ q.f >= fBest' - ef
    <3>1. CASE ~Accepts(f, v)
      BY <1>2, <1>8, <2>1, <3>1 DEF NearBest, ef
    <3>2. CASE Accepts(f, v)
      <4>1. v = 0 /\ fBest' = f
        BY <1>1, <1>2, <1>3, <1>7, <2>1, <3>2
      <4>2. CASE q \in points
        <5>1. q.v = 0 /\ ~Dominates(q, new)
          BY <1>7, <2>1, <3>2, <4>2 DEF NearBest
        <5>2. q.f \in Int
          BY <1>4, <4>2
        <5>3. ~(q.f < f - ef)
          <6>1. SUFFICES ASSUME q.f < f - ef PROVE FALSE
            OBVIOUS
          <6>2. q.f <= f + ef /\ q.v <= v + ec
            BY <1>1, <1>5, <4>1, <5>1, <5>2, <6>1
          <6> QED BY <1>6, <1>7, <5>1, <6>1, <6>2
        <5> QED BY <1>1, <1>3, <1>5, <4>1, <5>1, <5>2, <5>3
      <4>3. CASE q.f = f /\ q.v = v
        BY <1>1, <1>3, <1>5, <4>1, <4>3
      <4> QED BY <1>8, <3>2, <4>2, <4>3
    <3> QED BY <3>1, <3>2
  <2> QED BY <2>1 DEF NearBest, FeasibleOnly, ef
<1>10. ASSUME ExactBarrier
       PROVE  /\ IncumbentLowest' /\ FirstCopyKept'
              /\ incumbent' = fBest'
              /\ \A q \in points' : q.v = 0 /\ q.f = fBest'
              /\ \A j \in DOMAIN cands' :
                   cands'[j].status = "truth" /\ Violation(cands'[j].x) = 0 =>
                     fBest' # NoF /\ fBest' <= TruthOf(cands'[j].x).f
  <2>1. ef = 0 /\ ec = 0 /\ h = 0 /\ EpsV <= 0
    BY <1>3, <1>10, AcceptanceAssumption DEF ExactBarrier, Larger, ef, ec
  <2>2. /\ IncumbentLowest /\ FirstCopyKept /\ incumbent = fBest
        /\ \A q \in points : q.v = 0 /\ q.f = fBest
        /\ \A j \in DOMAIN cands :
             cands[j].status = "truth" /\ Violation(cands[j].x) = 0 =>
               fBest # NoF /\ fBest <= TruthOf(cands[j].x).f
    BY <1>10 DEF Lowest
  <2>3. IncumbentLowest' /\ FirstCopyKept'
    BY <1>1, <1>2, <1>3, <2>1, <2>2, DecideFeasInv
  <2>4. fBest # NoF => \E q \in points : q.v = 0 /\ q.f = fBest
    BY <2>2 DEF FirstCopyKept
  <2>5. \A j \in DOMAIN cands' :
          cands'[j].status = "truth" /\ Violation(cands'[j].x) = 0 =>
            \/ f = TruthOf(cands'[j].x).f /\ v = 0
            \/ fBest # NoF /\ fBest <= TruthOf(cands'[j].x).f
    BY <1>1, <2>2
  <2>6. \A j \in DOMAIN cands' : cands'[j].status = "truth" => TruthOf(cands'[j].x).f \in Int
    <3>1. \A j \in DOMAIN cands : cands[j].status = "truth" => TruthOf(cands[j].x) \in Estimates
      BY DEF EngineInv, Candidates, CandidateOK, TruthOf
    <3>2. \A j \in DOMAIN cands' : cands'[j].status = "truth" => TruthOf(cands'[j].x) \in Estimates
      BY <3>1
    <3> QED BY <3>2 DEF Estimates
  <2>7. CASE v # 0
    <3>1. ~Accepts(f, v) /\ ~(v <= h)
      BY <1>1, <1>7, <2>1, <2>7
    <3>2. fBest' = fBest /\ incumbent' = incumbent /\ points' = points
      BY <1>2, <1>8, <3>1
    <3> QED BY <2>2, <2>3, <2>5, <2>7, <3>2
  <2>8. CASE v = 0 /\ (fBest = NoF \/ f <= fBest)
    <3>1. Accepts(f, v)
      <4>1. ASSUME NEW q \in points PROVE ~Dominates(q, new)
        <5>1. q.v = 0 /\ q.f = fBest /\ q.f \in Int
          BY <1>4, <2>2
        <5>2. f <= q.f
          BY <1>3, <2>8, <5>1
        <5> QED BY <1>1, <1>6, <1>7, <2>1, <2>8, <5>1, <5>2
      <4> QED BY <1>7, <2>1, <2>8, <4>1
    <3>2. fBest' = f /\ incumbent' = f
      <4>1. v <= h
        BY <2>1, <2>8
      <4>2. CASE BetterFeasible(f, v)
        BY <1>2, <1>8, <3>1, <4>1, <4>2
      <4>3. CASE ~BetterFeasible(f, v)
        <5>1. incumbent # NoF /\ ~(f < incumbent)
          BY <2>8, <4>3 DEF BetterFeasible
        <5>2. fBest \in Int /\ f = fBest
          BY <1>1, <1>3, <2>2, <2>8, <5>1
        <5> QED BY <1>2, <1>8, <2>2, <3>1, <4>3, <5>2
      <4> QED BY <4>2, <4>3
    <3>3. \A q \in points' : q.v = 0 /\ q.f = f
      <4> SUFFICES ASSUME NEW q \in points', q \in points, ~Dominates(new, q)
                   PROVE  q.v = 0 /\ q.f = f
        BY <1>8, <2>8, <3>1
      <4>1. q.v = 0 /\ q.f = fBest /\ q.f \in Int
        BY <1>4, <2>2
      <4>2. f <= q.f
        BY <1>3, <2>8, <4>1
      <4>3. ~(f < q.f)
        BY <1>1, <1>6, <1>7, <2>1, <2>8, <4>1, <4>2
      <4> QED BY <1>1, <4>1, <4>2, <4>3
    <3>4. \A j \in DOMAIN cands' :
            cands'[j].status = "truth" /\ Violation(cands'[j].x) = 0 =>
              f <= TruthOf(cands'[j].x).f
      BY <1>1, <1>3, <2>5, <2>6, <2>8
    <3>5. f # NoF
      BY <1>1, <1>3
    <3> QED BY <2>3, <3>2, <3>3, <3>4, <3>5
  <2>9. CASE v = 0 /\ fBest # NoF /\ fBest < f
    <3>1. PICK q \in points : q.v = 0 /\ q.f = fBest
      BY <2>4, <2>9
    <3>2. fBest \in Int
      BY <1>3, <2>9
    <3>3. Dominates(q, new)
      BY <1>1, <1>6, <1>7, <2>1, <2>9, <3>1, <3>2
    <3>4. ~Accepts(f, v)
      BY <1>7, <3>1, <3>3
    <3>5. ~BetterFeasible(f, v)
      BY <1>1, <2>2, <2>9, <3>2 DEF BetterFeasible
    <3>6. fBest' = fBest /\ incumbent' = incumbent /\ points' = points
      BY <1>2, <1>8, <3>4, <3>5
    <3>7. \A j \in DOMAIN cands' :
            cands'[j].status = "truth" /\ Violation(cands'[j].x) = 0 =>
              fBest <= TruthOf(cands'[j].x).f
      BY <1>1, <2>5, <2>9, <3>2
    <3> QED BY <2>2, <2>3, <2>9, <3>6, <3>7
  <2> QED BY <1>1, <1>3, <2>7, <2>8, <2>9
<1>11. Lowest'
  BY <1>10 DEF Lowest, ExactBarrier, FeasibleOnly, TruthOf, Violation
<1> QED BY <1>9, <1>11

-----------------------------------------------------------------------------
(* The poll.                                                               *)

\* A TRUTH result that acceptance rejects does not beat the incumbent.
LEMMA RejectedDoesNotBeat ==
  ASSUME EngineInv, NearBest, FeasibleOnly, NEW x, TruthOf(x) \in Estimates,
         ~Accepts(TruthOf(x).f, Larger(TruthOf(x).c, 0))
  PROVE  ~Beats(x)
<1> DEFINE f == TruthOf(x).f
           v == Larger(TruthOf(x).c, 0)
           ef == Larger(EpsF, 0)
           ec == Larger(EpsV, 0)
<1> SUFFICES ASSUME Beats(x) PROVE FALSE
  OBVIOUS
<1>1. v = 0 /\ f < fBest - PruneEps
  BY DEF Beats, Violation
<1>2. f \in Int /\ PruneEps \in Nat /\ fBest \in Int \cup {NoF} /\ h = 0
      /\ AcceptTypeOK
  BY EngineAssumption DEF Estimates, EngineInv, EngineTypes, Best
<1>3. ef \in Nat /\ ec \in Nat
  BY AcceptanceAssumption DEF Larger
<1>4. Dominated(f, v)
  BY <1>1, <1>2 DEF Accepts
<1>5. PICK q \in points : /\ q.f < f - ef \/ q.v < v - ec
  BY <1>4 DEF Dominated, Dominates
<1>6. q.v = 0 /\ fBest # NoF /\ q.f >= fBest - ef /\ q.f \in Int
  BY <1>2 DEF NearBest, AcceptTypeOK, FilterPoint
<1> HIDE DEF f, v, ef, ec
<1> QED BY <1>1, <1>2, <1>3, <1>5, <1>6

\* A step that moves no candidate to a final status.
LEMMA PollKept ==
  ASSUME EngineInv, PollLast, PollFails,
         UNCHANGED <<ev, mul, bestVars>>, Polling' => Polling,
         Len(cands') = Len(cands), DOMAIN cands' = DOMAIN cands,
         \A j \in DOMAIN cands : /\ cands'[j].x = cands[j].x
                                 /\ cands'[j].status \in DoneStatus => cands'[j] = cands[j]
  PROVE  PollLast' /\ PollFails'
<1>1. /\ ev' = ev /\ mul' = mul
      /\ xBest' = xBest /\ fBest' = fBest /\ PollStep' = PollStep
  BY DEF bestVars, PollStep
<1>2. PollLast'
  BY <1>1 DEF PollLast
<1>3. SoundMargins' => SoundMargins
  BY <1>1 DEF SoundMargins, TruthOf
<1>4. ASSUME Polling, SoundMargins, FeasibleOnly,
             NEW j \in {Len(cands) - 1, Len(cands)}, cands'[j].status \in DoneStatus
      PROVE  ~Beats(cands'[j].x)
  <2>1. j \in DOMAIN cands
    BY <1>4 DEF PollLast
  <2>2. cands'[j] = cands[j]
    BY <1>4, <2>1
  <2> QED BY <1>4, <2>2 DEF PollFails
<1>5. Polling' /\ SoundMargins' /\ FeasibleOnly =>
        \A j \in {Len(cands') - 1, Len(cands')} :
          cands'[j].status \in DoneStatus => ~Beats(cands'[j].x)
  BY <1>3, <1>4
<1>6. PollFails'
  BY <1>1, <1>5 DEF PollFails, Beats, Violation, TruthOf, FeasibleOnly
<1> QED BY <1>2, <1>6

\* A candidate is settled.
LEMMA PollSettled ==
  ASSUME EngineInv, NearBest, PollLast, PollFails, NEW i, NEW c, Effect(i, c)
  PROVE  PollLast' /\ PollFails'
<1>1. /\ Turn(i) /\ Settle(i, c) /\ MatUnchanged /\ c.x = cands[i].x
      /\ UNCHANGED <<ev, phase, polled, mul>>
  BY DEF Effect, MatUnchanged
<1>2. i \in DOMAIN cands /\ cands \in Seq(Candidate) /\ cands[i] \in Candidate
  BY <1>1, AtTurn DEF EngineInv, EngineTypes
<1>3. /\ DOMAIN cands' = DOMAIN cands /\ Len(cands') = Len(cands) /\ cands'[i] = c
      /\ \A j \in DOMAIN cands : j # i => cands'[j] = cands[j]
  BY <1>1, <1>2 DEF Settle
<1>4. SUFFICES ASSUME Polling' PROVE PollLast' /\ PollFails'
  BY DEF PollLast, PollFails
<1>5. /\ UNCHANGED bestVars /\ improved' = improved
      /\ c.status \in DoneStatus /\ SoundMargins /\ FeasibleOnly => ~Beats(c.x)
  <2>1. CASE /\ NoTruth /\ c.status # "truth"
             /\ c.status \in DoneStatus /\ SoundMargins /\ FeasibleOnly => ~Beats(c.x)
    BY <2>1 DEF NoTruth
  <2>2. CASE /\ c.status = "truth" /\ TruthOf(c.x) \in Estimates
             /\ Accept(cands[i], TruthOf(c.x))
    <3> DEFINE f == TruthOf(c.x).f
               v == Larger(TruthOf(c.x).c, 0)
    <3>1. improved' = FALSE
      BY <1>4 DEF Polling
    <3>2. ~Accepts(f, v)
      <4>1. Accepts(f, v) => improved' = TRUE
        BY <2>2 DEF Accept
      <4> QED BY <3>1, <4>1
    <3>3. UNCHANGED <<improved, bestVars>>
      BY <2>2, <3>2 DEF Accept
    <3>4. FeasibleOnly => ~Beats(c.x)
      BY <2>2, <3>2, RejectedDoesNotBeat
    <3> QED BY <3>3, <3>4
  <2> QED BY <2>1, <2>2 DEF Effect
<1>6. Polling
  BY <1>1, <1>4, <1>5 DEF Polling, InSteps
<1>7. ev' = ev /\ mul' = mul /\ xBest' = xBest /\ fBest' = fBest /\ PollStep' = PollStep
  BY <1>1, <1>5 DEF bestVars, PollStep
<1>8. PollLast'
  BY <1>1, <1>3, <1>6, <1>7 DEF PollLast
<1>9. SoundMargins' => SoundMargins
  BY <1>7 DEF SoundMargins, TruthOf
<1>10. ASSUME SoundMargins, FeasibleOnly,
              NEW j \in {Len(cands) - 1, Len(cands)}, cands'[j].status \in DoneStatus
       PROVE  ~Beats(cands'[j].x)
  <2>1. j \in DOMAIN cands
    BY <1>6 DEF PollLast
  <2>2. CASE j = i
    BY <1>3, <1>5, <1>10, <2>2
  <2>3. CASE j # i
    <3>1. cands'[j] = cands[j]
      BY <1>3, <2>1, <2>3
    <3> QED BY <1>6, <1>10, <3>1 DEF PollFails
  <2> QED BY <2>2, <2>3
<1>11. SoundMargins' /\ FeasibleOnly =>
        \A j \in {Len(cands') - 1, Len(cands')} :
          cands'[j].status \in DoneStatus => ~Beats(cands'[j].x)
  BY <1>3, <1>9, <1>10
<1>12. PollFails'
  BY <1>7, <1>11 DEF PollFails, Beats, Violation, TruthOf, FeasibleOnly
<1> QED BY <1>8, <1>12

-----------------------------------------------------------------------------
(* The steps.                                                              *)

LEMMA SearchInit == Init => SearchInv
<1> SUFFICES ASSUME Init PROVE SearchInv
  OBVIOUS
<1>1. /\ DOMAIN cands = {} /\ points = {} /\ incumbent = NoF /\ fBest = NoF
      /\ polled = FALSE /\ phase \in {"propose", "done"}
  BY DEF Init, AcceptInit, LoopPhase
<1>2. Lowest
  BY <1>1 DEF Lowest, IncumbentLowest, FirstCopyKept
<1>3. NearBest
  BY <1>1 DEF NearBest
<1>4. Unlimited /\ PollLast /\ PollFails
  BY <1>1 DEF Unlimited, PollLast, PollFails, Polling, InSteps
<1> QED BY <1>2, <1>3, <1>4 DEF SearchInv

\* Steps between batches, and those of the work items.
LEMMA SearchQuiet ==
  ASSUME EngineInv, SearchInv,
         UNCHANGED <<ev, budget, stepsLeft, polled, improved, mul, cands, points,
                     incumbent, bestVars>>,
         \/ phase' = "panicked"
         \/ phase' \in {"select", "batch", "join"} /\ InSteps
         \/ phase' = "iterend" /\ InSteps /\ (budget = NoBudget => Ready = {})
  PROVE  SearchInv'
<1>1. Lowest' /\ NearBest'
  BY LowestKept DEF SearchInv
<1>2. Unlimited'
  BY DEF SearchInv, Unlimited, InSteps, Ready
<1>3. Polling' => Polling
  BY DEF Polling, InSteps
<1>4. PollLast' /\ PollFails'
  BY <1>3, PollKept DEF SearchInv
<1> QED BY <1>1, <1>2, <1>4 DEF SearchInv

LEMMA SearchPropose ==
  ASSUME EngineInv, SearchInv, Propose
  PROVE  SearchInv'
<1>1. PICK xs \in [1 .. PerIter -> {x \in SearchBox : OnMesh(x)}] : Ingest(xs)
  BY DEF Propose
<1> DEFINE new == [i \in 1 .. PerIter |-> NewCandidate(xs[i], FALSE)]
<1>2. /\ cands' = cands \o new /\ polled' = FALSE /\ stepsLeft' = budget /\ phase' = "select"
      /\ UNCHANGED <<ev, budget, points, incumbent, bestVars>>
  BY <1>1 DEF Ingest, runVars, acceptVars
<1>3. PerIter \in Nat /\ \A i \in 1 .. PerIter : xs[i] \in XMesh
  BY EngineAssumption
<1>4. \A i \in 1 .. PerIter : new[i] \in Candidate /\ new[i].status = "ready"
  BY <1>3, Ingested
<1>5. new \in [1 .. PerIter -> Candidate] /\ cands \in Seq(Candidate)
  BY <1>4 DEF EngineInv, EngineTypes
<1> HIDE DEF new
<1>6. /\ \A i \in DOMAIN cands : i \in DOMAIN cands' /\ cands'[i] = cands[i]
      /\ \A i \in DOMAIN cands' \ DOMAIN cands : \E k \in 1 .. PerIter : cands'[i] = new[k]
  BY <1>2, <1>3, <1>5, StoreGrows
<1>7. \A j \in DOMAIN cands' : cands'[j].status = "truth" =>
        j \in DOMAIN cands /\ cands'[j] = cands[j]
  BY <1>4, <1>6
<1>8. Lowest' /\ NearBest'
  BY <1>2, <1>7, LowestKept DEF SearchInv
<1>9. Unlimited' /\ PollLast' /\ PollFails'
  BY <1>2 DEF Unlimited, PollLast, PollFails, Polling
<1> QED BY <1>8, <1>9 DEF SearchInv

LEMMA SearchInjectPoll ==
  ASSUME EngineInv, SearchInv, InjectPoll
  PROVE  SearchInv'
<1> DEFINE pts == PollPoints(xBest)
           new == [d \in 1 .. Len(pts) |-> NewCandidate(pts[d], TRUE)]
<1>1. /\ phase = "select" /\ xBest # NoX /\ cands' = cands \o new
      /\ UNCHANGED <<ev, budget, phase, stepsLeft, mul, points, incumbent, bestVars>>
  BY DEF InjectPoll, CanPoll, runVars, acceptVars
<1>2. xBest + PollStep \in XMesh /\ xBest - PollStep \in XMesh
  BY <1>1, PollInMesh
<1>3. Len(pts) = 2 /\ pts[1] = xBest + PollStep /\ pts[2] = xBest - PollStep
  BY DEF PollPoints
<1>4. \A d \in 1 .. 2 : pts[d] \in XMesh
  BY <1>2, <1>3
<1> HIDE DEF pts
<1>5. \A d \in 1 .. 2 : new[d] \in Candidate /\ new[d].status = "ready" /\ new[d].x = pts[d]
  <2> SUFFICES ASSUME NEW d \in 1 .. 2
               PROVE  new[d] \in Candidate /\ new[d].status = "ready" /\ new[d].x = pts[d]
    OBVIOUS
  <2>1. new[d] = NewCandidate(pts[d], TRUE)
    BY <1>3
  <2>2. NewCandidate(pts[d], TRUE) \in Candidate /\ NewCandidate(pts[d], TRUE).status = "ready"
    BY <1>4, Ingested
  <2>3. NewCandidate(pts[d], TRUE).x = pts[d]
    BY DEF NewCandidate
  <2> QED BY <2>1, <2>2, <2>3
<1>6. new \in [1 .. 2 -> Candidate] /\ cands \in Seq(Candidate)
  <2>1. new = [d \in 1 .. 2 |-> NewCandidate(pts[d], TRUE)]
    BY <1>3
  <2> QED BY <1>5, <2>1 DEF EngineInv, EngineTypes
<1> HIDE DEF new
<1>7. /\ DOMAIN cands' = 1 .. Len(cands) + 2
      /\ Len(cands) \in Nat /\ Len(cands') = Len(cands) + 2
      /\ \A i \in DOMAIN cands : i \in DOMAIN cands' /\ cands'[i] = cands[i]
      /\ \A k \in 1 .. 2 : cands'[Len(cands) + k] = new[k]
      /\ \A i \in DOMAIN cands' \ DOMAIN cands : \E k \in 1 .. 2 : cands'[i] = new[k]
  <2>1. 2 \in Nat
    OBVIOUS
  <2> QED BY <1>1, <1>6, <2>1, StoreGrows
<1>8. \A j \in DOMAIN cands' : cands'[j].status = "truth" =>
        j \in DOMAIN cands /\ cands'[j] = cands[j]
  BY <1>5, <1>7
<1>9. Lowest' /\ NearBest'
  BY <1>1, <1>8, LowestKept DEF SearchInv
<1>10. Unlimited'
  BY <1>1 DEF SearchInv, Unlimited, InSteps
<1>11. /\ xBest' = xBest /\ PollStep' = PollStep
  BY <1>1 DEF bestVars, PollStep
<1>12. /\ Len(cands') - 1 = Len(cands) + 1 /\ Len(cands') - 1 \in DOMAIN cands'
       /\ Len(cands') = Len(cands) + 2 /\ Len(cands') \in DOMAIN cands'
       /\ 1 \in 1 .. 2 /\ 2 \in 1 .. 2
  BY <1>7
<1>13. cands'[Len(cands') - 1] = new[1] /\ cands'[Len(cands')] = new[2]
  BY <1>7, <1>12
<1>14. PollLast'
  BY <1>1, <1>3, <1>5, <1>11, <1>12, <1>13 DEF PollLast
<1>15. PollFails'
  <2>1. \A j \in {Len(cands') - 1, Len(cands')} : cands'[j].status = "ready"
    BY <1>5, <1>12, <1>13
  <2>2. "ready" \notin DoneStatus
    BY DEF DoneStatus
  <2> QED BY <2>1, <2>2 DEF PollFails
<1> QED BY <1>9, <1>10, <1>14, <1>15 DEF SearchInv

LEMMA SearchDispatch ==
  ASSUME EngineInv, SearchInv, Dispatch
  PROVE  SearchInv'
<1>1. PICK picked \in SUBSET Ready : Submit(picked)
  BY DEF Dispatch
<1>2. /\ phase = "select" /\ phase' = "batch"
      /\ cands' = [i \in DOMAIN cands |->
                     IF i \in picked THEN [cands[i] EXCEPT !.status = "flight"]
                                     ELSE cands[i]]
      /\ stepsLeft' = Spend(Cardinality(picked))
      /\ UNCHANGED <<ev, budget, polled, improved, mul, points, incumbent, bestVars>>
  BY <1>1 DEF Submit, runVars, acceptVars
<1>3. cands \in Seq(Candidate) /\ \A i \in DOMAIN cands : cands[i] \in Candidate
  BY DEF EngineInv, EngineTypes
<1>4. /\ DOMAIN cands' = DOMAIN cands
      /\ \A j \in DOMAIN cands : \/ cands'[j] = cands[j]
                                 \/ cands'[j] = [cands[j] EXCEPT !.status = "flight"]
  BY <1>2
<1>5. \A j \in DOMAIN cands : /\ cands'[j].x = cands[j].x
                              /\ cands'[j] = cands[j] \/ cands'[j].status = "flight"
  <2> TAKE j \in DOMAIN cands
  <2>1. cands[j] \in Candidate
    BY <1>3
  <2>2. CASE cands'[j] = cands[j]
    BY <2>2
  <2>3. CASE cands'[j] = [cands[j] EXCEPT !.status = "flight"]
    BY <2>1, <2>3 DEF Candidate
  <2> QED BY <1>4, <2>2, <2>3
<1>6. Len(cands') = Len(cands)
  <2>1. DOMAIN cands = 1 .. Len(cands) /\ Len(cands) \in Nat
    BY <1>3, LenProperties
  <2> QED BY <1>2, <2>1
<1>7. Lowest' /\ NearBest'
  <2>1. \A j \in DOMAIN cands' : cands'[j].status = "truth" =>
          j \in DOMAIN cands /\ cands'[j] = cands[j]
    BY <1>4, <1>5
  <2> QED BY <1>2, <2>1, LowestKept DEF SearchInv
<1>8. Unlimited'
  BY <1>2 DEF SearchInv, Unlimited, InSteps, Spend
<1>9. PollLast' /\ PollFails'
  <2>1. Polling' => Polling
    BY <1>2 DEF Polling, InSteps
  <2>2. \A j \in DOMAIN cands : cands'[j].status \in DoneStatus => cands'[j] = cands[j]
    BY <1>5 DEF DoneStatus
  <2> QED BY <1>2, <1>4, <1>5, <1>6, <2>1, <2>2, PollKept DEF SearchInv
<1> QED BY <1>7, <1>8, <1>9 DEF SearchInv

\* Between iterations and between runs nothing is polled.
LEMMA SearchRestart ==
  ASSUME EngineInv, SearchInv, EndIteration \/ NewRun
  PROVE  SearchInv'
<1>1. phase' \in {"propose", "done"}
  BY DEF EndIteration, NewRun, LoopPhase
<1>2. Unlimited' /\ PollLast' /\ PollFails'
  BY <1>1 DEF Unlimited, PollLast, PollFails, Polling, InSteps
<1>3. CASE EndIteration
  <2>1. UNCHANGED <<ev, points, incumbent, bestVars, cands>>
    BY <1>3 DEF EndIteration, OnIterationEnd
  <2>2. Lowest' /\ NearBest'
    BY <2>1, LowestKept DEF SearchInv
  <2> QED BY <1>2, <2>2 DEF SearchInv
<1>4. CASE NewRun
  <2>1. DOMAIN cands' = {} /\ points' = {} /\ incumbent' = NoF /\ fBest' = NoF
    BY <1>4 DEF NewRun
  <2>2. Lowest' /\ NearBest'
    BY <2>1 DEF Lowest, NearBest, IncumbentLowest, FirstCopyKept
  <2> QED BY <1>2, <2>2 DEF SearchInv
<1> QED BY <1>3, <1>4

LEMMA SearchMaterialize ==
  ASSUME EngineInv, SearchInv, NEW i, Materialize(i)
  PROVE  SearchInv'
<1>1. CASE ExpectFails(i)
  BY <1>1, SearchQuiet DEF ExpectFails, runVars, iterVars, acceptVars
<1>2. CASE \E c : Effect(i, c)
  <2>1. PICK c : Effect(i, c)
    BY <1>2
  <2>2. /\ Turn(i) /\ Settle(i, c) /\ c \in Candidate /\ c.x = cands[i].x
        /\ UNCHANGED <<ev, budget, phase, stepsLeft>>
    BY <2>1 DEF Effect, MatUnchanged, runVars
  <2>3. i \in DOMAIN cands /\ cands \in Seq(Candidate) /\ cands[i] \in Candidate
        /\ phase = "join"
    BY <2>2, AtTurn DEF EngineInv, EngineTypes
  <2>4. /\ DOMAIN cands' = DOMAIN cands /\ cands'[i] = c
        /\ \A j \in DOMAIN cands : j # i => cands'[j] = cands[j]
    BY <2>2, <2>3 DEF Settle
  <2>5. PollLast' /\ PollFails'
    BY <2>1, PollSettled DEF SearchInv
  <2>6. Unlimited'
    BY <2>2, <2>3 DEF SearchInv, Unlimited, InSteps
  <2>7. Lowest' /\ NearBest'
    <3>1. CASE NoTruth /\ c.status # "truth"
      <4>1. UNCHANGED <<ev, points, incumbent, bestVars>>
        BY <2>2, <3>1 DEF NoTruth, acceptVars
      <4>2. \A j \in DOMAIN cands' : cands'[j].status = "truth" =>
              j \in DOMAIN cands /\ cands'[j] = cands[j]
        BY <2>4, <3>1
      <4> QED BY <4>1, <4>2, LowestKept DEF SearchInv
    <3>2. CASE TruthOf(c.x) \in Estimates /\ Accept(cands[i], TruthOf(c.x))
      <4>1. \A j \in DOMAIN cands' : cands'[j].status = "truth" =>
              \/ cands'[j].x = cands[i].x
              \/ j \in DOMAIN cands /\ cands'[j] = cands[j]
        BY <2>2, <2>4
      <4>2. TruthOf(c.x) = TruthOf(cands[i].x)
        BY <2>2
      <4> QED BY <2>2, <2>3, <3>2, <4>1, <4>2, LowestAccepted DEF SearchInv
    <3> QED BY <2>1, <3>1, <3>2 DEF Effect
  <2> QED BY <2>5, <2>6, <2>7 DEF SearchInv
<1> QED BY <1>1, <1>2, Effects

LEMMA SearchItem ==
  ASSUME EngineInv, SearchInv, NEW i, LookupDecision(i) \/ LookupEval(i) \/ Compute(i)
  PROVE  SearchInv'
<1>1. ItemUnchanged /\ phase = "batch"
  BY DEF LookupDecision, LookupEval, Compute, ItemAt
<1> QED BY <1>1, SearchQuiet DEF ItemUnchanged, runVars, iterVars, acceptVars, InSteps

LEMMA SearchThread ==
  ASSUME EngineInv, SearchInv, EndSteps \/ Join \/ PolicyUpdate
  PROVE  SearchInv'
<1>1. UNCHANGED <<ev, budget, stepsLeft, polled, improved, mul, cands, points,
                  incumbent, bestVars>>
  BY DEF EndSteps, Join, PolicyUpdate, runVars, iterVars, acceptVars
<1>2. CASE EndSteps
  <2>1. budget = NoBudget => stepsLeft # 0
    BY <1>2, EngineAssumption DEF EndSteps, SearchInv, Unlimited, InSteps
  <2> QED BY <1>1, <1>2, <2>1, SearchQuiet DEF EndSteps, InSteps
<1>3. CASE Join \/ PolicyUpdate
  BY <1>1, <1>3, SearchQuiet DEF Join, PolicyUpdate, InSteps
<1> QED BY <1>2, <1>3

LEMMA SearchStutter ==
  ASSUME EngineInv, SearchInv, UNCHANGED vars
  PROVE  SearchInv'
<1>1. UNCHANGED <<ev, budget, phase, stepsLeft, polled, improved, mul, cands, points,
                  incumbent, bestVars>>
  BY DEF vars, runVars, iterVars, acceptVars
<1>2. Lowest' /\ NearBest'
  BY <1>1, LowestKept DEF SearchInv
<1>3. Unlimited'
  BY <1>1 DEF SearchInv, Unlimited, InSteps, Ready
<1>4. Polling' => Polling
  BY <1>1 DEF Polling, InSteps
<1>5. PollLast' /\ PollFails'
  BY <1>1, <1>4, PollKept DEF SearchInv
<1> QED BY <1>2, <1>3, <1>5 DEF SearchInv

-----------------------------------------------------------------------------
(* Theorems.                                                               *)

\* Every step keeps SearchInv.
LEMMA SearchStep == EngineInv /\ SearchInv /\ [Next]_vars => SearchInv'
<1> SUFFICES ASSUME EngineInv, SearchInv, [Next]_vars PROVE SearchInv'
  OBVIOUS
<1>1. CASE Propose \/ InjectPoll \/ Dispatch
  BY <1>1, SearchPropose, SearchInjectPoll, SearchDispatch
<1>2. CASE EndSteps \/ Join \/ PolicyUpdate
  BY <1>2, SearchThread
<1>3. CASE EndIteration \/ NewRun
  BY <1>3, SearchRestart
<1>4. CASE \E i \in DOMAIN work :
             LookupDecision(i) \/ LookupEval(i) \/ Compute(i) \/ Materialize(i)
  BY <1>4, SearchItem, SearchMaterialize
<1>5. CASE UNCHANGED vars
  BY <1>5, SearchStutter
<1> QED BY <1>1, <1>2, <1>3, <1>4, <1>5 DEF Next, Step, Stopped

\* SearchInv is an invariant.
THEOREM SearchInvariant == Spec => []SearchInv
BY SearchInit, SearchStep, EngineInvariant, PTL DEF Spec

\* The two invariants say where the reported value stands among the others.
LEMMA BestFollows == EngineInv /\ SearchInv => BestSoFar
<1> SUFFICES ASSUME EngineInv, SearchInv, ExactBarrier
             PROVE  LET feasible == {cands[i].x : i \in {j \in DOMAIN cands :
                                       /\ cands[j].status = "truth"
                                       /\ Violation(cands[j].x) = 0}}
                    IN  IF feasible = {} THEN xBest = NoX
                        ELSE /\ xBest \in feasible
                             /\ \A y \in feasible : fBest <= TruthOf(y).f
  BY DEF BestSoFar, ExactBarrier, FeasibleOnly
<1> DEFINE done == {j \in DOMAIN cands : /\ cands[j].status = "truth"
                                         /\ Violation(cands[j].x) = 0}
           feasible == {cands[i].x : i \in done}
<1>1. xBest # NoX => \E j \in done : cands[j].x = xBest
  BY DEF EngineInv, Best, ExactBarrier
<1>2. \A j \in done : fBest # NoF /\ fBest <= TruthOf(cands[j].x).f
  BY DEF SearchInv, Lowest
<1>3. xBest = NoX <=> fBest = NoF
  BY DEF EngineInv, EngineTypes
<1> HIDE DEF done
<1>4. xBest # NoX => xBest \in feasible
  BY <1>1
<1>5. \A y \in feasible : xBest # NoX /\ fBest <= TruthOf(y).f
  BY <1>2, <1>3
<1>6. feasible = {} => xBest = NoX
  BY <1>4
<1>7. feasible # {} => xBest \in feasible /\ \A y \in feasible : fBest <= TruthOf(y).f
  BY <1>4, <1>5
<1> QED BY <1>6, <1>7 DEF done

\* With a feasible-only barrier and exact dominance the engine reports the
\* least objective of all feasible TRUTH evaluations of the run, whatever the
\* order in which they complete and the route they take through the caches.
THEOREM BestNeverLost == Spec => []BestSoFar
BY BestFollows, SearchInvariant, EngineInvariant, PTL

\* The two invariants say what a failed poll has seen.
LEMMA LocalBestFollows == EngineInv /\ SearchInv => FailedPollMeansLocalBest
<1> SUFFICES ASSUME EngineInv, SearchInv, phase = "iterend", polled, ~improved,
                    budget = NoBudget, SoundMargins, FeasibleOnly
             PROVE  ~Beats(xBest + PollStep) /\ ~Beats(xBest - PollStep)
  BY DEF FailedPollMeansLocalBest, FeasibleOnly
<1>1. polled \in BOOLEAN /\ improved \in BOOLEAN
  BY DEF EngineInv, EngineTypes
<1>2. polled = TRUE /\ improved = FALSE
  BY <1>1
<1>3. Polling
  BY <1>2 DEF Polling, InSteps
<1>4. \A j \in DOMAIN cands : cands[j].status \in DoneStatus
  <2>1. \A j \in DOMAIN cands : cands[j] \in Candidate
    BY DEF EngineInv, EngineTypes
  <2>2. \A j \in DOMAIN cands : cands[j].status \in DoneStatus \cup {"ready", "flight"}
    BY <2>1 DEF Candidate
  <2>3. \A j \in DOMAIN cands : cands[j].status # "ready"
    BY DEF SearchInv, Unlimited, Ready
  <2>4. \A j \in DOMAIN cands : cands[j].status # "flight"
    BY DEF EngineInv, Batch
  <2> QED BY <2>2, <2>3, <2>4
<1>5. /\ Len(cands) - 1 \in DOMAIN cands /\ Len(cands) \in DOMAIN cands
      /\ cands[Len(cands) - 1].x = xBest + PollStep
      /\ cands[Len(cands)].x = xBest - PollStep
  BY <1>3 DEF SearchInv, PollLast
<1> QED BY <1>3, <1>4, <1>5 DEF SearchInv, PollFails

\* An iteration that polled and did not improve, without a step budget and
\* under sound margins, shows that no poll neighbour beats the incumbent: the
\* mesh is refined for a reason.
THEOREM RefinedForAReason == Spec => []FailedPollMeansLocalBest
BY LocalBestFollows, SearchInvariant, EngineInvariant, PTL

\* A candidate climbs the ladder, stays finished and stays under audit, in
\* every step of a run.
THEOREM CandidatesClimb == Spec => LadderClimbs
<1> DEFINE Climb(i) ==
      /\ cands[i].status \in DoneStatus => cands'[i] = cands[i]
      /\ cands[i].status = "flight" /\ cands'[i].status = "ready" =>
           cands'[i].next > cands[i].next
      /\ cands[i].audit => cands'[i].audit
<1>1. EngineInv /\ [Next]_vars =>
        [run' = run => \A i \in DOMAIN cands : Climb(i)]_vars
  <2> SUFFICES ASSUME EngineInv, Next, run' = run, NEW i \in DOMAIN cands PROVE Climb(i)
    OBVIOUS
  <2>0. cands \in Seq(Candidate) /\ cands[i] \in Candidate
    BY DEF EngineInv, EngineTypes
  <2>1. CASE UNCHANGED cands
    <3>1. cands'[i] = cands[i] /\ ~(cands[i].status = "flight" /\ cands'[i].status = "ready")
      BY <2>1
    <3> QED BY <3>1
  <2>2. CASE Propose
    <3>1. PICK xs \in [1 .. PerIter -> {x \in SearchBox : OnMesh(x)}] : Ingest(xs)
      BY <2>2 DEF Propose
    <3> DEFINE new == [k \in 1 .. PerIter |-> NewCandidate(xs[k], FALSE)]
    <3>2. cands' = cands \o new /\ PerIter \in Nat /\ \A k \in 1 .. PerIter : xs[k] \in XMesh
      BY <3>1, EngineAssumption DEF Ingest
    <3>3. \A k \in 1 .. PerIter : new[k] \in Candidate
      BY <3>2, Ingested
    <3>4. new \in [1 .. PerIter -> Candidate]
      BY <3>3
    <3> HIDE DEF new
    <3>5. cands'[i] = cands[i]
      BY <2>0, <3>2, <3>4, StoreGrows
    <3> QED BY <3>5
  <2>3. CASE InjectPoll
    <3> DEFINE pts == PollPoints(xBest)
               new == [d \in 1 .. Len(pts) |-> NewCandidate(pts[d], TRUE)]
    <3>1. cands' = cands \o new /\ xBest # NoX
      BY <2>3 DEF InjectPoll, CanPoll
    <3>2. xBest + PollStep \in XMesh /\ xBest - PollStep \in XMesh
      BY <3>1, PollInMesh
    <3>3. Len(pts) = 2 /\ \A d \in 1 .. 2 : pts[d] \in XMesh
      BY <3>2 DEF PollPoints
    <3> HIDE DEF pts
    <3>4. \A d \in 1 .. Len(pts) : new[d] \in Candidate
      BY <3>3, Ingested
    <3>5. new \in [1 .. Len(pts) -> Candidate]
      BY <3>4
    <3>6. Len(pts) \in Nat
      BY <3>3
    <3> HIDE DEF new
    <3>7. cands'[i] = cands[i]
      BY <2>0, <3>1, <3>5, <3>6, StoreGrows
    <3> QED BY <3>7
  <2>4. CASE Dispatch
    <3>1. PICK picked \in SUBSET Ready : Submit(picked)
      BY <2>4 DEF Dispatch
    <3>2. CASE i \notin picked
      <4>1. cands'[i] = cands[i]
        BY <3>1, <3>2 DEF Submit
      <4> QED BY <4>1
    <3>3. CASE i \in picked
      <4>1. cands'[i] = [cands[i] EXCEPT !.status = "flight"] /\ cands[i].status = "ready"
        BY <3>1, <3>3 DEF Submit, Ready
      <4>2. cands'[i].status = "flight" /\ cands'[i].audit = cands[i].audit
        BY <2>0, <4>1 DEF Candidate
      <4> QED BY <4>1, <4>2 DEF DoneStatus
    <3> QED BY <3>2, <3>3
  <2>5. CASE \E k \in DOMAIN work : Materialize(k)
    <3>1. PICK k \in DOMAIN work : Materialize(k)
      BY <2>5
    <3>2. CASE ExpectFails(k)
      BY <2>1, <3>2 DEF ExpectFails
    <3>3. CASE \E c : Effect(k, c)
      <4>1. PICK c : Effect(k, c)
        BY <3>3
      <4>2. cands' = [cands EXCEPT ![k] = c] /\ Turn(k)
        BY <4>1 DEF Effect, Settle
      <4>3. k \in DOMAIN cands /\ cands[k].status = "flight"
        BY <4>2, AtTurn
      <4>4. CASE i # k
        <5>1. cands'[i] = cands[i]
          BY <4>2, <4>4
        <5> QED BY <5>1
      <4>5. CASE i = k
        <5>1. cands'[i] = c
          BY <2>0, <4>2, <4>5
        <5> QED BY <4>1, <4>3, <4>5, <5>1 DEF Effect, DoneStatus
      <4> QED BY <4>4, <4>5
    <3> QED BY <3>1, <3>2, <3>3, Effects
  <2>6. CASE NewRun
    <3>1. run \in Nat
      BY EngineAssumption DEF EngineInv, EngineTypes, Larger
    <3> QED BY <2>6, <3>1 DEF NewRun
  <2>7. CASE \E k \in DOMAIN work : LookupDecision(k) \/ LookupEval(k) \/ Compute(k)
    BY <2>1, <2>7 DEF LookupDecision, LookupEval, Compute, ItemUnchanged
  <2>8. CASE EndSteps \/ Join \/ PolicyUpdate \/ EndIteration \/ Stopped
    BY <2>1, <2>8 DEF EndSteps, Join, PolicyUpdate, EndIteration, Stopped, vars
  <2> QED BY <2>2, <2>3, <2>4, <2>5, <2>6, <2>7, <2>8 DEF Next, Step
<1> QED BY <1>1, EngineInvariant, PTL DEF Spec, LadderClimbs
=============================================================================
