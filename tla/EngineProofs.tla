---------------------------- MODULE EngineProofs ----------------------------
(***************************************************************************)
(* Proofs about Engine, for every ladder, evaluator and configuration, any *)
(* number of workers, iterations, runs and policy revisions, and whatever  *)
(* the calibrator, DIDS, the search and the scheduler choose.              *)
(***************************************************************************)
EXTENDS Engine, AcceptanceProofs, SequenceTheorems, WellFoundedInduction, TLAPS

-----------------------------------------------------------------------------
(* The inductive invariant.                                                *)

Candidate ==
  [x : XMesh, poll : BOOLEAN, epoch : Nat, next : Levels,
   status : DoneStatus \cup {"ready", "flight"}, audit : BOOLEAN, cut : 0 .. L,
   cheap : {"unchecked", "ok", "bad"}]

\* TypeOK with whole records, and where in the loop a run can be.
EngineTypes ==
  /\ AcceptTypeOK
  /\ ev \in Evaluators
  /\ run \in 1 .. Larger(MaxRuns, 1)
  /\ budget \in StepBudgets
  /\ workers \in WorkerCounts
  /\ phase \in Phases
  /\ iter \in 0 .. MaxIters
  /\ phase # "done" => iter < MaxIters
  /\ polled \in BOOLEAN /\ improved \in BOOLEAN
  /\ stepsLeft \in Nat \cup {NoBudget}
  /\ mul \in 1 .. Larger(MulInit, 1)
  /\ cands \in Seq(Candidate)
  /\ xBest \in XMesh \cup {NoX}
  /\ fBest \in Int \cup {NoF}
  /\ xBest = NoX <=> fBest = NoF
  /\ th \in Thresholds /\ asg \in Levels /\ rev \in Nat

\* The evaluation cache holds, under a point and a fidelity, the estimates of
\* that point at that fidelity.
EvalTrue ==
  \A k \in DOMAIN evalCache :
    /\ k[1] \in XMesh
    /\ \A p \in Levels : k[2] = Ladder[p] =>
         evalCache[k] \in Estimates /\ evalCache[k] = ev.est[k[1]][p]

\* A JobResult that a lookup for point x and level p of evaluator e may find.
ResultOK(e, d, x, p) ==
  \/ d.kind = "invalid" /\ e.est[x][p] = Invalid
  \/ /\ d.kind = "truth" /\ p = L
     /\ e.cheap[x] /\ d.est = e.est[x][p] /\ d.est \in Estimates
  \/ d.kind = "partial" /\ p < L /\ e.est[x][p] \in Estimates
  \/ /\ d.kind = "early" /\ p < L
     /\ e.cheap[x] /\ e.est[x][p] \in Estimates
     /\ \E t \in Thresholds : EarlyInfeasible(e.est[x][p], p, t)

\* The decision cache holds such results under the keys that are looked up.
DecTrue ==
  \A k \in DOMAIN decCache :
    /\ k[1] \in XMesh
    /\ \A p \in Levels : k[2] = Ladder[p] /\ k[4] = TagOf(p) =>
         ResultOK(ev, decCache[k], k[1], p)

\* What execute_one may leave for candidate c.
OutcomeOK(e, out, c) ==
  \/ DOMAIN out = {"cached"} /\ ResultOK(e, out.cached, c.x, c.next)
  \/ DOMAIN out = {"est"} /\ out.est = e.est[c.x][c.next] /\ out.est \in Estimates
  \/ DOMAIN out = {"none"}

\* A work item is for the level its candidate waits at.
ItemOK(i) ==
  \/ work[i] \in [pc : {"decision", "eval", "compute"}, phi : {cands[i].next}]
  \/ /\ work[i].pc = "done" /\ work[i].phi = cands[i].next
     /\ OutcomeOK(ev, work[i].out, cands[i])

\* The batch is what is in flight, and there is one only until it is joined.
Batch ==
  /\ DOMAIN work = {i \in DOMAIN cands : cands[i].status = "flight"}
  /\ \A i \in DOMAIN work : ItemOK(i)
  /\ phase = "join" => \A i \in DOMAIN work : work[i].pc = "done"
  /\ phase \notin {"batch", "join", "panicked"} => DOMAIN work = {}

\* What a candidate's flags say of its point.
CandidateOK(e, c) ==
  /\ c.cheap = "ok" => e.cheap[c.x]
  /\ c.cheap = "bad" => ~e.cheap[c.x]
  /\ c.status = "truth" => e.cheap[c.x] /\ e.est[c.x][L] \in Estimates
  /\ c.audit => e.cheap[c.x]
  /\ c.audit /\ PruneNotAudited =>
       c.status \in {"ready", "flight", "truth", "invalid"}

Candidates == \A i \in DOMAIN cands : CandidateOK(ev, cands[i])

FeasibleOnly == H0 <= 0 /\ HMin <= 0

\* The incumbent is a candidate of the run that was evaluated at TRUTH, and
\* so is every point of the filter.
Best ==
  /\ xBest # NoX => \E j \in DOMAIN cands :
       /\ cands[j].status = "truth" /\ cands[j].x = xBest
       /\ fBest = TruthOf(xBest).f
       /\ FeasibleOnly => Violation(xBest) = 0
  /\ \A q \in points : \E i \in DOMAIN cands :
       /\ cands[i].status = "truth"
       /\ q.f = TruthOf(cands[i].x).f
       /\ q.v = Violation(cands[i].x)
  /\ FeasibleOnly => h = 0

\* In the first run a decision that bears the current revision was made under
\* the current policy, and none bears a later revision.
FirstRun ==
  run = 1 =>
    /\ \A k \in DOMAIN decCache :
         /\ k[3] \in Nat /\ k[3] <= rev
         /\ k[3] = rev => decCache[k].policy = <<th, asg>>
    /\ \A i \in DOMAIN work :
         work[i].pc = "done" /\ DOMAIN work[i].out = {"cached"} =>
           work[i].out.cached.policy = <<th, asg>>

EngineInv ==
  /\ EngineTypes /\ EvalTrue /\ DecTrue /\ Batch /\ Candidates /\ Best
  /\ FirstRun /\ StoppedIsBeaten

-----------------------------------------------------------------------------
(* Helpers.                                                                *)

\* A set of numbers that is not empty has a least one.
LEMMA LeastExists ==
  ASSUME NEW S, S \subseteq Nat, S # {}
  PROVE  \E n \in S : \A m \in S : n <= m
<1> DEFINE R == OpToRel(<, Nat)
<1>1. IsWellFoundedOn(R, Nat)
  BY NatLessThanWellFounded
<1>2. \A m, n \in S : <<m, n>> \in R <=> m < n
  BY DEF OpToRel
<1> HIDE DEF R
<1>3. PICK n \in S : \A m \in S : ~(<<m, n>> \in R)
  BY <1>1, WFMin
<1>4. \A m \in S : m \in Nat /\ n \in Nat /\ ~(m < n)
  BY <1>2, <1>3
<1> QED BY <1>4

\* An audited candidate moves up, and not beyond TRUTH.
LEMMA AuditTargetUp ==
  ASSUME NEW cut \in 0 .. L, NEW p \in Levels, p < L
  PROVE  NextAuditTarget(cut, p) \in Levels /\ NextAuditTarget(cut, p) > p
<1> DEFINE ahead == {q \in Paired(cut) : q > p}
<1>1. L \in Nat
  BY LadderAssumption
<1>2. \A q \in ahead : q \in Levels /\ q \in Nat /\ q > p
  BY <1>1 DEF Paired, Levels
<1>3. L \in Levels
  BY LadderAssumption DEF Levels
<1>4. CASE ahead = {}
  <2>1. NextAuditTarget(cut, p) = L
    BY <1>4 DEF NextAuditTarget
  <2> QED BY <2>1, <1>3, <1>1 DEF Levels
<1>5. CASE ahead # {}
  <2>1. \E q \in ahead : \A r \in ahead : q <= r
    <3>1. ahead \subseteq Nat
      BY <1>2
    <3> QED BY <3>1, <1>5, LeastExists
  <2>2. NextAuditTarget(cut, p) = CHOOSE q \in ahead : \A r \in ahead : q <= r
    BY <1>5 DEF NextAuditTarget
  <2>3. NextAuditTarget(cut, p) \in ahead
    BY <2>1, <2>2
  <2> QED BY <2>3, <1>2
<1> QED BY <1>4, <1>5

\* So does every candidate.
LEMMA NextLevelUp ==
  ASSUME NEW c \in Candidate, NEW p \in Levels, p < L
  PROVE  NextLevel(c, p) \in Levels /\ NextLevel(c, p) > p
<1>1. c.cut \in 0 .. L
  BY DEF Candidate
<1>2. p + 1 \in Levels /\ p + 1 > p
  BY LadderAssumption DEF Levels
<1> QED BY <1>1, <1>2, AuditTargetUp DEF NextLevel

\* What evaluators return.
LEMMA EstType ==
  ASSUME NEW e \in Evaluators, NEW x \in XMesh, NEW p \in Levels
  PROVE  /\ e.est[x][p] \in Estimates \cup {Invalid, Panic}
         /\ e.cheap[x] \in BOOLEAN
         /\ \A q \in Levels : Ladder[p] = Ladder[q] => e.est[x][p] = e.est[x][q]
BY EngineAssumption

\* Levels with the same fidelity and tag can share a result.
LEMMA ResultShared ==
  ASSUME NEW e \in Evaluators, NEW x \in XMesh, NEW p \in Levels, NEW q \in Levels,
         Ladder[p] = Ladder[q], TagOf(p) = TagOf(q), NEW d, ResultOK(e, d, x, p)
  PROVE  ResultOK(e, d, x, q)
<1>1. e.est[x][p] = e.est[x][q]
  BY EstType
<1>2. p = L <=> q = L
  BY DEF TagOf
<1>3. p < L <=> q < L
  BY <1>2, LadderAssumption DEF Levels
<1>4. \A t : EarlyInfeasible(e.est[x][q], q, t) <=> EarlyInfeasible(e.est[x][p], p, t)
  BY <1>1 DEF EarlyInfeasible, Bias
<1> QED BY <1>1, <1>2, <1>3, <1>4 DEF ResultOK

\* A result that is true of its point may be cached.
LEMMA DecPut ==
  ASSUME EngineTypes, DecTrue, NEW x \in XMesh, NEW p \in Levels, NEW d,
         ResultOK(ev, d, x, p), UNCHANGED ev,
         decCache' = Put(decCache, DecisionKey(x, p, TagOf(p)), d)
  PROVE  DecTrue'
<1> DEFINE key == DecisionKey(x, p, TagOf(p))
<1>1. /\ DOMAIN decCache' = DOMAIN decCache \cup {key}
      /\ decCache'[key] = d
      /\ \A k \in DOMAIN decCache : k # key => decCache'[k] = decCache[k]
  BY DEF Put
<1>2. key[1] = x /\ key[2] = Ladder[p] /\ key[4] = TagOf(p)
  BY DEF DecisionKey, EvalKey
<1>3. ev \in Evaluators
  BY DEF EngineTypes
<1>4. \A q \in Levels : Ladder[p] = Ladder[q] /\ TagOf(p) = TagOf(q) => ResultOK(ev, d, x, q)
  BY <1>3, ResultShared
<1> HIDE DEF key
<1> QED BY <1>1, <1>2, <1>4 DEF DecTrue

\* The verdict of the cheap constraints is never looked up.
LEMMA DecPutCheap ==
  ASSUME DecTrue, NEW x \in XMesh, NEW p \in Levels, NEW d, UNCHANGED ev,
         decCache' = Put(decCache, DecisionKey(x, p, "cheap"), d)
  PROVE  DecTrue'
<1> DEFINE key == DecisionKey(x, p, "cheap")
<1>1. /\ DOMAIN decCache' = DOMAIN decCache \cup {key}
      /\ decCache'[key] = d
      /\ \A k \in DOMAIN decCache : k # key => decCache'[k] = decCache[k]
  BY DEF Put
<1>2. key[1] = x /\ key[4] = "cheap"
  BY DEF DecisionKey, EvalKey
<1>3. \A q : TagOf(q) # "cheap"
  BY DEF TagOf
<1> HIDE DEF key
<1> QED BY <1>1, <1>2, <1>3 DEF DecTrue

\* Estimates of the black box may be cached.
LEMMA EvalPut ==
  ASSUME EngineTypes, EvalTrue, NEW x \in XMesh, NEW p \in Levels,
         ev.est[x][p] \in Estimates, UNCHANGED ev,
         evalCache' = Put(evalCache, EvalKey(x, p), ev.est[x][p])
  PROVE  EvalTrue'
<1> DEFINE key == EvalKey(x, p)
           e == ev.est[x][p]
<1>1. /\ DOMAIN evalCache' = DOMAIN evalCache \cup {key}
      /\ evalCache'[key] = e
      /\ \A k \in DOMAIN evalCache : k # key => evalCache'[k] = evalCache[k]
  BY DEF Put
<1>2. key[1] = x /\ key[2] = Ladder[p]
  BY DEF DecisionKey, EvalKey
<1>3. \A q \in Levels : Ladder[p] = Ladder[q] => ev.est[x][q] = e
  BY EstType DEF EngineTypes
<1>4. e \in Estimates /\ ev' = ev
  OBVIOUS
<1> HIDE DEF key, e
<1> QED BY <1>1, <1>2, <1>3, <1>4 DEF EvalTrue

\* Candidates are appended to the store.
LEMMA StoreGrows ==
  ASSUME cands \in Seq(Candidate), NEW n \in Nat, NEW new \in [1 .. n -> Candidate],
         cands' = cands \o new
  PROVE  /\ cands' \in Seq(Candidate)
         /\ DOMAIN cands = 1 .. Len(cands) /\ DOMAIN cands' = 1 .. Len(cands) + n
         /\ Len(cands) \in Nat /\ Len(cands') = Len(cands) + n
         /\ \A i \in DOMAIN cands : i \in DOMAIN cands' /\ cands'[i] = cands[i]
         /\ \A k \in 1 .. n : cands'[Len(cands) + k] = new[k]
         /\ \A i \in DOMAIN cands' \ DOMAIN cands : \E k \in 1 .. n : cands'[i] = new[k]
<1>1. new \in Seq(Candidate) /\ Len(new) = n
  OBVIOUS
<1>2. /\ cands' \in Seq(Candidate) /\ Len(cands') = Len(cands) + Len(new)
      /\ \A i \in 1 .. Len(cands) + Len(new) :
           cands'[i] = IF i <= Len(cands) THEN cands[i] ELSE new[i - Len(cands)]
  BY <1>1, ConcatProperties
<1>3. DOMAIN cands = 1 .. Len(cands) /\ DOMAIN cands' = 1 .. Len(cands) + n /\ Len(cands) \in Nat
  BY <1>1, <1>2
<1>4. ASSUME NEW k \in 1 .. n PROVE cands'[Len(cands) + k] = new[k]
  <2>1. /\ Len(cands) + k \in 1 .. Len(cands) + Len(new) /\ ~(Len(cands) + k <= Len(cands))
        /\ (Len(cands) + k) - Len(cands) = k
    BY <1>1, <1>3
  <2> QED BY <2>1, <1>2
<1>5. ASSUME NEW i \in DOMAIN cands PROVE i \in DOMAIN cands' /\ cands'[i] = cands[i]
  <2>1. i \in 1 .. Len(cands) + Len(new) /\ i <= Len(cands)
    BY <1>1, <1>3
  <2> QED BY <2>1, <1>1, <1>2, <1>3
<1>6. ASSUME NEW i \in DOMAIN cands' \ DOMAIN cands PROVE \E k \in 1 .. n : cands'[i] = new[k]
  <2>1. i \in 1 .. Len(cands) + Len(new) /\ ~(i <= Len(cands)) /\ i - Len(cands) \in 1 .. n
    BY <1>1, <1>3
  <2> QED BY <2>1, <1>2
<1>7. Len(cands') = Len(cands) + n
  BY <1>1, <1>2
<1> QED BY <1>2, <1>3, <1>4, <1>5, <1>6, <1>7

-----------------------------------------------------------------------------
(* What a step that leaves something alone keeps.                          *)

\* The store only grows, and finished candidates stay as they are.
Grows ==
  \A j \in DOMAIN cands :
    /\ j \in DOMAIN cands'
    /\ cands[j].status \in DoneStatus => cands'[j] = cands[j]

\* What StoppedIsBeaten asks for point x.
Beaten(x) ==
  \E j \in DOMAIN cands :
    /\ cands[j].status = "truth"
    /\ TruthOf(cands[j].x).f - PruneEps <= TruthOf(x).f
    /\ FeasibleOnly => Violation(cands[j].x) = 0

\* Parts of the invariant that depend on nothing that changed.
LEMMA Frame ==
  ASSUME EngineInv, UNCHANGED ev
  PROVE  /\ UNCHANGED evalCache => EvalTrue'
         /\ UNCHANGED decCache => DecTrue'
         /\ UNCHANGED cands => Candidates' /\ StoppedIsBeaten'
         /\ UNCHANGED <<cands, bestVars, acceptVars>> => Best'
         /\ UNCHANGED <<run, policyVars, decCache, work>> => FirstRun'
         /\ UNCHANGED <<cands, work, phase>> => Batch'
<1> USE DEF EngineInv
<1>1. UNCHANGED evalCache => EvalTrue'
  BY DEF EvalTrue
<1>2. UNCHANGED decCache => DecTrue'
  BY DEF DecTrue
<1>3. UNCHANGED cands => Candidates'
  BY DEF Candidates
<1>4. UNCHANGED cands => StoppedIsBeaten'
  BY DEF StoppedIsBeaten, SoundMargins, TruthOf, Violation
<1>5. UNCHANGED <<cands, bestVars, acceptVars>> => Best'
  BY DEF Best, TruthOf, Violation, bestVars, acceptVars
<1>6. UNCHANGED <<run, policyVars, decCache, work>> => FirstRun'
  BY DEF FirstRun, policyVars
<1>7. UNCHANGED <<cands, work, phase>> => Batch'
  BY DEF Batch, ItemOK
<1> QED BY <1>1, <1>2, <1>3, <1>4, <1>5, <1>6, <1>7

\* The incumbent and the filter when the store grows.
LEMMA BestKept ==
  ASSUME EngineInv, Grows, UNCHANGED <<ev, points, bestVars>>,
         FeasibleOnly => h' = 0
  PROVE  Best'
<1>1. UNCHANGED <<ev, points, xBest, fBest>> /\ Best
  BY DEF bestVars, EngineInv
<1>2. \A x : TruthOf(x)' = TruthOf(x) /\ Violation(x)' = Violation(x)
  BY DEF TruthOf, Violation
<1>3. \A j \in DOMAIN cands : cands[j].status = "truth" =>
        j \in DOMAIN cands' /\ cands'[j] = cands[j]
  BY DEF Grows, DoneStatus
<1>4. xBest # NoX => \E j \in DOMAIN cands' :
        /\ cands'[j].status = "truth" /\ cands'[j].x = xBest
        /\ fBest = TruthOf(xBest).f
        /\ FeasibleOnly => Violation(xBest) = 0
  BY <1>1, <1>3 DEF Best
<1>5. \A q \in points : \E i \in DOMAIN cands' :
        /\ cands'[i].status = "truth"
        /\ q.f = TruthOf(cands'[i].x).f
        /\ q.v = Violation(cands'[i].x)
  BY <1>1, <1>3 DEF Best
<1> QED BY <1>1, <1>4, <1>5 DEF Best, TruthOf, Violation, FeasibleOnly

\* Stopped candidates when the store grows.
LEMMA StoppedKept ==
  ASSUME EngineInv, Grows, UNCHANGED ev,
         \A j \in DOMAIN cands' : cands'[j].status = "stopped" =>
           \/ j \in DOMAIN cands /\ cands[j].status = "stopped"
           \/ SoundMargins /\ TruthOf(cands'[j].x) \in Estimates => Beaten(cands'[j].x)
  PROVE  StoppedIsBeaten'
<1>1. ASSUME NEW x, Beaten(x)
      PROVE  \E j \in DOMAIN cands' :
               /\ cands'[j].status = "truth"
               /\ TruthOf(cands'[j].x).f - PruneEps <= TruthOf(x).f
               /\ FeasibleOnly => Violation(cands'[j].x) = 0
  <2>1. PICK j \in DOMAIN cands :
          /\ cands[j].status = "truth"
          /\ TruthOf(cands[j].x).f - PruneEps <= TruthOf(x).f
          /\ FeasibleOnly => Violation(cands[j].x) = 0
    BY <1>1 DEF Beaten
  <2>2. j \in DOMAIN cands' /\ cands'[j] = cands[j]
    BY <2>1 DEF Grows, DoneStatus
  <2> QED BY <2>1, <2>2
<1>2. ASSUME NEW j \in DOMAIN cands, cands[j].status = "stopped", SoundMargins,
             TruthOf(cands[j].x) \in Estimates
      PROVE  Beaten(cands[j].x)
  BY <1>2 DEF EngineInv, StoppedIsBeaten, Beaten, FeasibleOnly
<1>3. ASSUME NEW j \in DOMAIN cands', cands'[j].status = "stopped", SoundMargins,
             TruthOf(cands'[j].x) \in Estimates
      PROVE  Beaten(cands'[j].x)
  <2>1. CASE j \in DOMAIN cands /\ cands[j].status = "stopped"
    <3>1. cands'[j] = cands[j]
      BY <2>1 DEF Grows, DoneStatus
    <3> QED BY <2>1, <3>1, <1>2, <1>3
  <2> QED BY <2>1, <1>3
<1>4. SoundMargins' => SoundMargins
  BY DEF SoundMargins, TruthOf
<1>5. ASSUME NEW j \in DOMAIN cands', cands'[j].status = "stopped", SoundMargins,
             TruthOf(cands'[j].x) \in Estimates
      PROVE  \E k \in DOMAIN cands' :
               /\ cands'[k].status = "truth"
               /\ TruthOf(cands'[k].x).f - PruneEps <= TruthOf(cands'[j].x).f
               /\ FeasibleOnly => Violation(cands'[k].x) = 0
  BY <1>1, <1>3, <1>5
<1> QED BY <1>4, <1>5 DEF StoppedIsBeaten, FeasibleOnly, TruthOf, Violation


\* The first run's decisions when a decision is cached under the current
\* revision, and items leave or find such decisions.
LEMMA FirstRunKept ==
  ASSUME EngineInv, UNCHANGED <<run, policyVars>>,
         \/ UNCHANGED decCache
         \/ \E key, d : /\ decCache' = Put(decCache, key, d)
                        /\ key[3] = rev /\ d.policy = <<th, asg>>,
         \A j \in DOMAIN work' :
           \/ j \in DOMAIN work /\ work'[j] = work[j]
           \/ run = 1 /\ work'[j].pc = "done" /\ DOMAIN work'[j].out = {"cached"}
                => work'[j].out.cached.policy = <<th, asg>>
  PROVE  FirstRun'
<1>1. /\ rev \in Nat /\ FirstRun
      /\ run' = run /\ th' = th /\ asg' = asg /\ rev' = rev
  BY DEF EngineInv, EngineTypes, policyVars
<1>2. SUFFICES ASSUME run = 1
               PROVE  /\ \A k \in DOMAIN decCache' :
                           /\ k[3] \in Nat /\ k[3] <= rev
                           /\ k[3] = rev => decCache'[k].policy = <<th, asg>>
                      /\ \A i \in DOMAIN work' :
                           work'[i].pc = "done" /\ DOMAIN work'[i].out = {"cached"} =>
                             work'[i].out.cached.policy = <<th, asg>>
  BY <1>1 DEF FirstRun
<1>3. CASE UNCHANGED decCache
  BY <1>1, <1>2, <1>3 DEF FirstRun
<1>4. CASE \E key, d : /\ decCache' = Put(decCache, key, d)
                       /\ key[3] = rev /\ d.policy = <<th, asg>>
  <2>1. PICK key, d : /\ decCache' = Put(decCache, key, d)
                      /\ key[3] = rev /\ d.policy = <<th, asg>>
    BY <1>4
  <2>2. /\ DOMAIN decCache' = DOMAIN decCache \cup {key}
        /\ decCache'[key] = d
        /\ \A k \in DOMAIN decCache : k # key => decCache'[k] = decCache[k]
    BY <2>1 DEF Put
  <2>3. \A k \in DOMAIN decCache' :
          /\ k[3] \in Nat /\ k[3] <= rev
          /\ k[3] = rev => decCache'[k].policy = <<th, asg>>
    BY <1>1, <1>2, <2>1, <2>2 DEF FirstRun
  <2>4. \A i \in DOMAIN work' :
          work'[i].pc = "done" /\ DOMAIN work'[i].out = {"cached"} =>
            work'[i].out.cached.policy = <<th, asg>>
    BY <1>1, <1>2 DEF FirstRun
  <2> QED BY <2>3, <2>4
<1> QED BY <1>3, <1>4

-----------------------------------------------------------------------------
(* The work items.                                                         *)

\* What an item of the batch is for.
LEMMA ItemFacts ==
  ASSUME EngineInv, NEW i \in DOMAIN work
  PROVE  /\ i \in DOMAIN cands /\ cands[i] \in Candidate
         /\ cands[i].status = "flight" /\ cands[i].x \in XMesh
         /\ cands[i].next \in Levels /\ work[i].phi = cands[i].next
         /\ CandidateOK(ev, cands[i]) /\ ev \in Evaluators
<1>1. i \in DOMAIN cands /\ cands[i].status = "flight"
  BY DEF EngineInv, Batch
<1>2. cands[i] \in Candidate
  BY <1>1 DEF EngineInv, EngineTypes
<1>3. cands[i].x \in XMesh /\ cands[i].next \in Levels
  BY <1>2 DEF Candidate
<1>4. work[i].phi = cands[i].next
  BY DEF EngineInv, Batch, ItemOK
<1> QED BY <1>1, <1>2, <1>3, <1>4 DEF EngineInv, Candidates, EngineTypes

\* Item i becomes w, and nothing but the caches changes with it.
LEMMA ItemStep ==
  ASSUME EngineInv, ItemUnchanged, NEW i \in DOMAIN work, phase = "batch",
         NEW w, work' = [work EXCEPT ![i] = w], w.phi = cands[i].next,
         \/ w \in [pc : {"decision", "eval", "compute"}, phi : {cands[i].next}]
         \/ w.pc = "done" /\ OutcomeOK(ev, w.out, cands[i]),
         EvalTrue', DecTrue', FirstRun'
  PROVE  EngineInv'
<1>1. EngineTypes'
  BY DEF EngineInv, EngineTypes, ItemUnchanged, AcceptTypeOK, acceptVars, iterVars,
         runVars, bestVars, policyVars, HFloor
<1>2. UNCHANGED <<cands, ev, phase>>
  BY DEF ItemUnchanged
<1>3. DOMAIN work' = DOMAIN work /\ work'[i] = w /\ \A j \in DOMAIN work : j # i => work'[j] = work[j]
  OBVIOUS
<1>4. \A j \in DOMAIN work : ItemOK(j)
  BY DEF EngineInv, Batch
<1>5. \A j \in DOMAIN work' : ItemOK(j)'
  BY <1>2, <1>3, <1>4 DEF ItemOK
<1>6. Batch'
  BY <1>2, <1>3, <1>5 DEF EngineInv, Batch
<1>7. Candidates' /\ StoppedIsBeaten' /\ Best'
  BY <1>2, Frame DEF ItemUnchanged
<1> QED BY <1>1, <1>6, <1>7 DEF EngineInv

\* execute_one step by step.
LEMMA DoLookupDecision ==
  ASSUME EngineInv, NEW i, LookupDecision(i)
  PROVE  EngineInv'
<1> DEFINE p == work[i].phi
           key == DecisionKey(cands[i].x, p, TagOf(p))
<1>1. phase = "batch" /\ i \in DOMAIN work /\ work[i].pc = "decision"
  BY DEF LookupDecision, ItemAt
<1>2. /\ cands[i].x \in XMesh /\ p \in Levels /\ p = cands[i].next
      /\ ev \in Evaluators
  BY <1>1, ItemFacts
<1>3. UNCHANGED ev /\ UNCHANGED <<evalCache, decCache>> /\ UNCHANGED <<run, policyVars>>
      /\ ItemUnchanged
  BY DEF LookupDecision, ItemUnchanged, cacheVars, runVars
<1>4. EvalTrue' /\ DecTrue'
  BY <1>3, Frame
<1>5. key[1] = cands[i].x /\ key[2] = Ladder[p] /\ key[3] = rev /\ key[4] = TagOf(p)
  BY DEF DecisionKey
<1>6. CASE key \in DOMAIN decCache
  <2> DEFINE w == [pc |-> "done", phi |-> p, out |-> [cached |-> decCache[key]]]
  <2>1. work' = [work EXCEPT ![i] = w]
    BY <1>6 DEF LookupDecision, Outcome
  <2>2. ResultOK(ev, decCache[key], cands[i].x, p)
    <3> HIDE DEF key
    <3> QED BY <1>2, <1>5, <1>6 DEF EngineInv, DecTrue
  <2>3. OutcomeOK(ev, w.out, cands[i])
    BY <1>2, <2>2 DEF OutcomeOK
  <2>4. run = 1 => decCache[key].policy = <<th, asg>>
    <3> HIDE DEF key
    <3> QED BY <1>5, <1>6 DEF EngineInv, FirstRun
  <2>5. FirstRun'
    <3>1. \A j \in DOMAIN work' :
           \/ j \in DOMAIN work /\ work'[j] = work[j]
           \/ run = 1 /\ work'[j].pc = "done" /\ DOMAIN work'[j].out = {"cached"}
                => work'[j].out.cached.policy = <<th, asg>>
      BY <2>1, <2>4, <1>1
    <3> QED BY <3>1, <1>3, FirstRunKept
  <2>6. w.phi = cands[i].next /\ w.pc = "done"
    BY <1>2
  <2> HIDE DEF w
  <2> QED BY <1>1, <1>3, <1>4, <2>1, <2>3, <2>5, <2>6, ItemStep
<1>7. CASE key \notin DOMAIN decCache
  <2> DEFINE w == [work[i] EXCEPT !.pc = "eval"]
  <2>1. work' = [work EXCEPT ![i] = w]
    BY <1>7 DEF LookupDecision
  <2>2. work[i] \in [pc : {"decision", "eval", "compute"}, phi : {cands[i].next}]
    BY <1>1 DEF EngineInv, Batch, ItemOK
  <2>3. w \in [pc : {"decision", "eval", "compute"}, phi : {cands[i].next}] /\ w.phi = cands[i].next
    BY <2>2
  <2>4. w.pc # "done"
    BY <2>2
  <2>5. FirstRun'
    <3>1. \A j \in DOMAIN work' :
           \/ j \in DOMAIN work /\ work'[j] = work[j]
           \/ run = 1 /\ work'[j].pc = "done" /\ DOMAIN work'[j].out = {"cached"}
                => work'[j].out.cached.policy = <<th, asg>>
      BY <2>1, <2>4, <1>1
    <3> QED BY <3>1, <1>3, FirstRunKept
  <2> HIDE DEF w
  <2> QED BY <1>1, <1>3, <1>4, <2>1, <2>3, <2>5, ItemStep
<1> QED BY <1>6, <1>7

LEMMA DoLookupEval ==
  ASSUME EngineInv, NEW i, LookupEval(i)
  PROVE  EngineInv'
<1> DEFINE p == work[i].phi
           key == EvalKey(cands[i].x, p)
<1>1. phase = "batch" /\ i \in DOMAIN work /\ work[i].pc = "eval"
  BY DEF LookupEval, ItemAt
<1>2. /\ cands[i].x \in XMesh /\ p \in Levels /\ p = cands[i].next
      /\ ev \in Evaluators
  BY <1>1, ItemFacts
<1>3. UNCHANGED ev /\ UNCHANGED <<evalCache, decCache>> /\ UNCHANGED <<run, policyVars>>
      /\ ItemUnchanged
  BY DEF LookupEval, ItemUnchanged, cacheVars, runVars
<1>4. EvalTrue' /\ DecTrue'
  BY <1>3, Frame
<1>5. key[1] = cands[i].x /\ key[2] = Ladder[p]
  BY DEF EvalKey
<1>6. CASE key \in DOMAIN evalCache
  <2> DEFINE w == [pc |-> "done", phi |-> p, out |-> [est |-> evalCache[key]]]
  <2>1. work' = [work EXCEPT ![i] = w]
    BY <1>6 DEF LookupEval, Outcome
  <2>2. evalCache[key] = ev.est[cands[i].x][p] /\ evalCache[key] \in Estimates
    <3> HIDE DEF key
    <3> QED BY <1>2, <1>5, <1>6 DEF EngineInv, EvalTrue
  <2>3. OutcomeOK(ev, w.out, cands[i])
    BY <1>2, <2>2 DEF OutcomeOK
  <2>5. FirstRun'
    <3>1. \A j \in DOMAIN work' :
           \/ j \in DOMAIN work /\ work'[j] = work[j]
           \/ run = 1 /\ work'[j].pc = "done" /\ DOMAIN work'[j].out = {"cached"}
                => work'[j].out.cached.policy = <<th, asg>>
      <4>1. DOMAIN w.out = {"est"}
        OBVIOUS
      <4>2. {"est"} # {"cached"}
        OBVIOUS
      <4> HIDE DEF w
      <4> QED BY <2>1, <1>1, <4>1, <4>2
    <3> QED BY <3>1, <1>3, FirstRunKept
  <2>6. w.phi = cands[i].next /\ w.pc = "done"
    BY <1>2
  <2> HIDE DEF w
  <2> QED BY <1>1, <1>3, <1>4, <2>1, <2>3, <2>5, <2>6, ItemStep
<1>7. CASE key \notin DOMAIN evalCache
  <2> DEFINE w == [work[i] EXCEPT !.pc = "compute"]
  <2>1. work' = [work EXCEPT ![i] = w]
    BY <1>7 DEF LookupEval
  <2>2. work[i] \in [pc : {"decision", "eval", "compute"}, phi : {cands[i].next}]
    BY <1>1 DEF EngineInv, Batch, ItemOK
  <2>3. w \in [pc : {"decision", "eval", "compute"}, phi : {cands[i].next}] /\ w.phi = cands[i].next
    BY <2>2
  <2>4. w.pc # "done"
    BY <2>2
  <2>5. FirstRun'
    <3>1. \A j \in DOMAIN work' :
           \/ j \in DOMAIN work /\ work'[j] = work[j]
           \/ run = 1 /\ work'[j].pc = "done" /\ DOMAIN work'[j].out = {"cached"}
                => work'[j].out.cached.policy = <<th, asg>>
      BY <2>1, <2>4, <1>1
    <3> QED BY <3>1, <1>3, FirstRunKept
  <2> HIDE DEF w
  <2> QED BY <1>1, <1>3, <1>4, <2>1, <2>3, <2>5, ItemStep
<1> QED BY <1>6, <1>7

LEMMA DoCompute ==
  ASSUME EngineInv, NEW i, Compute(i)
  PROVE  EngineInv'
<1> DEFINE x == cands[i].x
           p == work[i].phi
           e == ev.est[x][p]
           key == DecisionKey(x, p, TagOf(p))
<1>1. phase = "batch" /\ i \in DOMAIN work /\ work[i].pc = "compute"
  BY DEF Compute, ItemAt
<1>2. x \in XMesh /\ p \in Levels /\ p = cands[i].next /\ ev \in Evaluators
  BY <1>1, ItemFacts
<1>3. UNCHANGED ev /\ UNCHANGED <<run, policyVars>> /\ ItemUnchanged
  BY DEF Compute, ItemUnchanged, runVars
<1>4. e \in Estimates \cup {Invalid, Panic}
  BY <1>2, EstType
<1>5. EngineTypes /\ EvalTrue /\ DecTrue
  BY DEF EngineInv
<1>6. CASE e = Invalid
  <2> DEFINE d == Decided("invalid", e)
             w == [pc |-> "done", phi |-> p, out |-> [cached |-> d]]
  <2>0. Panic # Invalid
    BY DEF Panic, Invalid
  <2>1. /\ work' = [work EXCEPT ![i] = w]
        /\ decCache' = Put(decCache, key, d)
        /\ UNCHANGED evalCache
    BY <1>6, <2>0 DEF Compute, Outcome
  <2>2. d.kind = "invalid" /\ d.policy = <<th, asg>> /\ key[3] = rev
    BY DEF Decided, DecisionKey
  <2>3. ResultOK(ev, d, x, p)
    BY <1>6, <2>2 DEF ResultOK
  <2>4. DecTrue' /\ EvalTrue'
    <3> HIDE DEF d, x, p
    <3>1. DecTrue'
      BY <1>2, <1>3, <1>5, <2>1, <2>3, DecPut
    <3> QED BY <3>1, <2>1, <1>3, Frame
  <2>5. /\ OutcomeOK(ev, w.out, cands[i]) /\ w.phi = cands[i].next /\ w.pc = "done"
        /\ w.out.cached.policy = <<th, asg>>
    BY <1>2, <2>3, <2>2 DEF OutcomeOK
  <2>6. FirstRun'
    <3>1. \A j \in DOMAIN work' :
           \/ j \in DOMAIN work /\ work'[j] = work[j]
           \/ run = 1 /\ work'[j].pc = "done" /\ DOMAIN work'[j].out = {"cached"}
                => work'[j].out.cached.policy = <<th, asg>>
      <4> HIDE DEF w
      <4> QED BY <2>1, <2>5, <1>1
    <3> HIDE DEF d, key
    <3> QED BY <3>1, <1>3, <2>1, <2>2, FirstRunKept
  <2> HIDE DEF w
  <2> QED BY <1>1, <1>3, <2>1, <2>4, <2>5, <2>6, ItemStep
<1>7. CASE e = Panic
  <2> DEFINE w == [pc |-> "done", phi |-> p, out |-> [none |-> TRUE]]
  <2>0. Panic # Invalid
    BY DEF Panic, Invalid
  <2>1. work' = [work EXCEPT ![i] = w] /\ UNCHANGED <<evalCache, decCache>>
    BY <1>7, <2>0 DEF Compute, Outcome, cacheVars
  <2>2. OutcomeOK(ev, w.out, cands[i]) /\ w.phi = cands[i].next /\ w.pc = "done"
    BY <1>2 DEF OutcomeOK
  <2>3. EvalTrue' /\ DecTrue'
    BY <1>3, <2>1, Frame
  <2>4. DOMAIN w.out = {"none"} /\ {"none"} # {"cached"}
    OBVIOUS
  <2>5. FirstRun'
    <3>1. \A j \in DOMAIN work' :
           \/ j \in DOMAIN work /\ work'[j] = work[j]
           \/ run = 1 /\ work'[j].pc = "done" /\ DOMAIN work'[j].out = {"cached"}
                => work'[j].out.cached.policy = <<th, asg>>
      <4> HIDE DEF w
      <4> QED BY <2>1, <2>4, <1>1
    <3> QED BY <3>1, <1>3, <2>1, FirstRunKept
  <2> HIDE DEF w
  <2> QED BY <1>1, <1>3, <2>1, <2>2, <2>3, <2>5, ItemStep
<1>8. CASE e \in Estimates /\ e # Invalid /\ e # Panic
  <2> DEFINE w == [pc |-> "done", phi |-> p, out |-> [est |-> e]]
  <2>1. /\ work' = [work EXCEPT ![i] = w] /\ UNCHANGED decCache
        /\ evalCache' = Put(evalCache, EvalKey(x, p), e)
    BY <1>8 DEF Compute, Outcome
  <2>2. OutcomeOK(ev, w.out, cands[i]) /\ w.phi = cands[i].next /\ w.pc = "done"
    BY <1>2, <1>8 DEF OutcomeOK
  <2>3. EvalTrue'
    <3> HIDE DEF x, p
    <3> QED BY <1>2, <1>3, <1>5, <1>8, <2>1, EvalPut
  <2>4. DecTrue'
    BY <1>3, <2>1, Frame
  <2>5. DOMAIN w.out = {"est"} /\ {"est"} # {"cached"}
    OBVIOUS
  <2>6. FirstRun'
    <3>1. \A j \in DOMAIN work' :
           \/ j \in DOMAIN work /\ work'[j] = work[j]
           \/ run = 1 /\ work'[j].pc = "done" /\ DOMAIN work'[j].out = {"cached"}
                => work'[j].out.cached.policy = <<th, asg>>
      <4> HIDE DEF w
      <4> QED BY <2>1, <2>5, <1>1
    <3> QED BY <3>1, <1>3, <2>1, FirstRunKept
  <2> HIDE DEF w
  <2> QED BY <1>1, <1>3, <2>1, <2>2, <2>3, <2>4, <2>6, ItemStep
<1> QED BY <1>4, <1>6, <1>7, <1>8

-----------------------------------------------------------------------------
(* materialize_job_result.                                                 *)

\* What the outcome whose turn it is says of its candidate.
LEMMA AtTurn ==
  ASSUME EngineInv, NEW i, Turn(i)
  PROVE  /\ phase = "join" /\ i \in DOMAIN work /\ i \in DOMAIN cands
         /\ cands[i] \in Candidate /\ cands[i].status = "flight"
         /\ cands[i].x \in XMesh /\ cands[i].next \in Levels
         /\ work[i].phi = cands[i].next
         /\ CandidateOK(ev, cands[i]) /\ ev \in Evaluators
         /\ HasCached(i) => ResultOK(ev, work[i].out.cached, cands[i].x, cands[i].next)
         /\ HasEst(i) => /\ work[i].out.est = ev.est[cands[i].x][cands[i].next]
                         /\ work[i].out.est \in Estimates
<1>1. phase = "join" /\ i \in DOMAIN work
  BY DEF Turn
<1>2. OutcomeOK(ev, work[i].out, cands[i])
  BY <1>1 DEF EngineInv, Batch, ItemOK
<1>3. HasCached(i) => ResultOK(ev, work[i].out.cached, cands[i].x, cands[i].next)
  BY <1>2 DEF HasCached, OutcomeOK
<1>4. HasEst(i) => /\ work[i].out.est = ev.est[cands[i].x][cands[i].next]
                   /\ work[i].out.est \in Estimates
  BY <1>2 DEF HasEst, OutcomeOK
<1> QED BY <1>1, <1>3, <1>4, ItemFacts

\* Candidate i becomes c: the store and the batch.
LEMMA SettleParts ==
  ASSUME EngineInv, phase = "join", NEW i \in DOMAIN work, NEW c \in Candidate,
         c.status # "flight", CandidateOK(ev, c), Settle(i, c), UNCHANGED <<ev, phase>>
  PROVE  /\ cands' \in Seq(Candidate)
         /\ DOMAIN cands' = DOMAIN cands /\ i \in DOMAIN cands /\ cands'[i] = c
         /\ \A j \in DOMAIN cands : j # i => cands'[j] = cands[j]
         /\ DOMAIN work' = DOMAIN work \ {i}
         /\ \A j \in DOMAIN work' : work'[j] = work[j]
         /\ Grows /\ Batch' /\ Candidates'
<1>1. i \in DOMAIN cands /\ cands[i].status = "flight"
  BY ItemFacts
<1>2. cands \in Seq(Candidate)
  BY DEF EngineInv, EngineTypes
<1>3. cands' = [cands EXCEPT ![i] = c] /\ work' = Without(i)
  BY DEF Settle
<1>4. /\ cands' \in Seq(Candidate) /\ DOMAIN cands' = DOMAIN cands /\ cands'[i] = c
      /\ \A j \in DOMAIN cands : j # i => cands'[j] = cands[j]
  BY <1>1, <1>2, <1>3
<1>5. /\ DOMAIN work' = DOMAIN work \ {i}
      /\ \A j \in DOMAIN work' : work'[j] = work[j]
  BY <1>3 DEF Without
<1>6. Grows
  BY <1>1, <1>4 DEF Grows, DoneStatus
<1>7. Candidates'
  BY <1>4 DEF EngineInv, Candidates
<1>8. \A j \in DOMAIN work' : ItemOK(j)'
  <2>1. \A j \in DOMAIN work' : j \in DOMAIN work /\ j # i /\ j \in DOMAIN cands /\ ItemOK(j)
    BY <1>5 DEF EngineInv, Batch
  <2> QED BY <2>1, <1>4, <1>5 DEF ItemOK
<1>9. DOMAIN work' = {j \in DOMAIN cands' : cands'[j].status = "flight"}
  BY <1>4, <1>5 DEF EngineInv, Batch
<1>10. \A j \in DOMAIN work' : work'[j].pc = "done"
  BY <1>5 DEF EngineInv, Batch
<1> QED BY <1>1, <1>4, <1>5, <1>6, <1>7, <1>8, <1>9, <1>10 DEF Batch

\* A decision that a step may cache.
Recorded ==
  \/ UNCHANGED decCache
  \/ \E key, d : /\ decCache' = Put(decCache, key, d)
                 /\ key[3] = rev /\ d.policy = <<th, asg>>

\* The types of what materialize_job_result leaves alone.
LEMMA MatTypes ==
  ASSUME EngineInv, MatUnchanged, cands' \in Seq(Candidate), AcceptTypeOK',
         improved' \in BOOLEAN, xBest' \in XMesh \cup {NoX}, fBest' \in Int \cup {NoF},
         xBest' = NoX <=> fBest' = NoF
  PROVE  EngineTypes'
BY DEF EngineInv, EngineTypes, MatUnchanged, runVars, policyVars

\* Candidate i becomes c and the incumbent stays.
LEMMA Settled ==
  ASSUME EngineInv, phase = "join", NEW i \in DOMAIN work, NEW c \in Candidate,
         c.status # "flight", CandidateOK(ev, c), Settle(i, c),
         c.status = "stopped" =>
           (SoundMargins /\ TruthOf(c.x) \in Estimates => Beaten(c.x)),
         MatUnchanged, NoTruth, DecTrue', Recorded
  PROVE  EngineInv'
<1>1. /\ UNCHANGED <<ev, phase>> /\ UNCHANGED evalCache /\ UNCHANGED <<run, policyVars>>
      /\ UNCHANGED <<improved, bestVars, acceptVars>>
  BY DEF MatUnchanged, NoTruth, runVars
<1>2. /\ cands' \in Seq(Candidate)
      /\ DOMAIN cands' = DOMAIN cands /\ cands'[i] = c
      /\ \A j \in DOMAIN cands : j # i => cands'[j] = cands[j]
      /\ DOMAIN work' = DOMAIN work \ {i}
      /\ \A j \in DOMAIN work' : work'[j] = work[j]
      /\ Grows /\ Batch' /\ Candidates'
  BY <1>1, SettleParts
<1>3. EngineTypes'
  <2>1. AcceptTypeOK'
    BY <1>1 DEF EngineInv, EngineTypes, AcceptTypeOK, acceptVars, HFloor
  <2> QED BY <2>1, <1>1, <1>2, MatTypes DEF bestVars, EngineInv, EngineTypes
<1>4. EvalTrue'
  BY <1>1, Frame
<1>5. Best'
  <2>1. FeasibleOnly => h' = 0
    BY <1>1 DEF EngineInv, Best, acceptVars
  <2> QED BY <2>1, <1>1, <1>2, BestKept DEF acceptVars
<1>6. FirstRun'
  BY <1>1, <1>2, FirstRunKept DEF Recorded
<1>7. StoppedIsBeaten'
  BY <1>1, <1>2, StoppedKept
<1> QED BY <1>2, <1>3, <1>4, <1>5, <1>6, <1>7 DEF EngineInv

\* A decision is cached for the level at hand.
LEMMA RecordKept ==
  ASSUME EngineInv, NEW i \in DOMAIN work, NEW kind, NEW e, Record(i, kind, e),
         \A d : d.kind = kind /\ d.est = e => ResultOK(ev, d, cands[i].x, cands[i].next),
         UNCHANGED ev
  PROVE  DecTrue' /\ Recorded
<1> DEFINE d == Decided(kind, e)
           x == cands[i].x
           p == cands[i].next
           key == DecisionKey(x, p, TagOf(p))
<1>1. x \in XMesh /\ p \in Levels /\ work[i].phi = p
  BY ItemFacts
<1>2. decCache' = Put(decCache, key, d)
  BY <1>1 DEF Record
<1>3. d.kind = kind /\ d.est = e /\ d.policy = <<th, asg>> /\ key[3] = rev
  BY DEF Decided, DecisionKey
<1>4. EngineTypes /\ DecTrue
  BY DEF EngineInv
<1>5. ResultOK(ev, d, x, p)
  BY <1>3
<1>6. Recorded
  <2> HIDE DEF key, d
  <2> QED BY <1>2, <1>3 DEF Recorded
<1> HIDE DEF d, x, p
<1>7. DecTrue'
  BY <1>1, <1>2, <1>4, <1>5, DecPut
<1> QED BY <1>6, <1>7

\* The sticky cheap check.
LEMMA CheckedFacts ==
  ASSUME NEW c \in Candidate, ev \in Evaluators, CandidateOK(ev, c)
  PROVE  /\ CheapChecked(c) \in Candidate /\ CandidateOK(ev, CheapChecked(c))
         /\ CheapChecked(c).x = c.x /\ CheapChecked(c).audit = c.audit
         /\ CheapChecked(c).cut = c.cut /\ CheapChecked(c).status = c.status
         /\ CheapChecked(c).next = c.next
         /\ CheapChecked(c).cheap = "ok" => ev.cheap[c.x]
         /\ CheapChecked(c).cheap = "bad" => ~ev.cheap[c.x]
<1> DEFINE v == IF ev.cheap[c.x] THEN "ok" ELSE "bad"
           d == [c EXCEPT !.cheap = v]
<1>1. CASE c.cheap # "unchecked"
  BY <1>1 DEF CheapChecked, CandidateOK
<1>2. CASE c.cheap = "unchecked"
  <2>1. CheapChecked(c) = d
    BY <1>2 DEF CheapChecked
  <2>2. v \in {"ok", "bad"} /\ (v = "ok" => ev.cheap[c.x]) /\ (v = "bad" => ~ev.cheap[c.x])
    OBVIOUS
  <2>3. /\ d \in Candidate /\ d.cheap = v /\ d.x = c.x /\ d.audit = c.audit
        /\ d.cut = c.cut /\ d.status = c.status /\ d.next = c.next
    <3> HIDE DEF v
    <3> QED BY <2>2 DEF Candidate
  <2> HIDE DEF v, d
  <2> QED BY <2>1, <2>2, <2>3 DEF CandidateOK
<1> QED BY <1>1, <1>2

\* A candidate that goes on to level n.
LEMMA Moved ==
  ASSUME NEW c \in Candidate, CandidateOK(ev, c), NEW n \in Levels
  PROVE  LET d == [c EXCEPT !.status = "ready", !.next = n]
         IN  /\ d \in Candidate /\ CandidateOK(ev, d) /\ d.status = "ready" /\ d.x = c.x
             /\ d.next = n /\ d.audit = c.audit
<1> DEFINE d == [c EXCEPT !.status = "ready", !.next = n]
<1>1. /\ d \in Candidate /\ d.status = "ready" /\ d.x = c.x /\ d.next = n
      /\ d.audit = c.audit /\ d.cheap = c.cheap
  BY DEF Candidate
<1>2. CandidateOK(ev, d)
  BY <1>1 DEF CandidateOK
<1> QED BY <1>1, <1>2

\* A candidate that ends where it is.
LEMMA Ended ==
  ASSUME NEW c \in Candidate, CandidateOK(ev, c), c.status # "truth",
         NEW s \in DoneStatus,
         s = "truth" => ev.cheap[c.x] /\ ev.est[c.x][L] \in Estimates,
         c.audit /\ PruneNotAudited => s \in {"truth", "invalid"},
         NEW d, d = [c EXCEPT !.status = s]
  PROVE  /\ d \in Candidate /\ CandidateOK(ev, d) /\ d.status = s /\ d.x = c.x
         /\ d.status # "flight"
<1>1. /\ d \in Candidate /\ d.status = s /\ d.x = c.x
      /\ d.audit = c.audit /\ d.cheap = c.cheap
  BY DEF Candidate
<1>2. s # "flight"
  BY DEF DoneStatus
<1>3. CandidateOK(ev, d)
  BY <1>1 DEF CandidateOK
<1> QED BY <1>1, <1>2, <1>3

\* should_audit may put a candidate under audit where the cheap constraints
\* are known to hold.
LEMMA Audited ==
  ASSUME NEW c \in Candidate, CandidateOK(ev, c), c.status = "flight", ev.cheap[c.x],
         NEW p \in Levels, NEW d \in AuditChoice(c, p)
  PROVE  /\ d \in Candidate /\ CandidateOK(ev, d) /\ d.x = c.x /\ d.status = "flight"
         /\ d.next = c.next /\ (c.audit => d.audit) /\ (d.audit /\ ~c.audit => d.cut = p)
<1>1. CASE d = c
  BY <1>1
<1>2. CASE d = [c EXCEPT !.audit = TRUE, !.cut = p]
  <2>1. p \in 0 .. L
    BY LadderAssumption DEF Levels
  <2>2. /\ d \in Candidate /\ d.x = c.x /\ d.status = c.status /\ d.next = c.next
        /\ d.audit = TRUE /\ d.cut = p /\ d.cheap = c.cheap
    BY <1>2, <2>1 DEF Candidate
  <2> QED BY <2>2 DEF CandidateOK
<1> QED BY <1>1, <1>2 DEF AuditChoice

\* After an early cut the candidate is audited further, or done.
LEMMA EarlyMoved ==
  ASSUME NEW c \in Candidate, CandidateOK(ev, c), c.status = "flight",
         NEW p \in Levels, p < L
  PROVE  /\ AfterEarly(c, p) \in Candidate /\ CandidateOK(ev, AfterEarly(c, p))
         /\ AfterEarly(c, p).status \in {"ready", "early"}
         /\ AfterEarly(c, p).status # "flight" /\ AfterEarly(c, p).status # "stopped"
         /\ AfterEarly(c, p).x = c.x /\ AfterEarly(c, p).audit = c.audit
         /\ AfterEarly(c, p).status = "ready" => AfterEarly(c, p).next > p
<1>1. c.cut \in 0 .. L
  BY DEF Candidate
<1>2. CASE c.audit
  <2> DEFINE n == NextAuditTarget(c.cut, p)
  <2>1. n \in Levels /\ n > p
    BY <1>1, AuditTargetUp
  <2>2. AfterEarly(c, p) = [c EXCEPT !.status = "ready", !.next = n]
    BY <1>2 DEF AfterEarly
  <2> HIDE DEF n
  <2>4. /\ AfterEarly(c, p) \in Candidate /\ CandidateOK(ev, AfterEarly(c, p))
        /\ AfterEarly(c, p).status = "ready" /\ AfterEarly(c, p).x = c.x
        /\ AfterEarly(c, p).next = n /\ AfterEarly(c, p).audit = c.audit
    <3> DEFINE d == [c EXCEPT !.status = "ready", !.next = n]
    <3>1. /\ d \in Candidate /\ CandidateOK(ev, d) /\ d.status = "ready"
          /\ d.x = c.x /\ d.next = n /\ d.audit = c.audit
      BY <2>1, Moved
    <3>2. AfterEarly(c, p) = d
      BY <2>2
    <3> HIDE DEF d
    <3> QED BY <3>1, <3>2
  <2> QED BY <2>1, <2>4
<1>3. CASE ~c.audit
  <2>1. AfterEarly(c, p) = [c EXCEPT !.status = "early"]
    BY <1>3 DEF AfterEarly
  <2>2. "early" \in DoneStatus
    BY DEF DoneStatus
  <2>3. AfterEarly(c, p).audit = c.audit
    BY <2>1 DEF Candidate
  <2> QED BY <1>3, <2>1, <2>2, <2>3, Ended
<1> QED BY <1>2, <1>3

\* Every way to process an outcome keeps the invariant.
LEMMA DoCachedPartial ==
  ASSUME EngineInv, NEW i, CachedPartial(i)
  PROVE  EngineInv'
<1> DEFINE n == NextLevel(cands[i], work[i].phi)
           c == [cands[i] EXCEPT !.status = "ready", !.next = n]
<1>1. Turn(i) /\ CachedKind(i, "partial") /\ Settle(i, c) /\ NoTruth
      /\ UNCHANGED decCache /\ MatUnchanged
  BY DEF CachedPartial
<1>2. work[i].out.cached.kind = "partial" /\ HasCached(i)
  BY <1>1 DEF CachedKind
<1>3. phase = "join" /\ i \in DOMAIN work /\ cands[i] \in Candidate
      /\ cands[i].status = "flight" /\ work[i].phi \in Levels
      /\ CandidateOK(ev, cands[i])
      /\ ResultOK(ev, work[i].out.cached, cands[i].x, work[i].phi)
  BY <1>1, <1>2, AtTurn
<1>4. work[i].phi < L
  BY <1>2, <1>3 DEF ResultOK
<1>5. n \in Levels
  BY <1>3, <1>4, NextLevelUp
<1>6. c \in Candidate /\ CandidateOK(ev, c) /\ c.status = "ready" /\ c.status # "flight"
  <2> HIDE DEF n
  <2> QED BY <1>3, <1>5, Moved
<1>7. DecTrue' /\ Recorded
  <2>1. UNCHANGED ev
    BY <1>1 DEF MatUnchanged
  <2> QED BY <1>1, <2>1, Frame DEF Recorded
<1> HIDE DEF c
<1> QED BY <1>1, <1>3, <1>6, <1>7, Settled

LEMMA DoCachedEarly ==
  ASSUME EngineInv, NEW i, CachedEarly(i)
  PROVE  EngineInv'
<1> DEFINE p == work[i].phi
<1>1. Turn(i) /\ CachedKind(i, "early") /\ NoTruth /\ UNCHANGED decCache /\ MatUnchanged
  BY DEF CachedEarly
<1>2. work[i].out.cached.kind = "early" /\ HasCached(i)
  BY <1>1 DEF CachedKind
<1>3. phase = "join" /\ i \in DOMAIN work /\ cands[i] \in Candidate
      /\ cands[i].status = "flight" /\ p \in Levels
      /\ CandidateOK(ev, cands[i])
      /\ ResultOK(ev, work[i].out.cached, cands[i].x, p)
  BY <1>1, <1>2, AtTurn
<1>4. p < L /\ ev.cheap[cands[i].x]
  BY <1>2, <1>3 DEF ResultOK
<1>5. PICK c \in AuditChoice(cands[i], p) \cup {cands[i]} : Settle(i, AfterEarly(c, p))
  BY DEF CachedEarly
<1>6. c \in Candidate /\ CandidateOK(ev, c) /\ c.status = "flight"
  BY <1>3, <1>4, Audited
<1> DEFINE d == AfterEarly(c, p)
<1>7. d \in Candidate /\ CandidateOK(ev, d) /\ d.status # "flight" /\ d.status # "stopped"
  BY <1>3, <1>4, <1>6, EarlyMoved
<1>8. DecTrue' /\ Recorded
  <2>1. UNCHANGED ev
    BY <1>1 DEF MatUnchanged
  <2> QED BY <1>1, <2>1, Frame DEF Recorded
<1>9. Settle(i, d)
  BY <1>5
<1> HIDE DEF d
<1> QED BY <1>1, <1>3, <1>7, <1>8, <1>9, Settled

LEMMA DoRejectInvalid ==
  ASSUME EngineInv, NEW i, RejectInvalid(i)
  PROVE  EngineInv'
<1> DEFINE c == [cands[i] EXCEPT !.status = "invalid"]
<1>1. Turn(i) /\ Settle(i, c) /\ NoTruth /\ UNCHANGED decCache /\ MatUnchanged
  BY DEF RejectInvalid
<1>2. phase = "join" /\ i \in DOMAIN work /\ cands[i] \in Candidate
      /\ cands[i].status = "flight" /\ CandidateOK(ev, cands[i])
  BY <1>1, AtTurn
<1>3. c \in Candidate /\ CandidateOK(ev, c) /\ c.status = "invalid" /\ c.status # "flight"
  <2>1. "invalid" \in DoneStatus
    BY DEF DoneStatus
  <2> QED BY <1>2, <2>1, Ended
<1>4. DecTrue' /\ Recorded
  <2>1. UNCHANGED ev
    BY <1>1 DEF MatUnchanged
  <2> QED BY <1>1, <2>1, Frame DEF Recorded
<1> HIDE DEF c
<1> QED BY <1>1, <1>2, <1>3, <1>4, Settled

LEMMA DoRejectCheap ==
  ASSUME EngineInv, NEW i, RejectCheap(i)
  PROVE  EngineInv'
<1> DEFINE b == CheapChecked(cands[i])
           c == [b EXCEPT !.status = "cheap"]
           d == Decided("cheap", NoX)
           key == DecisionKey(b.x, work[i].phi, "cheap")
<1>1. /\ Turn(i) /\ b.cheap = "bad" /\ Settle(i, c) /\ NoTruth /\ MatUnchanged
      /\ decCache' = Put(decCache, key, d)
  BY DEF RejectCheap
<1>2. phase = "join" /\ i \in DOMAIN work /\ cands[i] \in Candidate /\ ev \in Evaluators
      /\ cands[i].status = "flight" /\ CandidateOK(ev, cands[i])
      /\ cands[i].x \in XMesh /\ work[i].phi \in Levels
  BY <1>1, AtTurn
<1>3. b \in Candidate /\ CandidateOK(ev, b) /\ b.x = cands[i].x /\ b.status = "flight"
      /\ ~ev.cheap[b.x]
  BY <1>1, <1>2, CheckedFacts
<1>4. c \in Candidate /\ CandidateOK(ev, c) /\ c.status = "cheap" /\ c.status # "flight"
  <2>1. "cheap" \in DoneStatus
    BY DEF DoneStatus
  <2>2. ~b.audit
    BY <1>3 DEF CandidateOK
  <2> HIDE DEF b
  <2> QED BY <1>3, <2>1, <2>2, Ended
<1>5. DecTrue' /\ Recorded
  <2>1. UNCHANGED ev /\ DecTrue
    BY <1>1 DEF MatUnchanged, EngineInv
  <2>2. d.policy = <<th, asg>> /\ key[3] = rev
    BY DEF Decided, DecisionKey
  <2>3. Recorded
    <3> HIDE DEF d, key
    <3> QED BY <1>1, <2>2 DEF Recorded
  <2>4. DecTrue'
    <3> HIDE DEF d, b
    <3> QED BY <1>1, <1>2, <1>3, <2>1, DecPutCheap
  <2> QED BY <2>3, <2>4
<1> HIDE DEF c
<1> QED BY <1>1, <1>2, <1>4, <1>5, Settled

LEMMA DoCutEarly ==
  ASSUME EngineInv, NEW i, CutEarly(i)
  PROVE  EngineInv'
<1> DEFINE p == work[i].phi
           b == CheapChecked(cands[i])
           e == work[i].out.est
<1>1. Turn(i) /\ HasEst(i) /\ b.cheap = "ok" /\ p < L /\ EarlyInfeasible(e, p, th)
      /\ Record(i, "early", e) /\ NoTruth /\ MatUnchanged
  BY DEF CutEarly, PartialTurn, Cuts
<1>2. phase = "join" /\ i \in DOMAIN work /\ cands[i] \in Candidate /\ ev \in Evaluators
      /\ cands[i].status = "flight" /\ p \in Levels /\ p = cands[i].next
      /\ CandidateOK(ev, cands[i])
      /\ e = ev.est[cands[i].x][p] /\ e \in Estimates
  BY <1>1, AtTurn
<1>3. b \in Candidate /\ CandidateOK(ev, b) /\ b.x = cands[i].x /\ b.status = "flight"
      /\ ev.cheap[b.x]
  BY <1>1, <1>2, CheckedFacts
<1>4. PICK c \in AuditChoice(b, p) : Settle(i, AfterEarly(c, p))
  BY DEF CutEarly
<1>5. c \in Candidate /\ CandidateOK(ev, c) /\ c.status = "flight"
  <2> HIDE DEF b
  <2> QED BY <1>2, <1>3, Audited
<1> DEFINE d == AfterEarly(c, p)
<1>6. d \in Candidate /\ CandidateOK(ev, d) /\ d.status # "flight" /\ d.status # "stopped"
  BY <1>1, <1>2, <1>5, EarlyMoved
<1>7. DecTrue' /\ Recorded
  <2>1. UNCHANGED ev
    BY <1>1 DEF MatUnchanged
  <2>2. th \in Thresholds
    BY DEF EngineInv, EngineTypes
  <2>3. \A r : r.kind = "early" /\ r.est = e => ResultOK(ev, r, cands[i].x, cands[i].next)
    <3> HIDE DEF e, b
    <3> QED BY <1>1, <1>2, <1>3, <2>2 DEF ResultOK
  <2> QED BY <1>1, <1>2, <2>1, <2>3, RecordKept
<1>8. Settle(i, d)
  BY <1>4
<1> HIDE DEF d
<1> QED BY <1>1, <1>2, <1>6, <1>7, <1>8, Settled

LEMMA DoContinue ==
  ASSUME EngineInv, NEW i, Continue(i)
  PROVE  EngineInv'
<1> DEFINE p == work[i].phi
           b == CheapChecked(cands[i])
           e == work[i].out.est
           n == NextLevel(cands[i], p)
           c == [b EXCEPT !.status = "ready", !.next = n]
<1>1. Turn(i) /\ HasEst(i) /\ p < L /\ Settle(i, c)
      /\ Record(i, "partial", e) /\ NoTruth /\ MatUnchanged
  BY DEF Continue, PartialTurn
<1>2. phase = "join" /\ i \in DOMAIN work /\ cands[i] \in Candidate /\ ev \in Evaluators
      /\ p \in Levels /\ p = cands[i].next /\ CandidateOK(ev, cands[i])
      /\ e = ev.est[cands[i].x][p] /\ e \in Estimates
  BY <1>1, AtTurn
<1>3. b \in Candidate /\ CandidateOK(ev, b)
  BY <1>2, CheckedFacts
<1>4. n \in Levels
  BY <1>1, <1>2, NextLevelUp
<1>5. c \in Candidate /\ CandidateOK(ev, c) /\ c.status = "ready" /\ c.status # "flight"
  <2> HIDE DEF n, b
  <2> QED BY <1>3, <1>4, Moved
<1>6. DecTrue' /\ Recorded
  <2>1. UNCHANGED ev
    BY <1>1 DEF MatUnchanged
  <2>2. \A r : r.kind = "partial" /\ r.est = e => ResultOK(ev, r, cands[i].x, cands[i].next)
    <3> HIDE DEF e, p
    <3> QED BY <1>1, <1>2 DEF ResultOK
  <2> QED BY <1>1, <1>2, <2>1, <2>2, RecordKept
<1> HIDE DEF c
<1> QED BY <1>1, <1>2, <1>5, <1>6, Settled

\* The promotion stop: with sound margins the incumbent, which is some
\* candidate's TRUTH, beats the stopped one.
LEMMA DoStopPartial ==
  ASSUME EngineInv, NEW i, StopPartial(i)
  PROVE  EngineInv'
<1> DEFINE p == work[i].phi
           x == cands[i].x
           b == CheapChecked(cands[i])
           e == work[i].out.est
           c == [b EXCEPT !.status = "stopped"]
<1>1. Turn(i) /\ HasEst(i) /\ p < L /\ Prunes(e, p, cands[i].audit) /\ Settle(i, c)
      /\ Record(i, "partial", e) /\ NoTruth /\ MatUnchanged
  BY DEF StopPartial, PartialTurn, Stops
<1>2. phase = "join" /\ i \in DOMAIN work /\ cands[i] \in Candidate /\ ev \in Evaluators
      /\ p \in Levels /\ p = cands[i].next /\ CandidateOK(ev, cands[i])
      /\ cands[i].status = "flight" /\ x \in XMesh
      /\ e = ev.est[x][p] /\ e \in Estimates
  BY <1>1, AtTurn
<1>3. b \in Candidate /\ CandidateOK(ev, b) /\ b.x = x /\ b.audit = cands[i].audit
      /\ b.status = "flight"
  BY <1>2, CheckedFacts
<1>4. c \in Candidate /\ CandidateOK(ev, c) /\ c.status # "flight" /\ c.x = x
  <2>1. "stopped" \in DoneStatus
    BY DEF DoneStatus
  <2>2. ~(b.audit /\ PruneNotAudited)
    BY <1>1, <1>3 DEF Prunes, PruningAllowed
  <2> HIDE DEF b
  <2> QED BY <1>3, <2>1, <2>2, Ended
<1>5. ASSUME SoundMargins, TruthOf(x) \in Estimates PROVE Beaten(x)
  <2>1. fBest \in Int /\ xBest # NoX /\ th \in Thresholds /\ fBest # NoF
    BY <1>1 DEF Prunes, EngineInv, EngineTypes
  <2>2. PICK j \in DOMAIN cands :
          /\ cands[j].status = "truth" /\ cands[j].x = xBest
          /\ fBest = TruthOf(xBest).f
          /\ FeasibleOnly => Violation(xBest) = 0
    BY <2>1 DEF EngineInv, Best
  <2>3. p \in 1 .. L - 1
    <3>1. p \in Levels /\ p < L
      BY <1>1, <1>2
    <3> HIDE DEF p
    <3> QED BY <3>1, LadderAssumption DEF Levels
  <2>4. Lcb(e, p, th) <= TruthOf(x).f
    BY <1>2, <1>5, <2>1, <2>3 DEF SoundMargins
  <2>5. Lcb(e, p, th) >= fBest - PruneEps
    BY <1>1 DEF Prunes
  <2>6. TruthOf(x).f \in Int /\ Lcb(e, p, th) \in Int /\ PruneEps \in Int
    <3>1. TruthOf(x).f \in Int /\ e.f \in Int /\ e.s \in Int
      BY <1>2, <1>5 DEF Estimates
    <3>2. Bias(p, th) \in Int
      BY <1>2, <2>1, EngineAssumption, LadderAssumption DEF Bias
    <3> QED BY <3>1, <3>2, EngineAssumption DEF Lcb
  <2>7. fBest - PruneEps <= TruthOf(x).f
    BY <2>1, <2>4, <2>5, <2>6
  <2> QED BY <2>2, <2>7 DEF Beaten
<1>6. DecTrue' /\ Recorded
  <2>1. UNCHANGED ev
    BY <1>1 DEF MatUnchanged
  <2>2. \A r : r.kind = "partial" /\ r.est = e => ResultOK(ev, r, cands[i].x, cands[i].next)
    BY <1>1, <1>2 DEF ResultOK
  <2> QED BY <1>1, <1>2, <2>1, <2>2, RecordKept
<1>7. SoundMargins /\ TruthOf(c.x) \in Estimates => Beaten(c.x)
  BY <1>4, <1>5
<1> HIDE DEF c
<1> QED BY <1>1, <1>2, <1>4, <1>6, <1>7, Settled

LEMMA DoExpectFails ==
  ASSUME EngineInv, NEW i, ExpectFails(i)
  PROVE  EngineInv'
<1>1. Turn(i) /\ phase' = "panicked"
      /\ UNCHANGED <<ev, runVars, iterVars, cands, bestVars, policyVars, work,
                     cacheVars, acceptVars>>
  BY DEF ExpectFails
<1>2. phase = "join"
  BY <1>1 DEF Turn
<1>3. EngineTypes'
  BY <1>1, <1>2 DEF EngineInv, EngineTypes, AcceptTypeOK, acceptVars, iterVars,
         runVars, bestVars, policyVars, HFloor, Phases
<1>4. Batch'
  BY <1>1, <1>2 DEF EngineInv, Batch, ItemOK
<1>5. EvalTrue' /\ DecTrue' /\ Candidates' /\ StoppedIsBeaten' /\ Best' /\ FirstRun'
  BY <1>1, Frame DEF cacheVars, runVars
<1> QED BY <1>3, <1>4, <1>5 DEF EngineInv

-----------------------------------------------------------------------------
(* Acceptance.                                                             *)

\* decide_truth on candidate j's TRUTH: the incumbent and the filter are
\* still what candidates of the store were evaluated to.
LEMMA AcceptKept ==
  ASSUME EngineInv, UNCHANGED ev, Grows, NEW c \in Candidate, NEW e, e = TruthOf(c.x),
         e \in Estimates, Accept(c, e),
         NEW j \in DOMAIN cands', cands'[j].status = "truth", cands'[j].x = c.x
  PROVE  /\ AcceptTypeOK' /\ improved' \in BOOLEAN
         /\ xBest' \in XMesh \cup {NoX} /\ fBest' \in Int \cup {NoF}
         /\ xBest' = NoX <=> fBest' = NoF
         /\ Best'
<1> DEFINE v == Larger(e.c, 0)
<1>1. e.f \in Int /\ v \in Nat /\ v = Violation(c.x) /\ c.x \in XMesh
  BY DEF Estimates, Larger, Violation, Candidate
<1>2. /\ DecideTruth(e.f, v)
      /\ Accepts(e.f, v) => improved' = TRUE /\ xBest' = c.x /\ fBest' = e.f
      /\ ~Accepts(e.f, v) => UNCHANGED <<improved, xBest, fBest>>
  BY DEF Accept, bestVars
<1> HIDE DEF v
<1>3. /\ AcceptTypeOK /\ Best /\ improved \in BOOLEAN
      /\ xBest \in XMesh \cup {NoX} /\ fBest \in Int \cup {NoF}
      /\ xBest = NoX <=> fBest = NoF
  BY DEF EngineInv, EngineTypes
<1>4. AcceptTypeOK'
  <2>1. points' \subseteq FilterPoint /\ IsFiniteSet(points')
    BY <1>1, <1>2, <1>3, InsertType DEF DecideTruth, AcceptTypeOK
  <2> QED BY <1>1, <1>2, <1>3, <2>1 DEF DecideTruth, AcceptTypeOK, HFloor
<1>5. /\ improved' \in BOOLEAN
      /\ xBest' \in XMesh \cup {NoX} /\ fBest' \in Int \cup {NoF}
      /\ xBest' = NoX <=> fBest' = NoF
  <2>1. c.x # NoX /\ e.f # NoF
    BY <1>1, EngineAssumption, AcceptanceAssumption
  <2> QED BY <1>1, <1>2, <1>3, <2>1
<1>6. h' = h /\ (FeasibleOnly => h = 0)
  BY <1>2, <1>3 DEF DecideTruth, Best
<1>7. \A x : TruthOf(x)' = TruthOf(x) /\ Violation(x)' = Violation(x)
  BY DEF TruthOf, Violation
<1>8. \A k \in DOMAIN cands : cands[k].status = "truth" =>
        k \in DOMAIN cands' /\ cands'[k] = cands[k]
  BY DEF Grows, DoneStatus
<1>9. xBest' # NoX => \E k \in DOMAIN cands' :
        /\ cands'[k].status = "truth" /\ cands'[k].x = xBest'
        /\ fBest' = TruthOf(xBest').f
        /\ FeasibleOnly => Violation(xBest') = 0
  <2>1. CASE Accepts(e.f, v)
    <3>1. xBest' = c.x /\ fBest' = TruthOf(c.x).f
      BY <1>2, <2>1
    <3>2. FeasibleOnly => Violation(c.x) = 0
      BY <1>1, <1>6, <2>1 DEF Accepts
    <3> QED BY <3>1, <3>2
  <2>2. CASE ~Accepts(e.f, v)
    BY <1>2, <1>3, <1>8, <2>2 DEF Best
  <2> QED BY <2>1, <2>2
<1>10. \A q \in points' : \E k \in DOMAIN cands' :
        /\ cands'[k].status = "truth"
        /\ q.f = TruthOf(cands'[k].x).f
        /\ q.v = Violation(cands'[k].x)
  <2> SUFFICES ASSUME NEW q \in points'
               PROVE  \E k \in DOMAIN cands' :
                        /\ cands'[k].status = "truth"
                        /\ q.f = TruthOf(cands'[k].x).f
                        /\ q.v = Violation(cands'[k].x)
    OBVIOUS
  <2>1. q \in points \/ (q.f = e.f /\ q.v = v)
    BY <1>2 DEF DecideTruth, FilterInsert, Truncate, NewPoint
  <2>2. CASE q \in points
    BY <2>2, <1>3, <1>8 DEF Best
  <2>3. CASE q.f = e.f /\ q.v = v
    BY <2>3, <1>1
  <2> QED BY <2>1, <2>2, <2>3
<1>11. Best'
  BY <1>6, <1>9, <1>10 DEF Best, TruthOf, Violation, FeasibleOnly
<1> QED BY <1>4, <1>5, <1>11

\* Candidate i is done at TRUTH.
LEMMA SettledTruth ==
  ASSUME EngineInv, phase = "join", NEW i \in DOMAIN work, NEW c \in Candidate,
         c.status = "truth", CandidateOK(ev, c), c.x = cands[i].x, Settle(i, c),
         NEW e, e = TruthOf(c.x), e \in Estimates, Accept(cands[i], e),
         MatUnchanged, DecTrue', Recorded
  PROVE  EngineInv'
<1>1. UNCHANGED <<ev, phase>> /\ UNCHANGED evalCache /\ UNCHANGED <<run, policyVars>>
  BY DEF MatUnchanged, runVars
<1>2. /\ cands' \in Seq(Candidate)
      /\ DOMAIN cands' = DOMAIN cands /\ i \in DOMAIN cands /\ cands'[i] = c
      /\ \A j \in DOMAIN cands : j # i => cands'[j] = cands[j]
      /\ DOMAIN work' = DOMAIN work \ {i}
      /\ \A j \in DOMAIN work' : work'[j] = work[j]
      /\ Grows /\ Batch' /\ Candidates'
  BY <1>1, SettleParts
<1>3. cands[i] \in Candidate
  BY ItemFacts
<1>4. /\ AcceptTypeOK' /\ improved' \in BOOLEAN
      /\ xBest' \in XMesh \cup {NoX} /\ fBest' \in Int \cup {NoF}
      /\ xBest' = NoX <=> fBest' = NoF
      /\ Best'
  BY <1>1, <1>2, <1>3, AcceptKept
<1>5. EngineTypes'
  BY <1>2, <1>4, MatTypes
<1>6. EvalTrue'
  BY <1>1, Frame
<1>7. FirstRun'
  BY <1>1, <1>2, FirstRunKept DEF Recorded
<1>8. StoppedIsBeaten'
  BY <1>1, <1>2, StoppedKept
<1> QED BY <1>2, <1>4, <1>5, <1>6, <1>7, <1>8 DEF EngineInv

LEMMA DoCachedTruth ==
  ASSUME EngineInv, NEW i, CachedTruth(i)
  PROVE  EngineInv'
<1> DEFINE c == [cands[i] EXCEPT !.status = "truth"]
           e == work[i].out.cached.est
<1>1. Turn(i) /\ CachedKind(i, "truth") /\ Settle(i, c) /\ Accept(cands[i], e)
      /\ UNCHANGED decCache /\ MatUnchanged
  BY DEF CachedTruth
<1>2. work[i].out.cached.kind = "truth" /\ HasCached(i)
  BY <1>1 DEF CachedKind
<1>3. phase = "join" /\ i \in DOMAIN work /\ cands[i] \in Candidate
      /\ cands[i].status = "flight" /\ CandidateOK(ev, cands[i])
      /\ ResultOK(ev, work[i].out.cached, cands[i].x, cands[i].next)
  BY <1>1, <1>2, AtTurn
<1>4. ev.cheap[cands[i].x] /\ e = TruthOf(cands[i].x) /\ e \in Estimates
  BY <1>2, <1>3 DEF ResultOK, TruthOf
<1>5. c \in Candidate /\ CandidateOK(ev, c) /\ c.status = "truth" /\ c.x = cands[i].x
  <2>1. "truth" \in DoneStatus
    BY DEF DoneStatus
  <2> QED BY <1>3, <1>4, <2>1, Ended DEF TruthOf
<1>6. DecTrue' /\ Recorded
  <2>1. UNCHANGED ev
    BY <1>1 DEF MatUnchanged
  <2> QED BY <1>1, <2>1, Frame DEF Recorded
<1> HIDE DEF c, e
<1> QED BY <1>1, <1>3, <1>4, <1>5, <1>6, SettledTruth

LEMMA DoTruth ==
  ASSUME EngineInv, NEW i, Truth(i)
  PROVE  EngineInv'
<1> DEFINE b == CheapChecked(cands[i])
           c == [b EXCEPT !.status = "truth"]
           e == work[i].out.est
<1>1. Turn(i) /\ HasEst(i) /\ b.cheap = "ok" /\ work[i].phi = L /\ Settle(i, c)
      /\ Record(i, "truth", e) /\ Accept(cands[i], e) /\ MatUnchanged
  BY DEF Truth
<1>2. phase = "join" /\ i \in DOMAIN work /\ cands[i] \in Candidate /\ ev \in Evaluators
      /\ cands[i].status = "flight" /\ CandidateOK(ev, cands[i])
      /\ work[i].phi = cands[i].next
      /\ e = ev.est[cands[i].x][cands[i].next] /\ e \in Estimates
  BY <1>1, AtTurn
<1>3. b \in Candidate /\ CandidateOK(ev, b) /\ b.x = cands[i].x /\ b.status = "flight"
      /\ ev.cheap[b.x]
  BY <1>1, <1>2, CheckedFacts
<1>4. e = TruthOf(cands[i].x)
  BY <1>1, <1>2 DEF TruthOf
<1>5. c \in Candidate /\ CandidateOK(ev, c) /\ c.status = "truth" /\ c.x = cands[i].x
  <2>1. "truth" \in DoneStatus
    BY DEF DoneStatus
  <2>2. ev.est[b.x][L] \in Estimates
    BY <1>2, <1>3, <1>4 DEF TruthOf
  <2> HIDE DEF b
  <2> QED BY <1>3, <2>1, <2>2, Ended
<1>6. DecTrue' /\ Recorded
  <2>1. UNCHANGED ev
    BY <1>1 DEF MatUnchanged
  <2>2. \A r : r.kind = "truth" /\ r.est = e => ResultOK(ev, r, cands[i].x, cands[i].next)
    <3> HIDE DEF b
    <3> QED BY <1>1, <1>2, <1>3 DEF ResultOK
  <2> QED BY <1>1, <1>2, <2>1, <2>2, RecordKept
<1> HIDE DEF c, e
<1> QED BY <1>1, <1>2, <1>4, <1>5, <1>6, SettledTruth

LEMMA DoMaterialize ==
  ASSUME EngineInv, NEW i, Materialize(i)
  PROVE  EngineInv'
BY DoCachedPartial, DoCachedEarly, DoCachedTruth, DoRejectInvalid, DoRejectCheap,
   DoExpectFails, DoCutEarly, DoStopPartial, DoContinue, DoTruth DEF Materialize

-----------------------------------------------------------------------------
(* The engine thread between batches.                                      *)

\* New candidates of the current iteration join the store.
LEMMA Appended ==
  ASSUME EngineInv, NEW n \in Nat, NEW new \in [1 .. n -> Candidate],
         \A k \in 1 .. n : /\ new[k].status = "ready" /\ new[k].cheap = "unchecked"
                           /\ ~new[k].audit,
         cands' = cands \o new, phase \in {"propose", "select"}, phase' = "select",
         UNCHANGED <<ev, run, bestVars, policyVars, work, cacheVars, acceptVars>>
  PROVE  /\ cands' \in Seq(Candidate) /\ AcceptTypeOK' /\ EvalTrue' /\ DecTrue'
         /\ Batch' /\ Candidates' /\ Best' /\ FirstRun' /\ StoppedIsBeaten'
<1>1. cands \in Seq(Candidate) /\ AcceptTypeOK
  BY DEF EngineInv, EngineTypes
<1>2. /\ cands' \in Seq(Candidate)
      /\ \A i \in DOMAIN cands : i \in DOMAIN cands' /\ cands'[i] = cands[i]
      /\ \A i \in DOMAIN cands' \ DOMAIN cands : \E k \in 1 .. n : cands'[i] = new[k]
  BY <1>1, StoreGrows
<1>3. \A i \in DOMAIN cands' \ DOMAIN cands :
        cands'[i].status = "ready" /\ cands'[i].cheap = "unchecked" /\ ~cands'[i].audit
  BY <1>2
<1>4. UNCHANGED ev /\ UNCHANGED evalCache /\ UNCHANGED decCache
  BY DEF cacheVars
<1>5. EvalTrue' /\ DecTrue' /\ FirstRun'
  BY <1>4, Frame
<1>6. Grows
  BY <1>2 DEF Grows
<1>7. Best'
  <2>1. FeasibleOnly => h' = 0
    BY DEF EngineInv, Best, acceptVars
  <2> QED BY <2>1, <1>6, BestKept DEF acceptVars
<1>8. StoppedIsBeaten'
  BY <1>2, <1>3, <1>6, StoppedKept
<1>9. Candidates'
  <2>1. \A i \in DOMAIN cands : CandidateOK(ev, cands[i])
    BY DEF EngineInv, Candidates
  <2>2. \A i \in DOMAIN cands' : CandidateOK(ev, cands'[i])
    BY <1>2, <1>3, <2>1 DEF CandidateOK
  <2> QED BY <2>2 DEF Candidates
<1>10. Batch'
  <2>1. DOMAIN work = {}
    BY DEF EngineInv, Batch
  <2>2. \A i \in DOMAIN cands : cands[i].status # "flight"
    BY <2>1 DEF EngineInv, Batch
  <2>3. \A i \in DOMAIN cands' : cands'[i].status # "flight"
    BY <1>2, <1>3, <2>2
  <2> QED BY <2>1, <2>3 DEF Batch
<1>11. AcceptTypeOK'
  BY <1>1 DEF AcceptTypeOK, acceptVars, HFloor
<1> QED BY <1>2, <1>5, <1>7, <1>8, <1>9, <1>10, <1>11

\* CandidateStageState as ingested.
LEMMA Ingested ==
  ASSUME EngineInv, NEW x \in XMesh, NEW b \in BOOLEAN
  PROVE  /\ NewCandidate(x, b) \in Candidate
         /\ NewCandidate(x, b).status = "ready" /\ NewCandidate(x, b).cheap = "unchecked"
         /\ ~NewCandidate(x, b).audit
<1>1. iter \in Nat /\ 1 \in Levels /\ 0 \in 0 .. L
  BY LadderAssumption, EngineAssumption DEF Levels, EngineInv, EngineTypes
<1> QED BY <1>1 DEF NewCandidate, Candidate

LEMMA DoPropose ==
  ASSUME EngineInv, Propose
  PROVE  EngineInv'
<1>1. PICK xs \in [1 .. PerIter -> {x \in SearchBox : OnMesh(x)}] : Ingest(xs)
  BY DEF Propose
<1> DEFINE new == [i \in 1 .. PerIter |-> NewCandidate(xs[i], FALSE)]
<1>2. /\ phase = "propose" /\ cands' = cands \o new
      /\ improved' = FALSE /\ polled' = FALSE /\ stepsLeft' = budget /\ phase' = "select"
      /\ UNCHANGED <<ev, runVars, iter, mul, bestVars, policyVars, work, cacheVars, acceptVars>>
  BY <1>1 DEF Ingest
<1>3. PerIter \in Nat /\ \A i \in 1 .. PerIter : xs[i] \in XMesh
  BY EngineAssumption
<1>4. \A i \in 1 .. PerIter : /\ new[i] \in Candidate /\ new[i].status = "ready"
                              /\ new[i].cheap = "unchecked" /\ ~new[i].audit
  BY <1>3, Ingested
<1>5. new \in [1 .. PerIter -> Candidate]
  BY <1>4
<1> HIDE DEF new
<1>6. /\ cands' \in Seq(Candidate) /\ AcceptTypeOK' /\ EvalTrue' /\ DecTrue'
      /\ Batch' /\ Candidates' /\ Best' /\ FirstRun' /\ StoppedIsBeaten'
  BY <1>2, <1>3, <1>4, <1>5, Appended DEF runVars
<1>7. EngineTypes'
  BY <1>2, <1>6, EngineAssumption DEF EngineInv, EngineTypes, runVars, bestVars, policyVars, Phases
<1> QED BY <1>6, <1>7 DEF EngineInv

\* The lattice is closed under polling around an incumbent.
LEMMA PollInMesh ==
  ASSUME EngineInv, xBest # NoX
  PROVE  /\ xBest \in XMesh /\ xBest \in Int /\ PollStep \in Int /\ PollStep > 0
         /\ xBest + PollStep \in XMesh /\ xBest - PollStep \in XMesh
<1>1. xBest \in XMesh /\ mul \in 1 .. Larger(MulInit, 1) /\ ev \in Evaluators
  BY DEF EngineInv, EngineTypes
<1>2. PICK j \in DOMAIN cands : cands[j].status = "truth" /\ cands[j].x = xBest
  BY DEF EngineInv, Best
<1>3. ev.cheap[xBest]
  BY <1>2 DEF EngineInv, Candidates, CandidateOK
<1>4. {xBest + mul * Larger(PollMult, 1), xBest - mul * Larger(PollMult, 1)} \subseteq XMesh
  BY <1>1, <1>3, EngineAssumption
<1>5. Larger(MulInit, 1) \in Int /\ Larger(PollMult, 1) \in Nat \ {0}
  BY EngineAssumption DEF Larger
<1>6. mul \in Nat \ {0}
  BY <1>1, <1>5
<1>7. PollStep \in Int /\ PollStep > 0
  <2>1. \A a, b \in Nat \ {0} : a * b \in Int /\ a * b > 0
    OBVIOUS
  <2> QED BY <1>5, <1>6, <2>1 DEF PollStep
<1> QED BY <1>1, <1>4, <1>7, EngineAssumption DEF PollStep

LEMMA DoInjectPoll ==
  ASSUME EngineInv, InjectPoll
  PROVE  EngineInv'
<1> DEFINE pts == PollPoints(xBest)
           new == [d \in 1 .. Len(pts) |-> NewCandidate(pts[d], TRUE)]
<1>1. /\ phase = "select" /\ xBest # NoX /\ cands' = cands \o new /\ polled' = TRUE
      /\ UNCHANGED <<ev, runVars, phase, iter, improved, stepsLeft, mul, bestVars,
                     policyVars, work, cacheVars, acceptVars>>
  BY DEF InjectPoll, CanPoll
<1>2. xBest + PollStep \in XMesh /\ xBest - PollStep \in XMesh
  BY <1>1, PollInMesh
<1>3. Len(pts) = 2 /\ \A d \in 1 .. 2 : pts[d] \in XMesh
  BY <1>2 DEF PollPoints
<1> HIDE DEF pts
<1>4. \A d \in 1 .. Len(pts) : /\ new[d] \in Candidate /\ new[d].status = "ready"
                               /\ new[d].cheap = "unchecked" /\ ~new[d].audit
  BY <1>3, Ingested
<1>5. new \in [1 .. Len(pts) -> Candidate] /\ Len(pts) \in Nat
  <2>1. new \in [1 .. Len(pts) -> Candidate]
    BY <1>4
  <2>2. Len(pts) \in Nat
    BY <1>3
  <2> QED BY <2>1, <2>2
<1> HIDE DEF new
<1>6. /\ cands' \in Seq(Candidate) /\ AcceptTypeOK' /\ EvalTrue' /\ DecTrue'
      /\ Batch' /\ Candidates' /\ Best' /\ FirstRun' /\ StoppedIsBeaten'
  BY <1>1, <1>4, <1>5, Appended DEF runVars
<1>7. EngineTypes'
  BY <1>1, <1>6 DEF EngineInv, EngineTypes, runVars, bestVars, policyVars
<1> QED BY <1>6, <1>7 DEF EngineInv

\* min(picked.len(), boundary, steps_left) is a number of steps that is left.
LEMMA BatchWithinBudget ==
  ASSUME EngineInv
  PROVE  BatchSize \in Nat /\ (stepsLeft # NoBudget => BatchSize <= stepsLeft)
<1> DEFINE bounds == {Cardinality(Ready), workers, Boundary} \cup ({stepsLeft} \ {NoBudget})
<1>1. cands \in Seq(Candidate) /\ stepsLeft \in Nat \cup {NoBudget} /\ workers \in WorkerCounts
  BY DEF EngineInv, EngineTypes
<1>2. Cardinality(Ready) \in Nat
  <2>1. Len(cands) \in Nat /\ DOMAIN cands = 1 .. Len(cands)
    BY <1>1, LenProperties
  <2>2. IsFiniteSet(DOMAIN cands)
    BY <2>1, FS_Interval
  <2>3. IsFiniteSet(Ready)
    BY <2>2, FS_Subset DEF Ready
  <2> QED BY <2>3, FS_CardinalityType
<1>3. workers \in Nat /\ Boundary \in Nat
  BY <1>1, EngineAssumption
<1>4. bounds \subseteq Nat /\ bounds # {}
  BY <1>1, <1>2, <1>3
<1>5. \E n \in bounds : \A m \in bounds : n <= m
  <2> HIDE DEF bounds
  <2> QED BY <1>4, LeastExists
<1>6. BatchSize = CHOOSE n \in bounds : \A m \in bounds : n <= m
  BY DEF BatchSize
<1>7. stepsLeft # NoBudget => stepsLeft \in bounds
  OBVIOUS
<1> HIDE DEF bounds
<1>8. BatchSize \in bounds /\ \A m \in bounds : BatchSize <= m
  BY <1>5, <1>6
<1> QED BY <1>4, <1>7, <1>8

LEMMA DoDispatch ==
  ASSUME EngineInv, Dispatch
  PROVE  EngineInv'
<1>1. PICK picked \in SUBSET Ready : Submit(picked)
  BY DEF Dispatch
<1>2. /\ phase = "select" /\ Cardinality(picked) = BatchSize /\ phase' = "batch"
      /\ cands' = [i \in DOMAIN cands |->
                     IF i \in picked THEN [cands[i] EXCEPT !.status = "flight"]
                                     ELSE cands[i]]
      /\ work' = [i \in picked |-> [pc |-> "decision", phi |-> cands[i].next]]
      /\ stepsLeft' = Spend(Cardinality(picked))
      /\ UNCHANGED <<ev, runVars, iter, polled, improved, mul, bestVars, policyVars,
                     cacheVars, acceptVars>>
  BY <1>1 DEF Submit
<1>3. cands \in Seq(Candidate) /\ \A i \in picked : i \in DOMAIN cands /\ cands[i].status = "ready"
  BY <1>1 DEF Ready, EngineInv, EngineTypes
<1>4. \A i \in DOMAIN cands : cands[i] \in Candidate
  BY <1>3
<1>5. /\ DOMAIN cands' = DOMAIN cands
      /\ \A i \in DOMAIN cands : i \notin picked => cands'[i] = cands[i]
      /\ \A i \in picked : cands'[i] = [cands[i] EXCEPT !.status = "flight"]
  BY <1>2, <1>3
<1>6. \A i \in picked : /\ cands'[i] \in Candidate /\ cands'[i].status = "flight"
                        /\ cands'[i].x = cands[i].x /\ cands'[i].next = cands[i].next
                        /\ cands'[i].cheap = cands[i].cheap /\ cands'[i].audit = cands[i].audit
  <2> SUFFICES ASSUME NEW i \in picked
               PROVE  /\ cands'[i] \in Candidate /\ cands'[i].status = "flight"
                      /\ cands'[i].x = cands[i].x /\ cands'[i].next = cands[i].next
                      /\ cands'[i].cheap = cands[i].cheap /\ cands'[i].audit = cands[i].audit
    OBVIOUS
  <2>1. cands[i] \in Candidate /\ cands'[i] = [cands[i] EXCEPT !.status = "flight"]
    BY <1>3, <1>4, <1>5
  <2> QED BY <2>1 DEF Candidate
<1>7. cands' \in Seq(Candidate)
  <2>1. Len(cands) \in Nat /\ DOMAIN cands = 1 .. Len(cands)
    BY <1>3, LenProperties
  <2>2. cands' \in [1 .. Len(cands) -> Candidate]
    <3>1. \A i \in DOMAIN cands' : cands'[i] \in Candidate
      BY <1>4, <1>5, <1>6
    <3> QED BY <1>2, <2>1, <3>1
  <2> QED BY <2>1, <2>2
<1>8. EngineTypes'
  <2>1. stepsLeft' \in Nat \cup {NoBudget}
    <3>1. stepsLeft \in Nat \cup {NoBudget}
      BY DEF EngineInv, EngineTypes
    <3>2. BatchSize \in Nat /\ (stepsLeft # NoBudget => BatchSize <= stepsLeft)
      BY BatchWithinBudget
    <3> QED BY <1>2, <3>1, <3>2 DEF Spend
  <2>2. AcceptTypeOK'
    BY <1>2 DEF EngineInv, EngineTypes, AcceptTypeOK, acceptVars, HFloor
  <2> QED BY <1>2, <1>7, <2>1, <2>2 DEF EngineInv, EngineTypes, runVars, bestVars, policyVars, Phases
<1>9. UNCHANGED ev /\ UNCHANGED evalCache /\ UNCHANGED decCache /\ UNCHANGED <<run, policyVars>>
      /\ UNCHANGED <<ev, points, bestVars>> /\ UNCHANGED h
  BY <1>2 DEF cacheVars, runVars, acceptVars
<1>10. EvalTrue' /\ DecTrue'
  BY <1>9, Frame
<1>11. DOMAIN work' = picked /\ \A i \in picked : work'[i] = [pc |-> "decision", phi |-> cands[i].next]
  BY <1>2
<1>12. FirstRun'
  <2>1. \A j \in DOMAIN work' : work'[j].pc # "done"
    BY <1>11
  <2> QED BY <1>9, <2>1, FirstRunKept
<1>13. Grows
  BY <1>3, <1>5 DEF Grows, DoneStatus
<1>14. Best'
  <2>1. FeasibleOnly => h' = 0
    BY <1>9 DEF EngineInv, Best
  <2> QED BY <2>1, <1>9, <1>13, BestKept
<1>15. StoppedIsBeaten'
  BY <1>5, <1>6, <1>9, <1>13, StoppedKept
<1>16. Candidates'
  <2>1. \A i \in DOMAIN cands : CandidateOK(ev, cands[i])
    BY DEF EngineInv, Candidates
  <2>2. \A i \in DOMAIN cands' : CandidateOK(ev, cands'[i])
    BY <1>3, <1>5, <1>6, <2>1 DEF CandidateOK
  <2> QED BY <1>9, <2>2 DEF Candidates
<1>17. Batch'
  <2>1. \A i \in DOMAIN cands : cands[i].status # "flight"
    BY <1>2 DEF EngineInv, Batch
  <2>2. DOMAIN work' = {i \in DOMAIN cands' : cands'[i].status = "flight"}
    BY <1>3, <1>5, <1>6, <1>11, <2>1
  <2>3. \A i \in DOMAIN work' : ItemOK(i)'
    BY <1>6, <1>11 DEF ItemOK
  <2> QED BY <1>2, <2>2, <2>3 DEF Batch
<1> QED BY <1>8, <1>10, <1>12, <1>14, <1>15, <1>16, <1>17 DEF EngineInv

\* The engine thread moves on, between batches or at the barrier.
LEMMA PhaseOnly ==
  ASSUME EngineInv, EndSteps \/ Join
  PROVE  EngineInv'
<1>1. UNCHANGED <<ev, runVars, iterVars, cands, bestVars, policyVars, work, cacheVars, acceptVars>>
  BY DEF EndSteps, Join
<1>2. \/ phase = "select" /\ phase' = "iterend"
      \/ phase = "batch" /\ phase' = "join" /\ \A i \in DOMAIN work : work[i].pc = "done"
  BY DEF EndSteps, Join
<1>3. EngineTypes'
  BY <1>1, <1>2 DEF EngineInv, EngineTypes, AcceptTypeOK, acceptVars, iterVars,
         runVars, bestVars, policyVars, HFloor, Phases
<1>4. Batch'
  BY <1>1, <1>2 DEF EngineInv, Batch, ItemOK
<1>5. EvalTrue' /\ DecTrue' /\ Candidates' /\ StoppedIsBeaten' /\ Best' /\ FirstRun'
  BY <1>1, Frame DEF cacheVars, runVars
<1> QED BY <1>3, <1>4, <1>5 DEF EngineInv

LEMMA DoPolicyUpdate ==
  ASSUME EngineInv, PolicyUpdate
  PROVE  EngineInv'
<1>1. /\ phase = "join" /\ DOMAIN work = {} /\ phase' = "select"
      /\ UNCHANGED <<ev, runVars, iterVars, cands, bestVars, work, cacheVars, acceptVars>>
  BY DEF PolicyUpdate
<1>2. th \in Thresholds /\ asg \in Levels /\ rev \in Nat
  BY DEF EngineInv, EngineTypes
<1>3. /\ th' \in Thresholds /\ asg' \in Levels /\ rev' \in Nat /\ rev' >= rev
      /\ rev' = rev => th' = th /\ asg' = asg
  <2>1. PICK t \in Thresholds, a \in Levels, learned \in BOOLEAN :
          /\ t # th => learned
          /\ th' = t /\ asg' = a
          /\ rev' = rev + Bump(learned) + Bump(a # asg)
    BY DEF PolicyUpdate
  <2>2. /\ Bump(learned) \in {0, 1} /\ (Bump(learned) = 0 => ~learned)
        /\ Bump(a # asg) \in {0, 1} /\ (Bump(a # asg) = 0 => a = asg)
    BY DEF Bump
  <2>3. rev' \in Nat /\ rev' >= rev /\ (rev' = rev => Bump(learned) = 0 /\ Bump(a # asg) = 0)
    <3> DEFINE m == Bump(learned)
               n == Bump(a # asg)
    <3>1. m \in {0, 1} /\ n \in {0, 1} /\ rev' = rev + m + n
      BY <2>1, <2>2
    <3> HIDE DEF m, n
    <3>2. rev' \in Nat /\ rev' >= rev /\ (rev' = rev => m = 0 /\ n = 0)
      BY <1>2, <3>1
    <3> QED BY <3>2 DEF m, n
  <2> QED BY <2>1, <2>2, <2>3
<1>4. EngineTypes'
  BY <1>1, <1>3 DEF EngineInv, EngineTypes, AcceptTypeOK, acceptVars, iterVars,
         runVars, bestVars, HFloor, Phases
<1>5. Batch'
  BY <1>1 DEF EngineInv, Batch, ItemOK
<1>6. EvalTrue' /\ DecTrue' /\ Candidates' /\ StoppedIsBeaten' /\ Best'
  BY <1>1, Frame DEF cacheVars
<1>7. FirstRun'
  <2>1. run' = run /\ decCache' = decCache /\ work' = work
    BY <1>1 DEF runVars, cacheVars
  <2>2. run = 1 => \A k \in DOMAIN decCache :
          /\ k[3] \in Nat /\ k[3] <= rev'
          /\ k[3] = rev' => decCache[k].policy = <<th', asg'>>
    BY <1>2, <1>3 DEF EngineInv, FirstRun
  <2> QED BY <1>1, <2>1, <2>2 DEF FirstRun
<1> QED BY <1>4, <1>5, <1>6, <1>7 DEF EngineInv

\* AnisotropicMeshGeometry::refine neither coarsens nor leaves the grid.
LEMMA RefinedBounds ==
  ASSUME mul \in Nat \ {0}
  PROVE  Refined \in 1 .. mul
<1> DEFINE minm == Larger(MulMin, 1)
           d == Larger(RefineDiv, 2)
<1>1. minm \in Nat /\ minm >= 1 /\ d \in Nat /\ d >= 2
  BY EngineAssumption DEF Larger
<1> HIDE DEF minm, d
<1>2. mul \div d \in Nat /\ mul \div d <= mul
  <2>1. \A a \in Nat, n \in Nat \ {0} : 1 <= n /\ a * 1 = a
    OBVIOUS
  <2>2. (mul * 1) \div d \in Nat /\ (mul * 1) \div d <= mul
    BY <1>1, ScaleDown
  <2> QED BY <2>2
<1>3. mul > minm => Larger(mul \div d, minm) \in 1 .. mul
  BY <1>1, <1>2 DEF Larger
<1> QED BY <1>3 DEF Refined, minm, d

LEMMA DoEndIteration ==
  ASSUME EngineInv, EndIteration
  PROVE  EngineInv'
<1>1. /\ phase = "iterend" /\ OnIterationEnd(polled, improved)
      /\ mul' = (IF polled /\ ~improved THEN Refined ELSE mul)
      /\ iter' = iter + 1 /\ phase' = LoopPhase(iter + 1)
      /\ UNCHANGED <<ev, runVars, polled, improved, stepsLeft, cands, bestVars,
                     policyVars, work, cacheVars>>
  BY DEF EndIteration
<1>2. /\ AcceptTypeOK /\ iter \in 0 .. MaxIters /\ iter < MaxIters /\ MaxIters \in Nat
      /\ mul \in 1 .. Larger(MulInit, 1) /\ Larger(MulInit, 1) \in Nat
  BY <1>1, EngineAssumption DEF EngineInv, EngineTypes, Larger
<1>3. Tightened \in Nat /\ Tightened >= HFloor /\ Tightened <= h
  BY <1>2, TightenedBounds
<1>4. /\ h' \in Nat /\ h' >= HFloor /\ h' <= h
      /\ UNCHANGED <<points, incumbent>>
  BY <1>1, <1>2, <1>3 DEF OnIterationEnd, AcceptTypeOK
<1>5. AcceptTypeOK'
  BY <1>2, <1>4 DEF AcceptTypeOK, HFloor
<1>6. mul' \in 1 .. Larger(MulInit, 1)
  <2>1. Refined \in 1 .. mul
    BY <1>2, RefinedBounds
  <2> QED BY <1>1, <1>2, <2>1
<1>7. /\ iter' \in 0 .. MaxIters /\ phase' \in {"propose", "done"}
      /\ phase' # "done" => iter' < MaxIters
  BY <1>1, <1>2 DEF LoopPhase
<1>8. EngineTypes'
  BY <1>1, <1>5, <1>6, <1>7 DEF EngineInv, EngineTypes, runVars, bestVars, policyVars, Phases
<1>9. Batch'
  BY <1>1, <1>7 DEF EngineInv, Batch, ItemOK
<1>10. EvalTrue' /\ DecTrue' /\ Candidates' /\ StoppedIsBeaten' /\ FirstRun'
  BY <1>1, Frame DEF cacheVars, runVars
<1>11. Best'
  <2>1. Grows
    BY <1>1 DEF Grows
  <2>2. FeasibleOnly => h' = 0
    BY <1>2, <1>4 DEF EngineInv, Best, AcceptTypeOK
  <2> QED BY <1>1, <1>4, <2>1, <2>2, BestKept
<1> QED BY <1>8, <1>9, <1>10, <1>11 DEF EngineInv

\* A fresh run: an empty store, no incumbent, no work, and its policies at
\* revision 0.  Both Init and NewRun lead there.
LEMMA FreshRun ==
  ASSUME LoopPhase(0) \in {"propose", "done"}
  PROVE  /\ InitialBarrier \in Nat /\ InitialBarrier >= HFloor
         /\ FeasibleOnly => InitialBarrier = 0
         /\ Larger(MulInit, 1) \in 1 .. Larger(MulInit, 1)
         /\ 0 \in 0 .. MaxIters /\ (LoopPhase(0) # "done" => 0 < MaxIters)
         /\ 1 \in Levels /\ InitThresholds \subseteq Thresholds
<1>1. InitialBarrier \in Nat /\ InitialBarrier >= HFloor
  BY AcceptanceAssumption DEF InitialBarrier, Larger, HFloor
<1>2. FeasibleOnly => InitialBarrier = 0
  BY AcceptanceAssumption DEF InitialBarrier, Larger, HFloor, FeasibleOnly
<1>3. Larger(MulInit, 1) \in 1 .. Larger(MulInit, 1)
  BY EngineAssumption DEF Larger
<1>4. 0 \in 0 .. MaxIters /\ (LoopPhase(0) # "done" => 0 < MaxIters)
  BY EngineAssumption DEF LoopPhase
<1>5. 1 \in Levels /\ InitThresholds \subseteq Thresholds
  BY EngineAssumption, LadderAssumption DEF Levels
<1> QED BY <1>1, <1>2, <1>3, <1>4, <1>5

LEMMA DoInit == Init => EngineInv
<1> SUFFICES ASSUME Init PROVE EngineInv
  OBVIOUS
<1>1. LoopPhase(0) \in {"propose", "done"}
  BY DEF LoopPhase
<1>2. AcceptTypeOK
  BY InitType DEF Init
<1>3. EngineTypes
  <2>1. 1 \in 1 .. Larger(MaxRuns, 1)
    BY EngineAssumption DEF Larger
  <2>2. /\ Larger(MulInit, 1) \in 1 .. Larger(MulInit, 1)
        /\ 0 \in 0 .. MaxIters /\ (LoopPhase(0) # "done" => 0 < MaxIters)
        /\ 1 \in Levels /\ InitThresholds \subseteq Thresholds
    BY <1>1, FreshRun
  <2>3. cands \in Seq(Candidate)
    BY EmptySeq DEF Init
  <2> QED BY <1>1, <1>2, <2>1, <2>2, <2>3 DEF Init, EngineTypes, Phases
<1>4. DOMAIN cands = {} /\ DOMAIN work = {} /\ DOMAIN evalCache = {} /\ DOMAIN decCache = {}
  BY DEF Init, EmptyCache
<1>5. EvalTrue /\ DecTrue /\ Candidates /\ FirstRun /\ StoppedIsBeaten
  BY <1>4 DEF EvalTrue, DecTrue, Candidates, FirstRun, StoppedIsBeaten
<1>6. Batch
  BY <1>4 DEF Batch
<1>7. Best
  <2>1. FeasibleOnly => InitialBarrier = 0
    BY <1>1, FreshRun
  <2> QED BY <2>1 DEF Best, Init, AcceptInit
<1> QED BY <1>3, <1>5, <1>6, <1>7 DEF EngineInv

LEMMA DoNewRun ==
  ASSUME EngineInv, NewRun
  PROVE  EngineInv'
<1>1. LoopPhase(0) \in {"propose", "done"}
  BY DEF LoopPhase
<1>2. DOMAIN work = {} /\ run \in 1 .. Larger(MaxRuns, 1)
  BY DEF NewRun, EngineInv, EngineTypes, Batch
<1>3. run' \in 1 .. Larger(MaxRuns, 1) /\ run' # 1
  BY <1>2, EngineAssumption DEF NewRun, Larger
<1>4. AcceptTypeOK'
  <2>1. InitialBarrier \in Nat /\ InitialBarrier >= HFloor
    BY <1>1, FreshRun
  <2>2. IsFiniteSet({})
    BY FS_EmptySet
  <2> QED BY <2>1, <2>2 DEF NewRun, AcceptTypeOK, HFloor
<1>5. EngineTypes'
  <2>2. /\ Larger(MulInit, 1) \in 1 .. Larger(MulInit, 1)
        /\ 0 \in 0 .. MaxIters /\ (LoopPhase(0) # "done" => 0 < MaxIters)
        /\ 1 \in Levels /\ InitThresholds \subseteq Thresholds
    BY <1>1, FreshRun
  <2>3. cands' \in Seq(Candidate)
    BY EmptySeq DEF NewRun
  <2>4. ev' \in Evaluators
    BY DEF NewRun, EngineInv, EngineTypes
  <2> QED BY <1>1, <1>3, <1>4, <2>2, <2>3, <2>4 DEF NewRun, EngineTypes, Phases
<1>6. DOMAIN cands' = {} /\ DOMAIN work' = {}
  BY <1>2 DEF NewRun
<1>7. EvalTrue' /\ DecTrue'
  BY Frame DEF NewRun, cacheVars
<1>8. Candidates' /\ FirstRun' /\ StoppedIsBeaten' /\ Batch'
  BY <1>3, <1>6 DEF Candidates, FirstRun, StoppedIsBeaten, Batch
<1>9. Best'
  <2>1. FeasibleOnly => InitialBarrier = 0
    BY <1>1, FreshRun
  <2> QED BY <2>1 DEF Best, NewRun, FeasibleOnly
<1> QED BY <1>5, <1>7, <1>8, <1>9 DEF EngineInv

LEMMA DoNothing ==
  ASSUME EngineInv, UNCHANGED vars
  PROVE  EngineInv'
<1>1. UNCHANGED <<ev, runVars, phase, iterVars, cands, bestVars, policyVars, work, cacheVars, acceptVars>>
  BY DEF vars
<1>2. EngineTypes'
  BY <1>1 DEF EngineInv, EngineTypes, AcceptTypeOK, acceptVars, iterVars,
         runVars, bestVars, policyVars, HFloor
<1>3. Batch'
  BY <1>1, Frame
<1>4. EvalTrue' /\ DecTrue' /\ Candidates' /\ StoppedIsBeaten' /\ Best' /\ FirstRun'
  BY <1>1, Frame DEF cacheVars, runVars
<1> QED BY <1>2, <1>3, <1>4 DEF EngineInv

-----------------------------------------------------------------------------
(* Theorems.                                                               *)

\* Every step of the engine, of its workers and of its caller keeps EngineInv.
LEMMA EngineStep == EngineInv /\ [Next]_vars => EngineInv'
<1> SUFFICES ASSUME EngineInv, [Next]_vars PROVE EngineInv'
  OBVIOUS
<1>1. CASE Propose \/ InjectPoll
  BY <1>1, DoPropose, DoInjectPoll
<1>2. CASE EndSteps \/ Join
  BY <1>2, PhaseOnly
<1>3. CASE Dispatch \/ PolicyUpdate \/ EndIteration \/ NewRun
  BY <1>3, DoDispatch, DoPolicyUpdate, DoEndIteration, DoNewRun
<1>4. CASE \E i \in DOMAIN work :
             LookupDecision(i) \/ LookupEval(i) \/ Compute(i) \/ Materialize(i)
  BY <1>4, DoLookupDecision, DoLookupEval, DoCompute, DoMaterialize
<1>5. CASE UNCHANGED vars
  BY <1>5, DoNothing
<1> QED BY <1>1, <1>2, <1>3, <1>4, <1>5 DEF Next, Step, Stopped

\* EngineInv is an inductive invariant.
THEOREM EngineInvariant == Spec => []EngineInv
BY DoInit, EngineStep, PTL DEF Spec

\* The types, for every instance: among them that a candidate never leaves
\* the ladder or the lattice, and that the batch is what is in flight.
THEOREM EngineTypeCorrect == Spec => []TypeOK
<1>1. EngineInv => TypeOK
  <2> SUFFICES ASSUME EngineInv PROVE TypeOK
    OBVIOUS
  <2>1. EngineTypes /\ Batch
    BY DEF EngineInv
  <2>2. \A i \in DOMAIN cands : cands[i] \in Candidate
    BY <2>1 DEF EngineTypes
  <2>3. \A i \in DOMAIN cands :
          /\ cands[i].x \in XMesh /\ cands[i].next \in Levels
          /\ cands[i].status \in DoneStatus \cup {"ready", "flight"}
          /\ cands[i].cut \in 0 .. L
    BY <2>2 DEF Candidate
  <2>4. mul \in Nat \ {0}
    BY <2>1, EngineAssumption DEF EngineTypes, Larger
  <2> QED BY <2>1, <2>3, <2>4 DEF TypeOK, EngineTypes, Batch
<1> QED BY <1>1, EngineInvariant, PTL

\* EngineInv says where the incumbent and the filter points come from.
LEMMA TruthFollows == EngineInv => BestIsTruth
<1> SUFFICES ASSUME EngineInv PROVE BestIsTruth
  OBVIOUS
<1>1. \A i \in DOMAIN cands : cands[i].status = "truth" =>
        ev.cheap[cands[i].x] /\ TruthOf(cands[i].x) \in Estimates
  BY DEF EngineInv, Candidates, CandidateOK, TruthOf
<1>2. Best
  BY DEF EngineInv
<1>3. xBest # NoX => ev.cheap[xBest] /\ TruthOf(xBest) \in Estimates
                     /\ fBest = TruthOf(xBest).f
  BY <1>1, <1>2 DEF Best
<1>4. \A p \in points : \E i \in DOMAIN cands :
        /\ cands[i].status = "truth" /\ ev.cheap[cands[i].x]
        /\ p.f = TruthOf(cands[i].x).f /\ p.v = Violation(cands[i].x)
  BY <1>1, <1>2 DEF Best
<1> QED BY <1>3, <1>4 DEF BestIsTruth

\* Only TRUTH results are accepted: whatever mix of cached decisions, cached
\* estimates and fresh evaluations led to it, the incumbent and every filter
\* point are the top-level evaluation of a point that passes the cheap
\* constraints.
THEOREM OnlyTruthAccepted == Spec => []BestIsTruth
BY TruthFollows, EngineInvariant, PTL

\* EngineInv says where a candidate under audit can be.
LEMMA AuditFollows == EngineInv => AuditReachesTruth
BY DEF EngineInv, Candidates, CandidateOK, AuditReachesTruth

\* A candidate under audit is never dropped before TRUTH, except by an
\* invalid evaluation.
THEOREM AuditsComplete == Spec => []AuditReachesTruth
BY AuditFollows, EngineInvariant, PTL

\* Under sound margins the promotion stop only stops what an incumbent of the
\* run beats.
THEOREM StopsOnlyBeaten == Spec => []StoppedIsBeaten
<1>1. EngineInv => StoppedIsBeaten
  BY DEF EngineInv
<1> QED BY <1>1, EngineInvariant, PTL

\* In an engine's first run a decision-cache hit was decided under the policy
\* in force, for any number of revisions.  (Run EngineStale shows that later
\* runs, whose revisions start over, are another matter.)
THEOREM FirstRunHits == Spec => [](run = 1 => HitUnderCurrentPolicy)
<1>1. EngineInv => (run = 1 => HitUnderCurrentPolicy)
  <2> SUFFICES ASSUME EngineInv, run = 1, phase = "join", NEW i \in DOMAIN work,
                      HasCached(i)
               PROVE  work[i].out.cached.policy = <<th, asg>>
    BY DEF HitUnderCurrentPolicy, CachedKind
  <2>1. work[i].pc = "done" /\ ItemOK(i)
    BY DEF EngineInv, Batch
  <2>2. OutcomeOK(ev, work[i].out, cands[i])
    BY <2>1 DEF ItemOK
  <2>3. DOMAIN work[i].out = {"cached"}
    BY <2>2 DEF HasCached, OutcomeOK
  <2> QED BY <2>1, <2>3 DEF EngineInv, FirstRun
<1> QED BY <1>1, EngineInvariant, PTL
=============================================================================
