-------------------------- MODULE CalibratorProofs --------------------------
(***************************************************************************)
(* Proofs about Calibrator, for every ladder, evaluator and configuration, *)
(* any number of candidates and constraints, and whatever levels and cuts  *)
(* the engine selects for audit.                                           *)
(***************************************************************************)
EXTENDS Calibrator, FiniteSetTheorems, SequenceTheorems, TLAPS

-----------------------------------------------------------------------------
(* The inductive invariant.                                                *)

Tallies == [cut : Nat, audit : Nat, falseInfeas : Nat, confirmed : Nat]
Origins == [j : {0} \cup Constraints, cut : 0 .. L]

\* What the engine and the counters hold.
LoopTypes ==
  /\ ev \in Evaluators
  /\ cfg \in Configs
  /\ cursor \in {0} \cup Ids
  /\ at \in [Ids -> 0 .. L + 1]
  /\ origin \in [Ids -> Origins]
  /\ counts \in [Constraints -> [Levels -> Tallies]]
  /\ delta \in [Constraints -> cfg.deltaMin .. cfg.deltaMax]
  /\ revDelta \in {0, 1}

Pending == [j : Constraints, cut : 1 .. L - 1, pairs : SUBSET Levels]

\* A candidate that was never cut is unknown to the calibrator; one that was
\* is on its way up from the level of the cut.  An open audit is the one its
\* candidate is under.
AuditPaths ==
  /\ DOMAIN pending \subseteq Ids
  /\ IsFiniteSet(DOMAIN pending)
  /\ pending \in [DOMAIN pending -> Pending]
  /\ \A i \in Ids :
       /\ at[i] = 0 => origin[i] = None /\ i \notin DOMAIN pending
       /\ at[i] > 0 => origin[i].j \in Constraints /\ origin[i].cut \in 1 .. L - 1
       /\ at[i] \in 1 .. L => i \in DOMAIN pending /\ origin[i].cut < at[i]
  /\ \A i \in DOMAIN pending :
       /\ pending[i].j = origin[i].j /\ pending[i].cut = origin[i].cut
       /\ pending[i].pairs \subseteq Paired(pending[i].cut)
       /\ at[i] \in 1 .. L =>
            pending[i].pairs = {q \in Paired(origin[i].cut) : q < at[i]}

Windows == [Streams -> Seq(Nat)]

\* Sample windows and coefficients.
Learning ==
  /\ samples.glob \in Windows
  /\ samples.phi \in [DOMAIN samples.phi -> Windows]
  /\ samples.interval \in [DOMAIN samples.interval -> Windows]
  /\ k.glob \in [Streams -> Nat]
  /\ k.phi \in [DOMAIN k.phi -> [Streams -> Nat]]
  /\ k.interval \in [DOMAIN k.interval -> [Streams -> Nat]]
  /\ DOMAIN k.phi \subseteq DOMAIN samples.phi
  /\ DOMAIN samples.phi \subseteq KeysOf(1 .. L - 1)
  /\ \A s \in Streams :
       /\ Len(samples.glob[s]) <= KWindow
       /\ \A key \in DOMAIN samples.phi :
            Len(samples.phi[key][s]) \in 1 .. KWindow

Resolved == {i \in Ids : at[i] = L + 1}

\* No bucket holds more samples than audits have ended.
WindowsFit ==
  Sharp => \A key \in DOMAIN samples.phi, s \in Streams :
             Len(samples.phi[key][s]) <= Cardinality(Resolved)

\* The candidate's audit was judged by a TRUTH result.
Judged(i) == at[i] = L + 1 /\ i \notin DOMAIN pending

\* An audit that was judged has left, in the bucket of its cut, a coefficient
\* that accounts for the whole bias of the estimates it was cut on.
CutExplained ==
  Linear /\ Sharp =>
    \A i \in Ids, s \in Streams :
      Judged(i) =>
        LET cut == origin[i].cut IN
        /\ Ladder[cut] \in DOMAIN samples.phi
        /\ \E n \in DOMAIN samples.phi[Ladder[cut]][s] :
             samples.phi[Ladder[cut]][s][n] * Ladder[cut].tau
               >= ev[i][cut][s] - ev[i][L][s]

\* Between batches the coefficient of every bucket is its largest sample.
LargestInForce ==
  Sharp /\ cursor = 0 =>
    \A key \in DOMAIN samples.phi, s \in Streams :
      /\ key \in DOMAIN k.phi
      /\ \A n \in DOMAIN samples.phi[key][s] :
           k.phi[key][s] >= samples.phi[key][s][n]

\* The largest bias of a stream.
Bias(s) == Max({BiasOf(i, s) : i \in Ids} \cup {0})

\* No sample and no coefficient exceeds it.
WithinBias ==
  Linear => \A s \in Streams :
    /\ k.glob[s] <= Bias(s)
    /\ \A key \in DOMAIN k.phi : k.phi[key][s] <= Bias(s)
    /\ \A key \in DOMAIN k.interval : k.interval[key][s] <= Bias(s)
    /\ \A n \in DOMAIN samples.glob[s] : samples.glob[s][n] <= Bias(s)
    /\ \A key \in DOMAIN samples.phi :
         \A n \in DOMAIN samples.phi[key][s] : samples.phi[key][s][n] <= Bias(s)
    /\ \A key \in DOMAIN samples.interval :
         \A n \in DOMAIN samples.interval[key][s] :
           samples.interval[key][s][n] <= Bias(s)

-----------------------------------------------------------------------------
(* Extremes.                                                               *)

\* The smaller of two numbers.
LEMMA MinOfTwo ==
  ASSUME NEW a \in Int, NEW b \in Int
  PROVE  Min({a, b}) = IF a <= b THEN a ELSE b
BY DEF Min

\* The larger one.
LEMMA MaxOfTwo ==
  ASSUME NEW a \in Int, NEW b \in Int
  PROVE  Max({a, b}) = IF a >= b THEN a ELSE b
BY DEF Max

\* Every set of naturals that is not empty has a least element, the one Min
\* gives.
LEMMA MinOfNaturals ==
  ASSUME NEW S, S \subseteq Nat, S # {}
  PROVE  Min(S) \in S /\ \A y \in S : Min(S) <= y
<1> DEFINE R == OpToRel(<, Nat)
<1>1. IsWellFoundedOn(R, Nat)
  BY NatLessThanWellFounded
<1>2. \A m, n \in S : <<m, n>> \in R <=> m < n
  BY DEF OpToRel
<1> HIDE DEF R
<1>3. PICK n \in S : \A m \in S : ~(<<m, n>> \in R)
  BY <1>1, WFMin
<1>4. \A m \in S : m \in Nat /\ n \in Nat /\ ~(m < n)
  BY <1>2, <1>3
<1>5. \A m \in S : n <= m
  BY <1>4
<1> QED BY <1>5 DEF Min

\* A set of integers with an upper bound has a greatest element, the one Max
\* gives.
LEMMA MaxOfBounded ==
  ASSUME NEW n \in Int, NEW S, S \subseteq Int, S # {}, \A x \in S : x <= n
  PROVE  Max(S) \in S /\ \A y \in S : Max(S) >= y
<1> DEFINE U == {n - x : x \in S}
<1>1. U \subseteq Nat /\ U # {}
  <2>1. \A x \in S : x \in Int /\ n - x \in Nat
    OBVIOUS
  <2>2. PICK x \in S : TRUE
    OBVIOUS
  <2>3. n - x \in U
    OBVIOUS
  <2> QED BY <2>1, <2>3
<1> DEFINE u == Min(U)
<1>2. u \in U /\ \A v \in U : u <= v
  BY <1>1, MinOfNaturals
<1> HIDE DEF u
<1>3. PICK x \in S : u = n - x
  BY <1>2
<1>4. ASSUME NEW y \in S PROVE x >= y
  <2>1. n - y \in U
    OBVIOUS
  <2>2. u <= n - y
    BY <1>2, <2>1
  <2>3. x \in Int /\ y \in Int
    OBVIOUS
  <2> HIDE DEF U
  <2> QED BY <2>2, <2>3, <1>3
<1> QED BY <1>4 DEF Max

\* Finitely many integers have an upper bound: there is no least number of
\* them without one.
LEMMA FiniteIsBounded ==
  \A n \in Nat : \A f \in [1 .. n -> Int] :
    \E m \in Nat : \A i \in 1 .. n : f[i] <= m
<1> DEFINE Bounded(n) == \A f \in [1 .. n -> Int] :
                           \E m \in Nat : \A i \in 1 .. n : f[i] <= m
           B == {n \in Nat : ~Bounded(n)}
<1>1. SUFFICES ASSUME B # {} PROVE FALSE
  OBVIOUS
<1> DEFINE n == Min(B)
<1>2. n \in B /\ \A y \in B : n <= y
  BY <1>1, MinOfNaturals
<1> HIDE DEF n
<1>3. PICK f \in [1 .. n -> Int] : ~\E m \in Nat : \A i \in 1 .. n : f[i] <= m
  BY <1>2
<1>4. n \in Nat
  BY <1>2
<1>5. n # 0
  <2> SUFFICES ASSUME n = 0 PROVE FALSE
    OBVIOUS
  <2>1. \A i \in 1 .. n : f[i] <= 0
    OBVIOUS
  <2> QED BY <1>3, <2>1
<1>6. n - 1 \in Nat /\ n - 1 \notin B
  <2> HIDE DEF B
  <2> QED BY <1>2, <1>4, <1>5
<1>7. Bounded(n - 1)
  BY <1>6
<1> DEFINE g == [i \in 1 .. n - 1 |-> f[i]]
<1>8. g \in [1 .. n - 1 -> Int]
  BY <1>4
<1>9. PICK m \in Nat : \A i \in 1 .. n - 1 : g[i] <= m
  BY <1>7, <1>8
<1> DEFINE top == IF f[n] >= m THEN f[n] ELSE m
<1>10. f[n] \in Int
  BY <1>4, <1>5
<1>11. top \in Nat /\ top >= m /\ top >= f[n]
  BY <1>10
<1>12. ASSUME NEW i \in 1 .. n PROVE f[i] <= top
  <2>1. CASE i = n
    BY <2>1, <1>11
  <2>2. CASE i # n
    <3>1. i \in 1 .. n - 1
      BY <2>2, <1>4
    <3>2. f[i] <= m
      BY <3>1, <1>9
    <3> HIDE DEF top
    <3> QED BY <3>2, <1>11
  <2> QED BY <2>1, <2>2
<1> QED BY <1>3, <1>11, <1>12

\* A window of samples has a largest one.
LEMMA LargestSample ==
  ASSUME NEW w \in Seq(Nat), Len(w) >= 1
  PROVE  \E n \in DOMAIN w : \A m \in DOMAIN w : w[m] <= w[n]
<1>1. Len(w) \in Nat /\ DOMAIN w = 1 .. Len(w) /\ w \in [1 .. Len(w) -> Nat]
  OBVIOUS
<1>2. w \in [1 .. Len(w) -> Int]
  BY <1>1
<1>3. PICK m \in Nat : \A i \in 1 .. Len(w) : w[i] <= m
  BY <1>1, <1>2, FiniteIsBounded
<1> DEFINE S == {w[i] : i \in 1 .. Len(w)}
<1>4. S \subseteq Int /\ S # {} /\ \A x \in S : x <= m
  <2>1. 1 \in 1 .. Len(w)
    BY <1>1
  <2> QED BY <1>1, <1>3, <2>1
<1> HIDE DEF S
<1>5. Max(S) \in S /\ \A y \in S : Max(S) >= y
  <2>1. m \in Int
    OBVIOUS
  <2> QED BY <1>4, <2>1, MaxOfBounded
<1> USE DEF S
<1>6. PICK n \in 1 .. Len(w) : Max(S) = w[n]
  BY <1>5
<1>7. ASSUME NEW i \in DOMAIN w PROVE w[i] <= w[n]
  <2>1. w[i] \in S /\ w[i] \in Nat /\ w[n] \in Nat
    BY <1>1
  <2>2. Max(S) >= w[i]
    BY <1>5, <2>1
  <2> HIDE DEF S
  <2> QED BY <1>6, <2>1, <2>2
<1> QED BY <1>1, <1>7

-----------------------------------------------------------------------------
(* Division.                                                               *)

\* Products of naturals.
LEMMA ProductGrows ==
  ASSUME NEW a \in Nat, NEW b \in Nat, NEW c \in Nat, a >= b
  PROVE  a * c >= b * c
OBVIOUS

\* The quotient of naturals, and bounds on it.
LEMMA Quotient ==
  ASSUME NEW a \in Nat, NEW d \in Nat, d > 0
  PROVE  /\ a \div d \in Nat
         /\ (a \div d) * d <= a
         /\ a < (a \div d + 1) * d
<1>1. a = d * (a \div d) + (a % d)
  OBVIOUS
<1>2. a % d \in 0 .. d - 1
  OBVIOUS
<1>3. a \div d \in Nat
  OBVIOUS
<1> DEFINE q == a \div d  r == a % d
<1> HIDE DEF q, r
<1>4. a = d * q + r /\ r \in 0 .. d - 1 /\ q \in Nat
  BY <1>1, <1>2, <1>3 DEF q, r
<1>5. q * d <= a /\ a < (q + 1) * d
  BY <1>4
<1> QED BY <1>3, <1>5 DEF q

\* It is at most b if the dividend is at most b times the divisor.
LEMMA QuotientAtMost ==
  ASSUME NEW a \in Nat, NEW d \in Nat, d > 0, NEW b \in Nat, a <= b * d
  PROVE  a \div d <= b
<1> DEFINE q == a \div d
<1>1. q \in Nat /\ q * d <= a
  BY Quotient
<1> HIDE DEF q
<1>2. SUFFICES ASSUME q >= b + 1 PROVE FALSE
  BY <1>1 DEF q
<1>3. q * d >= (b + 1) * d
  BY <1>1, <1>2
<1>4. (b + 1) * d = b * d + d /\ b * d \in Nat /\ q * d \in Nat
  BY <1>1
<1> QED BY <1>1, <1>3, <1>4

\* A multiple of the divisor is divided exactly.
LEMMA QuotientExact ==
  ASSUME NEW b \in Nat, NEW d \in Nat, d > 0
  PROVE  (b * d) \div d = b
<1> DEFINE q == (b * d) \div d
<1>0. b * d \in Nat
  OBVIOUS
<1>1. q \in Nat /\ b * d < (q + 1) * d
  BY <1>0, Quotient
<1>2. q <= b
  BY <1>0, QuotientAtMost
<1> HIDE DEF q
<1>3. b < q + 1
  <2> SUFFICES ASSUME b >= q + 1 PROVE FALSE
    BY <1>1
  <2>1. b * d >= (q + 1) * d
    BY <1>1
  <2> QED BY <1>0, <1>1, <2>1
<1> QED BY <1>1, <1>2, <1>3 DEF q

-----------------------------------------------------------------------------
(* Constants and configurations.                                           *)

\* The ladder.
LEMMA LadderFacts ==
  /\ L \in Nat /\ L > 0 /\ L \in Levels
  /\ \A p \in Levels : p \in Nat /\ Ladder[p].tau \in Nat /\ Ladder[p].tau > 0
  /\ \A p, q \in Levels : p < q => Ladder[p].tau >= Ladder[q].tau
<1>1. L \in Nat /\ L > 0
  BY LadderAssumption
<1>2. \A p \in Levels : p \in Nat /\ Ladder[p].tau \in Nat /\ Ladder[p].tau > 0
  BY <1>1, LadderAssumption DEF Levels
<1>3. \A p, q \in Levels : p < q => Ladder[p].tau >= Ladder[q].tau
  BY CalibratorAssumption
<1> QED BY <1>1, <1>2, <1>3 DEF Levels

\* Configurations as apply_cfg clamps them.
LEMMA ConfigFacts ==
  ASSUME cfg \in Configs
  PROVE  /\ KWindow \in Nat /\ KWindow >= 1
         /\ KMinPairs \in Nat /\ KMinPairs >= 1
         /\ cfg.qDen \in Nat /\ cfg.qDen > 0
         /\ KQuantileNum \in Nat /\ KQuantileNum <= cfg.qDen
         /\ cfg.etaDen \in Nat /\ cfg.etaDen > 0
         /\ KEtaNum \in Nat /\ KEtaNum <= cfg.etaDen
         /\ cfg.deltaMin \in Nat /\ cfg.deltaMax \in Nat
         /\ cfg.deltaMin <= cfg.deltaMax
<1>1. /\ {cfg.deltaMin, cfg.deltaMax, cfg.kWindow, cfg.kMinPairs, cfg.qNum,
          cfg.etaNum} \subseteq Nat
      /\ {cfg.qDen, cfg.etaDen} \subseteq Nat \ {0}
      /\ cfg.deltaMin <= cfg.deltaMax
  BY CalibratorAssumption
<1>2. KWindow \in Nat /\ KWindow >= 1
  <2>1. cfg.kWindow \in Int /\ 1 \in Int
    BY <1>1
  <2> QED BY <1>1, <2>1, MaxOfTwo DEF KWindow
<1>3. KMinPairs \in Nat /\ KMinPairs >= 1
  <2> DEFINE x == Max({cfg.kMinPairs, 1})
  <2>1. x \in Nat /\ x >= 1
    <3>1. cfg.kMinPairs \in Int /\ 1 \in Int
      BY <1>1
    <3> QED BY <1>1, <3>1, MaxOfTwo
  <2> HIDE DEF x
  <2>2. KMinPairs = IF x <= KWindow THEN x ELSE KWindow
    <3>1. KMinPairs = Min({x, KWindow})
      BY DEF KMinPairs, x
    <3> QED BY <3>1, <2>1, <1>2, MinOfTwo
  <2> QED BY <2>1, <2>2, <1>2
<1>4. KQuantileNum \in Nat /\ KQuantileNum <= cfg.qDen
  <2>1. cfg.qNum \in Int /\ cfg.qDen \in Int
    BY <1>1
  <2> QED BY <1>1, <2>1, MinOfTwo DEF KQuantileNum
<1>5. KEtaNum \in Nat /\ KEtaNum <= cfg.etaDen
  <2>1. cfg.etaNum \in Int /\ cfg.etaDen \in Int
    BY <1>1
  <2> QED BY <1>1, <2>1, MinOfTwo DEF KEtaNum
<1> QED BY <1>1, <1>2, <1>3, <1>4, <1>5

\* update_delta and configure keep delta within its bounds.
LEMMA ClampDeltaTyped ==
  ASSUME cfg \in Configs, NEW d \in Int
  PROVE  ClampDelta(d) \in cfg.deltaMin .. cfg.deltaMax
<1>1. /\ cfg.deltaMin \in Nat /\ cfg.deltaMax \in Nat
      /\ cfg.deltaMin <= cfg.deltaMax
  BY ConfigFacts
<1> DEFINE x == Max({d, cfg.deltaMin})
<1>2. x \in Int /\ x >= cfg.deltaMin
  BY <1>1, MaxOfTwo
<1> HIDE DEF x
<1>3. ClampDelta(d) = IF x <= cfg.deltaMax THEN x ELSE cfg.deltaMax
  <2>1. ClampDelta(d) = Min({x, cfg.deltaMax})
    BY DEF ClampDelta, x
  <2> QED BY <2>1, <1>1, <1>2, MinOfTwo
<1> QED BY <1>1, <1>2, <1>3

\* What an evaluator returns; an estimate it can be cut on is an exact
\* multiple of the tolerance above TRUTH.
LEMMA EvaluatorFacts ==
  ASSUME ev \in Evaluators, NEW i \in Ids, NEW p \in Levels, NEW s \in Streams
  PROVE  /\ ev[i][p][s] \in Int
         /\ (ev[i][p][s] - ev[i][L][s]) % Ladder[p].tau = 0
BY CalibratorAssumption DEF Exact

-----------------------------------------------------------------------------
(* next_audit_target_idx.                                                  *)

\* An audited candidate moves up and skips no paired level.
LEMMA AuditTarget ==
  ASSUME NEW cut \in Levels, NEW p \in Levels, cut <= p, p < L
  PROVE  /\ NextAuditTarget(cut, p) \in p + 1 .. L
         /\ \A q \in Paired(cut) : q < NextAuditTarget(cut, p) <=> q <= p
<1> DEFINE ahead == {q \in Paired(cut) : q > p}
<1>1. L \in Nat /\ p \in Nat /\ cut \in Nat
  BY LadderFacts
<1>2. \A q \in Paired(cut) : q \in Nat /\ q <= L
  BY <1>1 DEF Paired
<1>3. CASE ahead = {}
  <2>1. NextAuditTarget(cut, p) = L
    BY <1>3 DEF NextAuditTarget
  <2>2. \A q \in Paired(cut) : q <= p
    BY <1>1, <1>2, <1>3
  <2> QED BY <1>1, <1>2, <2>1, <2>2
<1>4. CASE ahead # {}
  <2>1. ahead \subseteq Nat
    BY <1>2
  <2>2. NextAuditTarget(cut, p) = Min(ahead)
    BY <1>4 DEF NextAuditTarget, Min
  <2>3. Min(ahead) \in ahead /\ \A y \in ahead : Min(ahead) <= y
    <3> HIDE DEF ahead
    <3> QED BY <1>4, <2>1, MinOfNaturals
  <2> DEFINE t == Min(ahead)
  <2> HIDE DEF t
  <2>4. t \in Paired(cut) /\ t > p /\ \A y \in Paired(cut) : y > p => t <= y
    BY <2>3 DEF t
  <2>5. t \in p + 1 .. L
    BY <1>1, <1>2, <2>4
  <2>6. \A q \in Paired(cut) : q < t <=> q <= p
    BY <1>1, <1>2, <2>4
  <2> QED BY <2>2, <2>5, <2>6 DEF t
<1> QED BY <1>3, <1>4

-----------------------------------------------------------------------------
(* The audit loop.                                                         *)

AuditInv == LoopTypes /\ AuditPaths /\ AuditsBalance

\* note_audit_checkpoint on an audit the calibrator has not seen.
LEMMA AuditOpened ==
  ASSUME AuditInv, NEW i \in Ids, i \notin DOMAIN pending,
         NEW j \in Constraints, NEW p \in 1 .. L - 1,
         NoteAuditCheckpoint(i, [j |-> j, cut |-> p], {})
  PROVE  /\ DOMAIN pending' = DOMAIN pending \cup {i}
         /\ pending'[i] = [j |-> j, cut |-> p, pairs |-> {}]
         /\ \A x \in DOMAIN pending : pending'[x] = pending[x]
         /\ pending' \in [DOMAIN pending' -> Pending]
         /\ IsFiniteSet(DOMAIN pending')
         /\ counts' \in [Constraints -> [Levels -> Tallies]]
         /\ AuditsBalance'
<1>0. p \in Levels
  BY LadderFacts DEF Levels
<1> DEFINE a == [j |-> j, cut |-> p, pairs |-> {}]
<1>1. pending' = Put(pending, i, a) /\ Count(j, p, "cut")
  BY DEF NoteAuditCheckpoint
<1>2. a \in Pending
  BY DEF Pending
<1> HIDE DEF a
<1>3. DOMAIN pending' = DOMAIN pending \cup {i}
  BY <1>1 DEF Put
<1>4. pending'[i] = a
  BY <1>1, <1>3 DEF Put
<1>5. \A x \in DOMAIN pending : pending'[x] = pending[x]
  BY <1>1, <1>3 DEF Put
<1>6. pending' \in [DOMAIN pending' -> Pending]
  <2>1. pending \in [DOMAIN pending -> Pending]
    BY DEF AuditInv, AuditPaths
  <2>2. \A x \in DOMAIN pending' : pending'[x] \in Pending
    BY <1>2, <1>3, <1>4, <1>5, <2>1
  <2>3. pending' = [x \in DOMAIN pending' |-> pending'[x]]
    BY <1>1 DEF Put
  <2> QED BY <2>2, <2>3
<1>7. IsFiniteSet(DOMAIN pending) /\ IsFiniteSet(DOMAIN pending')
  BY <1>3, FS_AddElement DEF AuditInv, AuditPaths
<1> DEFINE c == counts[j][p]  d == [c EXCEPT !.cut = c.cut + 1]
<1>8. counts \in [Constraints -> [Levels -> Tallies]] /\ c \in Tallies
  BY <1>0 DEF AuditInv, LoopTypes
<1>9. counts' = [counts EXCEPT ![j] = [counts[j] EXCEPT ![p] = d]]
  BY <1>1 DEF Count
<1>10. d \in Tallies /\ d.cut = c.cut + 1 /\ d.audit = c.audit
       /\ d.falseInfeas = c.falseInfeas /\ d.confirmed = c.confirmed
  <2> HIDE DEF c
  <2> QED BY <1>8 DEF Tallies
<1> HIDE DEF d
<1>11. counts' \in [Constraints -> [Levels -> Tallies]]
  BY <1>0, <1>8, <1>9, <1>10
<1>12. ASSUME NEW j2 \in Constraints, NEW p2 \in Levels
       PROVE  counts'[j2][p2] = IF j2 = j /\ p2 = p THEN d ELSE counts[j2][p2]
  BY <1>8, <1>9
<1>13. ASSUME NEW j2 \in Constraints, NEW p2 \in Levels
       PROVE  /\ counts'[j2][p2].cut = counts'[j2][p2].audit
                                         + Cardinality(Open(j2, p2)')
              /\ counts'[j2][p2].falseInfeas + counts'[j2][p2].confirmed
                   <= counts'[j2][p2].audit
  <2>1. /\ counts[j2][p2].cut = counts[j2][p2].audit + Cardinality(Open(j2, p2))
        /\ counts[j2][p2].falseInfeas + counts[j2][p2].confirmed
             <= counts[j2][p2].audit
    BY DEF AuditInv, AuditsBalance
  <2>2. CASE j2 = j /\ p2 = p
    <3>1. Open(j, p)' = Open(j, p) \cup {i} /\ i \notin Open(j, p)
      BY <1>3, <1>4, <1>5 DEF Open, a
    <3>2. IsFiniteSet(Open(j, p))
      BY <1>7, FS_Subset DEF Open
    <3>3. Cardinality(Open(j, p)) \in Nat
          /\ Cardinality(Open(j, p)') = Cardinality(Open(j, p)) + 1
      BY <3>1, <3>2, FS_AddElement, FS_CardinalityType
    <3>4. c.cut = c.audit + Cardinality(Open(j, p))
          /\ c.cut \in Nat /\ c.audit \in Nat
      BY <1>8, <2>1, <2>2 DEF Tallies
    <3>5. d.cut = d.audit + Cardinality(Open(j, p)')
      BY <1>10, <3>3, <3>4
    <3> QED BY <1>10, <1>12, <2>1, <2>2, <3>5
  <2>3. CASE ~(j2 = j /\ p2 = p)
    <3>1. Open(j2, p2)' = Open(j2, p2)
      BY <1>3, <1>4, <1>5, <2>3 DEF Open, a
    <3> QED BY <1>12, <2>1, <2>3, <3>1
  <2> QED BY <2>2, <2>3
<1>14. AuditsBalance'
  BY <1>13 DEF AuditsBalance
<1> QED BY <1>3, <1>4, <1>5, <1>6, <1>7, <1>11, <1>14 DEF a

\* A cut that is selected for audit.
LEMMA CutAndAuditStep ==
  ASSUME AuditInv, NEW i \in Ids, NEW p \in Levels, CutAndAudit(i, p)
  PROVE  AuditInv'
<1>1. /\ at[i] = 0 /\ p < L /\ cursor' = i
      /\ at' = [at EXCEPT ![i] = NextAuditTarget(p, p)]
      /\ ev' = ev /\ cfg' = cfg /\ delta' = delta /\ revDelta' = revDelta
  BY DEF CutAndAudit, Deliver, learned
<1>2. PICK j \in Constraints :
        /\ origin' = [origin EXCEPT ![i] = [j |-> j, cut |-> p]]
        /\ NoteAuditCheckpoint(i, [j |-> j, cut |-> p], {})
  BY DEF CutAndAudit
<1>3. LoopTypes /\ AuditPaths
  BY DEF AuditInv
<1>4. L \in Nat /\ p \in Nat /\ p \in 1 .. L - 1
  BY <1>1, LadderFacts DEF Levels
<1>5. i \notin DOMAIN pending
  BY <1>1, <1>3 DEF AuditPaths
<1>6. /\ DOMAIN pending' = DOMAIN pending \cup {i}
      /\ pending'[i] = [j |-> j, cut |-> p, pairs |-> {}]
      /\ \A x \in DOMAIN pending : pending'[x] = pending[x]
      /\ pending' \in [DOMAIN pending' -> Pending]
      /\ IsFiniteSet(DOMAIN pending')
      /\ counts' \in [Constraints -> [Levels -> Tallies]]
      /\ AuditsBalance'
  BY <1>2, <1>4, <1>5, AuditOpened
<1> DEFINE t == NextAuditTarget(p, p)
<1>7. t \in p + 1 .. L /\ \A q \in Paired(p) : q < t <=> q <= p
  BY <1>1, <1>4, AuditTarget
<1>8. {q \in Paired(p) : q < t} = {}
  <2>1. \A q \in Paired(p) : q \in Nat /\ q > p
    BY <1>4 DEF Paired
  <2> HIDE DEF t
  <2> QED BY <1>4, <1>7, <2>1
<1> HIDE DEF t
<1>9. at \in [Ids -> 0 .. L + 1] /\ origin \in [Ids -> Origins]
  BY <1>3 DEF LoopTypes
<1>10. at' = [at EXCEPT ![i] = t]
  BY <1>1 DEF t
<1>11. at' \in [Ids -> 0 .. L + 1] /\ at'[i] = t
       /\ \A x \in Ids : x # i => at'[x] = at[x]
  <2>1. t \in 0 .. L + 1
    BY <1>4, <1>7
  <2> QED BY <1>9, <1>10, <2>1
<1>12. origin' \in [Ids -> Origins] /\ origin'[i] = [j |-> j, cut |-> p]
       /\ \A x \in Ids : x # i => origin'[x] = origin[x]
  <2>1. [j |-> j, cut |-> p] \in Origins
    BY <1>4 DEF Origins
  <2> QED BY <1>2, <1>9, <2>1
<1>13. LoopTypes'
  <2>1. cursor' \in {0} \cup Ids
    BY <1>1
  <2>2. delta' \in [Constraints -> cfg'.deltaMin .. cfg'.deltaMax]
    BY <1>1, <1>3 DEF LoopTypes
  <2> QED BY <1>1, <1>3, <1>6, <1>11, <1>12, <2>1, <2>2 DEF LoopTypes
<1>14. AuditPaths'
  <2>1. DOMAIN pending' \subseteq Ids
    BY <1>3, <1>6 DEF AuditPaths
  <2>2. ASSUME NEW x \in Ids
        PROVE  /\ at'[x] = 0 => origin'[x] = None /\ x \notin DOMAIN pending'
               /\ at'[x] > 0 => origin'[x].j \in Constraints
                                /\ origin'[x].cut \in 1 .. L - 1
               /\ at'[x] \in 1 .. L => x \in DOMAIN pending'
                                       /\ origin'[x].cut < at'[x]
    <3>1. CASE x = i
      BY <1>4, <1>6, <1>7, <1>11, <1>12, <3>1
    <3>2. CASE x # i
      BY <1>3, <1>6, <1>11, <1>12, <3>2 DEF AuditPaths
    <3> QED BY <3>1, <3>2
  <2>3. ASSUME NEW x \in DOMAIN pending'
        PROVE  /\ pending'[x].j = origin'[x].j /\ pending'[x].cut = origin'[x].cut
               /\ pending'[x].pairs \subseteq Paired(pending'[x].cut)
               /\ at'[x] \in 1 .. L =>
                    pending'[x].pairs = {q \in Paired(origin'[x].cut) : q < at'[x]}
    <3>1. CASE x = i
      <4>1. pending'[i].j = j /\ pending'[i].cut = p /\ pending'[i].pairs = {}
        BY <1>6
      <4>2. origin'[i].j = j /\ origin'[i].cut = p
        BY <1>12
      <4> QED BY <1>8, <1>11, <3>1, <4>1, <4>2
    <3>2. CASE x # i
      <4>1. x \in DOMAIN pending /\ x \in Ids
        BY <1>6, <2>1, <3>2
      <4> QED BY <1>3, <1>6, <1>11, <1>12, <3>2, <4>1 DEF AuditPaths
    <3> QED BY <3>1, <3>2
  <2> QED BY <1>6, <2>1, <2>2, <2>3 DEF AuditPaths, Paired
<1> QED BY <1>6, <1>13, <1>14 DEF AuditInv

\* A checkpoint below TRUTH.
LEMMA CheckpointStep ==
  ASSUME AuditInv, NEW i \in Ids, Checkpoint(i)
  PROVE  AuditInv'
<1> DEFINE cut == origin[i].cut  p == at[i]  t == NextAuditTarget(cut, p)
           ps == PairedSample(i, p)
<1>1. /\ p \in 1 .. L - 1 /\ cursor' = i
      /\ at' = [at EXCEPT ![i] = t]
      /\ ev' = ev /\ cfg' = cfg /\ delta' = delta /\ revDelta' = revDelta
      /\ origin' = origin
      /\ NoteAuditCheckpoint(i, origin[i], ps)
  BY DEF Checkpoint, Deliver, learned
<1>2. LoopTypes /\ AuditPaths
  BY DEF AuditInv
<1>3. L \in Nat /\ p \in Nat /\ p \in Levels /\ p < L
  BY <1>1, LadderFacts DEF Levels
<1>4. i \in DOMAIN pending /\ cut \in 1 .. L - 1 /\ cut < p
  BY <1>1, <1>2, <1>3 DEF AuditPaths
<1>5. cut \in Levels /\ cut \in Nat /\ cut <= p
  BY <1>3, <1>4 DEF Levels
<1>6. t \in p + 1 .. L /\ \A q \in Paired(cut) : q < t <=> q <= p
  BY <1>3, <1>5, AuditTarget
<1>7. pending' = [pending EXCEPT ![i].pairs = @ \cup ps] /\ counts' = counts
  BY <1>1, <1>4 DEF NoteAuditCheckpoint
<1> DEFINE a == pending[i]  b == [a EXCEPT !.pairs = a.pairs \cup ps]
<1>8. pending \in [DOMAIN pending -> Pending] /\ a \in Pending
  BY <1>2, <1>4 DEF AuditPaths
<1>9. pending' = [pending EXCEPT ![i] = b]
  BY <1>7
<1>10. ps = {p} \cap Paired(cut)
  BY DEF PairedSample
<1>11. a.j = origin[i].j /\ a.cut = cut /\ a.pairs = {q \in Paired(cut) : q < p}
  BY <1>1, <1>2, <1>3, <1>4 DEF AuditPaths
<1> HIDE DEF a, ps, t
<1>12. a.pairs \cup ps = {q \in Paired(cut) : q < t}
  <2>1. \A q \in Paired(cut) : q \in Nat
    BY <1>3, <1>5 DEF Paired
  <2>2. \A q \in Paired(cut) : q < t <=> (q < p \/ q = p)
    BY <1>3, <1>6, <2>1
  <2> HIDE DEF p, cut
  <2> QED BY <1>10, <1>11, <2>2
<1>13. ps \subseteq Levels
  BY <1>3, <1>10
<1>14. b \in Pending /\ b.j = a.j /\ b.cut = a.cut /\ b.pairs = a.pairs \cup ps
  BY <1>8, <1>13 DEF Pending
<1> HIDE DEF b
<1>15. /\ DOMAIN pending' = DOMAIN pending /\ pending'[i] = b
       /\ \A x \in DOMAIN pending : x # i => pending'[x] = pending[x]
       /\ pending' \in [DOMAIN pending' -> Pending]
  BY <1>4, <1>8, <1>9, <1>14
<1>16. at \in [Ids -> 0 .. L + 1]
  BY <1>2 DEF LoopTypes
<1>17. at' \in [Ids -> 0 .. L + 1] /\ at'[i] = t
       /\ \A x \in Ids : x # i => at'[x] = at[x]
  <2>1. t \in 0 .. L + 1
    BY <1>3, <1>6
  <2> QED BY <1>1, <1>16, <2>1
<1>18. LoopTypes'
  <2>1. cursor' \in {0} \cup Ids
    BY <1>1
  <2>2. delta' \in [Constraints -> cfg'.deltaMin .. cfg'.deltaMax]
    BY <1>1, <1>2 DEF LoopTypes
  <2> QED BY <1>1, <1>2, <1>7, <1>17, <2>1, <2>2 DEF LoopTypes
<1>19. AuditPaths'
  <2>1. DOMAIN pending' \subseteq Ids /\ IsFiniteSet(DOMAIN pending')
    BY <1>2, <1>15 DEF AuditPaths
  <2>2. ASSUME NEW x \in Ids
        PROVE  /\ at'[x] = 0 => origin'[x] = None /\ x \notin DOMAIN pending'
               /\ at'[x] > 0 => origin'[x].j \in Constraints
                                /\ origin'[x].cut \in 1 .. L - 1
               /\ at'[x] \in 1 .. L => x \in DOMAIN pending'
                                       /\ origin'[x].cut < at'[x]
    <3>1. CASE x = i
      <4>1. at[i] > 0 /\ at'[i] > 0 /\ at'[i] # 0
        BY <1>3, <1>6, <1>17, <1>1
      <4>2. origin[i].j \in Constraints
        BY <1>2, <4>1 DEF AuditPaths
      <4>3. cut < t
        BY <1>3, <1>5, <1>6
      <4> QED BY <1>1, <1>4, <1>15, <1>17, <3>1, <4>1, <4>2, <4>3
    <3>2. CASE x # i
      BY <1>1, <1>2, <1>15, <1>17, <3>2 DEF AuditPaths
    <3> QED BY <3>1, <3>2
  <2>3. ASSUME NEW x \in DOMAIN pending'
        PROVE  /\ pending'[x].j = origin'[x].j /\ pending'[x].cut = origin'[x].cut
               /\ pending'[x].pairs \subseteq Paired(pending'[x].cut)
               /\ at'[x] \in 1 .. L =>
                    pending'[x].pairs = {q \in Paired(origin'[x].cut) : q < at'[x]}
    <3>1. CASE x = i
      <4>1. b.j = origin'[i].j /\ b.cut = origin'[i].cut
            /\ b.pairs = {q \in Paired(origin'[i].cut) : q < at'[i]}
        BY <1>1, <1>11, <1>12, <1>14, <1>17
      <4> QED BY <1>15, <3>1, <4>1
    <3>2. CASE x # i
      <4>1. x \in DOMAIN pending /\ x \in Ids
        BY <1>15, <2>1, <3>2
      <4> QED BY <1>1, <1>2, <1>15, <1>17, <3>2, <4>1 DEF AuditPaths
    <3> QED BY <3>1, <3>2
  <2> QED BY <1>15, <2>1, <2>2, <2>3 DEF AuditPaths, Paired
<1>20. AuditsBalance'
  <2>1. ASSUME NEW j2, NEW p2 PROVE Open(j2, p2)' = Open(j2, p2)
    <3>1. \A x \in DOMAIN pending : pending'[x].j = pending[x].j
                                    /\ pending'[x].cut = pending[x].cut
      BY <1>14, <1>15 DEF a
    <3> QED BY <1>15, <3>1 DEF Open
  <2> QED BY <1>7, <2>1 DEF AuditInv, AuditsBalance
<1> QED BY <1>18, <1>19, <1>20 DEF AuditInv

\* An evaluation that is lost.
LEMMA LoseStep ==
  ASSUME AuditInv, NEW i \in Ids, Lose(i)
  PROVE  AuditInv'
<1>1. /\ at[i] \in 1 .. L /\ cursor' = i
      /\ at' = [at EXCEPT ![i] = L + 1]
      /\ ev' = ev /\ cfg' = cfg /\ delta' = delta /\ revDelta' = revDelta
      /\ origin' = origin /\ pending' = pending /\ counts' = counts
  BY DEF Lose, Deliver, learned
<1>2. LoopTypes /\ AuditPaths
  BY DEF AuditInv
<1>3. L \in Nat
  BY LadderFacts
<1>4. at \in [Ids -> 0 .. L + 1]
  BY <1>2 DEF LoopTypes
<1>5. at' \in [Ids -> 0 .. L + 1] /\ at'[i] = L + 1
      /\ \A x \in Ids : x # i => at'[x] = at[x]
  BY <1>1, <1>3, <1>4
<1>6. LoopTypes'
  <2>1. cursor' \in {0} \cup Ids
    BY <1>1
  <2>2. delta' \in [Constraints -> cfg'.deltaMin .. cfg'.deltaMax]
    BY <1>1, <1>2 DEF LoopTypes
  <2> QED BY <1>1, <1>2, <1>5, <2>1, <2>2 DEF LoopTypes
<1>7. AuditPaths'
  <2>2. ASSUME NEW x \in Ids
        PROVE  /\ at'[x] = 0 => origin'[x] = None /\ x \notin DOMAIN pending'
               /\ at'[x] > 0 => origin'[x].j \in Constraints
                                /\ origin'[x].cut \in 1 .. L - 1
               /\ at'[x] \in 1 .. L => x \in DOMAIN pending'
                                       /\ origin'[x].cut < at'[x]
    <3>1. CASE x = i
      <4>1. at[i] > 0 /\ ~(at'[i] \in 1 .. L) /\ at'[i] # 0
        BY <1>1, <1>3, <1>5
      <4> QED BY <1>1, <1>2, <3>1, <4>1 DEF AuditPaths
    <3>2. CASE x # i
      BY <1>1, <1>2, <1>5, <3>2 DEF AuditPaths
    <3> QED BY <3>1, <3>2
  <2>3. ASSUME NEW x \in DOMAIN pending'
        PROVE  /\ pending'[x].j = origin'[x].j /\ pending'[x].cut = origin'[x].cut
               /\ pending'[x].pairs \subseteq Paired(pending'[x].cut)
               /\ at'[x] \in 1 .. L =>
                    pending'[x].pairs = {q \in Paired(origin'[x].cut) : q < at'[x]}
    <3>1. x \in DOMAIN pending /\ x \in Ids
      BY <1>1, <1>2 DEF AuditPaths
    <3>2. at'[x] \in 1 .. L => at'[x] = at[x]
      BY <1>3, <1>5, <3>1
    <3> QED BY <1>1, <1>2, <3>1, <3>2 DEF AuditPaths
  <2> QED BY <1>1, <1>2, <2>2, <2>3 DEF AuditPaths, Paired
<1>8. AuditsBalance'
  BY <1>1 DEF AuditInv, AuditsBalance, Open
<1> QED BY <1>6, <1>7, <1>8 DEF AuditInv

\* One judgement: never both false and confirmed.
LEMMA TallyTyped ==
  ASSUME ev \in Evaluators, NEW i \in Ids, NEW j \in Constraints,
         NEW c \in Tallies
  PROVE  LET d == Tally(i, c, j) IN
         /\ d \in Tallies
         /\ d.cut = c.cut /\ d.audit = c.audit + 1
         /\ d.falseInfeas + d.confirmed <= c.falseInfeas + c.confirmed + 1
<1> DEFINE f == IF Feasible(i) THEN c.falseInfeas + 1 ELSE c.falseInfeas
           g == IF ev[i][L][j] > 0 THEN c.confirmed + 1 ELSE c.confirmed
           d == [c EXCEPT !.audit = c.audit + 1, !.falseInfeas = f,
                          !.confirmed = g]
<1>1. c.cut \in Nat /\ c.audit \in Nat /\ c.falseInfeas \in Nat
      /\ c.confirmed \in Nat
  BY DEF Tallies
<1>2. ev[i][L][j] \in Int
  BY EvaluatorFacts, LadderFacts DEF Streams
<1>3. ~(Feasible(i) /\ ev[i][L][j] > 0)
  BY <1>2 DEF Feasible
<1>4. f \in Nat /\ g \in Nat /\ f + g <= c.falseInfeas + c.confirmed + 1
  BY <1>1, <1>3
<1>5. Tally(i, c, j) = d
  BY DEF Tally
<1> HIDE DEF f, g
<1>6. d \in Tallies /\ d.cut = c.cut /\ d.audit = c.audit + 1
      /\ d.falseInfeas = f /\ d.confirmed = g
  <2>1. d.cut = c.cut
    BY DEF Tallies
  <2>2. d.audit = c.audit + 1
    BY DEF Tallies
  <2>3. d.falseInfeas = f
    BY DEF Tallies
  <2>4. d.confirmed = g
    BY DEF Tallies
  <2> DEFINE c1 == [c EXCEPT !.audit = c.audit + 1]
             c2 == [c1 EXCEPT !.falseInfeas = f]
  <2>5. c1 \in Tallies
    BY <1>1 DEF Tallies
  <2>6. d \in Tallies
    <3>1. d = [c2 EXCEPT !.confirmed = g]
      OBVIOUS
    <3> HIDE DEF c1
    <3>2. c2 \in Tallies
      BY <1>4, <2>5 DEF Tallies
    <3> HIDE DEF c2, d
    <3> QED BY <1>4, <3>1, <3>2 DEF Tallies
  <2> QED BY <2>1, <2>2, <2>3, <2>4, <2>6
<1> HIDE DEF d
<1> QED BY <1>4, <1>5, <1>6

\* A TRUTH result closes its audit.
LEMMA ResolveStep ==
  ASSUME AuditInv, NEW i \in Ids, Resolve(i)
  PROVE  AuditInv'
<1> DEFINE a == pending[i]  c == counts[a.j][a.cut]  d == Tally(i, c, a.j)
<1>1. /\ at[i] = L /\ cursor' = i /\ i \in DOMAIN pending
      /\ at' = [at EXCEPT ![i] = L + 1]
      /\ ev' = ev /\ cfg' = cfg /\ delta' = delta /\ revDelta' = revDelta
      /\ origin' = origin
      /\ pending' = [x \in DOMAIN pending \ {i} |-> pending[x]]
      /\ counts' = [counts EXCEPT ![a.j][a.cut] = Tally(i, @, a.j)]
  BY DEF Resolve, Deliver, learned
<1>2. LoopTypes /\ AuditPaths /\ AuditsBalance
  BY DEF AuditInv
<1>3. L \in Nat /\ L > 0
  BY LadderFacts
<1>4. pending \in [DOMAIN pending -> Pending] /\ a \in Pending
      /\ IsFiniteSet(DOMAIN pending) /\ DOMAIN pending \subseteq Ids
  BY <1>1, <1>2 DEF AuditPaths
<1> HIDE DEF a
<1>5. a.j \in Constraints /\ a.cut \in Levels
  BY <1>3, <1>4 DEF Pending, Levels
<1>6. counts \in [Constraints -> [Levels -> Tallies]] /\ c \in Tallies
      /\ ev \in Evaluators
  BY <1>2, <1>5 DEF LoopTypes
<1>7. counts' = [counts EXCEPT ![a.j] = [counts[a.j] EXCEPT ![a.cut] = d]]
  BY <1>1
<1>8. /\ d \in Tallies
      /\ d.cut = c.cut /\ d.audit = c.audit + 1
      /\ d.falseInfeas + d.confirmed <= c.falseInfeas + c.confirmed + 1
  BY <1>5, <1>6, TallyTyped
<1> HIDE DEF d
<1>9. counts' \in [Constraints -> [Levels -> Tallies]]
  BY <1>5, <1>6, <1>7, <1>8
<1>10. ASSUME NEW j2 \in Constraints, NEW p2 \in Levels
       PROVE  counts'[j2][p2]
                = IF j2 = a.j /\ p2 = a.cut THEN d ELSE counts[j2][p2]
  BY <1>5, <1>6, <1>7
<1>11. /\ DOMAIN pending' = DOMAIN pending \ {i}
       /\ \A x \in DOMAIN pending' : pending'[x] = pending[x]
       /\ pending' \in [DOMAIN pending' -> Pending]
  BY <1>1, <1>4
<1>12. at \in [Ids -> 0 .. L + 1]
  BY <1>2 DEF LoopTypes
<1>13. at' \in [Ids -> 0 .. L + 1] /\ at'[i] = L + 1
       /\ \A x \in Ids : x # i => at'[x] = at[x]
  BY <1>1, <1>3, <1>12
<1>14. LoopTypes'
  <2>1. cursor' \in {0} \cup Ids
    BY <1>1
  <2>2. delta' \in [Constraints -> cfg'.deltaMin .. cfg'.deltaMax]
    BY <1>1, <1>2 DEF LoopTypes
  <2> QED BY <1>1, <1>2, <1>9, <1>13, <2>1, <2>2 DEF LoopTypes
<1>15. AuditPaths'
  <2>1. DOMAIN pending' \subseteq Ids /\ IsFiniteSet(DOMAIN pending')
    BY <1>4, <1>11, FS_RemoveElement
  <2>2. ASSUME NEW x \in Ids
        PROVE  /\ at'[x] = 0 => origin'[x] = None /\ x \notin DOMAIN pending'
               /\ at'[x] > 0 => origin'[x].j \in Constraints
                                /\ origin'[x].cut \in 1 .. L - 1
               /\ at'[x] \in 1 .. L => x \in DOMAIN pending'
                                       /\ origin'[x].cut < at'[x]
    <3>1. CASE x = i
      <4>1. at[i] > 0 /\ ~(at'[i] \in 1 .. L) /\ at'[i] # 0
        BY <1>1, <1>3, <1>13
      <4> QED BY <1>1, <1>2, <3>1, <4>1 DEF AuditPaths
    <3>2. CASE x # i
      BY <1>1, <1>2, <1>11, <1>13, <3>2 DEF AuditPaths
    <3> QED BY <3>1, <3>2
  <2>3. ASSUME NEW x \in DOMAIN pending'
        PROVE  /\ pending'[x].j = origin'[x].j /\ pending'[x].cut = origin'[x].cut
               /\ pending'[x].pairs \subseteq Paired(pending'[x].cut)
               /\ at'[x] \in 1 .. L =>
                    pending'[x].pairs = {q \in Paired(origin'[x].cut) : q < at'[x]}
    <3>1. x \in DOMAIN pending /\ x \in Ids /\ x # i
      BY <1>4, <1>11
    <3> QED BY <1>1, <1>2, <1>11, <1>13, <3>1 DEF AuditPaths
  <2> QED BY <1>11, <2>1, <2>2, <2>3 DEF AuditPaths, Paired
<1>16. ASSUME NEW j2 \in Constraints, NEW p2 \in Levels
       PROVE  /\ counts'[j2][p2].cut = counts'[j2][p2].audit
                                         + Cardinality(Open(j2, p2)')
              /\ counts'[j2][p2].falseInfeas + counts'[j2][p2].confirmed
                   <= counts'[j2][p2].audit
  <2>1. /\ counts[j2][p2].cut = counts[j2][p2].audit + Cardinality(Open(j2, p2))
        /\ counts[j2][p2].falseInfeas + counts[j2][p2].confirmed
             <= counts[j2][p2].audit
    BY <1>2 DEF AuditsBalance
  <2>2. CASE j2 = a.j /\ p2 = a.cut
    <3>1. Open(j2, p2)' = Open(j2, p2) \ {i} /\ i \in Open(j2, p2)
      BY <1>1, <1>11, <2>2 DEF Open, a
    <3>2. IsFiniteSet(Open(j2, p2))
      BY <1>4, FS_Subset DEF Open
    <3>3. Cardinality(Open(j2, p2)) \in Nat
          /\ Cardinality(Open(j2, p2)') = Cardinality(Open(j2, p2)) - 1
      BY <3>1, <3>2, FS_RemoveElement, FS_CardinalityType
    <3>4. c.cut = c.audit + Cardinality(Open(j2, p2))
          /\ c.falseInfeas + c.confirmed <= c.audit
          /\ c.cut \in Nat /\ c.audit \in Nat
          /\ c.falseInfeas \in Nat /\ c.confirmed \in Nat
      BY <1>6, <2>1, <2>2 DEF Tallies
    <3>5. d.falseInfeas \in Nat /\ d.confirmed \in Nat
      BY <1>8 DEF Tallies
    <3> HIDE DEF c
    <3>6. d.cut = d.audit + Cardinality(Open(j2, p2)')
          /\ d.falseInfeas + d.confirmed <= d.audit
      BY <1>8, <3>3, <3>4, <3>5
    <3> QED BY <1>10, <2>2, <3>6
  <2>3. CASE ~(j2 = a.j /\ p2 = a.cut)
    <3>1. Open(j2, p2)' = Open(j2, p2)
      BY <1>11, <2>3 DEF Open, a
    <3> QED BY <1>10, <2>1, <2>3, <3>1
  <2> QED BY <2>2, <2>3
<1>17. AuditsBalance'
  BY <1>16 DEF AuditsBalance
<1> QED BY <1>14, <1>15, <1>17 DEF AuditInv

\* update_delta keeps delta within its bounds.
LEMMA NextDeltaTyped ==
  ASSUME LoopTypes, NEW j \in Constraints
  PROVE  NextDelta(j) \in cfg.deltaMin .. cfg.deltaMax
<1>1. cfg \in Configs /\ delta[j] \in cfg.deltaMin .. cfg.deltaMax
  BY DEF LoopTypes
<1>2. DeltaStep \in Nat /\ DeltaStep > 0
  BY CalibratorAssumption
<1>3. delta[j] \in Nat
  BY <1>1, ConfigFacts
<1>4. delta[j] * DeltaStep \in Int /\ delta[j] \div DeltaStep \in Int
  BY <1>2, <1>3, Quotient
<1> DEFINE up == RateAbove(j, Min({cfg.targetNum, cfg.targetDen}), cfg.targetDen)
           down == RateBelow(j, Min({cfg.targetNum, cfg.targetDen}),
                             3 * cfg.targetDen)
<1>5. CASE EnoughAudits(j) /\ up
  <2>1. NextDelta(j) = ClampDelta(delta[j] * DeltaStep)
    BY <1>5 DEF NextDelta
  <2> QED BY <1>1, <1>4, <2>1, ClampDeltaTyped
<1>6. CASE EnoughAudits(j) /\ ~up /\ down
  <2>1. NextDelta(j) = ClampDelta(delta[j] \div DeltaStep)
    BY <1>6 DEF NextDelta
  <2> QED BY <1>1, <1>4, <2>1, ClampDeltaTyped
<1>7. CASE ~(EnoughAudits(j) /\ up) /\ ~(EnoughAudits(j) /\ ~up /\ down)
  <2>1. NextDelta(j) = delta[j]
    BY <1>7 DEF NextDelta
  <2> QED BY <1>1, <2>1
<1> QED BY <1>5, <1>6, <1>7

\* The batch boundary.
LEMMA UpdateAuditStep ==
  ASSUME AuditInv, Update
  PROVE  AuditInv'
<1>1. /\ cursor' = 0 /\ revDelta' \in {0, 1}
      /\ delta' = [j \in Constraints |-> NextDelta(j)]
      /\ ev' = ev /\ cfg' = cfg /\ at' = at /\ origin' = origin
      /\ pending' = pending /\ counts' = counts
  BY DEF Update
<1>2. LoopTypes /\ AuditPaths
  BY DEF AuditInv
<1>3. delta' \in [Constraints -> cfg'.deltaMin .. cfg'.deltaMax]
  BY <1>1, <1>2, NextDeltaTyped
<1>4. LoopTypes'
  BY <1>1, <1>2, <1>3 DEF LoopTypes
<1>5. AuditPaths'
  BY <1>1, <1>2 DEF AuditPaths, Paired
<1>6. AuditsBalance'
  BY <1>1 DEF AuditInv, AuditsBalance, Open
<1> QED BY <1>4, <1>5, <1>6 DEF AuditInv

\* The start of a run.
LEMMA AuditInit == Init => AuditInv
<1> SUFFICES ASSUME Init PROVE AuditInv
  OBVIOUS
<1>1. L \in Nat /\ L > 0 /\ InitDelta \in Int
  BY LadderFacts, CalibratorAssumption
<1>2. DOMAIN pending = {} /\ pending \in [DOMAIN pending -> Pending]
  BY DEF Init, NoKeys
<1>3. cfg \in Configs
  BY DEF Init
<1>4. LoopTypes
  <2>1. None \in Origins
    BY <1>1 DEF None, Origins
  <2>2. NoCounts \in [Levels -> Tallies]
    BY DEF NoCounts, Tallies
  <2>3. delta \in [Constraints -> cfg.deltaMin .. cfg.deltaMax]
    BY <1>1, <1>3, ClampDeltaTyped DEF Init
  <2>4. at \in [Ids -> 0 .. L + 1]
    BY <1>1 DEF Init
  <2> QED BY <2>1, <2>2, <2>3, <2>4 DEF Init, LoopTypes
<1>5. AuditPaths
  <2>1. IsFiniteSet(DOMAIN pending)
    BY <1>2, FS_EmptySet
  <2>2. \A i \in Ids : at[i] = 0 /\ origin[i] = None
    BY DEF Init
  <2> QED BY <1>1, <1>2, <2>1, <2>2 DEF AuditPaths
<1>6. AuditsBalance
  <2>1. ASSUME NEW j \in Constraints, NEW p \in Levels
        PROVE  /\ counts[j][p].cut = counts[j][p].audit + Cardinality(Open(j, p))
               /\ counts[j][p].falseInfeas + counts[j][p].confirmed
                    <= counts[j][p].audit
    <3>1. Open(j, p) = {}
      BY <1>2 DEF Open
    <3>2. Cardinality(Open(j, p)) = 0
      BY <3>1, FS_EmptySet
    <3> QED BY <3>2 DEF Init, NoCounts
  <2> QED BY <2>1 DEF AuditsBalance
<1> QED BY <1>4, <1>5, <1>6 DEF AuditInv

\* Every step of the loop preserves its part of the invariant.
LEMMA AuditStep == AuditInv /\ [Next]_vars => AuditInv'
<1> SUFFICES ASSUME AuditInv, [Next]_vars PROVE AuditInv'
  OBVIOUS
<1>1. ASSUME UNCHANGED vars PROVE AuditInv'
  <2>1. /\ ev' = ev /\ cfg' = cfg /\ cursor' = cursor /\ at' = at
        /\ origin' = origin /\ pending' = pending /\ counts' = counts
        /\ delta' = delta /\ revDelta' = revDelta
    BY <1>1 DEF vars, engineVars, learned
  <2>2. LoopTypes'
    BY <2>1 DEF AuditInv, LoopTypes
  <2>3. AuditPaths'
    BY <2>1 DEF AuditInv, AuditPaths, Paired
  <2>4. AuditsBalance'
    BY <2>1 DEF AuditInv, AuditsBalance, Open
  <2> QED BY <2>2, <2>3, <2>4 DEF AuditInv
<1> QED BY <1>1, CutAndAuditStep, CheckpointStep, LoseStep, ResolveStep,
           UpdateAuditStep DEF Next

\* So it holds throughout.
LEMMA AuditInvariant == Spec => []AuditInv
BY AuditInit, AuditStep, PTL DEF Spec

\* Every cut selected for audit is open or was judged exactly once, and no
\* judgement calls a cut both false and confirmed (note_audit_checkpoint and
\* the Truth arm of update).
THEOREM AuditsInBalance == Spec => []AuditsBalance
<1>1. AuditInv => AuditsBalance
  BY DEF AuditInv
<1> QED BY <1>1, AuditInvariant, PTL

\* The calibrator's pending map and the engine's audit origins name the same
\* audits, with the paired levels visited so far.
THEOREM PendingFollowsOrigin == Spec => []PendingMatchesOrigin
<1>1. AuditInv => PendingMatchesOrigin
  BY DEF AuditInv, AuditPaths, PendingMatchesOrigin
<1> QED BY <1>1, AuditInvariant, PTL

\* No step changes a margin that decides a cut without update returning a
\* revision bump.
THEOREM RevisionFollowsMargins == Spec => RevisionTracksMargins
<1> DEFINE P == Margins' # Margins => revDelta' = 1
<1>1. ASSUME AuditInv, [Next]_vars PROVE [P]_vars
  <2>1. ASSUME delta' = delta, k'.phi = k.phi, k'.glob = k.glob
        PROVE  Margins' = Margins
    BY <2>1 DEF Margins, KFor
  <2>2. ASSUME learned' = learned PROVE P
    BY <2>1, <2>2 DEF learned
  <2>3. ASSUME Update PROVE P
    <3>1. SUFFICES ASSUME revDelta' # 1 PROVE Margins' = Margins
      OBVIOUS
    <3>2. ~AnyChange
      BY <2>3, <3>1 DEF Update
    <3>3. delta' = delta
      <4>1. \A j \in Constraints : NextDelta(j) = delta[j]
        BY <3>2 DEF AnyChange
      <4>2. delta = [j \in Constraints |-> delta[j]]
        BY <1>1 DEF AuditInv, LoopTypes
      <4> QED BY <2>3, <4>1, <4>2 DEF Update
    <3>4. k'.glob = k.glob
      BY <2>3, <3>2 DEF Update, AnyChange, GlobChanged
    <3>5. k'.phi = k.phi
      BY <2>3, <3>2 DEF Update, AnyChange, PhiChanged
    <3> QED BY <2>1, <3>3, <3>4, <3>5
  <2>4. ASSUME NEW i \in Ids, NEW p \in Levels, CutAndAudit(i, p) PROVE P
    BY <2>2, <2>4 DEF CutAndAudit
  <2>5. ASSUME NEW i \in Ids, Checkpoint(i) \/ Lose(i) \/ Resolve(i) PROVE P
    BY <2>2, <2>5 DEF Checkpoint, Lose, Resolve
  <2> HIDE DEF P
  <2> QED BY <1>1, <2>3, <2>4, <2>5 DEF Next
<1>2. RevisionTracksMargins <=> [][P]_vars
  BY DEF RevisionTracksMargins
<1> HIDE DEF P
<1> QED BY <1>1, <1>2, AuditInvariant, PTL DEF Spec

-----------------------------------------------------------------------------
(* Sample windows.                                                         *)

\* push_k_sample keeps the window within its capacity and adds nothing but
\* the new samples; as long as there is room it loses none.
LEMMA PushAllTyped ==
  ASSUME cfg \in Configs, NEW w \in Seq(Nat), NEW vs \in Seq(Nat)
  PROVE  LET r == PushAll(w, vs) IN
         /\ r \in Seq(Nat)
         /\ Len(r) <= KWindow
         /\ Len(w) + Len(vs) >= 1 => Len(r) >= 1
         /\ \A n \in DOMAIN r : \/ \E m \in DOMAIN w : r[n] = w[m]
                                \/ \E m \in DOMAIN vs : r[n] = vs[m]
         /\ Len(w) + Len(vs) <= KWindow => r = w \o vs
<1> DEFINE all == w \o vs
           excess == Max({Len(all) - KWindow, 0})
           r == SubSeq(all, excess + 1, Len(all))
<1>1. KWindow \in Nat /\ KWindow >= 1
  BY ConfigFacts
<1>2. /\ all \in Seq(Nat) /\ Len(all) = Len(w) + Len(vs) /\ Len(all) \in Nat
      /\ Len(w) \in Nat /\ Len(vs) \in Nat
      /\ DOMAIN w = 1 .. Len(w) /\ DOMAIN vs = 1 .. Len(vs)
  OBVIOUS
<1>3. \A n \in 1 .. Len(all) :
        all[n] = IF n <= Len(w) THEN w[n] ELSE vs[n - Len(w)]
  OBVIOUS
<1> HIDE DEF all
<1>4. excess = IF Len(all) - KWindow >= 0 THEN Len(all) - KWindow ELSE 0
  <2>1. Len(all) - KWindow \in Int /\ 0 \in Int
    BY <1>1, <1>2
  <2> QED BY <2>1, MaxOfTwo
<1> HIDE DEF excess
<1>5. excess \in Nat /\ excess <= Len(all)
  BY <1>1, <1>2, <1>4
<1>6. /\ r \in Seq(Nat) /\ Len(r) = Len(all) - excess
      /\ DOMAIN r = 1 .. Len(all) - excess
      /\ \A n \in 1 .. Len(all) - excess : r[n] = all[n + excess]
  <2>1. r \in Seq(Nat)
    BY <1>2, <1>5
  <2>2. Len(r) = Len(all) - excess
    <3>1. excess + 1 \in Int /\ Len(all) \in Int
      BY <1>2, <1>5
    <3>2. \A i \in excess + 1 .. Len(all) : all[i] \in Nat
      BY <1>2, <1>5
    <3>3. Len(r) = IF excess + 1 <= Len(all) THEN Len(all) - (excess + 1) + 1
                                             ELSE 0
      BY <3>1, <3>2, SubSeqProperties
    <3> HIDE DEF r
    <3> QED BY <1>2, <1>5, <3>3
  <2>3. \A n \in 1 .. Len(all) - excess : r[n] = all[n + excess]
    BY <1>2, <1>5
  <2> HIDE DEF r
  <2> QED BY <2>1, <2>2, <2>3
<1>7. PushAll(w, vs) = r
  BY DEF PushAll, all, excess
<1> HIDE DEF r
<1>8. Len(r) <= KWindow /\ (Len(w) + Len(vs) >= 1 => Len(r) >= 1)
  BY <1>1, <1>2, <1>4, <1>6
<1>9. ASSUME NEW n \in DOMAIN r
      PROVE  \/ \E m \in DOMAIN w : r[n] = w[m]
             \/ \E m \in DOMAIN vs : r[n] = vs[m]
  <2>0. n \in 1 .. Len(all) - excess /\ Len(all) \in Nat
    BY <1>2, <1>6
  <2>1. PICK q \in 1 .. Len(all) : q = n + excess
    <3>1. n + excess \in 1 .. Len(all)
      BY <1>5, <2>0
    <3> QED BY <3>1
  <2>2. r[n] = all[q]
    BY <1>6, <2>0, <2>1
  <2>3. /\ Len(w) \in Nat /\ Len(vs) \in Nat /\ Len(all) = Len(w) + Len(vs)
        /\ DOMAIN w = 1 .. Len(w) /\ DOMAIN vs = 1 .. Len(vs) /\ q \in Int
    BY <1>2
  <2>4. CASE q <= Len(w)
    <3>1. q \in DOMAIN w
      BY <2>3, <2>4
    <3> QED BY <1>3, <2>2, <2>4, <3>1
  <2>5. CASE ~(q <= Len(w))
    <3>1. q - Len(w) \in 1 .. Len(vs)
      BY <2>3, <2>5
    <3>2. all[q] = vs[q - Len(w)]
      BY <1>3, <2>5
    <3> QED BY <2>2, <2>3, <3>1, <3>2
  <2> QED BY <2>4, <2>5
<1>10. ASSUME Len(w) + Len(vs) <= KWindow PROVE r = w \o vs
  <2>1. excess = 0
    BY <1>1, <1>2, <1>4, <1>10
  <2>2. Len(r) = Len(all) /\ \A n \in 1 .. Len(all) : r[n] = all[n]
    BY <1>2, <1>6, <2>1
  <2>3. r = all
    BY <1>2, <1>6, <2>2, SeqEqual
  <2> QED BY <2>3 DEF all
<1> QED BY <1>6, <1>7, <1>8, <1>9, <1>10

\* One sample per stream into the buckets.
LEMMA PushBucketsTyped ==
  ASSUME cfg \in Configs, NEW b, b \in [DOMAIN b -> Windows],
         NEW v, v \in [DOMAIN v -> [Streams -> Nat]]
  PROVE  LET r == PushBuckets(b, v) IN
         /\ DOMAIN r = DOMAIN b \cup DOMAIN v
         /\ r \in [DOMAIN r -> Windows]
         /\ \A key \in DOMAIN r, s \in Streams :
              /\ Len(r[key][s]) <= KWindow
              /\ key \in DOMAIN v => Len(r[key][s]) >= 1
              /\ key \in DOMAIN b /\ Len(b[key][s]) >= 1 => Len(r[key][s]) >= 1
<1> DEFINE r == PushBuckets(b, v)
           old(key, s) == IF key \in DOMAIN b THEN b[key][s] ELSE << >>
           new(key, s) == IF key \in DOMAIN v THEN <<v[key][s]>> ELSE << >>
<1>1. r = [key \in DOMAIN b \cup DOMAIN v |->
             [s \in Streams |-> PushAll(old(key, s), new(key, s))]]
  BY DEF PushBuckets
<1>2. DOMAIN r = DOMAIN b \cup DOMAIN v
  BY <1>1
<1>3. ASSUME NEW key \in DOMAIN b \cup DOMAIN v, NEW s \in Streams
      PROVE  /\ r[key][s] = PushAll(old(key, s), new(key, s))
             /\ old(key, s) \in Seq(Nat) /\ new(key, s) \in Seq(Nat)
             /\ key \in DOMAIN b => old(key, s) = b[key][s]
             /\ key \notin DOMAIN b => Len(old(key, s)) = 0
             /\ key \in DOMAIN v => Len(new(key, s)) = 1
                                    /\ new(key, s)[1] = v[key][s]
             /\ key \notin DOMAIN v => Len(new(key, s)) = 0
  <2>1. r[key][s] = PushAll(old(key, s), new(key, s))
    BY <1>1
  <2>2. old(key, s) \in Seq(Nat)
    BY DEF Windows
  <2>3. new(key, s) \in Seq(Nat)
    OBVIOUS
  <2> QED BY <2>1, <2>2, <2>3
<1> HIDE DEF r, old, new
<1>4. ASSUME NEW key \in DOMAIN b \cup DOMAIN v, NEW s \in Streams
      PROVE  /\ r[key][s] \in Seq(Nat)
             /\ Len(r[key][s]) <= KWindow
             /\ key \in DOMAIN v => Len(r[key][s]) >= 1
             /\ key \in DOMAIN b /\ Len(b[key][s]) >= 1 => Len(r[key][s]) >= 1
  <2> DEFINE o == old(key, s)  e == new(key, s)  x == r[key][s]
  <2>1. x = PushAll(o, e) /\ o \in Seq(Nat) /\ e \in Seq(Nat)
    BY <1>3
  <2>2. Len(o) \in Nat /\ Len(e) \in Nat
    BY <2>1
  <2> HIDE DEF o, e, x
  <2>3. /\ x \in Seq(Nat)
        /\ Len(x) <= KWindow
        /\ Len(o) + Len(e) >= 1 => Len(x) >= 1
    BY <2>1, PushAllTyped
  <2>4. key \in DOMAIN v => Len(x) >= 1
    BY <1>3, <2>2, <2>3 DEF e
  <2>5. key \in DOMAIN b /\ Len(b[key][s]) >= 1 => Len(x) >= 1
    <3>1. ASSUME key \in DOMAIN b, Len(b[key][s]) >= 1 PROVE Len(o) >= 1
      BY <1>3, <3>1 DEF o
    <3> QED BY <2>2, <2>3, <3>1
  <2> QED BY <2>3, <2>4, <2>5 DEF x
<1>5. r \in [DOMAIN r -> Windows]
  <2>1. r = [key \in DOMAIN b \cup DOMAIN v |->
               [s \in Streams |-> r[key][s]]]
    BY <1>1
  <2> QED BY <1>2, <1>4, <2>1 DEF Windows
<1> QED BY <1>2, <1>4, <1>5 DEF r

\* A sample in a bucket was there before or is the new one.
LEMMA SampleOrigin ==
  ASSUME cfg \in Configs, NEW b, b \in [DOMAIN b -> Windows],
         NEW v, v \in [DOMAIN v -> [Streams -> Nat]],
         NEW r, r = PushBuckets(b, v),
         NEW key \in DOMAIN r, NEW s \in Streams, NEW n \in DOMAIN r[key][s]
  PROVE  \/ /\ key \in DOMAIN b
            /\ \E m \in DOMAIN b[key][s] : r[key][s][n] = b[key][s][m]
         \/ key \in DOMAIN v /\ r[key][s][n] = v[key][s]
<1> DEFINE o == IF key \in DOMAIN b THEN b[key][s] ELSE << >>
           e == IF key \in DOMAIN v THEN <<v[key][s]>> ELSE << >>
           x == r[key][s]
<1>1. x = PushAll(o, e)
  BY DEF PushBuckets
<1>2. o \in Seq(Nat)
  BY DEF Windows
<1>3. e \in Seq(Nat)
  OBVIOUS
<1>4. /\ key \in DOMAIN b => o = b[key][s]
      /\ key \notin DOMAIN b => Len(o) = 0
      /\ key \in DOMAIN v => Len(e) = 1 /\ e[1] = v[key][s]
      /\ key \notin DOMAIN v => Len(e) = 0
  OBVIOUS
<1> HIDE DEF o, e, x
<1>5. \/ \E m \in DOMAIN o : x[n] = o[m]
      \/ \E m \in DOMAIN e : x[n] = e[m]
  <2>1. n \in DOMAIN x
    BY DEF x
  <2> QED BY <1>1, <1>2, <1>3, <2>1, PushAllTyped
<1>6. CASE \E m \in DOMAIN o : x[n] = o[m]
  <2>1. Len(o) # 0
    BY <1>2, <1>6
  <2>2. key \in DOMAIN b /\ o = b[key][s]
    BY <1>4, <2>1
  <2> QED BY <1>6, <2>2 DEF x
<1>7. CASE \E m \in DOMAIN e : x[n] = e[m]
  <2>1. PICK m \in DOMAIN e : x[n] = e[m]
    BY <1>7
  <2>2. m \in 1 .. Len(e)
    BY <1>3
  <2>3. Len(e) # 0
    BY <2>2
  <2>4. key \in DOMAIN v /\ Len(e) = 1 /\ e[1] = v[key][s]
    BY <1>4, <2>3
  <2>5. m = 1
    BY <2>2, <2>4
  <2> QED BY <2>1, <2>4, <2>5 DEF x
<1> QED BY <1>5, <1>6, <1>7

-----------------------------------------------------------------------------
(* Samples.                                                                *)

\* The slope between two estimates is a natural number; it accounts for
\* their difference if that is a multiple of the divisor.
LEMMA SlopeTyped ==
  ASSUME NEW x \in Int, NEW y \in Int, NEW d \in Nat, d > 0
  PROVE  /\ Slope(x, y, d) \in Nat
         /\ (x - y) % d = 0 => Slope(x, y, d) * d >= x - y
         /\ \A b \in Nat : x - y <= b * d => Slope(x, y, d) <= b
         /\ \A b \in Nat : x - y = b * d => Slope(x, y, d) = b
<1> DEFINE z == IF x - y >= 0 THEN x - y ELSE 0
<1>1. Slope(x, y, d) = z \div d
  <2>1. x - y \in Int /\ 0 \in Int
    OBVIOUS
  <2>2. Max({x - y, 0}) = z
    BY <2>1, MaxOfTwo
  <2> QED BY <2>2 DEF Slope
<1>2. z \in Nat /\ x - y <= z
  OBVIOUS
<1>3. z \div d \in Nat /\ (z \div d) * d <= z /\ z < (z \div d + 1) * d
  BY <1>2, Quotient
<1>4. ASSUME (x - y) % d = 0 PROVE (z \div d) * d >= x - y
  <2>1. CASE x - y >= 0
    <3>1. z % d = 0 /\ z = d * (z \div d) + (z % d)
      BY <1>4, <2>1
    <3> DEFINE q == z \div d
    <3>2. q \in Nat /\ z = d * q
      BY <1>3, <3>1
    <3> HIDE DEF q
    <3>3. q * d = d * q
      BY <3>2
    <3>4. q * d >= x - y
      BY <1>2, <3>2, <3>3
    <3> QED BY <3>4 DEF q
  <2>2. CASE ~(x - y >= 0)
    <3> DEFINE q == z \div d
    <3>1. q \in Nat
      BY <1>3
    <3> HIDE DEF q
    <3>2. q * d \in Nat
      BY <3>1
    <3>3. q * d >= x - y
      BY <2>2, <3>2
    <3> QED BY <3>3 DEF q
  <2> QED BY <2>1, <2>2
<1>5. ASSUME NEW b \in Nat, x - y <= b * d PROVE z \div d <= b
  <2>1. z <= b * d
    <3>1. b * d \in Nat
      OBVIOUS
    <3> QED BY <1>5, <3>1
  <2> HIDE DEF z
  <2> QED BY <1>2, <2>1, QuotientAtMost
<1>6. ASSUME NEW b \in Nat, x - y = b * d PROVE z \div d = b
  <2>1. z = b * d
    <3>1. b * d \in Nat
      OBVIOUS
    <3> QED BY <1>6, <3>1
  <2> QED BY <2>1, QuotientExact
<1> HIDE DEF z
<1> QED BY <1>1, <1>3, <1>4, <1>5, <1>6

\* A link starts below TRUTH and leads to a tighter tolerance.
LEMMA LinkTyped ==
  ASSUME NEW cut \in 1 .. L - 1, NEW l \in Links(cut, Paired(cut))
  PROVE  /\ l[1] \in 1 .. L - 1 /\ l[1] \in Levels /\ l[2] \in Levels
         /\ l[1] < l[2]
         /\ DTau(l[1], l[2]) \in Nat /\ DTau(l[1], l[2]) > 0
         /\ l[1] # cut => Ladder[l[1]].tau < Ladder[cut].tau
<1>1. L \in Nat /\ cut \in Levels /\ cut \in Nat
  BY LadderFacts DEF Levels
<1>2. Paired(cut) \subseteq Levels
  BY <1>1 DEF Paired, Levels
<1>3. /\ l[1] \in {cut} \cup Paired(cut) /\ l[2] \in {cut} \cup Paired(cut)
      /\ l[1] < l[2] /\ DTau(l[1], l[2]) > 0
  BY DEF Links
<1>4. l[1] \in Levels /\ l[2] \in Levels
  BY <1>1, <1>2, <1>3
<1>5. l[1] \in 1 .. L - 1
  BY <1>1, <1>3, <1>4 DEF Levels
<1>6. DTau(l[1], l[2]) \in Int
  <2>1. Ladder[l[1]].tau \in Nat /\ Ladder[l[2]].tau \in Nat
    BY <1>4, LadderFacts
  <2> QED BY <2>1 DEF DTau
<1>7. l[1] # cut => Ladder[l[1]].tau < Ladder[cut].tau
  BY <1>3 DEF Paired
<1> QED BY <1>3, <1>4, <1>5, <1>6, <1>7

\* A judged audit with paired checkpoints has a link from its cut.
LEMMA FirstLink ==
  ASSUME NEW cut \in 1 .. L - 1, Paired(cut) # {}
  PROVE  \E l \in Links(cut, Paired(cut)) : l[1] = cut
<1>1. L \in Nat /\ cut \in Levels /\ cut \in Nat
  BY LadderFacts DEF Levels
<1>2. \A q \in Paired(cut) : /\ q \in Nat /\ q \in Levels /\ q > cut
                             /\ Ladder[q].smc = Ladder[cut].smc
                             /\ Ladder[q].tau < Ladder[cut].tau
  BY <1>1 DEF Paired, Levels
<1> DEFINE q == Min(Paired(cut))
<1>3. Paired(cut) \subseteq Nat
  BY <1>2
<1>4. q \in Paired(cut) /\ \A y \in Paired(cut) : q <= y
  BY <1>3, MinOfNaturals
<1> HIDE DEF q
<1> DEFINE l == <<cut, q>>  chain == {cut} \cup Paired(cut)
<1>5. l \in chain \X chain /\ l[1] = cut /\ l[2] = q
  BY <1>4
<1>6. cut < q /\ \A p \in chain : p <= cut \/ q <= p
  BY <1>1, <1>2, <1>4
<1>7. Ladder[cut].smc = Ladder[q].smc
  BY <1>2, <1>4
<1>8. DTau(cut, q) > 0
  BY <1>1, <1>2, <1>4, LadderFacts DEF DTau
<1>9. l \in Links(cut, Paired(cut))
  BY <1>5, <1>6, <1>7, <1>8 DEF Links
<1> QED BY <1>5, <1>9

\* What register_interval_sample and the fallback register.
LEMMA SamplesTyped ==
  ASSUME ev \in Evaluators, NEW i \in Ids, NEW cut \in 1 .. L - 1,
         NEW s \in Streams
  PROVE  /\ FallbackSample(i, cut, s) \in Nat
         /\ \A l \in Links(cut, Paired(cut)) : LinkSample(i, l, s) \in Nat
<1>1. cut \in Levels /\ L \in Levels
  BY LadderFacts DEF Levels
<1>2. FallbackSample(i, cut, s) \in Nat
  BY <1>1, LadderFacts, EvaluatorFacts, SlopeTyped DEF FallbackSample
<1>3. ASSUME NEW l \in Links(cut, Paired(cut)) PROVE LinkSample(i, l, s) \in Nat
  <2>1. l[1] \in Levels /\ l[2] \in Levels
        /\ DTau(l[1], l[2]) \in Nat /\ DTau(l[1], l[2]) > 0
    BY LinkTyped
  <2>2. ev[i][l[1]][s] \in Int /\ ev[i][l[2]][s] \in Int
    BY <2>1, EvaluatorFacts
  <2> DEFINE x == ev[i][l[1]][s]  y == ev[i][l[2]][s]  d == DTau(l[1], l[2])
  <2>3. LinkSample(i, l, s) = Slope(x, y, d)
    BY DEF LinkSample
  <2> HIDE DEF x, y, d
  <2>4. Slope(x, y, d) \in Nat
    <3>1. x \in Int /\ y \in Int /\ d \in Nat /\ d > 0
      BY <2>1, <2>2 DEF x, y, d
    <3> QED BY <3>1, SlopeTyped
  <2> QED BY <2>3, <2>4
<1> QED BY <1>2, <1>3

\* The n-th smallest exists.
LEMMA NthTyped ==
  ASSUME NEW S, S \subseteq Levels, NEW n \in 1 .. Cardinality(S)
  PROVE  Nth(S, n) \in S
<1>1. L \in Nat /\ Levels \subseteq Nat
  BY LadderFacts
<1>2. IsFiniteSet(S)
  <2>1. IsFiniteSet(Levels)
    BY <1>1, FS_Interval DEF Levels
  <2> QED BY <2>1, FS_Subset
<1>3. Cardinality(S) \in Nat
  BY <1>2, FS_CardinalityType
<1>4. S # {}
  <2> SUFFICES ASSUME S = {} PROVE FALSE
    OBVIOUS
  <2>1. Cardinality(S) = 0
    BY FS_EmptySet
  <2> QED BY <2>1
<1> DEFINE top == Max(S)
<1>5. top \in S /\ \A y \in S : top >= y
  <2>1. S \subseteq Int /\ L \in Int /\ \A x \in S : x <= L
    BY <1>1 DEF Levels
  <2> QED BY <1>4, <2>1, MaxOfBounded
<1> HIDE DEF top
<1>6. {q \in S : q <= top} = S
  <2>1. \A y \in S : y \in Nat /\ top \in Nat
    BY <1>1, <1>5
  <2> QED BY <1>5, <2>1
<1> DEFINE T == {p \in S : Cardinality({q \in S : q <= p}) >= n}
<1>7. top \in T
  BY <1>3, <1>5, <1>6
<1>8. T \subseteq Nat
  BY <1>1
<1>9. Min(T) \in T
  <2> HIDE DEF T
  <2> QED BY <1>7, <1>8, MinOfNaturals
<1> QED BY <1>9 DEF Nth

\* The samples of an audit, in order.
LEMMA LinkSamplesTyped ==
  ASSUME ev \in Evaluators, NEW i \in Ids, NEW cut \in 1 .. L - 1,
         NEW s \in Streams
  PROVE  LET links == Links(cut, Paired(cut))
             vs == LinkSamples(i, links, s) IN
         /\ vs \in Seq(Nat)
         /\ \A n \in DOMAIN vs : \E l \in links : vs[n] = LinkSample(i, l, s)
<1> DEFINE links == Links(cut, Paired(cut))
           starts == {l[1] : l \in links}
           vs == LinkSamples(i, links, s)
           link(n) == CHOOSE l \in links : l[1] = Nth(starts, n)
<1>1. \A l \in links : l[1] \in Levels /\ LinkSample(i, l, s) \in Nat
  BY LinkTyped, SamplesTyped
<1> HIDE DEF links
<1>2. starts \subseteq Levels
  BY <1>1
<1>3. vs = [n \in 1 .. Cardinality(starts) |-> LinkSample(i, link(n), s)]
  BY DEF LinkSamples
<1>4. Cardinality(starts) \in Nat
  <2>1. IsFiniteSet(Levels)
    BY LadderFacts, FS_Interval DEF Levels
  <2>2. IsFiniteSet(starts)
    <3> HIDE DEF starts
    <3> QED BY <1>2, <2>1, FS_Subset
  <2> QED BY <2>2, FS_CardinalityType
<1>5. ASSUME NEW n \in 1 .. Cardinality(starts) PROVE link(n) \in links
  <2>1. Nth(starts, n) \in starts
    <3> HIDE DEF starts
    <3> QED BY <1>2, NthTyped
  <2>2. \E l \in links : l[1] = Nth(starts, n)
    BY <2>1
  <2> HIDE DEF starts
  <2> QED BY <2>2
<1> HIDE DEF vs, starts, link
<1>6. \A n \in 1 .. Cardinality(starts) : vs[n] = LinkSample(i, link(n), s)
  BY <1>3
<1>7. vs \in [1 .. Cardinality(starts) -> Nat]
  BY <1>1, <1>3, <1>5
<1>8. vs \in Seq(Nat) /\ DOMAIN vs = 1 .. Cardinality(starts)
  BY <1>4, <1>7
<1> QED BY <1>5, <1>6, <1>8 DEF vs, links

-----------------------------------------------------------------------------
(* Coefficients.                                                           *)

\* The index quantile_of reads is within the window; it is the last one if
\* the quantile is 1.
LEMMA QuantileIndex ==
  ASSUME NEW n \in Nat, n >= 1, NEW a \in Nat, NEW d \in Nat, d > 0, a <= d
  PROVE  LET idx == (2 * a * (n - 1) + d) \div (2 * d) IN
         /\ idx \in Nat /\ idx < n
         /\ a = d => idx = n - 1
<1> DEFINE num == 2 * a * (n - 1) + d  e == 2 * d  idx == num \div e
           A == a * (n - 1)  D == d * (n - 1)
<1>1. n - 1 \in Nat /\ e \in Nat /\ e > 0
  OBVIOUS
<1>2. A \in Nat /\ D \in Nat /\ A <= D
  BY <1>1
<1>3. num = 2 * A + d /\ num \in Nat
  BY <1>1
<1>4. (n - 1) * e = 2 * D /\ n * e = 2 * D + e
  BY <1>1
<1> HIDE DEF num, e
<1>5. idx \in Nat /\ idx * e <= num /\ num < (idx + 1) * e
  BY <1>1, <1>3, Quotient
<1> HIDE DEF idx
<1>6. idx < n
  <2> SUFFICES ASSUME idx >= n PROVE FALSE
    BY <1>5
  <2>1. idx * e >= n * e
    BY <1>1, <1>5
  <2>2. idx * e \in Int /\ n * e \in Int
    BY <1>1, <1>5
  <2> HIDE DEF A, D
  <2> QED BY <1>1, <1>2, <1>3, <1>4, <1>5, <2>1, <2>2 DEF e
<1>7. ASSUME a = d PROVE idx = n - 1
  <2> SUFFICES ASSUME idx + 1 <= n - 1 PROVE FALSE
    BY <1>5, <1>6
  <2>1. (idx + 1) * e <= (n - 1) * e
    BY <1>1, <1>5
  <2>2. A = D
    BY <1>7
  <2>3. (idx + 1) * e \in Int /\ (n - 1) * e \in Int
    BY <1>1, <1>5
  <2> HIDE DEF A, D
  <2> QED BY <1>2, <1>3, <1>4, <1>5, <2>1, <2>2, <2>3
<1> QED BY <1>5, <1>6, <1>7 DEF idx, num, e

\* quantile_of returns a sample, the largest one if the quantile is 1.
LEMMA QuantileTyped ==
  ASSUME cfg \in Configs, NEW w \in Seq(Nat), Len(w) >= 1
  PROVE  /\ \E m \in DOMAIN w : Quantile(w) = w[m]
         /\ KQuantileNum = cfg.qDen => \A m \in DOMAIN w : w[m] <= Quantile(w)
<1> DEFINE n == Len(w)
           idx == (2 * KQuantileNum * (n - 1) + cfg.qDen) \div (2 * cfg.qDen)
           below(v) == {m \in DOMAIN w : w[m] <= v}
           T == {v \in Range(w) : Cardinality(below(v)) > idx}
<1>1. n \in Nat /\ n >= 1 /\ DOMAIN w = 1 .. n /\ w \in [1 .. n -> Nat]
  OBVIOUS
<1>2. /\ idx \in Nat /\ idx < n
      /\ KQuantileNum = cfg.qDen => idx = n - 1
  <2>1. /\ KQuantileNum \in Nat /\ cfg.qDen \in Nat /\ cfg.qDen > 0
        /\ KQuantileNum <= cfg.qDen
    BY ConfigFacts
  <2> HIDE DEF n
  <2> QED BY <1>1, <2>1, QuantileIndex
<1>3. Quantile(w) = Min(T)
  BY DEF Quantile
<1> HIDE DEF idx, n
<1>4. PICK top \in DOMAIN w : \A m \in DOMAIN w : w[m] <= w[top]
  BY LargestSample
<1>5. IsFiniteSet(DOMAIN w) /\ Cardinality(DOMAIN w) = n
  BY <1>1, FS_Interval
<1>6. below(w[top]) = DOMAIN w
  BY <1>4
<1>7. w[top] \in T
  <2>1. w[top] \in Range(w)
    BY DEF Range
  <2>2. Cardinality(below(w[top])) > idx
    BY <1>1, <1>2, <1>5, <1>6
  <2> QED BY <2>1, <2>2
<1>8. T \subseteq Nat
  BY <1>1 DEF Range
<1>9. Min(T) \in T
  <2> HIDE DEF T
  <2> QED BY <1>7, <1>8, MinOfNaturals
<1> DEFINE Q == Min(T)
<1>10. Q \in Range(w) /\ Cardinality(below(Q)) > idx
  BY <1>9
<1> HIDE DEF Q
<1>11. \E m \in DOMAIN w : Q = w[m]
  BY <1>10 DEF Range
<1>12. ASSUME KQuantileNum = cfg.qDen PROVE \A m \in DOMAIN w : w[m] <= Q
  <2>1. below(Q) \subseteq DOMAIN w
    OBVIOUS
  <2> DEFINE S == below(Q)
  <2> HIDE DEF S
  <2>2. /\ IsFiniteSet(S) /\ Cardinality(S) <= n
        /\ Cardinality(DOMAIN w) = Cardinality(S) => DOMAIN w = S
    BY <1>5, <2>1, FS_Subset DEF S
  <2>3. Cardinality(S) \in Nat
    BY <2>2, FS_CardinalityType
  <2>4. Cardinality(S) = n
    <3>1. Cardinality(S) > idx
      BY <1>10 DEF S
    <3> QED BY <1>1, <1>2, <1>12, <2>2, <2>3, <3>1
  <2>5. DOMAIN w = S
    BY <1>5, <2>2, <2>4
  <2> QED BY <2>5 DEF S
<1> QED BY <1>3, <1>11, <1>12 DEF Q

\* ema_quantile_update stays between the old coefficient and the samples; with
\* eta = 1 and quantile 1 it gives the largest sample.
LEMMA EmaTyped ==
  ASSUME cfg \in Configs, NEW old \in Nat, NEW w \in Seq(Nat)
  PROVE  /\ Ema(old, w) \in Nat
         /\ \A b \in Nat : old <= b /\ (\A m \in DOMAIN w : w[m] <= b)
                             => Ema(old, w) <= b
         /\ Sharp => \A m \in DOMAIN w : w[m] <= Ema(old, w)
<1>0. /\ KMinPairs \in Nat /\ KMinPairs >= 1 /\ Len(w) \in Nat
      /\ cfg.etaDen \in Nat /\ cfg.etaDen > 0
      /\ KEtaNum \in Nat /\ KEtaNum <= cfg.etaDen
  BY ConfigFacts
<1>1. CASE Len(w) < KMinPairs
  <2>1. Ema(old, w) = old
    BY <1>1 DEF Ema
  <2>2. ASSUME Sharp, NEW m \in DOMAIN w PROVE FALSE
    <3>1. KMinPairs = 1
      BY <2>2 DEF Sharp
    <3>2. Len(w) = 0
      BY <1>0, <1>1, <3>1
    <3> QED BY <2>2, <3>2
  <2> QED BY <2>1, <2>2
<1>2. CASE ~(Len(w) < KMinPairs)
  <2> DEFINE Q == Quantile(w)  d == cfg.etaDen  e == KEtaNum
             num == (d - e) * old + e * Q
  <2>1. Len(w) >= 1
    BY <1>0, <1>2
  <2>2. PICK m0 \in DOMAIN w : Q = w[m0]
    BY <2>1, QuantileTyped
  <2>3. Q \in Nat
    BY <2>2
  <2>4. Ema(old, w) = num \div d
    BY <1>2 DEF Ema
  <2>5. d \in Nat /\ d > 0 /\ e \in Nat /\ e <= d
    BY <1>0
  <2>6. Sharp => e = d /\ \A m \in DOMAIN w : w[m] <= Q
    BY <2>1, QuantileTyped DEF Sharp
  <2> HIDE DEF Q, d, e
  <2>7. d - e \in Nat
    BY <2>5
  <2>8. num \in Nat
    BY <2>3, <2>5, <2>7
  <2>9. ASSUME NEW b \in Nat, old <= b, \A m \in DOMAIN w : w[m] <= b
        PROVE  num \div d <= b
    <3>1. Q <= b
      BY <2>2, <2>9
    <3>2. (d - e) * old <= (d - e) * b
      <4>1. b * (d - e) >= old * (d - e)
        BY <2>7, <2>9, ProductGrows
      <4>2. b * (d - e) = (d - e) * b /\ old * (d - e) = (d - e) * old
        BY <2>5, <2>9
      <4> QED BY <4>1, <4>2
    <3>3. e * Q <= e * b
      BY <2>3, <2>5, <3>1
    <3>4. (d - e) * b + e * b = b * d
      BY <2>5
    <3>5. (d - e) * old \in Int /\ (d - e) * b \in Int /\ e * Q \in Int
          /\ e * b \in Int
      BY <2>3, <2>5, <2>7
    <3>6. num <= b * d
      BY <3>2, <3>3, <3>4, <3>5
    <3> HIDE DEF num
    <3> QED BY <2>5, <2>8, <3>6, QuotientAtMost
  <2>10. num \div d \in Nat
    <3> HIDE DEF num
    <3> QED BY <2>5, <2>8, Quotient
  <2>11. ASSUME Sharp PROVE num \div d = Q
    <3>1. e = d
      BY <2>6, <2>11
    <3>2. num = Q * d
      BY <2>3, <2>5, <3>1
    <3> HIDE DEF num
    <3> QED BY <2>3, <2>5, <3>2, QuotientExact
  <2> QED BY <2>4, <2>6, <2>9, <2>10, <2>11
<1> QED BY <1>1, <1>2

\* The buckets' coefficients after an update.
LEMMA NextBucketsTyped ==
  ASSUME cfg \in Configs, NEW old, old \in [DOMAIN old -> [Streams -> Nat]],
         NEW ws, ws \in [DOMAIN ws -> Windows]
  PROVE  LET new == NextBuckets(old, ws) IN
         /\ DOMAIN new = DOMAIN ws
         /\ new \in [DOMAIN new -> [Streams -> Nat]]
         /\ \A s \in Streams, b \in Nat :
              /\ \A key \in DOMAIN old : old[key][s] <= b
              /\ \A key \in DOMAIN ws : \A n \in DOMAIN ws[key][s] :
                   ws[key][s][n] <= b
              => \A key \in DOMAIN new : new[key][s] <= b
         /\ Sharp => \A key \in DOMAIN ws, s \in Streams :
                       \A n \in DOMAIN ws[key][s] : ws[key][s][n] <= new[key][s]
<1> DEFINE new == NextBuckets(old, ws)
<1>1. new = [key \in DOMAIN ws |->
               [s \in Streams |-> Ema(OldK(old, key, s), ws[key][s])]]
  BY DEF NextBuckets
<1>2. ASSUME NEW key \in DOMAIN ws, NEW s \in Streams
      PROVE  /\ new[key][s] = Ema(OldK(old, key, s), ws[key][s])
             /\ OldK(old, key, s) \in Nat /\ ws[key][s] \in Seq(Nat)
             /\ key \in DOMAIN old => OldK(old, key, s) = old[key][s]
             /\ key \notin DOMAIN old => OldK(old, key, s) = 0
  <2>1. OldK(old, key, s) \in Nat
    BY DEF OldK
  <2>2. ws[key][s] \in Seq(Nat)
    BY DEF Windows
  <2> QED BY <1>1, <2>1, <2>2 DEF OldK
<1>3. DOMAIN new = DOMAIN ws
  BY <1>1
<1>4. ASSUME NEW key \in DOMAIN ws, NEW s \in Streams
      PROVE  /\ new[key][s] \in Nat
             /\ \A b \in Nat : /\ OldK(old, key, s) <= b
                               /\ \A n \in DOMAIN ws[key][s] : ws[key][s][n] <= b
                               => new[key][s] <= b
             /\ Sharp => \A n \in DOMAIN ws[key][s] : ws[key][s][n] <= new[key][s]
  BY <1>2, EmaTyped
<1>5. new \in [DOMAIN new -> [Streams -> Nat]]
  BY <1>1, <1>3, <1>4
<1> HIDE DEF new
<1>6. ASSUME NEW s \in Streams, NEW b \in Nat,
             \A key \in DOMAIN old : old[key][s] <= b,
             \A key \in DOMAIN ws : \A n \in DOMAIN ws[key][s] :
               ws[key][s][n] <= b,
             NEW key \in DOMAIN ws
      PROVE  new[key][s] <= b
  <2>1. OldK(old, key, s) <= b
    BY <1>2, <1>6
  <2> QED BY <1>4, <1>6, <2>1
<1> QED BY <1>3, <1>4, <1>5, <1>6 DEF new

-----------------------------------------------------------------------------
(* What a judged audit leaves behind.                                      *)

\* The samples of an audit cut at a level, and the one it leaves in the
\* bucket of that level.
Taken(i, cut, s) ==
  {FallbackSample(i, cut, s)}
    \cup {LinkSample(i, l, s) : l \in Links(cut, Paired(cut))}
AtCut(i, cut, s) ==
  IF Links(cut, Paired(cut)) = {}
    THEN {FallbackSample(i, cut, s)}
    ELSE {LinkSample(i, l, s) : l \in {x \in Links(cut, Paired(cut)) : x[1] = cut}}

Register(i, cut) ==
  IF Links(cut, Paired(cut)) = {}
    THEN RegisterFallback(i, cut)
    ELSE RegisterPairs(i, Links(cut, Paired(cut)))

\* Samples are natural numbers.
LEMMA TakenTyped ==
  ASSUME ev \in Evaluators, NEW i \in Ids, NEW cut \in 1 .. L - 1,
         NEW s \in Streams
  PROVE  Taken(i, cut, s) \subseteq Nat
BY SamplesTyped DEF Taken

\* Into the global window.
LEMMA RegisterGlob ==
  ASSUME LoopTypes, Learning, NEW i \in Ids, NEW cut \in 1 .. L - 1
  PROVE  LET g == Register(i, cut).glob IN
         /\ g \in Windows
         /\ \A s \in Streams :
              /\ Len(g[s]) <= KWindow
              /\ \A n \in DOMAIN g[s] :
                   \/ \E m \in DOMAIN samples.glob[s] : g[s][n] = samples.glob[s][m]
                   \/ g[s][n] \in Taken(i, cut, s)
<1> DEFINE g == Register(i, cut).glob  links == Links(cut, Paired(cut))
           vs(s) == IF links = {} THEN <<FallbackSample(i, cut, s)>>
                                  ELSE LinkSamples(i, links, s)
<1>0. cfg \in Configs /\ ev \in Evaluators /\ samples.glob \in Windows
  BY DEF LoopTypes, Learning
<1>1. g = [s \in Streams |-> PushAll(samples.glob[s], vs(s))]
  <2>1. CASE links = {}
    BY <2>1 DEF Register, RegisterFallback
  <2>2. CASE links # {}
    BY <2>2 DEF Register, RegisterPairs
  <2> QED BY <2>1, <2>2
<1>2. ASSUME NEW s \in Streams
      PROVE  vs(s) \in Seq(Nat) /\ \A n \in DOMAIN vs(s) : vs(s)[n] \in Taken(i, cut, s)
  <2>1. CASE links = {}
    <3>1. FallbackSample(i, cut, s) \in Nat
      BY <1>0, SamplesTyped
    <3>2. vs(s) = <<FallbackSample(i, cut, s)>>
      BY <2>1
    <3> HIDE DEF vs
    <3> QED BY <3>1, <3>2 DEF Taken
  <2>2. CASE links # {}
    <3>1. vs(s) = LinkSamples(i, links, s)
      BY <2>2
    <3>2. /\ vs(s) \in Seq(Nat)
          /\ \A n \in DOMAIN vs(s) : \E l \in links : vs(s)[n] = LinkSample(i, l, s)
      BY <1>0, <3>1, LinkSamplesTyped
    <3> HIDE DEF vs
    <3> QED BY <3>2 DEF Taken
  <2> QED BY <2>1, <2>2
<1> HIDE DEF g, vs
<1>3. ASSUME NEW s \in Streams
      PROVE  /\ g[s] \in Seq(Nat)
             /\ Len(g[s]) <= KWindow
             /\ \A n \in DOMAIN g[s] :
                  \/ \E m \in DOMAIN samples.glob[s] : g[s][n] = samples.glob[s][m]
                  \/ g[s][n] \in Taken(i, cut, s)
  <2> DEFINE w == samples.glob[s]  e == vs(s)  x == g[s]
  <2>1. x = PushAll(w, e) /\ w \in Seq(Nat) /\ e \in Seq(Nat)
    BY <1>0, <1>1, <1>2 DEF Windows
  <2>2. \A n \in DOMAIN e : e[n] \in Taken(i, cut, s)
    BY <1>2
  <2> HIDE DEF w, e, x
  <2>3. /\ x \in Seq(Nat) /\ Len(x) <= KWindow
        /\ \A n \in DOMAIN x : \/ \E m \in DOMAIN w : x[n] = w[m]
                               \/ \E m \in DOMAIN e : x[n] = e[m]
    BY <1>0, <2>1, PushAllTyped
  <2>4. \A n \in DOMAIN x : \/ \E m \in DOMAIN w : x[n] = w[m]
                            \/ x[n] \in Taken(i, cut, s)
    BY <2>2, <2>3
  <2> QED BY <2>3, <2>4 DEF x, w
<1>4. g \in Windows
  BY <1>1, <1>3 DEF Windows
<1> QED BY <1>3, <1>4 DEF g

\* Into the buckets of the fidelities.
LEMMA RegisterPhi ==
  ASSUME LoopTypes, Learning, NEW i \in Ids, NEW cut \in 1 .. L - 1
  PROVE  \E v : /\ v \in [DOMAIN v -> [Streams -> Nat]]
                /\ Register(i, cut).phi = PushBuckets(samples.phi, v)
                /\ DOMAIN v \subseteq KeysOf(1 .. L - 1)
                /\ Ladder[cut] \in DOMAIN v
                /\ \A s \in Streams :
                     /\ v[Ladder[cut]][s] \in AtCut(i, cut, s)
                     /\ \A key \in DOMAIN v : v[key][s] \in Taken(i, cut, s)
<1> DEFINE links == Links(cut, Paired(cut))
<1>0. ev \in Evaluators
  BY DEF LoopTypes
<1>1. CASE links = {}
  <2> DEFINE u == [s \in Streams |-> FallbackSample(i, cut, s)]
             v == [key \in {Ladder[cut]} |-> u]
  <2>1. Register(i, cut).phi = PushBuckets(samples.phi, v)
    BY <1>1 DEF Register, RegisterFallback
  <2>2. u \in [Streams -> Nat]
    BY <1>0, SamplesTyped
  <2>3. DOMAIN v = {Ladder[cut]} /\ v \in [DOMAIN v -> [Streams -> Nat]]
    BY <2>2
  <2>4. DOMAIN v \subseteq KeysOf(1 .. L - 1)
    BY <2>3 DEF KeysOf
  <2>5. \A s \in Streams : v[Ladder[cut]][s] = FallbackSample(i, cut, s)
    OBVIOUS
  <2> HIDE DEF v
  <2>6. \A s \in Streams :
          /\ v[Ladder[cut]][s] \in AtCut(i, cut, s)
          /\ \A key \in DOMAIN v : v[key][s] \in Taken(i, cut, s)
    BY <1>1, <2>3, <2>5 DEF AtCut, Taken
  <2> QED BY <2>1, <2>3, <2>4, <2>6
<1>2. CASE links # {}
  <2> DEFINE from(key) == CHOOSE l \in links : Ladder[l[1]] = key
             v == [key \in {Ladder[l[1]] : l \in links} |->
                     [s \in Streams |-> LinkSample(i, from(key), s)]]
  <2>1. Register(i, cut).phi = PushBuckets(samples.phi, v)
    BY <1>2 DEF Register, RegisterPairs
  <2>2. DOMAIN v = {Ladder[l[1]] : l \in links}
    OBVIOUS
  <2>3. ASSUME NEW key \in DOMAIN v
        PROVE  from(key) \in links /\ Ladder[from(key)[1]] = key
    <3>1. \E l \in links : Ladder[l[1]] = key
      BY <2>2, <2>3
    <3> HIDE DEF links
    <3> QED BY <3>1
  <2>4. \A key \in DOMAIN v, s \in Streams : v[key][s] = LinkSample(i, from(key), s)
    OBVIOUS
  <2>5. v = [key \in DOMAIN v |-> [s \in Streams |-> LinkSample(i, from(key), s)]]
    BY <2>2
  <2>6. \A key \in DOMAIN v, s \in Streams : LinkSample(i, from(key), s) \in Nat
    <3> HIDE DEF v, from
    <3> QED BY <1>0, <2>3, SamplesTyped
  <2>7. DOMAIN v \subseteq KeysOf(1 .. L - 1)
    <3>1. \A l \in links : l[1] \in 1 .. L - 1
      BY LinkTyped
    <3> HIDE DEF v, links
    <3> QED BY <2>2, <3>1 DEF KeysOf
  <2>8. Paired(cut) # {}
    <3> SUFFICES ASSUME Paired(cut) = {} PROVE FALSE
      OBVIOUS
    <3>1. PICK l \in links : TRUE
      BY <1>2
    <3>2. l[1] = cut /\ l[2] = cut /\ l[1] < l[2]
      BY <3>1 DEF Links
    <3>3. cut \in Int
      BY LadderFacts
    <3> QED BY <3>2, <3>3
  <2>9. PICK l0 \in links : l0[1] = cut
    BY <2>8, FirstLink
  <2>10. Ladder[cut] \in DOMAIN v
    BY <2>2, <2>9
  <2>11. from(Ladder[cut])[1] = cut
    <3> DEFINE l == from(Ladder[cut])
    <3>1. l \in links /\ Ladder[l[1]] = Ladder[cut]
      BY <2>3, <2>10
    <3> HIDE DEF l
    <3>2. l[1] # cut => Ladder[l[1]].tau < Ladder[cut].tau
      BY <3>1, LinkTyped
    <3>3. cut \in Levels
      BY LadderFacts DEF Levels
    <3>4. Ladder[cut].tau \in Nat
      BY <3>3, LadderFacts
    <3>5. l[1] = cut
      BY <3>1, <3>2, <3>4
    <3> QED BY <3>5 DEF l
  <2> HIDE DEF v, from
  <2>12. v \in [DOMAIN v -> [Streams -> Nat]]
    BY <2>5, <2>6
  <2>13. ASSUME NEW s \in Streams
         PROVE  /\ v[Ladder[cut]][s] \in AtCut(i, cut, s)
                /\ \A key \in DOMAIN v : v[key][s] \in Taken(i, cut, s)
    <3>1. v[Ladder[cut]][s] = LinkSample(i, from(Ladder[cut]), s)
      BY <2>4, <2>10
    <3>2. from(Ladder[cut]) \in {x \in links : x[1] = cut}
      BY <2>3, <2>10, <2>11
    <3>3. v[Ladder[cut]][s] \in AtCut(i, cut, s)
      BY <1>2, <3>1, <3>2 DEF AtCut
    <3>4. ASSUME NEW key \in DOMAIN v PROVE v[key][s] \in Taken(i, cut, s)
      BY <2>3, <2>4, <3>4 DEF Taken
    <3> QED BY <3>3, <3>4
  <2> QED BY <2>1, <2>7, <2>10, <2>12, <2>13
<1> QED BY <1>1, <1>2

\* Into the buckets of the intervals, if there are pairs.
LEMMA RegisterInterval ==
  ASSUME LoopTypes, Learning, NEW i \in Ids, NEW cut \in 1 .. L - 1
  PROVE  \/ Register(i, cut).interval = samples.interval
         \/ \E v : /\ v \in [DOMAIN v -> [Streams -> Nat]]
                   /\ Register(i, cut).interval = PushBuckets(samples.interval, v)
                   /\ \A s \in Streams, key \in DOMAIN v :
                        v[key][s] \in Taken(i, cut, s)
<1> DEFINE links == Links(cut, Paired(cut))
<1>0. ev \in Evaluators
  BY DEF LoopTypes
<1>1. CASE links = {}
  BY <1>1 DEF Register, RegisterFallback
<1>2. CASE links # {}
  <2> DEFINE from(key) == CHOOSE l \in links : IntervalKey(l) = key
             v == [key \in {IntervalKey(l) : l \in links} |->
                     [s \in Streams |-> LinkSample(i, from(key), s)]]
  <2>1. Register(i, cut).interval = PushBuckets(samples.interval, v)
    BY <1>2 DEF Register, RegisterPairs
  <2>2. DOMAIN v = {IntervalKey(l) : l \in links}
    OBVIOUS
  <2>3. ASSUME NEW key \in DOMAIN v PROVE from(key) \in links
    <3>1. \E l \in links : IntervalKey(l) = key
      BY <2>2, <2>3
    <3> HIDE DEF links
    <3> QED BY <3>1
  <2>4. v = [key \in DOMAIN v |-> [s \in Streams |-> LinkSample(i, from(key), s)]]
    BY <2>2
  <2> HIDE DEF v, from
  <2>5. \A key \in DOMAIN v, s \in Streams : LinkSample(i, from(key), s) \in Nat
    BY <1>0, <2>3, SamplesTyped
  <2>6. v \in [DOMAIN v -> [Streams -> Nat]]
    BY <2>4, <2>5
  <2>7. \A key \in DOMAIN v, s \in Streams : v[key][s] = LinkSample(i, from(key), s)
    BY <2>4
  <2>8. \A s \in Streams, key \in DOMAIN v : v[key][s] \in Taken(i, cut, s)
    BY <2>3, <2>7 DEF Taken
  <2> QED BY <2>1, <2>6, <2>8
<1> QED BY <1>1, <1>2

\* The Truth arm has all paired levels of the audit when it registers.
LEMMA ResolveRegisters ==
  ASSUME AuditInv, NEW i \in Ids, Resolve(i)
  PROVE  /\ origin[i].cut \in 1 .. L - 1
         /\ cfg.learnsK => samples' = Register(i, origin[i].cut)
         /\ ~cfg.learnsK => samples' = samples
<1> DEFINE a == pending[i]  cut == origin[i].cut
           links == Links(a.cut, a.pairs \cup PairedSample(i, L))
<1>1. /\ at[i] = L /\ i \in DOMAIN pending
      /\ samples' = IF ~cfg.learnsK THEN samples
                    ELSE IF links = {} THEN RegisterFallback(i, a.cut)
                    ELSE RegisterPairs(i, links)
  BY DEF Resolve
<1>2. L \in Nat /\ L > 0
  BY LadderFacts
<1>3. AuditPaths
  BY DEF AuditInv
<1>4. cut \in 1 .. L - 1
  BY <1>1, <1>2, <1>3 DEF AuditPaths
<1>5. a.cut = cut /\ a.pairs = {q \in Paired(cut) : q < L}
  <2>1. at[i] \in 1 .. L
    BY <1>1, <1>2
  <2> QED BY <1>1, <1>3, <2>1 DEF AuditPaths
<1>6. a.pairs \cup PairedSample(i, L) = Paired(cut)
  <2>1. \A q \in Paired(cut) : q \in Nat /\ (q < L \/ q = L)
    BY <1>2, <1>4 DEF Paired
  <2>2. PairedSample(i, L) = {L} \cap Paired(cut)
    BY DEF PairedSample
  <2> HIDE DEF a, cut
  <2> QED BY <1>5, <2>1, <2>2
<1>7. links = Links(cut, Paired(cut))
  BY <1>5, <1>6
<1> HIDE DEF links, a
<1> QED BY <1>1, <1>4, <1>5, <1>7 DEF Register

-----------------------------------------------------------------------------
(* Learning.                                                               *)

\* The steps that teach: a judged audit fills the windows, an update moves the
\* coefficients.  All others leave both alone.
Quiet == ev' = ev /\ cfg' = cfg /\ k' = k /\ samples' = samples

\* What a step does to the windows and the coefficients.
LEMMA StepKinds ==
  ASSUME [Next]_vars
  PROVE  Quiet \/ (\E i \in Ids : Resolve(i)) \/ Update
<1>1. ASSUME UNCHANGED vars PROVE Quiet
  BY <1>1 DEF vars, learned, Quiet
<1>2. ASSUME NEW i \in Ids, NEW p \in Levels, CutAndAudit(i, p) PROVE Quiet
  BY <1>2 DEF CutAndAudit, learned, Quiet
<1>3. ASSUME NEW i \in Ids, Checkpoint(i) \/ Lose(i) PROVE Quiet
  BY <1>3 DEF Checkpoint, Lose, learned, Quiet
<1> QED BY <1>1, <1>2, <1>3 DEF Next

\* The calibrator starts with nothing learned.
LEMMA LearningInit == Init => Learning
<1> SUFFICES ASSUME Init PROVE Learning
  OBVIOUS
<1>1. /\ samples.glob = Empty /\ samples.phi = NoKeys /\ samples.interval = NoKeys
      /\ k.glob = Zero /\ k.phi = NoKeys /\ k.interval = NoKeys
  BY DEF Init
<1>2. DOMAIN NoKeys = {}
  BY DEF NoKeys
<1>3. Empty \in Windows /\ \A s \in Streams : Len(Empty[s]) = 0
  <2>1. << >> \in Seq(Nat) /\ Len(<< >>) = 0
    OBVIOUS
  <2> QED BY <2>1 DEF Empty, Windows
<1>4. Zero \in [Streams -> Nat]
  BY DEF Zero
<1>5. /\ NoKeys \in [DOMAIN NoKeys -> Windows]
      /\ NoKeys \in [DOMAIN NoKeys -> [Streams -> Nat]]
  BY DEF NoKeys
<1>6. KWindow \in Nat
  BY ConfigFacts DEF Init
<1>7. \A s \in Streams :
        /\ Len(samples.glob[s]) <= KWindow
        /\ \A key \in DOMAIN samples.phi :
             Len(samples.phi[key][s]) \in 1 .. KWindow
  BY <1>1, <1>2, <1>3, <1>6
<1> QED BY <1>1, <1>2, <1>3, <1>4, <1>5, <1>7 DEF Learning

\* The Truth arm keeps the windows within their capacity.
LEMMA LearningResolve ==
  ASSUME AuditInv, Learning, NEW i \in Ids, Resolve(i)
  PROVE  Learning'
<1> DEFINE cut == origin[i].cut
<1>1. k' = k /\ cfg' = cfg
  BY DEF Resolve, learned
<1>2. KWindow' = KWindow
  BY <1>1 DEF KWindow
<1>3. LoopTypes /\ cfg \in Configs
  BY DEF AuditInv, LoopTypes
<1>4. CASE ~cfg.learnsK
  <2>1. samples' = samples
    BY <1>4, ResolveRegisters
  <2> QED BY <1>1, <1>2, <2>1 DEF Learning
<1>5. CASE cfg.learnsK
  <2>1. cut \in 1 .. L - 1 /\ samples' = Register(i, cut)
    BY <1>5, ResolveRegisters
  <2> HIDE DEF cut
  <2>2. /\ samples'.glob \in Windows
        /\ \A s \in Streams : Len(samples'.glob[s]) <= KWindow
    BY <1>3, <2>1, RegisterGlob
  <2>3. PICK v : /\ v \in [DOMAIN v -> [Streams -> Nat]]
                 /\ samples'.phi = PushBuckets(samples.phi, v)
                 /\ DOMAIN v \subseteq KeysOf(1 .. L - 1)
    BY <1>3, <2>1, RegisterPhi
  <2>4. samples.phi \in [DOMAIN samples.phi -> Windows]
    BY DEF Learning
  <2> DEFINE b == samples.phi  r == samples'.phi
  <2> HIDE DEF b, r
  <2>5. /\ DOMAIN r = DOMAIN b \cup DOMAIN v
        /\ r \in [DOMAIN r -> Windows]
        /\ \A key \in DOMAIN r, s \in Streams :
             /\ Len(r[key][s]) <= KWindow
             /\ key \in DOMAIN v => Len(r[key][s]) >= 1
             /\ key \in DOMAIN b /\ Len(b[key][s]) >= 1 => Len(r[key][s]) >= 1
    <3>1. r = PushBuckets(b, v) /\ b \in [DOMAIN b -> Windows]
      BY <2>3, <2>4 DEF r, b
    <3> QED BY <1>3, <2>3, <3>1, PushBucketsTyped
  <2>6. ASSUME NEW s \in Streams, NEW key \in DOMAIN r
        PROVE  Len(r[key][s]) \in 1 .. KWindow
    <3>1. key \in DOMAIN b => Len(b[key][s]) >= 1
      BY <1>3, ConfigFacts DEF Learning, b
    <3>2. Len(r[key][s]) >= 1
      BY <2>5, <3>1
    <3>3. r[key][s] \in Seq(Nat)
      BY <2>5 DEF Windows
    <3>4. Len(r[key][s]) \in Nat
      BY <3>3
    <3>5. KWindow \in Nat
      BY <1>3, ConfigFacts
    <3> QED BY <2>5, <3>2, <3>4, <3>5
  <2>7. /\ DOMAIN r \subseteq KeysOf(1 .. L - 1)
        /\ DOMAIN k.phi \subseteq DOMAIN r
    BY <2>3, <2>5 DEF Learning, b
  <2>8. samples'.interval \in [DOMAIN samples'.interval -> Windows]
    <3>1. samples.interval \in [DOMAIN samples.interval -> Windows]
      BY DEF Learning
    <3>2. CASE samples'.interval = samples.interval
      BY <3>1, <3>2
    <3>3. CASE samples'.interval # samples.interval
      <4>1. PICK u : /\ u \in [DOMAIN u -> [Streams -> Nat]]
                     /\ samples'.interval = PushBuckets(samples.interval, u)
        BY <1>3, <2>1, <3>3, RegisterInterval
      <4> DEFINE c == samples.interval  t == samples'.interval
      <4> HIDE DEF c, t
      <4>2. t = PushBuckets(c, u) /\ c \in [DOMAIN c -> Windows]
        BY <3>1, <4>1 DEF c, t
      <4>3. t \in [DOMAIN t -> Windows]
        BY <1>3, <4>1, <4>2, PushBucketsTyped
      <4> QED BY <4>3 DEF t
    <3> QED BY <3>2, <3>3
  <2>9. r \in [DOMAIN r -> Windows] /\ r = samples'.phi
    BY <2>5 DEF r
  <2>10. /\ k.glob \in [Streams -> Nat]
         /\ k.phi \in [DOMAIN k.phi -> [Streams -> Nat]]
         /\ k.interval \in [DOMAIN k.interval -> [Streams -> Nat]]
    BY DEF Learning
  <2>11. Learning'
    BY <1>1, <1>2, <2>2, <2>6, <2>7, <2>8, <2>9, <2>10 DEF Learning
  <2> QED BY <2>11
<1> QED BY <1>4, <1>5

\* So do the coefficients of an update.
LEMMA LearningUpdate ==
  ASSUME AuditInv, Learning, Update
  PROVE  Learning'
<1>1. /\ samples' = samples /\ cfg' = cfg
      /\ k'.glob = NextGlob
      /\ k'.phi = NextBuckets(k.phi, samples.phi)
      /\ k'.interval = NextBuckets(k.interval, samples.interval)
  BY DEF Update
<1>2. KWindow' = KWindow
  BY <1>1 DEF KWindow
<1>3. cfg \in Configs
  BY DEF AuditInv, LoopTypes
<1>4. k'.glob \in [Streams -> Nat]
  <2>1. \A s \in Streams : k.glob[s] \in Nat /\ samples.glob[s] \in Seq(Nat)
    BY DEF Learning, Windows
  <2>2. \A s \in Streams : Ema(k.glob[s], samples.glob[s]) \in Nat
    BY <1>3, <2>1, EmaTyped
  <2> QED BY <1>1, <2>2 DEF NextGlob
<1>5. /\ DOMAIN k'.phi = DOMAIN samples.phi
      /\ k'.phi \in [DOMAIN k'.phi -> [Streams -> Nat]]
  <2> DEFINE old == k.phi  ws == samples.phi
  <2>1. old \in [DOMAIN old -> [Streams -> Nat]] /\ ws \in [DOMAIN ws -> Windows]
    BY DEF Learning
  <2> HIDE DEF old, ws
  <2>2. /\ DOMAIN NextBuckets(old, ws) = DOMAIN ws
        /\ NextBuckets(old, ws) \in
             [DOMAIN NextBuckets(old, ws) -> [Streams -> Nat]]
    BY <1>3, <2>1, NextBucketsTyped
  <2> QED BY <1>1, <2>2 DEF old, ws
<1>6. k'.interval \in [DOMAIN k'.interval -> [Streams -> Nat]]
  <2> DEFINE old == k.interval  ws == samples.interval
  <2>1. old \in [DOMAIN old -> [Streams -> Nat]] /\ ws \in [DOMAIN ws -> Windows]
    BY DEF Learning
  <2> HIDE DEF old, ws
  <2>2. NextBuckets(old, ws) \in [DOMAIN NextBuckets(old, ws) -> [Streams -> Nat]]
    BY <1>3, <2>1, NextBucketsTyped
  <2> QED BY <1>1, <2>2 DEF old, ws
<1> QED BY <1>1, <1>2, <1>4, <1>5, <1>6 DEF Learning

\* Every step.
LEMMA LearningStep == AuditInv /\ Learning /\ [Next]_vars => Learning'
<1> SUFFICES ASSUME AuditInv, Learning, [Next]_vars PROVE Learning'
  OBVIOUS
<1>1. ASSUME Quiet PROVE Learning'
  <2>1. KWindow' = KWindow
    BY <1>1 DEF Quiet, KWindow
  <2> QED BY <1>1, <2>1 DEF Quiet, Learning
<1> QED BY <1>1, StepKinds, LearningResolve, LearningUpdate

\* The invariant of the loop and of what it learns.
LEMMA LearningInvariant == Spec => [](AuditInv /\ Learning)
BY AuditInit, AuditStep, LearningInit, LearningStep, PTL DEF Spec

\* Types and ranges: delta stays within its clamps, windows within their
\* capacity, no bucket is empty and no coefficient negative.
THEOREM CalibTypeCorrect == Spec => []CalibTypeOK
<1>1. AuditInv /\ Learning => CalibTypeOK
  <2> SUFFICES ASSUME AuditInv, Learning PROVE CalibTypeOK
    OBVIOUS
  <2>1. /\ cursor \in {0} \cup Ids
        /\ at \in [Ids -> 0 .. L + 1]
        /\ origin \in [Ids -> [j : {0} \cup Constraints, cut : 0 .. L]]
        /\ revDelta \in {0, 1}
        /\ \A j \in Constraints : delta[j] \in cfg.deltaMin .. cfg.deltaMax
    BY DEF AuditInv, LoopTypes, Origins
  <2>2. /\ DOMAIN pending \subseteq Ids
        /\ \A i \in DOMAIN pending :
             pending[i].pairs \subseteq Paired(pending[i].cut)
    BY DEF AuditInv, AuditPaths
  <2>3. /\ DOMAIN k.phi \subseteq DOMAIN samples.phi
        /\ DOMAIN samples.phi \subseteq KeysOf(1 .. L - 1)
        /\ \A s \in Streams :
             /\ k.glob[s] \in Nat
             /\ Len(samples.glob[s]) <= KWindow
             /\ \A key \in DOMAIN samples.phi :
                  Len(samples.phi[key][s]) \in 1 .. KWindow
    BY DEF Learning
  <2> QED BY <2>1, <2>2, <2>3 DEF CalibTypeOK
<1> QED BY <1>1, LearningInvariant, PTL

-----------------------------------------------------------------------------
(* Linear evaluators: learned coefficients stay within the bias.           *)

\* The largest bias of a stream bounds that of every candidate.
LEMMA BiasBounds ==
  ASSUME ev \in Evaluators, NEW s \in Streams
  PROVE  /\ Bias(s) \in Nat
         /\ \A i \in Ids : BiasOf(i, s) \in Int /\ BiasOf(i, s) <= Bias(s)
<1>1. L \in Nat /\ L > 0 /\ L \in Levels /\ 1 \in Levels
  BY LadderFacts DEF Levels
<1>2. DTau(1, L) \in Nat
  <2>1. Ladder[1].tau \in Nat /\ Ladder[L].tau \in Nat
    BY <1>1, LadderFacts
  <2>2. CASE L = 1
    BY <2>1, <2>2 DEF DTau
  <2>3. CASE L # 1
    <3>1. 1 < L
      BY <1>1, <2>3
    <3>2. Ladder[1].tau >= Ladder[L].tau
      BY <1>1, <3>1, LadderFacts
    <3> QED BY <2>1, <3>2 DEF DTau
  <2> QED BY <2>2, <2>3
<1>3. ASSUME NEW i \in Ids PROVE BiasOf(i, s) \in Int
  <2> DEFINE x == ev[i][1][s] - ev[i][L][s]  d == DTau(1, L)
  <2>1. ev[i][1][s] \in Int /\ ev[i][L][s] \in Int
    BY <1>1, EvaluatorFacts
  <2>2. x \in Int
    BY <2>1
  <2>3. BiasOf(i, s) = IF d = 0 THEN 0 ELSE x \div d
    BY DEF BiasOf
  <2>4. d \in Nat
    BY <1>2
  <2> HIDE DEF x, d
  <2>5. d # 0 => x \div d \in Int
    BY <2>2, <2>4
  <2> QED BY <2>3, <2>5
<1>4. PICK n \in Nat : ExistsSurjection(1 .. n, Ids)
  BY CalibratorAssumption, FS_NatSurjection
<1>5. PICK g \in [1 .. n -> Ids] : \A i \in Ids : \E m \in 1 .. n : g[m] = i
  BY <1>4 DEF ExistsSurjection, Surjection
<1> DEFINE f == [m \in 1 .. n |-> BiasOf(g[m], s)]
<1>6. f \in [1 .. n -> Int]
  BY <1>3, <1>5
<1>7. PICK top \in Nat : \A m \in 1 .. n : f[m] <= top
  BY <1>6, FiniteIsBounded
<1>8. ASSUME NEW i \in Ids PROVE BiasOf(i, s) <= top
  <2>1. PICK m \in 1 .. n : g[m] = i
    BY <1>5
  <2>2. f[m] = BiasOf(i, s)
    BY <2>1
  <2> HIDE DEF f
  <2> QED BY <1>7, <2>2
<1> DEFINE S == {BiasOf(i, s) : i \in Ids} \cup {0}
<1>9. S \subseteq Int /\ S # {} /\ 0 \in S
  BY <1>3
<1>10. \A x \in S : x <= top
  BY <1>8
<1>11. \A i \in Ids : BiasOf(i, s) \in S
  OBVIOUS
<1>12. Bias(s) = Max(S)
  BY DEF Bias
<1> HIDE DEF S
<1>13. Max(S) \in S /\ \A y \in S : Max(S) >= y
  <2>1. top \in Int
    OBVIOUS
  <2> QED BY <1>9, <1>10, <2>1, MaxOfBounded
<1>14. Max(S) \in Int /\ Max(S) >= 0
  BY <1>9, <1>13
<1> DEFINE B == Max(S)
<1>15. B \in Int /\ B >= 0 /\ \A y \in S : B >= y
  BY <1>13, <1>14
<1> HIDE DEF B
<1>16. \A i \in Ids : BiasOf(i, s) <= B
  BY <1>3, <1>11, <1>15
<1>17. B \in Nat
  BY <1>15
<1> QED BY <1>3, <1>12, <1>16, <1>17 DEF B

\* Under a linear bias no sample exceeds it, and the one left in the bucket of
\* the cut accounts for all of it.
LEMMA LinearSamples ==
  ASSUME ev \in Evaluators, Linear, NEW i \in Ids, NEW cut \in 1 .. L - 1,
         NEW s \in Streams
  PROVE  /\ \A x \in Taken(i, cut, s) : x \in Nat /\ x <= Bias(s)
         /\ \A x \in AtCut(i, cut, s) :
              x \in Nat /\ x * Ladder[cut].tau >= ev[i][cut][s] - ev[i][L][s]
<1> DEFINE b == BiasOf(i, s)  B == Bias(s)
           e(p) == ev[i][p][s]  t(p) == Ladder[p].tau
<1>1. b \in Int /\ B \in Nat /\ b <= B
  BY BiasBounds
<1>2. \A p, q \in Levels : e(p) - e(q) = b * (t(p) - t(q))
  BY DEF Linear, LinearBias, DTau
<1>3. L \in Levels /\ cut \in Levels /\ cut < L
  BY LadderFacts DEF Levels
<1>4. \A p \in Levels : e(p) \in Int /\ t(p) \in Nat /\ t(p) > 0
  BY EvaluatorFacts, LadderFacts
<1>5. t(cut) >= t(L)
  BY <1>3, LadderFacts
<1>6. (e(cut) - e(L)) % t(cut) = 0
  BY <1>3, EvaluatorFacts
<1>7. FallbackSample(i, cut, s) = Slope(e(cut), e(L), t(cut))
  BY DEF FallbackSample
<1>8. \A l : LinkSample(i, l, s) = Slope(e(l[1]), e(l[2]), t(l[1]) - t(l[2]))
  BY DEF LinkSample, DTau
<1>9. \A l \in Links(cut, Paired(cut)) :
        /\ l[1] \in Levels /\ l[2] \in Levels
        /\ t(l[1]) - t(l[2]) \in Nat /\ t(l[1]) - t(l[2]) > 0
  BY LinkTyped DEF DTau
<1> HIDE DEF b, B, e, t
<1> DEFINE D == e(cut) - e(L)  T == t(cut) - t(L)
<1>10. T \in Nat /\ T <= t(cut) /\ D = b * T /\ D \in Int
       /\ t(cut) \in Nat /\ t(cut) > 0
  BY <1>2, <1>3, <1>4, <1>5
<1> HIDE DEF T
<1>11. D <= B * t(cut)
  <2>1. b * T <= B * T
    BY <1>1, <1>10
  <2>2. B * T <= B * t(cut)
    BY <1>1, <1>10
  <2>3. b * T \in Int /\ B * T \in Int /\ B * t(cut) \in Int
    BY <1>1, <1>10
  <2> HIDE DEF D
  <2> QED BY <1>10, <2>1, <2>2, <2>3
<1> DEFINE F == FallbackSample(i, cut, s)
<1>12. F \in Nat /\ F * t(cut) >= D /\ F <= B
  <2>1. e(cut) \in Int /\ e(L) \in Int
    BY <1>3, <1>4
  <2> DEFINE x == e(cut)  y == e(L)  d == t(cut)
  <2>2. x \in Int /\ y \in Int /\ d \in Nat /\ d > 0
    BY <1>10, <2>1
  <2>3. (x - y) % d = 0 /\ x - y <= B * d /\ F = Slope(x, y, d)
    BY <1>6, <1>7, <1>11
  <2> HIDE DEF x, y, d, F
  <2>4. F \in Nat /\ F * d >= x - y /\ F <= B
    BY <1>1, <2>2, <2>3, SlopeTyped
  <2> QED BY <2>4 DEF x, y, d
<1> HIDE DEF F
<1>13. ASSUME NEW l \in Links(cut, Paired(cut))
       PROVE  LET x == LinkSample(i, l, s) IN
              /\ x \in Nat /\ x <= B
              /\ b >= 0 => x = b
  <2> DEFINE x == e(l[1])  y == e(l[2])  d == t(l[1]) - t(l[2])
             m == LinkSample(i, l, s)
  <2>1. x \in Int /\ y \in Int /\ d \in Nat /\ d > 0
    BY <1>4, <1>9
  <2>2. x - y = b * d
    BY <1>2, <1>9
  <2>3. m = Slope(x, y, d)
    BY <1>8
  <2> HIDE DEF x, y, d, m
  <2>4. x - y <= B * d
    <3>1. b * d <= B * d
      BY <1>1, <2>1
    <3> QED BY <2>2, <3>1
  <2>5. m \in Nat /\ m <= B
    BY <1>1, <2>1, <2>3, <2>4, SlopeTyped
  <2>6. b >= 0 => m = b
    <3> SUFFICES ASSUME b >= 0 PROVE m = b
      OBVIOUS
    <3>1. b \in Nat
      BY <1>1
    <3> QED BY <2>1, <2>2, <2>3, <3>1, SlopeTyped
  <2> QED BY <2>5, <2>6 DEF m
<1>14. ASSUME NEW l \in Links(cut, Paired(cut))
       PROVE  LinkSample(i, l, s) * t(cut) >= D
  <2> DEFINE m == LinkSample(i, l, s)
  <2>1. m \in Nat /\ (b >= 0 => m = b)
    BY <1>13
  <2> HIDE DEF m, D
  <2>2. CASE b >= 0
    <3>1. m * t(cut) >= b * T
      <4>1. b \in Nat /\ m = b
        BY <1>1, <2>1, <2>2
      <4> QED BY <1>10, <4>1
    <3> QED BY <1>10, <3>1 DEF m
  <2>3. CASE b < 0
    <3>1. b * T <= 0
      BY <1>1, <1>10, <2>3
    <3>2. m * t(cut) \in Nat /\ b * T \in Int
      BY <1>1, <1>10, <2>1
    <3>3. m * t(cut) >= b * T
      BY <3>1, <3>2
    <3> QED BY <1>10, <3>3 DEF m
  <2> QED BY <1>1, <2>2, <2>3
<1>15. \A x \in Taken(i, cut, s) : x \in Nat /\ x <= B
  BY <1>12, <1>13 DEF Taken, F
<1>16. \A x \in AtCut(i, cut, s) : x \in Nat /\ x * t(cut) >= D
  BY <1>12, <1>13, <1>14 DEF AtCut, F
<1> QED BY <1>15, <1>16 DEF B, e, t

\* Nothing is learned at first.
LEMMA WithinBiasInit == Init => WithinBias
<1> SUFFICES ASSUME Init, NEW s \in Streams
             PROVE  /\ k.glob[s] = 0 /\ DOMAIN samples.glob[s] = {}
                    /\ DOMAIN k.phi = {} /\ DOMAIN k.interval = {}
                    /\ DOMAIN samples.phi = {} /\ DOMAIN samples.interval = {}
                    /\ Bias(s) \in Nat
  BY DEF WithinBias
<1>1. DOMAIN NoKeys = {}
  BY DEF NoKeys
<1>2. Zero[s] = 0 /\ Empty[s] = << >>
  BY DEF Zero, Empty
<1>3. Bias(s) \in Nat
  BY BiasBounds DEF Init
<1> QED BY <1>1, <1>2, <1>3 DEF Init

\* The bias is a property of the evaluator.
LEMMA BiasFixed ==
  ASSUME ev' = ev
  PROVE  /\ (Linear' <=> Linear)
         /\ \A s \in Streams : Bias(s)' = Bias(s)
<1>1. \A i, s : BiasOf(i, s)' = BiasOf(i, s)
  BY DEF BiasOf, DTau
<1>2. (Linear' <=> Linear)
  BY <1>1 DEF Linear, LinearBias, DTau, Streams, Levels
<1>3. \A s \in Streams : Bias(s)' = Bias(s)
  BY <1>1 DEF Bias
<1> QED BY <1>2, <1>3

\* A judged audit adds samples within the bias.
LEMMA WithinBiasResolve ==
  ASSUME AuditInv, Learning, WithinBias, NEW i \in Ids, Resolve(i)
  PROVE  WithinBias'
<1> DEFINE cut == origin[i].cut
<1>1. k' = k /\ ev' = ev
  BY DEF Resolve, learned
<1>2. LoopTypes /\ cfg \in Configs /\ ev \in Evaluators
  BY DEF AuditInv, LoopTypes
<1>3. (Linear' <=> Linear) /\ \A s \in Streams : Bias(s)' = Bias(s)
  BY <1>1, BiasFixed
<1>4. SUFFICES ASSUME Linear, NEW s \in Streams
      PROVE  /\ \A n \in DOMAIN samples'.glob[s] : samples'.glob[s][n] <= Bias(s)
             /\ \A key \in DOMAIN samples'.phi :
                  \A n \in DOMAIN samples'.phi[key][s] :
                    samples'.phi[key][s][n] <= Bias(s)
             /\ \A key \in DOMAIN samples'.interval :
                  \A n \in DOMAIN samples'.interval[key][s] :
                    samples'.interval[key][s][n] <= Bias(s)
  BY <1>1, <1>3 DEF WithinBias
<1>5. /\ \A n \in DOMAIN samples.glob[s] : samples.glob[s][n] <= Bias(s)
      /\ \A key \in DOMAIN samples.phi :
           \A n \in DOMAIN samples.phi[key][s] : samples.phi[key][s][n] <= Bias(s)
      /\ \A key \in DOMAIN samples.interval :
           \A n \in DOMAIN samples.interval[key][s] :
             samples.interval[key][s][n] <= Bias(s)
  BY <1>4 DEF WithinBias
<1>6. CASE ~cfg.learnsK
  <2>1. samples' = samples
    BY <1>6, ResolveRegisters
  <2> QED BY <1>5, <2>1
<1>7. CASE cfg.learnsK
  <2>1. cut \in 1 .. L - 1 /\ samples' = Register(i, cut)
    BY <1>7, ResolveRegisters
  <2> HIDE DEF cut
  <2>2. \A x \in Taken(i, cut, s) : x <= Bias(s)
    BY <1>2, <1>4, <2>1, LinearSamples
  <2>3. \A n \in DOMAIN samples'.glob[s] : samples'.glob[s][n] <= Bias(s)
    BY <1>2, <1>5, <2>1, <2>2, RegisterGlob
  <2>4. ASSUME NEW key \in DOMAIN samples'.phi,
               NEW n \in DOMAIN samples'.phi[key][s]
        PROVE  samples'.phi[key][s][n] <= Bias(s)
    <3>1. PICK v : /\ v \in [DOMAIN v -> [Streams -> Nat]]
                   /\ samples'.phi = PushBuckets(samples.phi, v)
                   /\ \A x \in DOMAIN v : v[x][s] \in Taken(i, cut, s)
      BY <1>2, <2>1, RegisterPhi
    <3> DEFINE b == samples.phi  r == samples'.phi
    <3> HIDE DEF b, r
    <3>2. r = PushBuckets(b, v) /\ b \in [DOMAIN b -> Windows]
          /\ key \in DOMAIN r /\ n \in DOMAIN r[key][s]
      BY <3>1, <2>4 DEF r, b, Learning
    <3>3. \/ /\ key \in DOMAIN b
             /\ \E m \in DOMAIN b[key][s] : r[key][s][n] = b[key][s][m]
          \/ key \in DOMAIN v /\ r[key][s][n] = v[key][s]
      BY <1>2, <3>1, <3>2, SampleOrigin
    <3>4. r[key][s][n] <= Bias(s)
      BY <1>5, <2>2, <3>1, <3>3 DEF b
    <3> QED BY <3>4 DEF r
  <2>5. ASSUME NEW key \in DOMAIN samples'.interval,
               NEW n \in DOMAIN samples'.interval[key][s]
        PROVE  samples'.interval[key][s][n] <= Bias(s)
    <3>1. CASE samples'.interval = samples.interval
      BY <1>5, <2>5, <3>1
    <3>2. CASE samples'.interval # samples.interval
      <4>1. PICK v : /\ v \in [DOMAIN v -> [Streams -> Nat]]
                     /\ samples'.interval = PushBuckets(samples.interval, v)
                     /\ \A x \in DOMAIN v : v[x][s] \in Taken(i, cut, s)
        BY <1>2, <2>1, <3>2, RegisterInterval
      <4> DEFINE b == samples.interval  r == samples'.interval
      <4> HIDE DEF b, r
      <4>2. r = PushBuckets(b, v) /\ b \in [DOMAIN b -> Windows]
            /\ key \in DOMAIN r /\ n \in DOMAIN r[key][s]
        BY <4>1, <2>5 DEF r, b, Learning
      <4>3. \/ /\ key \in DOMAIN b
               /\ \E m \in DOMAIN b[key][s] : r[key][s][n] = b[key][s][m]
            \/ key \in DOMAIN v /\ r[key][s][n] = v[key][s]
        BY <1>2, <4>1, <4>2, SampleOrigin
      <4>4. r[key][s][n] <= Bias(s)
        BY <1>5, <2>2, <4>1, <4>3 DEF b
      <4> QED BY <4>4 DEF r
    <3> QED BY <3>1, <3>2
  <2> QED BY <2>3, <2>4, <2>5
<1> QED BY <1>6, <1>7

\* An update stays between the old coefficients and the samples.
LEMMA WithinBiasUpdate ==
  ASSUME AuditInv, Learning, WithinBias, Update
  PROVE  WithinBias'
<1>1. /\ samples' = samples /\ ev' = ev
      /\ k'.glob = NextGlob
      /\ k'.phi = NextBuckets(k.phi, samples.phi)
      /\ k'.interval = NextBuckets(k.interval, samples.interval)
  BY DEF Update
<1>2. cfg \in Configs /\ ev \in Evaluators
  BY DEF AuditInv, LoopTypes
<1>3. (Linear' <=> Linear) /\ \A s \in Streams : Bias(s)' = Bias(s)
  BY <1>1, BiasFixed
<1>4. SUFFICES ASSUME Linear, NEW s \in Streams
      PROVE  /\ k'.glob[s] <= Bias(s)
             /\ \A key \in DOMAIN k'.phi : k'.phi[key][s] <= Bias(s)
             /\ \A key \in DOMAIN k'.interval : k'.interval[key][s] <= Bias(s)
  BY <1>1, <1>3 DEF WithinBias
<1>5. Bias(s) \in Nat
  BY <1>2, BiasBounds
<1>6. k'.glob[s] <= Bias(s)
  <2> DEFINE old == k.glob[s]  w == samples.glob[s]
  <2>1. old \in Nat /\ w \in Seq(Nat)
    BY DEF Learning, Windows
  <2>2. old <= Bias(s) /\ \A n \in DOMAIN w : w[n] <= Bias(s)
    BY <1>4 DEF WithinBias
  <2>3. k'.glob[s] = Ema(old, w)
    BY <1>1 DEF NextGlob
  <2> HIDE DEF old, w
  <2>4. Ema(old, w) <= Bias(s)
    BY <1>2, <1>5, <2>1, <2>2, EmaTyped
  <2> QED BY <2>3, <2>4
<1>7. \A key \in DOMAIN k'.phi : k'.phi[key][s] <= Bias(s)
  <2> DEFINE old == k.phi  ws == samples.phi  B == Bias(s)
  <2>1. old \in [DOMAIN old -> [Streams -> Nat]] /\ ws \in [DOMAIN ws -> Windows]
    BY DEF Learning
  <2>2. /\ \A key \in DOMAIN old : old[key][s] <= B
        /\ \A key \in DOMAIN ws : \A n \in DOMAIN ws[key][s] : ws[key][s][n] <= B
    BY <1>4 DEF WithinBias
  <2>3. k'.phi = NextBuckets(old, ws) /\ B \in Nat
    BY <1>1, <1>5
  <2> HIDE DEF old, ws, B
  <2> DEFINE new == NextBuckets(old, ws)
  <2>4. \A key \in DOMAIN new : new[key][s] <= B
    BY <1>2, <2>1, <2>2, <2>3, NextBucketsTyped
  <2> QED BY <2>3, <2>4 DEF B
<1>8. \A key \in DOMAIN k'.interval : k'.interval[key][s] <= Bias(s)
  <2> DEFINE old == k.interval  ws == samples.interval  B == Bias(s)
  <2>1. old \in [DOMAIN old -> [Streams -> Nat]] /\ ws \in [DOMAIN ws -> Windows]
    BY DEF Learning
  <2>2. /\ \A key \in DOMAIN old : old[key][s] <= B
        /\ \A key \in DOMAIN ws : \A n \in DOMAIN ws[key][s] : ws[key][s][n] <= B
    BY <1>4 DEF WithinBias
  <2>3. k'.interval = NextBuckets(old, ws) /\ B \in Nat
    BY <1>1, <1>5
  <2> HIDE DEF old, ws, B
  <2> DEFINE new == NextBuckets(old, ws)
  <2>4. \A key \in DOMAIN new : new[key][s] <= B
    BY <1>2, <2>1, <2>2, <2>3, NextBucketsTyped
  <2> QED BY <2>3, <2>4 DEF B
<1> QED BY <1>6, <1>7, <1>8

\* Every step.
LEMMA WithinBiasStep ==
  AuditInv /\ Learning /\ WithinBias /\ [Next]_vars => WithinBias'
<1> SUFFICES ASSUME AuditInv, Learning, WithinBias, [Next]_vars PROVE WithinBias'
  OBVIOUS
<1>1. ASSUME Quiet PROVE WithinBias'
  <2>1. (Linear' <=> Linear) /\ \A s \in Streams : Bias(s)' = Bias(s)
    BY <1>1, BiasFixed DEF Quiet
  <2> QED BY <1>1, <2>1 DEF Quiet, WithinBias
<1> QED BY <1>1, StepKinds, WithinBiasResolve, WithinBiasUpdate

\* When the estimates of an evaluator are off by a multiple of the tolerance,
\* no coefficient that ema_quantile_update learns exceeds the largest such
\* multiple: neither the global one nor those of the buckets.
THEOREM CoefficientsWithinBias == Spec => []KWithinBias
<1>1. WithinBias => KWithinBias
  BY DEF WithinBias, KWithinBias, Bias
<1> QED BY <1>1, LearningInvariant, WithinBiasInit, WithinBiasStep, PTL DEF Spec

-----------------------------------------------------------------------------
(* Sharp calibrators: a refuted cut is not repeated.                       *)

\* What every step leaves to the audits that have ended.
LEMMA EndedAudits ==
  ASSUME AuditInv, [Next]_vars
  PROVE  /\ ev' = ev /\ cfg' = cfg
         /\ \A x \in Ids : at[x] = L + 1 => at'[x] = L + 1
         /\ \A x \in Ids : Judged(x)' =>
              Resolve(x) \/ (Judged(x) /\ origin'[x] = origin[x])
         /\ cursor' = 0 => (Quiet /\ cursor = 0) \/ Update
<1>1. LoopTypes /\ AuditPaths
  BY DEF AuditInv
<1>2. at \in [Ids -> 0 .. L + 1] /\ origin \in [Ids -> Origins]
  BY <1>1 DEF LoopTypes
<1>3. L \in Nat /\ L > 0
  BY LadderFacts
<1>4. \A i \in Ids : i # 0
  BY CalibratorAssumption
<1> DEFINE Goal ==
         /\ ev' = ev /\ cfg' = cfg
         /\ \A x \in Ids : at[x] = L + 1 => at'[x] = L + 1
         /\ \A x \in Ids : Judged(x)' =>
              Resolve(x) \/ (Judged(x) /\ origin'[x] = origin[x])
         /\ cursor' = 0 => (Quiet /\ cursor = 0) \/ Update
<1>5. ASSUME UNCHANGED vars PROVE Goal
  <2>1. /\ ev' = ev /\ cfg' = cfg /\ k' = k /\ samples' = samples
        /\ at' = at /\ origin' = origin /\ pending' = pending /\ cursor' = cursor
    BY <1>5 DEF vars, engineVars, learned
  <2> QED BY <2>1 DEF Judged, Quiet
<1>6. ASSUME NEW i \in Ids, NEW p \in Levels, CutAndAudit(i, p) PROVE Goal
  <2>1. /\ ev' = ev /\ cfg' = cfg /\ cursor' = i /\ at[i] = 0 /\ p < L
        /\ at' = [at EXCEPT ![i] = NextAuditTarget(p, p)]
    BY <1>6 DEF CutAndAudit, Deliver
  <2>2. PICK j \in Constraints :
          /\ origin' = [origin EXCEPT ![i] = [j |-> j, cut |-> p]]
          /\ NoteAuditCheckpoint(i, [j |-> j, cut |-> p], {})
    BY <1>6 DEF CutAndAudit
  <2>3. DOMAIN pending \subseteq DOMAIN pending'
    <3>1. i \notin DOMAIN pending
      BY <1>1, <2>1 DEF AuditPaths
    <3> QED BY <2>2, <3>1 DEF NoteAuditCheckpoint, Put
  <2>4. NextAuditTarget(p, p) \in p + 1 .. L
    <3>1. p <= p
      BY LadderFacts
    <3> QED BY <2>1, <3>1, AuditTarget
  <2>5. at'[i] # L + 1 /\ at[i] # L + 1
    <3> DEFINE t == NextAuditTarget(p, p)
    <3> HIDE DEF t
    <3>1. t # L + 1
      <4>1. t \in p + 1 .. L /\ p \in Nat
        BY <2>4, LadderFacts DEF t
      <4> QED BY <1>3, <4>1
    <3>2. at'[i] = t
      BY <1>2, <2>1 DEF t
    <3> QED BY <1>3, <2>1, <3>1, <3>2
  <2>6. \A x \in Ids : x # i => at'[x] = at[x] /\ origin'[x] = origin[x]
    BY <1>2, <2>1, <2>2
  <2> QED BY <1>4, <2>1, <2>3, <2>5, <2>6 DEF Judged
<1>7. ASSUME NEW i \in Ids, Checkpoint(i) PROVE Goal
  <2> DEFINE cut == origin[i].cut  p == at[i]  t == NextAuditTarget(cut, p)
  <2>1. /\ ev' = ev /\ cfg' = cfg /\ cursor' = i /\ p \in 1 .. L - 1
        /\ at' = [at EXCEPT ![i] = t] /\ origin' = origin
        /\ NoteAuditCheckpoint(i, origin[i], PairedSample(i, p))
    BY <1>7 DEF Checkpoint, Deliver
  <2>2. p \in Levels /\ p < L /\ p \in Nat /\ p \in 1 .. L
    BY <1>3, <2>1 DEF Levels
  <2>3. i \in DOMAIN pending /\ cut \in 1 .. L - 1 /\ cut < p
    BY <1>1, <2>2 DEF AuditPaths
  <2>4. DOMAIN pending' = DOMAIN pending
    BY <2>1, <2>3 DEF NoteAuditCheckpoint
  <2>5. cut \in Levels /\ cut <= p
    BY <1>3, <2>2, <2>3 DEF Levels
  <2>6. t \in p + 1 .. L
    BY <2>2, <2>5, AuditTarget
  <2>7. at'[i] = t
    BY <1>2, <2>1
  <2> HIDE DEF t
  <2>8. at'[i] # L + 1 /\ at[i] # L + 1
    BY <1>3, <2>2, <2>6, <2>7
  <2>9. \A x \in Ids : x # i => at'[x] = at[x]
    BY <1>2, <2>1
  <2> QED BY <1>4, <2>1, <2>4, <2>8, <2>9 DEF Judged
<1>8. ASSUME NEW i \in Ids, Lose(i) PROVE Goal
  <2>1. /\ ev' = ev /\ cfg' = cfg /\ cursor' = i /\ at[i] \in 1 .. L
        /\ at' = [at EXCEPT ![i] = L + 1] /\ origin' = origin
        /\ pending' = pending
    BY <1>8 DEF Lose, Deliver
  <2>2. i \in DOMAIN pending
    BY <1>1, <2>1 DEF AuditPaths
  <2>3. at'[i] = L + 1 /\ \A x \in Ids : x # i => at'[x] = at[x]
    BY <1>2, <2>1
  <2> QED BY <1>4, <2>1, <2>2, <2>3 DEF Judged
<1>9. ASSUME NEW i \in Ids, Resolve(i) PROVE Goal
  <2>1. /\ ev' = ev /\ cfg' = cfg /\ cursor' = i /\ at[i] = L
        /\ at' = [at EXCEPT ![i] = L + 1] /\ origin' = origin
        /\ pending' = [x \in DOMAIN pending \ {i} |-> pending[x]]
    BY <1>9 DEF Resolve, Deliver
  <2>2. at'[i] = L + 1 /\ \A x \in Ids : x # i => at'[x] = at[x]
    BY <1>2, <2>1
  <2>3. DOMAIN pending' = DOMAIN pending \ {i}
    BY <2>1
  <2> QED BY <1>4, <1>9, <2>1, <2>2, <2>3 DEF Judged
<1>10. ASSUME Update PROVE Goal
  BY <1>10 DEF Update, Judged
<1> HIDE DEF Goal
<1>11. Goal
  BY <1>5, <1>6, <1>7, <1>8, <1>9, <1>10 DEF Next
<1> QED BY <1>11 DEF Goal

\* How a calibrator is configured does not change.
LEMMA SharpFixed ==
  ASSUME cfg' = cfg
  PROVE  Sharp' <=> Sharp
BY DEF Sharp, KMinPairs, KWindow, KQuantileNum, KEtaNum

\* Audits that ended are counted.
LEMMA ResolvedCount ==
  /\ IsFiniteSet(Ids) /\ Cardinality(Ids) \in Nat
  /\ IsFiniteSet(Resolved) /\ Cardinality(Resolved) \in Nat
  /\ Cardinality(Resolved) <= Cardinality(Ids)
<1>1. IsFiniteSet(Ids)
  BY CalibratorAssumption
<1>2. Resolved \in SUBSET Ids
  BY DEF Resolved
<1>3. IsFiniteSet(Resolved) /\ Cardinality(Resolved) <= Cardinality(Ids)
  BY <1>1, <1>2, FS_Subset
<1> QED BY <1>1, <1>3, FS_CardinalityType

\* A judged audit leaves its samples in windows that have room for all.
LEMMA SharpResolve ==
  ASSUME AuditInv, Learning, WindowsFit, Sharp, NEW i \in Ids, Resolve(i)
  PROVE  LET b == samples.phi
             r == samples'.phi
             cut == origin[i].cut IN
         /\ cut \in 1 .. L - 1 /\ Ladder[cut] \in DOMAIN r
         /\ \A s \in Streams : \E n \in DOMAIN r[Ladder[cut]][s] :
              r[Ladder[cut]][s][n] \in AtCut(i, cut, s)
         /\ \A key \in DOMAIN b, s \in Streams :
              /\ key \in DOMAIN r
              /\ \A n \in DOMAIN b[key][s] :
                   n \in DOMAIN r[key][s] /\ r[key][s][n] = b[key][s][n]
         /\ \A key \in DOMAIN r, s \in Streams :
              Len(r[key][s]) <= Cardinality(Resolved) + 1
<1> DEFINE b == samples.phi  r == samples'.phi  cut == origin[i].cut
           N == Cardinality(Resolved)
<1>1. LoopTypes /\ cfg \in Configs /\ cfg.learnsK
  BY DEF AuditInv, LoopTypes, Sharp
<1>2. cut \in 1 .. L - 1 /\ samples' = Register(i, cut)
  BY <1>1, ResolveRegisters
<1> HIDE DEF cut
<1>3. PICK v : /\ v \in [DOMAIN v -> [Streams -> Nat]]
               /\ samples'.phi = PushBuckets(samples.phi, v)
               /\ Ladder[cut] \in DOMAIN v
               /\ \A s \in Streams : v[Ladder[cut]][s] \in AtCut(i, cut, s)
  BY <1>1, <1>2, RegisterPhi
<1>4. N \in Nat /\ N + 1 <= KWindow
  <2>1. at[i] = L /\ L \in Nat /\ L > 0
    BY LadderFacts DEF Resolve
  <2> DEFINE R == Resolved \cup {i}  I == Cardinality(Ids)
  <2>2. i \notin Resolved
    BY <2>1 DEF Resolved
  <2>3. R \in SUBSET Ids
    BY DEF Resolved
  <2>4. N \in Nat /\ I \in Nat
    BY ResolvedCount
  <2>5. Cardinality(R) = N + 1
    BY <2>2, ResolvedCount, FS_AddElement
  <2>6. Cardinality(R) <= I
    <3> HIDE DEF R
    <3> QED BY <2>3, ResolvedCount, FS_Subset
  <2>7. KWindow >= I * L /\ KWindow \in Nat
    BY <1>1, ConfigFacts DEF Sharp
  <2> HIDE DEF R, I, N
  <2>8. I * L >= I
    BY <2>1, <2>4
  <2>9. I * L \in Nat
    BY <2>1, <2>4
  <2> QED BY <2>4, <2>5, <2>6, <2>7, <2>8, <2>9
<1>5. b \in [DOMAIN b -> Windows]
  BY DEF Learning
<1>6. ASSUME NEW key \in DOMAIN b, NEW s \in Streams
      PROVE  Len(b[key][s]) \in Nat /\ Len(b[key][s]) <= N
  <2>1. b[key][s] \in Seq(Nat)
    BY <1>5 DEF Windows
  <2> QED BY <2>1 DEF WindowsFit
<1>7. r = PushBuckets(b, v)
  BY <1>3
<1>8. DOMAIN r = DOMAIN b \cup DOMAIN v
  BY <1>7 DEF PushBuckets
<1> HIDE DEF b, r, N
<1>9. ASSUME NEW key \in DOMAIN b \cup DOMAIN v, NEW s \in Streams
      PROVE  /\ key \in DOMAIN b =>
                  /\ Len(r[key][s]) <= Len(b[key][s]) + 1
                  /\ \A n \in DOMAIN b[key][s] :
                       n \in DOMAIN r[key][s] /\ r[key][s][n] = b[key][s][n]
             /\ key \notin DOMAIN b => Len(r[key][s]) <= 1
             /\ key \in DOMAIN v => \E n \in DOMAIN r[key][s] :
                                      r[key][s][n] = v[key][s]
  <2>1. key \in DOMAIN b => Len(b[key][s]) + 1 <= KWindow
    <3> SUFFICES ASSUME key \in DOMAIN b PROVE Len(b[key][s]) + 1 <= KWindow
      OBVIOUS
    <3>1. KWindow \in Nat
      BY <1>1, ConfigFacts
    <3> QED BY <1>4, <1>6, <3>1
  <2> DEFINE x == r[key][s]
  <2>2. x = PushBuckets(b, v)[key][s]
    BY <1>7
  <2> HIDE DEF x
  <2> DEFINE o == IF key \in DOMAIN b THEN b[key][s] ELSE << >>
             e == IF key \in DOMAIN v THEN <<v[key][s]>> ELSE << >>
  <2>3. x = PushAll(o, e)
    BY <2>2 DEF PushBuckets
  <2>4. o \in Seq(Nat) /\ e \in Seq(Nat)
    <3>1. o \in Seq(Nat)
      BY <1>5 DEF Windows
    <3>2. e \in Seq(Nat)
      BY <1>3
    <3> QED BY <3>1, <3>2
  <2>5. /\ key \in DOMAIN b => o = b[key][s]
        /\ key \notin DOMAIN b => Len(o) = 0
        /\ key \in DOMAIN v => Len(e) = 1 /\ e[1] = v[key][s]
        /\ key \notin DOMAIN v => Len(e) = 0
    OBVIOUS
  <2>6. KWindow \in Nat /\ KWindow >= 1
    BY <1>1, ConfigFacts
  <2> HIDE DEF o, e
  <2>7. Len(o) \in Nat /\ Len(e) \in Nat /\ DOMAIN o = 1 .. Len(o)
        /\ DOMAIN e = 1 .. Len(e) /\ Len(e) <= 1
    <3>1. Len(o) \in Nat /\ DOMAIN o = 1 .. Len(o)
      BY <2>4
    <3>2. Len(e) \in Nat /\ DOMAIN e = 1 .. Len(e)
      BY <2>4
    <3>3. Len(e) = 0 \/ Len(e) = 1
      BY <2>5
    <3>4. Len(e) <= 1
      <4> DEFINE n == Len(e)
      <4>1. n = 0 \/ n = 1
        BY <3>3
      <4> HIDE DEF n
      <4>2. n <= 1
        BY <4>1
      <4> QED BY <4>2 DEF n
    <3> QED BY <3>1, <3>2, <3>4, Zenon
  <2>8. Len(o) + Len(e) <= KWindow
    BY <2>1, <2>5, <2>6, <2>7
  <2>9. x = o \o e
    BY <1>1, <2>3, <2>4, <2>8, PushAllTyped
  <2>10. /\ Len(x) = Len(o) + Len(e) /\ DOMAIN x = 1 .. Len(o) + Len(e)
         /\ \A n \in 1 .. Len(o) : x[n] = o[n]
         /\ Len(e) = 1 => x[Len(o) + 1] = e[1]
    BY <2>4, <2>7, <2>9
  <2>11. ASSUME key \in DOMAIN b
         PROVE  /\ Len(x) <= Len(b[key][s]) + 1
                /\ \A n \in DOMAIN b[key][s] : n \in DOMAIN x /\ x[n] = b[key][s][n]
    <3>1. o = b[key][s]
      BY <2>5, <2>11
    <3>2. Len(x) <= Len(o) + 1
      BY <2>7, <2>10
    <3>3. \A n \in DOMAIN o : n \in DOMAIN x /\ x[n] = o[n]
      BY <2>7, <2>10
    <3> QED BY <3>1, <3>2, <3>3
  <2>12. key \notin DOMAIN b => Len(x) <= 1
    BY <2>5, <2>7, <2>10
  <2>13. ASSUME key \in DOMAIN v PROVE \E n \in DOMAIN x : x[n] = v[key][s]
    <3>1. Len(o) + 1 \in DOMAIN x /\ x[Len(o) + 1] = v[key][s]
      <4>1. Len(e) = 1 /\ e[1] = v[key][s]
        BY <2>5, <2>13
      <4>2. Len(o) + 1 \in 1 .. Len(o) + Len(e)
        BY <2>7, <4>1
      <4> QED BY <2>10, <4>1, <4>2
    <3> QED BY <3>1
  <2> QED BY <2>11, <2>12, <2>13 DEF x
<1>10. Ladder[cut] \in DOMAIN r
  BY <1>3, <1>8
<1>11. ASSUME NEW s \in Streams
       PROVE  \E n \in DOMAIN r[Ladder[cut]][s] :
                r[Ladder[cut]][s][n] \in AtCut(i, cut, s)
  <2>1. PICK n \in DOMAIN r[Ladder[cut]][s] :
          r[Ladder[cut]][s][n] = v[Ladder[cut]][s]
    BY <1>3, <1>9
  <2> QED BY <1>3, <2>1
<1>12. ASSUME NEW key \in DOMAIN r, NEW s \in Streams
       PROVE  Len(r[key][s]) <= N + 1
  <2> DEFINE x == r[key][s]
  <2>1. Len(x) \in Nat
    <3>1. r \in [DOMAIN r -> Windows]
      BY <1>1, <1>3, <1>5, <1>7, PushBucketsTyped
    <3>2. x \in Seq(Nat)
      BY <3>1 DEF Windows
    <3> HIDE DEF x
    <3> QED BY <3>2
  <2>2. CASE key \in DOMAIN b
    <3>1. Len(x) <= Len(b[key][s]) + 1
      BY <1>9, <2>2
    <3>2. Len(b[key][s]) \in Nat /\ Len(b[key][s]) <= N
      BY <1>6, <2>2
    <3> HIDE DEF x
    <3>3. Len(x) <= N + 1
      BY <1>4, <2>1, <3>1, <3>2
    <3> QED BY <3>3 DEF x
  <2>3. CASE key \notin DOMAIN b
    <3>1. Len(x) <= 1
      BY <1>8, <1>9, <2>3
    <3> HIDE DEF x
    <3>2. Len(x) <= N + 1
      BY <1>4, <2>1, <3>1
    <3> QED BY <3>2 DEF x
  <2> QED BY <2>2, <2>3
<1>13. ASSUME NEW key \in DOMAIN b, NEW s \in Streams
       PROVE  /\ key \in DOMAIN r
              /\ \A n \in DOMAIN b[key][s] :
                   n \in DOMAIN r[key][s] /\ r[key][s][n] = b[key][s][n]
  BY <1>8, <1>9
<1> QED BY <1>2, <1>10, <1>11, <1>12, <1>13 DEF b, r, cut, N

\* The count of ended audits follows the windows.
LEMMA WindowsFitStep ==
  AuditInv /\ Learning /\ WindowsFit /\ [Next]_vars => WindowsFit'
<1> SUFFICES ASSUME AuditInv, Learning, WindowsFit, [Next]_vars PROVE WindowsFit'
  OBVIOUS
<1>1. cfg' = cfg /\ \A x \in Ids : at[x] = L + 1 => at'[x] = L + 1
  BY EndedAudits
<1>2. SUFFICES ASSUME Sharp, NEW key \in DOMAIN samples'.phi, NEW s \in Streams
      PROVE  Len(samples'.phi[key][s]) <= Cardinality(Resolved')
  BY <1>1, SharpFixed DEF WindowsFit
<1> DEFINE N == Cardinality(Resolved)  M == Cardinality(Resolved')
<1>3. IsFiniteSet(Ids) /\ IsFiniteSet(Resolved) /\ N \in Nat
  BY ResolvedCount
<1>4. Resolved' \in SUBSET Ids /\ Resolved \in SUBSET Resolved'
  BY <1>1 DEF Resolved
<1>5. IsFiniteSet(Resolved') /\ M \in Nat /\ N <= M
  BY <1>3, <1>4, FS_Subset, FS_CardinalityType
<1>6. ASSUME samples' = samples PROVE Len(samples'.phi[key][s]) <= M
  <2> DEFINE x == samples.phi[key][s]
  <2>1. key \in DOMAIN samples.phi
    BY <1>6
  <2>2. Len(x) <= N
    BY <1>2, <2>1 DEF WindowsFit
  <2>3. x \in Seq(Nat)
    BY <2>1 DEF Learning, Windows
  <2> HIDE DEF x, N, M
  <2>4. Len(x) <= M
    BY <1>3, <1>5, <2>2, <2>3
  <2> QED BY <1>6, <2>4 DEF x
<1>7. ASSUME NEW i \in Ids, Resolve(i) PROVE Len(samples'.phi[key][s]) <= M
  <2>1. Len(samples'.phi[key][s]) <= N + 1
    BY <1>2, <1>7, SharpResolve
  <2>2. at[i] = L /\ L \in Nat
    BY <1>7, LadderFacts DEF Resolve
  <2>3. at'[i] = L + 1 /\ \A x \in Ids : x # i => at'[x] = at[x]
    BY <1>7 DEF Resolve, AuditInv, LoopTypes
  <2>4. Resolved' = Resolved \cup {i} /\ i \notin Resolved
    BY <2>2, <2>3 DEF Resolved
  <2>5. M = N + 1
    BY <1>3, <2>4, FS_AddElement
  <2> QED BY <2>1, <2>5
<1> HIDE DEF M
<1>8. ASSUME Update PROVE samples' = samples
  BY <1>8 DEF Update
<1>9. Len(samples'.phi[key][s]) <= M
  BY <1>6, <1>7, <1>8, StepKinds DEF Quiet
<1> QED BY <1>9 DEF M

\* What a judged audit has left stays in its bucket.
LEMMA CutExplainedStep ==
  AuditInv /\ Learning /\ WindowsFit /\ CutExplained /\ [Next]_vars
    => CutExplained'
<1> SUFFICES ASSUME AuditInv, Learning, WindowsFit, CutExplained, [Next]_vars
             PROVE  CutExplained'
  OBVIOUS
<1>1. /\ ev' = ev /\ cfg' = cfg
      /\ \A x \in Ids : Judged(x)' =>
           Resolve(x) \/ (Judged(x) /\ origin'[x] = origin[x])
  BY EndedAudits
<1>2. (Linear' <=> Linear) /\ (Sharp' <=> Sharp)
  BY <1>1, BiasFixed, SharpFixed
<1>3. SUFFICES ASSUME Linear, Sharp, NEW x \in Ids, NEW s \in Streams, Judged(x)'
      PROVE  LET key == Ladder[origin'[x].cut] IN
             /\ key \in DOMAIN samples'.phi
             /\ \E n \in DOMAIN samples'.phi[key][s] :
                  samples'.phi[key][s][n] * key.tau
                    >= ev[x][origin'[x].cut][s] - ev[x][L][s]
  BY <1>1, <1>2 DEF CutExplained
<1> DEFINE key == Ladder[origin'[x].cut]
           D == ev[x][origin'[x].cut][s] - ev[x][L][s]
<1>4. ev \in Evaluators
  BY DEF AuditInv, LoopTypes
<1>5. ASSUME Resolve(x)
      PROVE  /\ key \in DOMAIN samples'.phi
             /\ \E n \in DOMAIN samples'.phi[key][s] :
                  samples'.phi[key][s][n] * key.tau >= D
  <2>1. origin' = origin
    BY <1>5 DEF Resolve
  <2> DEFINE cut == origin[x].cut  r == samples'.phi
  <2>2. /\ cut \in 1 .. L - 1 /\ Ladder[cut] \in DOMAIN r
        /\ \E n \in DOMAIN r[Ladder[cut]][s] :
             r[Ladder[cut]][s][n] \in AtCut(x, cut, s)
    BY <1>3, <1>5, SharpResolve
  <2> HIDE DEF r, cut
  <2>3. PICK n \in DOMAIN r[Ladder[cut]][s] :
          r[Ladder[cut]][s][n] \in AtCut(x, cut, s)
    BY <2>2
  <2>4. r[Ladder[cut]][s][n] * Ladder[cut].tau >= ev[x][cut][s] - ev[x][L][s]
    BY <1>3, <1>4, <2>2, <2>3, LinearSamples
  <2> QED BY <2>1, <2>2, <2>4 DEF cut, r
<1>6. ASSUME Judged(x), origin'[x] = origin[x]
      PROVE  /\ key \in DOMAIN samples'.phi
             /\ \E n \in DOMAIN samples'.phi[key][s] :
                  samples'.phi[key][s][n] * key.tau >= D
  <2> DEFINE b == samples.phi  r == samples'.phi
  <2>1. key \in DOMAIN b /\ \E n \in DOMAIN b[key][s] : b[key][s][n] * key.tau >= D
    BY <1>3, <1>6 DEF CutExplained
  <2>2. ASSUME samples' = samples
        PROVE  key \in DOMAIN r /\ \E n \in DOMAIN r[key][s] : r[key][s][n] * key.tau >= D
    BY <2>1, <2>2
  <2>3. ASSUME NEW i \in Ids, Resolve(i)
        PROVE  key \in DOMAIN r /\ \E n \in DOMAIN r[key][s] : r[key][s][n] * key.tau >= D
    <3>1. \A ky \in DOMAIN b, t \in Streams :
            /\ ky \in DOMAIN r
            /\ \A n \in DOMAIN b[ky][t] :
                 n \in DOMAIN r[ky][t] /\ r[ky][t][n] = b[ky][t][n]
      BY <1>3, <2>3, SharpResolve
    <3> HIDE DEF b, r, key, D
    <3> QED BY <2>1, <3>1
  <2>4. ASSUME Update PROVE samples' = samples
    BY <2>4 DEF Update
  <2> QED BY <2>2, <2>3, <2>4, StepKinds DEF Quiet
<1> HIDE DEF D
<1>7. /\ key \in DOMAIN samples'.phi
      /\ \E n \in DOMAIN samples'.phi[key][s] :
           samples'.phi[key][s][n] * key.tau >= D
  BY <1>1, <1>3, <1>5, <1>6
<1> QED BY <1>7 DEF D

\* After an update the largest sample of every bucket is in force.
LEMMA LargestInForceStep ==
  AuditInv /\ Learning /\ LargestInForce /\ [Next]_vars => LargestInForce'
<1> SUFFICES ASSUME AuditInv, Learning, LargestInForce, [Next]_vars
             PROVE  LargestInForce'
  OBVIOUS
<1>1. cfg' = cfg /\ (cursor' = 0 => (Quiet /\ cursor = 0) \/ Update)
  BY EndedAudits
<1>2. SUFFICES ASSUME Sharp, cursor' = 0
      PROVE  \A key \in DOMAIN samples'.phi, s \in Streams :
               /\ key \in DOMAIN k'.phi
               /\ \A n \in DOMAIN samples'.phi[key][s] :
                    k'.phi[key][s] >= samples'.phi[key][s][n]
  BY <1>1, SharpFixed DEF LargestInForce
<1>3. CASE Quiet /\ cursor = 0
  BY <1>2, <1>3 DEF Quiet, LargestInForce
<1>4. CASE Update
  <2> DEFINE old == k.phi  ws == samples.phi  new == NextBuckets(old, ws)
  <2>1. samples'.phi = ws /\ k'.phi = new
    BY <1>4 DEF Update
  <2>2. old \in [DOMAIN old -> [Streams -> Nat]] /\ ws \in [DOMAIN ws -> Windows]
        /\ cfg \in Configs
    BY DEF Learning, AuditInv, LoopTypes
  <2> HIDE DEF old, ws
  <2>3. /\ DOMAIN new = DOMAIN ws
        /\ new \in [DOMAIN new -> [Streams -> Nat]]
        /\ \A key \in DOMAIN ws, s \in Streams :
             \A n \in DOMAIN ws[key][s] : ws[key][s][n] <= new[key][s]
    BY <1>2, <2>2, NextBucketsTyped
  <2> HIDE DEF new
  <2>4. ASSUME NEW key \in DOMAIN ws, NEW s \in Streams,
               NEW n \in DOMAIN ws[key][s]
        PROVE  new[key][s] >= ws[key][s][n]
    <3>1. new[key][s] \in Nat
      BY <2>3
    <3>2. ws[key][s] \in Seq(Nat)
      BY <2>2 DEF Windows
    <3>3. ws[key][s][n] \in Nat
      BY <3>2
    <3>4. ws[key][s][n] <= new[key][s]
      BY <2>3
    <3> QED BY <3>1, <3>3, <3>4
  <2> QED BY <2>1, <2>3, <2>4
<1> QED BY <1>1, <1>2, <1>3, <1>4

\* The invariant about sharp calibrators.
SharpInv == WindowsFit /\ CutExplained /\ LargestInForce

\* Nothing has been judged at first.
LEMMA SharpInit == Init => SharpInv
<1> SUFFICES ASSUME Init PROVE SharpInv
  OBVIOUS
<1>1. DOMAIN samples.phi = {}
  BY DEF Init, NoKeys
<1>2. \A i \in Ids : at[i] # L + 1
  BY LadderFacts DEF Init
<1> QED BY <1>1, <1>2 DEF SharpInv, WindowsFit, CutExplained, LargestInForce, Judged

\* Once an audit has shown a cut to be false, a calibrator that follows its
\* latest audits no longer makes early_infeasible cut that candidate at that
\* level, if the estimates are off by a multiple of the tolerance.
THEOREM RefutedCutsNotRepeated == Spec => []RefutedCutNotRepeated
<1>1. AuditInv /\ Learning /\ SharpInv /\ [Next]_vars => SharpInv'
  BY WindowsFitStep, CutExplainedStep, LargestInForceStep DEF SharpInv
<1>2. ASSUME AuditInv, Learning, SharpInv PROVE RefutedCutNotRepeated
  <2> SUFFICES ASSUME Linear, Sharp, cursor = 0, NEW i \in Ids, origin[i] # None,
                      i \notin DOMAIN pending, Feasible(i)
               PROVE  ~Cuts(i, origin[i].cut, origin[i].j)
    BY DEF RefutedCutNotRepeated
  <2> DEFINE cut == origin[i].cut  j == origin[i].j  key == Ladder[cut]
  <2>1. L \in Nat /\ L > 0 /\ at[i] \in 0 .. L + 1
    BY <1>2, LadderFacts DEF AuditInv, LoopTypes
  <2>2. at[i] # 0 /\ ~(at[i] \in 1 .. L)
    BY <1>2 DEF AuditInv, AuditPaths
  <2>3. at[i] = L + 1
    BY <2>1, <2>2
  <2>4. Judged(i)
    BY <2>3 DEF Judged
  <2>5. j \in Constraints /\ cut \in 1 .. L - 1
    <3>1. at[i] > 0
      BY <2>1, <2>3
    <3> QED BY <1>2, <3>1 DEF AuditInv, AuditPaths
  <2>6. j \in Streams /\ cut \in Levels /\ L \in Levels
    BY <2>1, <2>5 DEF Streams, Levels
  <2>7. ev \in Evaluators /\ cfg \in Configs
        /\ delta[j] \in cfg.deltaMin .. cfg.deltaMax
    BY <1>2, <2>5 DEF AuditInv, LoopTypes
  <2> DEFINE w == samples.phi[key][j]  K == k.phi[key][j]
             x == ev[i][cut][j]  y == ev[i][L][j]  t == key.tau
  <2>8. /\ key \in DOMAIN samples.phi
        /\ \E n \in DOMAIN w : w[n] * t >= x - y
    BY <1>2, <2>4, <2>6 DEF SharpInv, CutExplained
  <2>9. key \in DOMAIN k.phi /\ \A n \in DOMAIN w : K >= w[n]
    BY <1>2, <2>6, <2>8 DEF SharpInv, LargestInForce
  <2>10. K \in Nat /\ w \in Seq(Nat)
    <3>1. k.phi \in [DOMAIN k.phi -> [Streams -> Nat]]
          /\ samples.phi \in [DOMAIN samples.phi -> Windows]
      BY <1>2 DEF Learning
    <3>2. j \in Streams /\ key \in DOMAIN k.phi /\ key \in DOMAIN samples.phi
      BY <2>6, <2>8, <2>9
    <3> HIDE DEF j, key
    <3>3. k.phi[key][j] \in Nat
      BY <3>1, <3>2
    <3>4. samples.phi[key][j] \in Seq(Nat)
      BY <3>1, <3>2 DEF Windows
    <3> QED BY <3>3, <3>4
  <2>11. x \in Int /\ y \in Int /\ t \in Nat
    BY <2>6, <2>7, EvaluatorFacts, LadderFacts
  <2>12. y <= 0
    BY <2>5 DEF Feasible
  <2>13. delta[j] \in Int /\ delta[j] >= 0
    <3>1. cfg.deltaMin \in Nat /\ cfg.deltaMax \in Nat
      BY <2>7, ConfigFacts
    <3> DEFINE d == delta[j]
    <3>2. d \in cfg.deltaMin .. cfg.deltaMax
      BY <2>7
    <3> HIDE DEF d
    <3>3. d \in Int /\ d >= 0
      BY <3>1, <3>2
    <3> QED BY <3>3 DEF d
  <2>14. Cuts(i, cut, j) <=> x - K * t > delta[j]
    BY <2>9 DEF Cuts, KFor
  <2> DEFINE dj == delta[j]
  <2> HIDE DEF w, K, x, y, t, dj
  <2>15. PICK n \in DOMAIN w : w[n] * t >= x - y
    BY <2>8
  <2>16. w[n] \in Nat /\ K >= w[n]
    BY <2>9, <2>10
  <2> DEFINE m == w[n]
  <2> HIDE DEF m
  <2>17. m \in Nat /\ K >= m /\ m * t >= x - y
    BY <2>15, <2>16 DEF m
  <2>18. K * t >= m * t
    BY <2>10, <2>11, <2>17, ProductGrows
  <2>19. K * t \in Int /\ m * t \in Int
    BY <2>10, <2>11, <2>17
  <2>20. ~(x - K * t > dj)
    <3>1. dj \in Int /\ dj >= 0
      BY <2>13 DEF dj
    <3> QED BY <2>11, <2>12, <2>17, <2>18, <2>19, <3>1
  <2> QED BY <2>14, <2>20 DEF dj
<1> QED BY <1>1, <1>2, LearningInvariant, SharpInit, PTL DEF Spec

=============================================================================
