----------------------------- MODULE DidsProofs -----------------------------
(***************************************************************************)
(* Proofs about Dids, for every ladder, every number of constraints, every *)
(* target rate and audit minimum, any course of the audits and of          *)
(* delta_rel, and whatever levels the base rule gives.                     *)
(***************************************************************************)
EXTENDS Dids, FiniteSetTheorems, WellFoundedInduction, TLAPS

-----------------------------------------------------------------------------
(* Extremes.                                                               *)

\* The smaller of two numbers.
LEMMA MinOfTwo ==
  ASSUME NEW a \in Int, NEW b \in Int
  PROVE  Min({a, b}) = IF a <= b THEN a ELSE b
BY DEF Min

\* The larger one.
LEMMA MaxOfTwo ==
  ASSUME NEW a \in Int, NEW b \in Int
  PROVE  Max({a, b}) = IF a >= b THEN a ELSE b
BY DEF Max

\* Every set of naturals that is not empty has a least element.
LEMMA LeastNatural ==
  ASSUME NEW S, S \subseteq Nat, S # {}
  PROVE  \E n \in S : \A m \in S : n <= m
<1> DEFINE R == OpToRel(<, Nat)
<1>1. IsWellFoundedOn(R, Nat)
  BY NatLessThanWellFounded
<1>2. \A m, n \in S : <<m, n>> \in R <=> m < n
  BY DEF OpToRel
<1> HIDE DEF R
<1>3. PICK n \in S : \A m \in S : ~(<<m, n>> \in R)
  BY <1>1, WFMin
<1>4. \A m \in S : m \in Nat /\ n \in Nat /\ ~(m < n)
  BY <1>2, <1>3
<1> QED BY <1>4

\* It is what Min gives.
LEMMA MinOfNaturals ==
  ASSUME NEW S, S \subseteq Nat, S # {}
  PROVE  Min(S) \in S /\ \A y \in S : Min(S) <= y
BY LeastNatural DEF Min

\* A bounded one has a greatest, which is what Max gives.
LEMMA MaxOfBounded ==
  ASSUME NEW n \in Nat, NEW S, S \subseteq 1 .. n, S # {}
  PROVE  Max(S) \in S /\ \A y \in S : Max(S) >= y
<1> DEFINE U == {n - x : x \in S}
<1>1. U \subseteq Nat /\ U # {}
  <2>1. \A x \in S : x \in Int /\ n - x \in Nat
    OBVIOUS
  <2>2. PICK x \in S : TRUE
    OBVIOUS
  <2>3. n - x \in U
    OBVIOUS
  <2> QED BY <2>1, <2>3
<1>2. PICK u \in U : \A v \in U : u <= v
  BY <1>1, LeastNatural
<1>3. PICK x \in S : u = n - x
  BY <1>2
<1>4. ASSUME NEW y \in S PROVE x >= y
  <2>1. n - y \in U
    OBVIOUS
  <2>2. u <= n - y
    BY <1>2, <2>1
  <2>3. x \in Int /\ y \in Int
    OBVIOUS
  <2> HIDE DEF U
  <2> QED BY <2>2, <2>3, <1>3
<1> QED BY <1>4 DEF Max

-----------------------------------------------------------------------------
(* Strong evidence and alarms exclude each other, by the arithmetic of the *)
(* Wilson bounds.                                                          *)

\* What lies below 0.6 of the target with confidence does not reach beyond
\* 1.15 or 1.5 of it: u is n times the distance to 0.6 of the target, X is n
\* times the target.
LEMMA FarBelow ==
  ASSUME NEW u \in Nat, NEW X \in Nat, NEW A \in Nat,
         u > 0, u <= 3 * X, 625 * (u * u) > 7203 * (A * X)
  PROVE  /\ 625 * ((4 * u + 11 * X) * (4 * u + 11 * X)) >= 220892 * (A * X)
         /\ 625 * ((2 * u + 9 * X) * (2 * u + 9 * X)) >= 72030 * (A * X)
<1> DEFINE UU == u * u  UX == u * X  XX == X * X  AX == A * X
<1>1. UU \in Nat /\ UX \in Nat /\ XX \in Nat /\ AX \in Nat
  OBVIOUS
<1>2. UU <= 3 * UX
  <2>1. u * u <= u * (3 * X)
    OBVIOUS
  <2> QED BY <2>1
<1>3. 1875 * UX > 7203 * AX
  BY <1>1, <1>2
<1>4. (4 * u + 11 * X) * (4 * u + 11 * X) = 16 * UU + 88 * UX + 121 * XX
  OBVIOUS
<1>5. (2 * u + 9 * X) * (2 * u + 9 * X) = 4 * UU + 36 * UX + 81 * XX
  OBVIOUS
<1>6. 625 * UU > 7203 * AX
  OBVIOUS
<1> HIDE DEF UU, UX, XX, AX
<1>7. 625 * (16 * UU + 88 * UX + 121 * XX) >= 220892 * AX
  BY <1>1, <1>3, <1>6
<1>8. 625 * (4 * UU + 36 * UX + 81 * XX) >= 72030 * AX
  BY <1>1, <1>3, <1>6
<1> QED BY <1>4, <1>5, <1>7, <1>8 DEF AX

\* The counters of a level, as the three thresholds read them.
LEMMA LowRate ==
  ASSUME NEW w \in Nat, NEW n \in Nat, NEW T \in Nat, NEW D \in Nat,
         n > 0, T > 0, T <= D, UpperBelow(w, n, 3 * T, 5 * D)
  PROVE  /\ ~UpperAbove(w, n, 23 * T, 20 * D)
         /\ ~UpperAbove(w, n, 3 * T, 2 * D)
<1> DEFINE X == T * n  W == D * w  A == 5 * D - 3 * T  u == 3 * X - 5 * W
<1>1. X \in Nat /\ W \in Nat /\ A \in Nat /\ u \in Int
  OBVIOUS
<1>2. w * (5 * D) = 5 * W /\ (3 * T) * n = 3 * X
  OBVIOUS
<1>3. ~(3 * T > 5 * D)
  OBVIOUS
<1>4. u > 0
  BY <1>1, <1>2, <1>3 DEF UpperBelow
<1>5. 625 * (u * u) > 7203 * (A * X)
  <2>1. Distance(w, n, 3 * T, 5 * D) > Reach(n, 3 * T, 5 * D)
    BY <1>3 DEF UpperBelow
  <2>2. Distance(w, n, 3 * T, 5 * D) = 625 * (u * u)
    <3>1. w * (5 * D) - (3 * T) * n = -u
      BY <1>1, <1>2
    <3>2. (-u) * (-u) = u * u
      BY <1>1
    <3> HIDE DEF u
    <3>3. 625 * (-u) * (-u) = 625 * ((-u) * (-u))
      BY <1>1
    <3> QED BY <3>1, <3>2, <3>3 DEF Distance
  <2>3. Reach(n, 3 * T, 5 * D) = 7203 * (A * X)
    BY DEF Reach
  <2> QED BY <2>1, <2>2, <2>3
<1>6. u \in Nat /\ u <= 3 * X
  BY <1>1, <1>4
<1> HIDE DEF u
<1>7. /\ 625 * ((4 * u + 11 * X) * (4 * u + 11 * X)) >= 220892 * (A * X)
      /\ 625 * ((2 * u + 9 * X) * (2 * u + 9 * X)) >= 72030 * (A * X)
  BY <1>1, <1>4, <1>5, <1>6, FarBelow
<1>8. ~UpperAbove(w, n, 23 * T, 20 * D)
  <2> DEFINE y == 4 * u + 11 * X
  <2>1. w * (20 * D) - (23 * T) * n = -y
    <3>1. w * (20 * D) = 20 * W /\ (23 * T) * n = 23 * X
      OBVIOUS
    <3> HIDE DEF X, W
    <3> QED BY <3>1, <1>1 DEF u
  <2>2. y \in Nat
    BY <1>1, <1>6
  <2>3. ~(w * (20 * D) > (23 * T) * n)
    <3>1. w * (20 * D) \in Int /\ (23 * T) * n \in Int
      OBVIOUS
    <3> HIDE DEF y
    <3> QED BY <2>1, <2>2, <3>1
  <2>4. Distance(w, n, 23 * T, 20 * D) = 625 * (y * y)
    <3> HIDE DEF y
    <3>1. 625 * (-y) * (-y) = 625 * (y * y)
      BY <2>2
    <3> QED BY <2>1, <3>1 DEF Distance
  <2>5. Reach(n, 23 * T, 20 * D) <= 220892 * (A * X)
    <3>1. Reach(n, 23 * T, 20 * D) = 55223 * (4 * (A * X) - 11 * (T * X))
      BY DEF Reach
    <3>2. A * X \in Nat /\ T * X \in Nat
      BY <1>1
    <3> HIDE DEF A, X
    <3> QED BY <3>1, <3>2
  <2>6. Distance(w, n, 23 * T, 20 * D) \in Int
        /\ Reach(n, 23 * T, 20 * D) \in Int /\ A * X \in Int
    BY <1>1 DEF Distance, Reach
  <2> HIDE DEF X, A
  <2>7. ~(Distance(w, n, 23 * T, 20 * D) < Reach(n, 23 * T, 20 * D))
    BY <1>7, <2>4, <2>5, <2>6
  <2> QED BY <2>3, <2>7 DEF UpperAbove
<1>9. ~UpperAbove(w, n, 3 * T, 2 * D)
  <2> DEFINE y == 3 * X - 2 * W
  <2>1. w * (2 * D) - (3 * T) * n = -y
    OBVIOUS
  <2>2. 5 * y = 2 * u + 9 * X /\ y \in Int
    <3> HIDE DEF X, W
    <3> QED BY <1>1 DEF u
  <2>3. ~(w * (2 * D) > (3 * T) * n)
    <3>1. w * (2 * D) \in Int /\ (3 * T) * n \in Int
      OBVIOUS
    <3>2. y >= 0
      <4> HIDE DEF y, X
      <4> QED BY <2>2, <1>1, <1>6
    <3> HIDE DEF y
    <3> QED BY <2>1, <2>2, <3>1, <3>2
  <2>4. Distance(w, n, 3 * T, 2 * D) = 625 * (y * y)
    <3> HIDE DEF y
    <3>1. 625 * (-y) * (-y) = 625 * (y * y)
      BY <2>2
    <3> QED BY <2>1, <3>1 DEF Distance
  <2>5. 25 * (y * y) = (2 * u + 9 * X) * (2 * u + 9 * X)
    <3> HIDE DEF y, X
    <3>1. 25 * (y * y) = (5 * y) * (5 * y)
      BY <2>2
    <3> QED BY <2>2, <3>1
  <2>6. 25 * Reach(n, 3 * T, 2 * D) <= 72030 * (A * X)
    <3>1. 25 * Reach(n, 3 * T, 2 * D) = 7203 * (10 * (A * X) - 45 * (T * X))
      BY DEF Reach
    <3>2. A * X \in Nat /\ T * X \in Nat
      BY <1>1
    <3> HIDE DEF A, X
    <3> QED BY <3>1, <3>2
  <2>7. Distance(w, n, 3 * T, 2 * D) \in Int
        /\ Reach(n, 3 * T, 2 * D) \in Int /\ A * X \in Int /\ y * y \in Int
    BY <1>1 DEF Distance, Reach
  <2> DEFINE Z == (2 * u + 9 * X) * (2 * u + 9 * X)
  <2>8. Z \in Int
    BY <1>1, <1>6
  <2>9. 625 * Z >= 72030 * (A * X)
    BY <1>7
  <2> HIDE DEF X, A, y, Z
  <2>10. 25 * (625 * (y * y)) >= 72030 * (A * X)
    BY <2>5, <2>7, <2>8, <2>9 DEF Z
  <2>11. ~(Distance(w, n, 3 * T, 2 * D) < Reach(n, 3 * T, 2 * D))
    BY <2>4, <2>6, <2>7, <2>10
  <2> QED BY <2>3, <2>11 DEF UpperAbove
<1> QED BY <1>8, <1>9

\* A precision above 0.7 with confidence is above 0.55, from eight audits.
LEMMA HighPrecision ==
  ASSUME NEW r \in Nat, NEW n \in Nat, n >= 8, LowerAbove(r, n, 7, 10)
  PROVE  ~LowerBelow(r, n, 11, 20)
<1> DEFINE v == r * 10 - 7 * n
<1>1. v \in Nat /\ v > 0 /\ 625 * (v * v) > 50421 * n
  BY DEF LowerAbove, Distance, Reach
<1>2. r * 20 - 11 * n = 2 * v + 3 * n
  OBVIOUS
<1>3. ~(r * 20 < 11 * n)
  <2> HIDE DEF v
  <2> QED BY <1>1, <1>2
<1> HIDE DEF v
<1>4. v * v \in Nat /\ v * n \in Nat /\ n * n \in Nat /\ n * n >= 8 * n
  BY <1>1
<1>5. (2 * v + 3 * n) * (2 * v + 3 * n) = 4 * (v * v) + 12 * (v * n) + 9 * (n * n)
  BY <1>1
<1>6. 625 * (4 * (v * v) + 12 * (v * n) + 9 * (n * n)) >= 237699 * n
  BY <1>1, <1>4
<1>7. Distance(r, n, 11, 20) = 625 * ((2 * v + 3 * n) * (2 * v + 3 * n))
  <2>1. 625 * (2 * v + 3 * n) * (2 * v + 3 * n)
          = 625 * ((2 * v + 3 * n) * (2 * v + 3 * n))
    BY <1>1
  <2> QED BY <1>2, <2>1 DEF Distance
<1>8. Reach(n, 11, 20) = 237699 * n
  BY DEF Reach
<1>9. ~(Distance(r, n, 11, 20) < Reach(n, 11, 20))
  <2> DEFINE z == (2 * v + 3 * n) * (2 * v + 3 * n)
  <2>1. z \in Int /\ 625 * z >= 237699 * n
    BY <1>1, <1>4, <1>5, <1>6
  <2> HIDE DEF z
  <2>2. Distance(r, n, 11, 20) = 625 * z
    BY <1>7 DEF z
  <2> QED BY <2>1, <2>2, <1>8
<1> QED BY <1>3, <1>9 DEF LowerBelow

\* The target and the audit minima as compute_assignment clamps them.
LEMMA RatesTyped ==
  /\ TNum \in Nat /\ TNum > 0 /\ TNum <= TargetDen
  /\ TargetDen \in Nat
  /\ MinN \in Nat /\ MinN > 0
  /\ RelaxMinN \in Nat /\ RelaxMinN >= 8
<1>1. TargetNum \in Nat /\ TargetNum > 0 /\ TargetDen \in Nat /\ TargetDen > 0
      /\ MinAudits \in Nat
  BY DidsAssumption
<1>2. TNum \in Nat /\ TNum > 0 /\ TNum <= TargetDen
  BY <1>1, MinOfTwo DEF TNum
<1>3. MinN \in Nat /\ MinN > 0
  BY <1>1, MaxOfTwo DEF MinN
<1>4. 2 * MinN \in Int
  BY <1>3
<1>5. RelaxMinN \in Nat /\ RelaxMinN >= 8
  BY <1>3, <1>4, MaxOfTwo DEF RelaxMinN
<1> QED BY <1>1, <1>2, <1>3, <1>5

Counters == [n : Nat, wrong : Nat, right : Nat]

\* Step 2b never relaxes to a level that step 2 has raised over: evidence
\* strong enough for the one rules the alarm of the other out.
LEMMA StrongIsNoAlarm ==
  ASSUME NEW j \in Constraints, NEW e \in Counters, StrongEvidence(j, e)
  PROVE  ~Alarm(e)
<1>1. e.n \in Nat /\ e.wrong \in Nat /\ e.right \in Nat
  BY DEF Counters
<1>2. e.n >= 8
  <2>1. e.n >= RelaxMinN
    BY DEF StrongEvidence
  <2> QED BY <2>1, <1>1, RatesTyped
<1>3. e.n > 0
  BY <1>1, <1>2
<1>4. UpperBelow(e.wrong, e.n, 3 * TNum, 5 * TargetDen)
      /\ LowerAbove(e.right, e.n, 7, 10)
  BY DEF StrongEvidence
<1>5. /\ ~UpperAbove(e.wrong, e.n, 23 * TNum, 20 * TargetDen)
      /\ ~UpperAbove(e.wrong, e.n, 3 * TNum, 2 * TargetDen)
  BY <1>1, <1>3, <1>4, RatesTyped, LowRate
<1>6. ~LowerBelow(e.right, e.n, 11, 20)
  BY <1>1, <1>2, <1>4, HighPrecision
<1> QED BY <1>5, <1>6 DEF Alarm

-----------------------------------------------------------------------------
(* compute_assignment.                                                     *)

\* Step 2 stays within the ladder and above every alarmed level.
LEMMA RaisedTyped ==
  ASSUME NEW j \in Constraints, NEW a \in Levels
  PROVE  /\ Raised(j, a) \in Levels
         /\ \A p \in Alarms(j) : p < L => Raised(j, a) > p
<1>1. L \in Nat /\ L > 0
  BY DidsAssumption
<1> DEFINE S == {a} \cup {Min({p + 1, L}) : p \in Alarms(j)}
<1>2. \A p \in Alarms(j) : p \in 1 .. L
  BY DEF Alarms, Levels
<1>3. \A p \in Alarms(j) : Min({p + 1, L}) = IF p + 1 <= L THEN p + 1 ELSE L
  <2> SUFFICES ASSUME NEW p \in Alarms(j)
               PROVE  Min({p + 1, L}) = IF p + 1 <= L THEN p + 1 ELSE L
    OBVIOUS
  <2>1. p + 1 \in Int /\ L \in Int
    BY <1>1, <1>2
  <2> QED BY <2>1, MinOfTwo
<1>4. \A p \in Alarms(j) : Min({p + 1, L}) \in 1 .. L
  BY <1>1, <1>2, <1>3
<1>5. S \subseteq 1 .. L /\ S # {}
  BY <1>4 DEF Levels
<1>6. Raised(j, a) = Max(S)
  BY DEF Raised
<1>7. \A p \in Alarms(j) : Min({p + 1, L}) \in S
  OBVIOUS
<1> HIDE DEF S
<1>8. Max(S) \in S /\ \A y \in S : Max(S) >= y
  BY <1>1, <1>5, MaxOfBounded
<1>9. Max(S) \in 1 .. L
  BY <1>5, <1>8
<1>10. ASSUME NEW p \in Alarms(j), p < L PROVE Raised(j, a) > p
  <2>1. Min({p + 1, L}) = p + 1
    BY <1>1, <1>2, <1>3, <1>10
  <2>2. Max(S) >= p + 1
    BY <1>7, <1>8, <2>1
  <2> QED BY <1>2, <1>6, <1>9, <2>2
<1> QED BY <1>6, <1>9, <1>10 DEF Levels

\* Step 2b gives up at most one level, which no alarm forbids.
LEMMA RelaxedTyped ==
  ASSUME ev \in [Constraints -> [Levels -> Counters]],
         NEW j \in Constraints, NEW a \in Levels,
         \A p \in Alarms(j) : p < L => a > p
  PROVE  /\ Relaxed(j, a) \in Levels
         /\ \A p \in Alarms(j) : p < L => Relaxed(j, a) > p
<1>1. L \in Nat /\ a \in 1 .. L
  BY DidsAssumption DEF Levels
<1>2. CASE ~(a > 1 /\ StrongEvidence(j, ev[j][a - 1]))
  BY <1>2 DEF Relaxed
<1>3. CASE a > 1 /\ StrongEvidence(j, ev[j][a - 1])
  <2>1. Relaxed(j, a) = a - 1 /\ a - 1 \in Levels
    BY <1>1, <1>3 DEF Relaxed, Levels
  <2>2. ev[j][a - 1] \in Counters
    BY <2>1
  <2>3. a - 1 \notin Alarms(j)
    BY <1>3, <2>2, StrongIsNoAlarm DEF Alarms
  <2>4. ASSUME NEW p \in Alarms(j), p < L PROVE a - 1 > p
    <3>1. p \in 1 .. L /\ a > p /\ p # a - 1
      BY <2>3, <2>4 DEF Alarms, Levels
    <3> QED BY <3>1, <1>1
  <2> QED BY <2>1, <2>4
<1> QED BY <1>2, <1>3

\* Step 3 counts doublings.
LEMMA BumpsTyped ==
  ASSUME delta \in [Constraints -> Nat], NEW j \in Constraints, NEW b
  PROVE  Bumps(j, b) \in Nat
<1> DEFINE S == {i \in 0 .. delta[j] : b * 2 ^ i < delta[j]}
<1>1. IsFiniteSet(0 .. delta[j])
  BY FS_Interval
<1>2. IsFiniteSet(S)
  <2>1. S \subseteq 0 .. delta[j]
    OBVIOUS
  <2> HIDE DEF S
  <2> QED BY <1>1, <2>1, FS_Subset
<1>3. Cardinality(S) \in Nat
  <2> HIDE DEF S
  <2> QED BY <1>2, FS_CardinalityType
<1> QED BY <1>3 DEF Bumps

\* It only raises, and stays within the ladder.
LEMMA BumpedTyped ==
  ASSUME NEW a \in Levels, NEW n \in Nat
  PROVE  Bumped(a, n) \in Levels /\ Bumped(a, n) >= a
<1>1. L \in Nat /\ a \in 1 .. L
  BY DidsAssumption DEF Levels
<1>2. Bumped(a, n) = IF a + n <= L THEN a + n ELSE L
  BY <1>1, MinOfTwo DEF Bumped
<1> QED BY <1>1, <1>2 DEF Levels

\* The three steps together.
LEMMA AssignmentTyped ==
  ASSUME ev \in [Constraints -> [Levels -> Counters]],
         delta \in [Constraints -> Nat],
         NEW j \in Constraints, NEW a \in Levels, NEW b
  PROVE  /\ Assignment(j, a, b) \in Levels
         /\ \A p \in Alarms(j) : p < L => Assignment(j, a, b) > p
<1> DEFINE r == Raised(j, a)  x == Relaxed(j, r)
<1>1. r \in Levels /\ \A p \in Alarms(j) : p < L => r > p
  BY RaisedTyped
<1> HIDE DEF r
<1>2. x \in Levels /\ \A p \in Alarms(j) : p < L => x > p
  BY <1>1, RelaxedTyped
<1> HIDE DEF x
<1>3. Bumps(j, b) \in Nat
  BY BumpsTyped
<1>4. Bumped(x, Bumps(j, b)) \in Levels /\ Bumped(x, Bumps(j, b)) >= x
  BY <1>2, <1>3, BumpedTyped
<1>5. Assignment(j, a, b) = Bumped(x, Bumps(j, b))
  BY DEF Assignment, x, r
<1>6. \A p \in Alarms(j) : p \in Int
  BY DidsAssumption DEF Alarms, Levels
<1>7. x \in Int /\ Bumped(x, Bumps(j, b)) \in Int
  BY <1>2, <1>4, DidsAssumption DEF Levels
<1>8. ASSUME NEW p \in Alarms(j), p < L
      PROVE  Bumped(x, Bumps(j, b)) > p
  BY <1>2, <1>4, <1>6, <1>7, <1>8
<1> QED BY <1>4, <1>5, <1>8

\* What the base rule gives is a level.
LEMMA BasesAreLevels == Bases \subseteq Levels
<1>0. Bases \subseteq 1 .. Max({L - 1, Min({2, L})})
  BY DidsAssumption, Zenon
<1>1. L \in Nat /\ L > 0
  BY DidsAssumption
<1>2. Min({2, L}) = IF 2 <= L THEN 2 ELSE L
  BY <1>1, MinOfTwo
<1>3. Min({2, L}) \in Int /\ L - 1 \in Int
  BY <1>1, <1>2
<1>4. Max({L - 1, Min({2, L})}) = IF L - 1 >= Min({2, L}) THEN L - 1 ELSE Min({2, L})
  BY <1>3, MaxOfTwo
<1>5. Max({L - 1, Min({2, L})}) \in Int /\ Max({L - 1, Min({2, L})}) <= L
  BY <1>1, <1>2, <1>4
<1> QED BY <1>0, <1>1, <1>5 DEF Levels

\* The baseline stays a positive delta_rel.
LEMMA BaselineTyped ==
  ASSUME delta \in [Constraints -> Deltas], baseline \in Deltas \ {0}
  PROVE  NextBaseline \in Deltas \ {0}
<1>1. 1 \in Constraints /\ Deltas \subseteq Nat
  BY DidsAssumption
<1>2. CASE delta[1] > 0
  <2> DEFINE S == {delta[j] : j \in Constraints} \ {0}
  <2>1. S \subseteq Deltas \ {0} /\ S \subseteq Nat
    BY <1>1
  <2>2. delta[1] \in S
    BY <1>1, <1>2
  <2>3. NextBaseline = Min(S)
    BY <1>2 DEF NextBaseline
  <2> HIDE DEF S
  <2> QED BY <2>1, <2>2, <2>3, MinOfNaturals
<1>3. CASE ~(delta[1] > 0)
  BY <1>3 DEF NextBaseline
<1> QED BY <1>2, <1>3

-----------------------------------------------------------------------------
(* The specification.                                                      *)

\* Inductive as it stands.
DidsInv == DidsTypeOK /\ AlarmedLevelNotUsed

\* It holds of the assignment the engine's setup makes.
LEMMA DidsInit == Init => DidsInv
<1> SUFFICES ASSUME Init PROVE DidsInv
  OBVIOUS
<1> USE DEF Init
<1>1. L \in Nat /\ L > 0 /\ InitDelta \in Deltas \ {0} /\ 1 \in Bases
      /\ Deltas \subseteq Nat
  BY DidsAssumption
<1>2. 1 \in Levels
  BY <1>1 DEF Levels
<1>3. NoEvidence \in Counters
  BY DEF NoEvidence, Counters
<1>4. open \in [Constraints -> [Levels -> Nat]]
      /\ ev \in [Constraints -> [Levels -> Counters]]
  BY <1>3
<1>5. ASSUME NEW j \in Constraints, NEW p \in Levels
      PROVE  /\ ev[j][p].wrong + ev[j][p].right <= ev[j][p].n
             /\ ~Alarm(ev[j][p])
  BY DEF NoEvidence, Alarm
<1>6. DidsTypeOK
  BY <1>1, <1>2, <1>4, <1>5 DEF DidsTypeOK, BaseRule, Counters
<1>7. AlarmedLevelNotUsed
  BY <1>5 DEF AlarmedLevelNotUsed, Alarms
<1> QED BY <1>6, <1>7 DEF DidsInv

\* Every step preserves it; only UpdateAssignment sets fresh.
LEMMA DidsStep == DidsInv /\ [Next]_vars => DidsInv'
<1> SUFFICES ASSUME DidsInv, [Next]_vars PROVE DidsInv'
  OBVIOUS
<1>0. /\ open \in [Constraints -> [Levels -> Nat]]
      /\ ev \in [Constraints -> [Levels -> Counters]]
      /\ \A j \in Constraints, p \in Levels :
           ev[j][p].wrong + ev[j][p].right <= ev[j][p].n
      /\ delta \in [Constraints -> Deltas]
      /\ base \in BaseRule /\ baseline \in Deltas \ {0}
      /\ asg \in [Constraints -> Levels]
      /\ Deltas \subseteq Nat
  BY DidsAssumption DEF DidsInv, DidsTypeOK, Counters
<1>1. ASSUME NEW j \in Constraints, NEW p \in Levels, BeginAudit(j, p)
      PROVE  DidsInv'
  <2> USE <1>1 DEF BeginAudit
  <2>1. open' \in [Constraints -> [Levels -> Nat]]
    BY <1>0
  <2>2. DidsTypeOK'
    BY <1>0, <2>1 DEF DidsTypeOK, Counters, BaseRule
  <2>3. AlarmedLevelNotUsed'
    BY DEF AlarmedLevelNotUsed
  <2> QED BY <2>2, <2>3 DEF DidsInv
<1>2. ASSUME NEW j \in Constraints, NEW p \in Levels, Judge(j, p)
      PROVE  DidsInv'
  <2> USE <1>2 DEF Judge
  <2>1. open' \in [Constraints -> [Levels -> Nat]]
    BY <1>0
  <2>2. PICK verdict \in {<<1, 0>>, <<0, 1>>, <<0, 0>>} :
          ev' = [ev EXCEPT ![j][p] = [n |-> @.n + 1,
                                      wrong |-> @.wrong + verdict[1],
                                      right |-> @.right + verdict[2]]]
    OBVIOUS
  <2> DEFINE e == ev[j][p]
             f == [n |-> e.n + 1, wrong |-> e.wrong + verdict[1],
                   right |-> e.right + verdict[2]]
  <2>3. e \in Counters /\ e.wrong + e.right <= e.n
    BY <1>0
  <2>4. f \in Counters /\ f.wrong + f.right <= f.n
    <3>1. e.n \in Nat /\ e.wrong \in Nat /\ e.right \in Nat
      BY <2>3 DEF Counters
    <3> HIDE DEF e
    <3>2. verdict[1] \in Nat /\ verdict[2] \in Nat /\ verdict[1] + verdict[2] <= 1
      OBVIOUS
    <3> QED BY <2>3, <3>1, <3>2 DEF Counters
  <2>5. ev' = [ev EXCEPT ![j] = [ev[j] EXCEPT ![p] = f]]
    BY <2>2
  <2> HIDE DEF f
  <2>6. ev' \in [Constraints -> [Levels -> Counters]]
    BY <1>0, <2>4, <2>5
  <2>7. ASSUME NEW j2 \in Constraints, NEW p2 \in Levels
        PROVE  ev'[j2][p2] = IF j2 = j /\ p2 = p THEN f ELSE ev[j2][p2]
    BY <1>0, <2>5
  <2>8. ASSUME NEW j2 \in Constraints, NEW p2 \in Levels
        PROVE  ev'[j2][p2].wrong + ev'[j2][p2].right <= ev'[j2][p2].n
    <3>1. CASE j2 = j /\ p2 = p
      BY <2>4, <2>7, <3>1
    <3>2. CASE ~(j2 = j /\ p2 = p)
      <4>1. ev'[j2][p2] = ev[j2][p2]
        BY <2>7, <3>2
      <4> QED BY <4>1, <1>0
    <3> QED BY <3>1, <3>2
  <2>9. DidsTypeOK'
    BY <1>0, <2>1, <2>6, <2>8 DEF DidsTypeOK, Counters, BaseRule
  <2>10. AlarmedLevelNotUsed'
    BY DEF AlarmedLevelNotUsed
  <2> QED BY <2>9, <2>10 DEF DidsInv
<1>3. ASSUME NEW j \in Constraints, MoveDelta(j)
      PROVE  DidsInv'
  <2> USE <1>3 DEF MoveDelta
  <2>1. delta' \in [Constraints -> Deltas]
    BY <1>0
  <2>2. DidsTypeOK'
    BY <1>0, <2>1 DEF DidsTypeOK, Counters, BaseRule
  <2>3. AlarmedLevelNotUsed'
    BY DEF AlarmedLevelNotUsed
  <2> QED BY <2>2, <2>3 DEF DidsInv
<1>4. ASSUME UpdateAssignment PROVE DidsInv'
  <2>1. /\ base' \in BaseRule
        /\ baseline' = NextBaseline
        /\ asg' = [j \in Constraints |-> Assignment(j, base'[j], baseline')]
        /\ open' = open /\ ev' = ev /\ delta' = delta
    BY <1>4 DEF UpdateAssignment, evidence
  <2>2. baseline' \in Deltas \ {0}
    BY <1>0, <2>1, BaselineTyped
  <2>3. delta \in [Constraints -> Nat]
    BY <1>0
  <2>4. ASSUME NEW j \in Constraints
        PROVE  /\ asg'[j] \in Levels
               /\ \A p \in Alarms(j) : p < L => asg'[j] > p
    <3>1. base'[j] \in Levels
      BY <2>1, BasesAreLevels DEF BaseRule
    <3>2. asg'[j] = Assignment(j, base'[j], baseline')
      BY <2>1
    <3> QED BY <1>0, <2>3, <3>1, <3>2, AssignmentTyped
  <2>5. asg' \in [Constraints -> Levels]
    BY <2>1, <2>4
  <2>6. DidsTypeOK'
    BY <1>0, <2>1, <2>2, <2>5 DEF DidsTypeOK, Counters, BaseRule
  <2>7. \A j \in Constraints : Alarms(j)' = Alarms(j)
    BY <2>1 DEF Alarms, Alarm
  <2>8. AlarmedLevelNotUsed'
    BY <2>4, <2>7 DEF AlarmedLevelNotUsed
  <2> QED BY <2>6, <2>8 DEF DidsInv
<1>5. ASSUME UNCHANGED vars PROVE DidsInv'
  <2> USE <1>5 DEF vars, evidence
  <2>1. DidsTypeOK'
    BY <1>0 DEF DidsTypeOK, Counters, BaseRule
  <2>2. AlarmedLevelNotUsed'
    BY DEF DidsInv, AlarmedLevelNotUsed, Alarms, Alarm
  <2> QED BY <2>1, <2>2 DEF DidsInv
<1> QED BY <1>1, <1>2, <1>3, <1>4, <1>5 DEF Next

\* So it is an invariant.
LEMMA DidsInvariant == Spec => []DidsInv
BY DidsInit, DidsStep, PTL DEF Spec

\* Types, and with them that every a_j stays within 1 ..= ladder_len, for
\* every ladder length (dids.rs, compute_assignment).
THEOREM DidsTypeCorrect == Spec => []DidsTypeOK
<1>1. DidsInv => DidsTypeOK
  BY DEF DidsInv
<1> QED BY <1>1, DidsInvariant, PTL

\* Right after update_assignment no constraint may cut at an alarmed level
\* below TRUTH: for every target rate and audit minimum the relaxation of
\* step 2b and the alarm of step 2 exclude each other.
THEOREM AlarmedLevelsExcluded == Spec => []AlarmedLevelNotUsed
<1>1. DidsInv => AlarmedLevelNotUsed
  BY DEF DidsInv
<1> QED BY <1>1, DidsInvariant, PTL

\* An alarmed level that is out of use and whose audits are all judged stays
\* so for good: the loop through materialize_job_result offers no way to
\* clear an alarm.
THEOREM AlarmsAreFinal == Spec => AlarmIsFinal
<1> DEFINE P == \A j \in Constraints, p \in 1 .. L - 1 :
                  Closed(j, p) => Closed(j, p)'
<1>1. ASSUME DidsInv, [Next]_vars PROVE [P]_vars
  <2> SUFFICES ASSUME NEW j \in Constraints, NEW p \in 1 .. L - 1,
                      Closed(j, p), Next
               PROVE  Closed(j, p)'
    BY <1>1
  <2>1. p \in Levels /\ p < L
    BY DidsAssumption DEF Levels
  <2>2. asg[j] > p /\ open[j][p] = 0 /\ Alarm(ev[j][p])
    BY DEF Closed
  <2>3. /\ open \in [Constraints -> [Levels -> Nat]]
        /\ ev \in [Constraints -> [Levels -> Counters]]
        /\ asg[j] \in Int /\ p \in Int
    <3>1. asg[j] \in Levels
      BY <1>1 DEF DidsInv, DidsTypeOK
    <3>2. asg[j] \in Int /\ p \in Int
      BY <3>1, DidsAssumption DEF Levels
    <3> QED BY <1>1, <3>2 DEF DidsInv, DidsTypeOK, Counters
  <2>4. ASSUME open'[j][p] = 0, ev'[j][p] = ev[j][p], asg'[j] > p
        PROVE  Closed(j, p)'
    BY <2>2, <2>4 DEF Closed, Alarm
  <2>5. ASSUME NEW j2 \in Constraints, NEW p2 \in Levels, BeginAudit(j2, p2)
        PROVE  Closed(j, p)'
    <3>1. /\ p2 >= asg[j2] /\ open' = [open EXCEPT ![j2][p2] = @ + 1]
          /\ ev' = ev /\ asg' = asg
      BY <2>5 DEF BeginAudit
    <3>2. ~(j2 = j /\ p2 = p)
      BY <2>2, <2>3, <3>1
    <3>3. open'[j][p] = 0
      BY <2>1, <2>2, <2>3, <3>1, <3>2
    <3> QED BY <2>2, <2>4, <3>1, <3>3
  <2>6. ASSUME NEW j2 \in Constraints, NEW p2 \in Levels, Judge(j2, p2)
        PROVE  Closed(j, p)'
    <3>1. open[j2][p2] > 0 /\ open' = [open EXCEPT ![j2][p2] = @ - 1]
          /\ asg' = asg
      BY <2>6 DEF Judge
    <3>2. PICK v : ev' = [ev EXCEPT ![j2][p2] = v]
      BY <2>6 DEF Judge
    <3>3. ~(j2 = j /\ p2 = p)
      BY <2>2, <3>1
    <3>4. open'[j][p] = 0 /\ ev'[j][p] = ev[j][p]
      BY <2>1, <2>2, <2>3, <3>1, <3>2, <3>3
    <3> QED BY <2>2, <2>4, <3>1, <3>4
  <2>7. ASSUME NEW j2 \in Constraints, MoveDelta(j2)
        PROVE  Closed(j, p)'
    <3>1. open' = open /\ ev' = ev /\ asg' = asg
      BY <2>7 DEF MoveDelta
    <3> QED BY <2>2, <2>4, <3>1
  <2>8. ASSUME UpdateAssignment
        PROVE  Closed(j, p)'
    <3>1. open' = open /\ ev' = ev /\ fresh'
      BY <2>8 DEF UpdateAssignment, evidence
    <3>2. AlarmedLevelNotUsed'
      BY <1>1, DidsStep DEF DidsInv
    <3>3. p \in Alarms(j)'
      BY <2>1, <2>2, <3>1 DEF Alarms, Alarm
    <3>4. asg'[j] > p
      BY <2>1, <3>1, <3>2, <3>3 DEF AlarmedLevelNotUsed
    <3> QED BY <2>2, <2>4, <3>1, <3>4
  <2> QED BY <2>5, <2>6, <2>7, <2>8 DEF Next
<1>2. AlarmIsFinal <=> [][P]_vars
  BY DEF AlarmIsFinal
<1> HIDE DEF P
<1> QED BY <1>1, <1>2, DidsInvariant, PTL DEF Spec

=============================================================================
