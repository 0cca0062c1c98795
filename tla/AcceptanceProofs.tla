-------------------------- MODULE AcceptanceProofs --------------------------
(***************************************************************************)
(* Proofs about Acceptance, for every configuration of the acceptance      *)
(* policy and all TRUTH results.                                           *)
(***************************************************************************)
EXTENDS Acceptance, FiniteSetTheorems, TLAPS

\* What a filter point looks like after an insertion: it was there and is not
\* dominated by the new result, or it is the new result.
LEMMA InsertMembers ==
  ASSUME NEW f, NEW v, NEW q \in FilterInsert(f, v)
  PROVE  \/ q \in points /\ ~Dominates([f |-> f, v |-> v], q)
         \/ q.f = f /\ q.v = v
  BY DEF FilterInsert, Truncate, NewPoint

\* An insertion keeps the filter a finite set of filter points.
LEMMA InsertType ==
  ASSUME NEW f \in Int, NEW v \in Nat,
         points \subseteq FilterPoint, IsFiniteSet(points)
  PROVE  /\ FilterInsert(f, v) \subseteq FilterPoint
         /\ IsFiniteSet(FilterInsert(f, v))
<1> DEFINE kept == {q \in points : ~Dominates([f |-> f, v |-> v], q)}
           eq == {q \in kept : q.f = f /\ q.v = v}
           new == NewPoint(kept, f, v)
<1>1. IsFiniteSet(kept)
  BY FS_Subset
<1>2. IsFiniteSet(eq)
  <2>1. eq \subseteq kept
    OBVIOUS
  <2> QED BY <1>1, <2>1, FS_Subset
<1>3. Cardinality(eq) \in Nat
  BY <1>2, FS_CardinalityType
<1>4. new \in FilterPoint
  BY <1>3 DEF NewPoint, FilterPoint
<1>5. IsFiniteSet(kept \cup {new})
  BY <1>1, FS_AddElement
<1>6. FilterInsert(f, v) \subseteq kept \cup {new}
  BY DEF FilterInsert, Truncate
<1> QED BY <1>4, <1>5, <1>6, FS_Subset

\* The first point in the order of the sort survives truncation.
LEMMA TruncateKeepsFirst ==
  ASSUME NEW S, NEW p \in S, \A r \in S : ~Before(r, p)
  PROVE  p \in Truncate(S)
<1>1. {r \in S : Before(r, p)} = {}
  OBVIOUS
<1>2. Cardinality({r \in S : Before(r, p)}) = 0
  BY <1>1, FS_EmptySet
<1>3. Cap \in Int /\ 0 < Cap
  BY AcceptanceAssumption DEF Cap, Larger
<1> QED BY <1>2, <1>3 DEF Truncate

\* The barrier starts at or above its floor.
LEMMA InitType == AcceptInit => AcceptTypeOK
<1> SUFFICES ASSUME AcceptInit PROVE AcceptTypeOK
  OBVIOUS
<1>1. h \in Nat /\ h >= HFloor
  BY AcceptanceAssumption DEF AcceptInit, InitialBarrier, Larger, HFloor
<1>2. IsFiniteSet(points)
  BY FS_EmptySet DEF AcceptInit
<1> QED BY <1>1, <1>2 DEF AcceptInit, AcceptTypeOK

\* Scaling by a fraction in [0, 1] does not enlarge a natural number.
LEMMA ScaleDown ==
  ASSUME NEW a \in Nat, NEW n \in Nat, NEW d \in Nat \ {0}, n <= d
  PROVE  (a * n) \div d \in Nat /\ (a * n) \div d <= a
<1>1. a * n \in Nat /\ a * n <= a * d
  OBVIOUS
<1>2. PICK q \in Int : q = (a * n) \div d
  OBVIOUS
<1>3. d * q <= a * n /\ a * n < d * q + d
  BY <1>1, <1>2
<1>4. d * q <= a * d
  BY <1>1, <1>3
<1>5. q <= a
  <2>1. SUFFICES ASSUME q >= a + 1 PROVE FALSE
    OBVIOUS
  <2>2. d * q >= d * (a + 1)
    BY <2>1
  <2>3. d * (a + 1) = a * d + d
    OBVIOUS
  <2> QED BY <2>2, <2>3, <1>4
<1>6. q >= 0
  <2>1. SUFFICES ASSUME q <= -1 PROVE FALSE
    OBVIOUS
  <2>2. d * q <= d * (-1)
    BY <2>1
  <2> QED BY <2>2, <1>1, <1>3
<1> QED BY <1>2, <1>5, <1>6

\* Tightening keeps the barrier between its floor and its old value.
LEMMA TightenedBounds ==
  ASSUME AcceptTypeOK
  PROVE  Tightened \in Nat /\ Tightened >= HFloor /\ Tightened <= h
<1> DEFINE n == Clamp(ShrinkNum, 0, ShrinkDen)
<1>1. n \in Nat /\ n <= ShrinkDen
  BY AcceptanceAssumption DEF Clamp
<1>2. h \in Nat /\ h >= HFloor
  BY DEF AcceptTypeOK
<1>3. HFloor \in Nat
  BY AcceptanceAssumption DEF HFloor, Larger
<1>4. (h * n) \div ShrinkDen \in Nat /\ (h * n) \div ShrinkDen <= h
  BY <1>1, <1>2, AcceptanceAssumption, ScaleDown
<1> QED BY <1>2, <1>3, <1>4 DEF Tightened, Larger

\* Every step keeps the types.
LEMMA NextType == AcceptTypeOK /\ [AcceptNext]_acceptVars => AcceptTypeOK'
<1> SUFFICES ASSUME AcceptTypeOK, [AcceptNext]_acceptVars
             PROVE  AcceptTypeOK'
  OBVIOUS
<1>0. HFloor' = HFloor
  BY DEF HFloor
<1>1. CASE \E f \in FValues, v \in VValues : DecideTruth(f, v)
  <2>1. PICK f \in FValues, v \in VValues : DecideTruth(f, v)
    BY <1>1
  <2>2. f \in Int /\ v \in Nat
    BY AcceptanceAssumption
  <2>3. points' \subseteq FilterPoint /\ IsFiniteSet(points')
    BY <2>1, <2>2, InsertType DEF DecideTruth, AcceptTypeOK
  <2> QED BY <1>0, <2>1, <2>2, <2>3 DEF DecideTruth, AcceptTypeOK
<1>2. CASE \E pa, ii \in BOOLEAN : OnIterationEnd(pa, ii)
  <2>1. h' \in Nat /\ h' >= HFloor
    BY <1>2, TightenedBounds DEF OnIterationEnd, AcceptTypeOK
  <2> QED BY <1>0, <1>2, <2>1 DEF OnIterationEnd, AcceptTypeOK
<1>3. CASE UNCHANGED acceptVars
  BY <1>0, <1>3 DEF acceptVars, AcceptTypeOK
<1> QED BY <1>1, <1>2, <1>3 DEF AcceptNext

-----------------------------------------------------------------------------

\* Type correctness, and the barrier never falls below h_min, whatever the
\* configuration (negative h0, shrink factors outside [0, 1]).
THEOREM AcceptTypeCorrect == AcceptSpec => []AcceptTypeOK
  BY InitType, NextType, PTL DEF AcceptSpec

\* The progressive barrier is non-increasing: the contract convergence rests
\* on, for every configuration.
THEOREM BarrierNonIncreasing == AcceptSpec => BarrierMonotone
<1>1. AcceptTypeOK /\ [AcceptNext]_acceptVars => [h' <= h]_acceptVars
  <2> SUFFICES ASSUME AcceptTypeOK, AcceptNext PROVE h' <= h
    OBVIOUS
  <2>1. h \in Nat
    BY DEF AcceptTypeOK
  <2>2. CASE \E f \in FValues, v \in VValues : DecideTruth(f, v)
    BY <2>1, <2>2 DEF DecideTruth
  <2>3. CASE \E pa, ii \in BOOLEAN : OnIterationEnd(pa, ii)
    BY <2>1, <2>3, TightenedBounds DEF OnIterationEnd
  <2> QED BY <2>2, <2>3 DEF AcceptNext
<1> QED BY <1>1, AcceptTypeCorrect, PTL DEF AcceptSpec, BarrierMonotone

\* An insertion keeps the filter mutually non-dominated.
LEMMA InsertNonDominated ==
  ASSUME AcceptTypeOK, NonDominated,
         NEW f \in Int, NEW v \in Nat, ~Dominated(f, v),
         NEW p \in FilterInsert(f, v), NEW q \in FilterInsert(f, v)
  PROVE  ~Dominates(p, q)
<1> DEFINE new == [f |-> f, v |-> v]
<1>1. Larger(EpsF, 0) \in Nat /\ Larger(EpsV, 0) \in Nat
  BY AcceptanceAssumption DEF Larger
<1>2. \/ p \in points /\ ~Dominates(new, p)
      \/ p.f = f /\ p.v = v
  BY InsertMembers
<1>3. \/ q \in points /\ ~Dominates(new, q)
      \/ q.f = f /\ q.v = v
  BY InsertMembers
<1>4. CASE p \in points /\ q \in points
  BY <1>4 DEF NonDominated
<1>5. CASE p.f = f /\ p.v = v /\ q.f = f /\ q.v = v
  BY <1>1, <1>5 DEF Dominates
<1>6. CASE p.f = f /\ p.v = v /\ ~Dominates(new, q)
  BY <1>6 DEF Dominates
<1>7. CASE p \in points /\ q.f = f /\ q.v = v
  <2>1. ~Dominates(p, new)
    BY <1>7 DEF Dominated
  <2> QED BY <1>7, <2>1 DEF Dominates
<1> QED BY <1>2, <1>3, <1>4, <1>5, <1>6, <1>7

\* At every moment the filter's points are mutually non-dominated, for any
\* slack and any cap.
THEOREM FilterNonDominated == AcceptSpec => []NonDominated
<1>1. AcceptInit => NonDominated
  BY DEF AcceptInit, NonDominated
<1>2. AcceptTypeOK /\ NonDominated /\ [AcceptNext]_acceptVars => NonDominated'
  <2> SUFFICES ASSUME AcceptTypeOK, NonDominated, [AcceptNext]_acceptVars
               PROVE  NonDominated'
    OBVIOUS
  <2>1. CASE points' = points
    BY <2>1 DEF NonDominated, Dominates
  <2>2. CASE \E f \in FValues, v \in VValues : DecideTruth(f, v)
    <3>1. PICK f \in FValues, v \in VValues : DecideTruth(f, v)
      BY <2>2
    <3>2. f \in Int /\ v \in Nat
      BY AcceptanceAssumption
    <3>3. CASE Accepts(f, v)
      <4>1. points' = FilterInsert(f, v)
        BY <3>1, <3>3 DEF DecideTruth
      <4>2. \A p, q \in FilterInsert(f, v) : ~Dominates(p, q)
        BY <3>2, <3>3, InsertNonDominated DEF Accepts
      <4> QED BY <4>1, <4>2 DEF NonDominated, Dominates
    <3>4. CASE ~Accepts(f, v)
      BY <2>1, <3>1, <3>4 DEF DecideTruth
    <3> QED BY <3>3, <3>4
  <2>3. CASE \E pa, ii \in BOOLEAN : OnIterationEnd(pa, ii)
    BY <2>1, <2>3 DEF OnIterationEnd
  <2> QED BY <2>1, <2>2, <2>3 DEF AcceptNext, acceptVars
<1> QED BY <1>1, <1>2, AcceptTypeCorrect, PTL DEF AcceptSpec

-----------------------------------------------------------------------------
(* FeasibleKept.  The inductive invariant adds that the incumbent bounds   *)
(* the feasible points of the filter from below and that the first copy of *)
(* the best one is there, which sorts before every other point.            *)

\* The incumbent is a lower bound of the feasible filter points.
IncumbentLowest ==
  \A p \in points : p.v = 0 => incumbent # NoF /\ incumbent <= p.f

\* The first copy of the best feasible point is in the filter.
FirstCopyKept ==
  incumbent # NoF =>
    \E p \in points : p.v = 0 /\ p.f = incumbent /\ p.copy = 0

\* What every step preserves while violations are compared exactly.
FeasInv == EpsV <= 0 => IncumbentLowest /\ FirstCopyKept

\* A better feasible result is accepted, becomes the only point of its value
\* and sorts first.
LEMMA BetterKept ==
  ASSUME AcceptTypeOK, EpsV <= 0, IncumbentLowest,
         NEW f \in Int, NEW v \in Nat, BetterFeasible(f, v)
  PROVE  /\ Accepts(f, v)
         /\ \E p \in FilterInsert(f, v) : p.v = 0 /\ p.f = f /\ p.copy = 0
<1> DEFINE kept == {q \in points : ~Dominates([f |-> f, v |-> v], q)}
           eq == {q \in kept : q.f = f /\ q.v = v}
           p == NewPoint(kept, f, v)
<1>1. v = 0
  BY DEF BetterFeasible
<1>2. \A q \in points : q.f \in Int /\ q.v \in Nat /\ q.copy \in Nat
  BY DEF AcceptTypeOK, FilterPoint
<1>3. \A q \in points : q.v = 0 => f < q.f
  BY <1>1, <1>2 DEF BetterFeasible, IncumbentLowest, AcceptTypeOK
<1>4. Larger(EpsF, 0) \in Nat /\ Larger(EpsV, 0) = 0
  BY AcceptanceAssumption DEF Larger
<1>5. ~Dominated(f, v)
  BY <1>1, <1>2, <1>3, <1>4 DEF Dominated, Dominates
<1>6. v <= h
  BY <1>1 DEF AcceptTypeOK
<1>7. eq = {}
  BY <1>1, <1>2, <1>3
<1>8. Cardinality(eq) = 0
  BY <1>7, FS_EmptySet
<1>9. p.f = f /\ p.v = 0 /\ p.copy = 0
  BY <1>1, <1>8 DEF NewPoint
<1>10. \A r \in kept \cup {p} : ~Before(r, p)
  BY <1>2, <1>3, <1>9 DEF Before
<1>11. p \in Truncate(kept \cup {p})
  BY <1>10, TruncateKeepsFirst
<1>12. p \in FilterInsert(f, v)
  BY <1>11 DEF FilterInsert
<1> QED BY <1>5, <1>6, <1>9, <1>12 DEF Accepts

\* Any other result leaves the best feasible point where it is.
LEMMA BestSurvives ==
  ASSUME AcceptTypeOK, EpsV <= 0, IncumbentLowest, FirstCopyKept,
         incumbent # NoF,
         NEW f \in Int, NEW v \in Nat, ~BetterFeasible(f, v)
  PROVE  \E p \in FilterInsert(f, v) :
           p.v = 0 /\ p.f = incumbent /\ p.copy = 0
<1> DEFINE kept == {q \in points : ~Dominates([f |-> f, v |-> v], q)}
           new == NewPoint(kept, f, v)
<1>1. PICK p \in points : p.v = 0 /\ p.f = incumbent /\ p.copy = 0
  BY DEF FirstCopyKept
<1>2. \A q \in points : q.f \in Int /\ q.v \in Nat /\ q.copy \in Nat
  BY DEF AcceptTypeOK, FilterPoint
<1>3. incumbent \in Int
  BY DEF AcceptTypeOK
<1>4. v = 0 => incumbent <= f
  BY <1>3 DEF BetterFeasible
<1>5. Larger(EpsF, 0) \in Nat /\ Larger(EpsV, 0) = 0
  BY AcceptanceAssumption DEF Larger
<1>6. p \in kept
  BY <1>1, <1>3, <1>4, <1>5 DEF Dominates
<1>7. new.f = f /\ new.v = v
  BY DEF NewPoint
<1>8. new.copy \in Nat
  <2> DEFINE eq == {q \in kept : q.f = f /\ q.v = v}
  <2>1. eq \subseteq points
    OBVIOUS
  <2>2. IsFiniteSet(eq)
    BY <2>1, FS_Subset DEF AcceptTypeOK
  <2> QED BY <2>2, FS_CardinalityType DEF NewPoint
<1>9. \A r \in kept : ~Before(r, p)
  BY <1>1, <1>2, <1>3 DEF Before, IncumbentLowest
<1>10. ~Before(new, p)
  BY <1>1, <1>3, <1>4, <1>7, <1>8 DEF Before
<1>11. p \in Truncate(kept \cup {new})
  BY <1>6, <1>9, <1>10, TruncateKeepsFirst
<1>12. p \in FilterInsert(f, v)
  BY <1>11 DEF FilterInsert
<1> QED BY <1>1, <1>12

\* decide_truth preserves the invariant.
LEMMA DecideFeasInv ==
  ASSUME AcceptTypeOK, EpsV <= 0, IncumbentLowest, FirstCopyKept,
         NEW f \in Int, NEW v \in Nat, DecideTruth(f, v)
  PROVE  IncumbentLowest' /\ FirstCopyKept'
<1>0. \A q \in points : q.f \in Int /\ q.v \in Nat
  BY DEF AcceptTypeOK, FilterPoint
<1>1. CASE BetterFeasible(f, v)
  <2>1. incumbent' = f /\ points' = FilterInsert(f, v)
    <3>1. Accepts(f, v)
      BY <1>1, BetterKept
    <3>2. v <= h
      BY <3>1 DEF Accepts
    <3> QED BY <1>1, <3>1, <3>2 DEF DecideTruth
  <2>2. \A q \in FilterInsert(f, v) : q.v = 0 => f <= q.f
    <3> TAKE q \in FilterInsert(f, v)
    <3>1. q \in points \/ q.f = f
      BY InsertMembers
    <3> QED BY <1>0, <1>1, <3>1
            DEF BetterFeasible, IncumbentLowest, AcceptTypeOK
  <2>3. f # NoF
    BY AcceptanceAssumption
  <2>4. IncumbentLowest'
    BY <2>1, <2>2, <2>3 DEF IncumbentLowest
  <2>5. \E p \in FilterInsert(f, v) : p.v = 0 /\ p.f = f /\ p.copy = 0
    BY <1>1, BetterKept
  <2>6. FirstCopyKept'
    BY <2>1, <2>5 DEF FirstCopyKept
  <2> QED BY <2>4, <2>6
<1>2. CASE ~BetterFeasible(f, v) /\ Accepts(f, v)
  <2>1. incumbent' = incumbent /\ points' = FilterInsert(f, v)
    BY <1>2 DEF DecideTruth
  <2>2. IncumbentLowest'
    <3>1. ASSUME NEW q \in FilterInsert(f, v), q.v = 0
          PROVE  incumbent # NoF /\ incumbent <= q.f
      <4>1. q \in points \/ (q.f = f /\ q.v = v)
        BY InsertMembers
      <4>2. CASE q \in points
        BY <3>1, <4>2 DEF IncumbentLowest
      <4>3. CASE q.f = f /\ q.v = v
        BY <1>2, <3>1, <4>3 DEF BetterFeasible, AcceptTypeOK
      <4> QED BY <4>1, <4>2, <4>3
    <3> QED BY <2>1, <3>1 DEF IncumbentLowest
  <2>3. FirstCopyKept'
    <3>1. incumbent # NoF =>
            \E p \in FilterInsert(f, v) :
              p.v = 0 /\ p.f = incumbent /\ p.copy = 0
      BY <1>2, BestSurvives
    <3> QED BY <2>1, <3>1 DEF FirstCopyKept
  <2> QED BY <2>2, <2>3
<1>3. CASE ~BetterFeasible(f, v) /\ ~Accepts(f, v)
  <2>1. incumbent' = incumbent /\ points' = points
    BY <1>3 DEF DecideTruth
  <2> QED BY <2>1 DEF IncumbentLowest, FirstCopyKept
<1> QED BY <1>1, <1>2, <1>3

\* Without slack on violations the best feasible value is in the filter at
\* every moment, for every cap and every slack on objectives.
THEOREM BestFeasibleKept == AcceptSpec => []FeasibleKept
<1>1. AcceptInit => FeasInv
  BY DEF AcceptInit, FeasInv, IncumbentLowest, FirstCopyKept
<1>2. AcceptTypeOK /\ FeasInv /\ [AcceptNext]_acceptVars => FeasInv'
  <2> SUFFICES ASSUME AcceptTypeOK, FeasInv, [AcceptNext]_acceptVars,
                      EpsV <= 0
               PROVE  IncumbentLowest' /\ FirstCopyKept'
    BY DEF FeasInv
  <2>0. IncumbentLowest /\ FirstCopyKept
    BY DEF FeasInv
  <2>1. CASE points' = points /\ incumbent' = incumbent
    BY <2>0, <2>1 DEF IncumbentLowest, FirstCopyKept
  <2>2. CASE \E f \in FValues, v \in VValues : DecideTruth(f, v)
    <3>1. PICK f \in FValues, v \in VValues : DecideTruth(f, v)
      BY <2>2
    <3>2. f \in Int /\ v \in Nat
      BY AcceptanceAssumption
    <3> QED BY <2>0, <3>1, <3>2, DecideFeasInv
  <2>3. CASE \E pa, ii \in BOOLEAN : OnIterationEnd(pa, ii)
    BY <2>1, <2>3 DEF OnIterationEnd
  <2> QED BY <2>1, <2>2, <2>3 DEF AcceptNext, acceptVars
<1>3. FeasInv => FeasibleKept
  BY DEF FeasInv, FirstCopyKept, FeasibleKept
<1> QED BY <1>1, <1>2, <1>3, AcceptTypeCorrect, PTL DEF AcceptSpec

=============================================================================
