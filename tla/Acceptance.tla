----------------------------- MODULE Acceptance -----------------------------
(***************************************************************************)
(* The progressive barrier and the filter of                               *)
(* imads-core/src/core/acceptance.rs: DefaultAcceptance, its BarrierState  *)
(* and its FilterState.                                                    *)
(*                                                                         *)
(* Objective values, violations and the barrier are fixed-point integers.  *)
(* The Vec of filter points is a set: equal points, which the code keeps   *)
(* side by side and which count towards filter_cap, are told apart by a    *)
(* copy number; the order of the Vec is visible only through the sort that *)
(* precedes truncation.                                                    *)
(***************************************************************************)
EXTENDS Integers, FiniteSets

CONSTANTS FValues, VValues,      \* bound: what TRUTH evaluations may return
          H0, HMin,              \* accept_h0, accept_h_min
          ShrinkNum, ShrinkDen,  \* accept_h_shrink as a fraction
          EpsF, EpsV,            \* accept_eps_f, accept_eps_v
          FilterCap,             \* accept_filter_cap
          NoF                    \* Option::None for an objective value

ASSUME AcceptanceAssumption ==
  /\ FValues \subseteq Int
  /\ VValues \subseteq Nat
  /\ H0 \in Int /\ HMin \in Int
  /\ ShrinkNum \in Int /\ ShrinkDen \in Nat \ {0}
  /\ EpsF \in Int /\ EpsV \in Int
  /\ FilterCap \in Nat
  /\ NoF \notin Int

VARIABLES
  h,          \* BarrierState::h
  points,     \* FilterState::points
  incumbent   \* FilterState::incumbent_feasible_f

acceptVars == <<h, points, incumbent>>

Larger(a, b) == IF a >= b THEN a ELSE b

Clamp(a, lo, hi) == IF a < lo THEN lo ELSE IF a > hi THEN hi ELSE a

HFloor == Larger(HMin, 0)

FilterPoint == [f : Int, v : Nat, copy : Nat]

\* The barrier is also never below h_min: what Tightened relies on.
AcceptTypeOK ==
  /\ h \in Nat
  /\ h >= HFloor
  /\ points \subseteq FilterPoint
  /\ IsFiniteSet(points)
  /\ incumbent \in Int \cup {NoF}

\* BarrierState::new.
InitialBarrier == Larger(Larger(H0, 0), HFloor)

\* AcceptanceState::new, with FilterState::default.
AcceptInit ==
  /\ h = InitialBarrier
  /\ points = {}
  /\ incumbent = NoF

-----------------------------------------------------------------------------
(* The filter.                                                             *)

\* dominates(a, b): with slack, strict in one of the two coordinates.
Dominates(a, b) ==
  LET ef == Larger(EpsF, 0)
      ev == Larger(EpsV, 0)
  IN  /\ a.f <= b.f + ef
      /\ a.v <= b.v + ev
      /\ a.f < b.f - ef \/ a.v < b.v - ev

\* The order of the sort before truncation: by v, then by f.  Points equal
\* in both are interchangeable.
Before(a, b) ==
  \/ a.v < b.v
  \/ a.v = b.v /\ a.f < b.f
  \/ a.v = b.v /\ a.f = b.f /\ a.copy < b.copy

Cap == Larger(FilterCap, 1)

\* Mutant of Truncate: sorts by f first, as the field's comment might suggest.
TruncateByF(S) ==
  {q \in S :
     Cardinality({r \in S : r.f < q.f \/ (r.f = q.f /\ Before(r, q))}) < Cap}

\* points.sort_by(v, f); points.truncate(cap).
Truncate(S) == {q \in S : Cardinality({r \in S : Before(r, q)}) < Cap}

\* The point pushed into S for a TRUTH result.
NewPoint(S, f, v) ==
  [f |-> f, v |-> v, copy |-> Cardinality({q \in S : q.f = f /\ q.v = v})]

\* Some filter point dominates the result: filter_insert returns false.
Dominated(f, v) == \E q \in points : Dominates(q, [f |-> f, v |-> v])

\* Mutant of FilterInsert: dominated points are not removed.
FilterInsertNoRetain(f, v) == Truncate(points \cup {NewPoint(points, f, v)})

\* filter_insert when nothing dominates the result: drop what it dominates,
\* push it, and cut back to the cap.
FilterInsert(f, v) ==
  LET kept == {q \in points : ~Dominates([f |-> f, v |-> v], q)}
  IN  Truncate(kept \cup {NewPoint(kept, f, v)})

-----------------------------------------------------------------------------
(* AcceptancePolicy.                                                       *)

\* decide_truth returns Accept.
Accepts(f, v) == v <= h /\ ~Dominated(f, v)

BetterFeasible(f, v) == v <= 0 /\ (incumbent = NoF \/ f < incumbent)

\* decide_truth: the barrier gate, the feasible incumbent (updated whether or
\* not the filter takes the point), the filter.
DecideTruth(f, v) ==
  /\ incumbent' = IF v <= h /\ BetterFeasible(f, v) THEN f ELSE incumbent
  /\ points' = IF Accepts(f, v) THEN FilterInsert(f, v) ELSE points
  /\ h' = h

\* Mutant of Tightened: no floor.
TightenedNoFloor == (h * Clamp(ShrinkNum, 0, ShrinkDen)) \div ShrinkDen

\* tighten_on_poll_fail.
Tightened ==
  Larger((h * Clamp(ShrinkNum, 0, ShrinkDen)) \div ShrinkDen, HFloor)

\* Mutant of OnIterationEnd: the barrier starts over after an improvement.
OnIterationEndResets(pollAttempted, iterImproved) ==
  /\ h' = IF iterImproved THEN InitialBarrier
          ELSE IF pollAttempted THEN Tightened ELSE h
  /\ UNCHANGED <<points, incumbent>>

\* on_iteration_end.
OnIterationEnd(pollAttempted, iterImproved) ==
  /\ h' = IF pollAttempted /\ ~iterImproved THEN Tightened ELSE h
  /\ UNCHANGED <<points, incumbent>>

AcceptNext ==
  \/ \E f \in FValues, v \in VValues : DecideTruth(f, v)
  \/ \E pa, ii \in BOOLEAN : OnIterationEnd(pa, ii)

AcceptSpec == AcceptInit /\ [][AcceptNext]_acceptVars

-----------------------------------------------------------------------------
(* Properties.                                                             *)

\* The contract of AcceptancePolicy: "barrier_h() must be non-increasing".
BarrierMonotone == [][h' <= h]_acceptVars

\* The filter's points are mutually non-dominated, although dominance with
\* slack is not transitive and points enter one at a time.
NonDominated == \A p, q \in points : ~Dominates(p, q)

\* Without slack on violations, the best feasible value ever accepted is
\* never lost: neither an infeasible point with a better objective nor
\* truncation at the cap expels it from the filter.
FeasibleKept ==
  EpsV <= 0 /\ incumbent # NoF =>
    \E p \in points : p.v = 0 /\ p.f = incumbent

=============================================================================
