-------------------------------- MODULE Dids --------------------------------
(***************************************************************************)
(* DefaultDids of imads-core/src/policies/dids.rs: the assignment a_j, the *)
(* lowest level at which constraint j may cut a candidate early, computed  *)
(* at every batch boundary from the audit counters and from delta_rel.     *)
(*                                                                         *)
(* It is closed by its surroundings: the engine cuts only at levels the    *)
(* assignment in force allows, some cuts are audited, and TRUTH judges     *)
(* them (module Calibrator shows that its counters do behave this way).    *)
(* Left open: the recency-weighted quantile of recorded cuts, which may    *)
(* give any level a cut can be recorded at, and the course of delta_rel.   *)
(* An audit may be judged in the batch that began it, which is sooner than *)
(* in the engine.                                                          *)
(* The Wilson bounds (z = 1.96) are compared exactly, in integers.         *)
(***************************************************************************)
EXTENDS Integers, FiniteSets, FiniteSetsExt

CONSTANTS
  L,                     \* ladder_len
  Constraints,           \* 1 .. m
  TargetNum, TargetDen,  \* target_false
  MinAudits,
  InitDelta, Deltas,     \* delta_rel at the start, and what it may become
  Bases,                 \* the levels the base rule may give
  Judged,                \* bound: the constraints whose cuts are audited
  MaxAudits, MaxOpen     \* bounds: audits of a constraint, in all and open

Levels == 1 .. L

ASSUME DidsAssumption ==
  /\ L \in Nat \ {0}
  /\ Constraints \subseteq Nat /\ 1 \in Constraints
  /\ Judged \subseteq Constraints
  /\ {TargetNum, TargetDen} \subseteq Nat \ {0}
  /\ {MinAudits, MaxAudits, MaxOpen} \subseteq Nat
  /\ Deltas \subseteq Nat /\ InitDelta \in Deltas \ {0}
  /\ Bases \subseteq 1 .. Max({L - 1, Min({2, L})}) /\ 1 \in Bases

VARIABLES
  open,      \* audits begun and not judged, by constraint and level
  ev,        \* judged ones: [n, wrong, right]
  delta,     \* delta_rel
  base,      \* what the base rule gave at the last update
  baseline,  \* delta_baseline
  asg,       \* the assignment in force
  fresh      \* nothing happened since the last update

evidence == <<open, ev, delta>>
vars == <<evidence, base, baseline, asg, fresh>>

NoEvidence == [n |-> 0, wrong |-> 0, right |-> 0]

\* init, and the update_assignment of the engine's setup.
Init ==
  /\ open = [j \in Constraints |-> [p \in Levels |-> 0]]
  /\ ev = [j \in Constraints |-> [p \in Levels |-> NoEvidence]]
  /\ delta = [j \in Constraints |-> InitDelta]
  /\ base = [j \in Constraints |-> 1]
  /\ baseline = InitDelta
  /\ asg = [j \in Constraints |-> 1]
  /\ fresh = TRUE

-----------------------------------------------------------------------------
(* Evidence.                                                               *)

SumOver(f(_)) == MapThenSumSet(f, Levels)

Overall(j) == LET n(p) == ev[j][p].n
                  wrong(p) == ev[j][p].wrong
                  right(p) == ev[j][p].right
              IN  [n |-> SumOver(n), wrong |-> SumOver(wrong),
                   right |-> SumOver(right)]

InFlight(j) == LET n(p) == open[j][p] IN SumOver(n)
WithinBounds(j) ==
  /\ j \in Judged
  /\ InFlight(j) < MaxOpen
  /\ Overall(j).n + InFlight(j) < MaxAudits

\* Mutant of BeginAudit: the engine cuts whatever the assignment says.
BeginAuditUngated(j, p) ==
  /\ WithinBounds(j)
  /\ p < L
  /\ open' = [open EXCEPT ![j][p] = @ + 1]
  /\ fresh' = FALSE
  /\ UNCHANGED <<ev, delta, base, baseline, asg>>

\* materialize_job_result: a cut at level p needs p >= a_j; it is audited.
BeginAudit(j, p) ==
  /\ WithinBounds(j)
  /\ p < L
  /\ p >= asg[j]
  /\ open' = [open EXCEPT ![j][p] = @ + 1]
  /\ fresh' = FALSE
  /\ UNCHANGED <<ev, delta, base, baseline, asg>>

\* The audited candidate reaches TRUTH: feasible (the cut was wrong), or j is
\* violated (it was right), or only another constraint is.
Judge(j, p) ==
  /\ open[j][p] > 0
  /\ open' = [open EXCEPT ![j][p] = @ - 1]
  /\ \E verdict \in {<<1, 0>>, <<0, 1>>, <<0, 0>>} :
       ev' = [ev EXCEPT ![j][p] = [n |-> @.n + 1,
                                   wrong |-> @.wrong + verdict[1],
                                   right |-> @.right + verdict[2]]]
  /\ fresh' = FALSE
  /\ UNCHANGED <<delta, base, baseline, asg>>

\* update_delta of the calibrator.
MoveDelta(j) ==
  /\ \E d \in Deltas \ {delta[j]} : delta' = [delta EXCEPT ![j] = d]
  /\ fresh' = FALSE
  /\ UNCHANGED <<open, ev, base, baseline, asg>>

-----------------------------------------------------------------------------
(* wilson_interval(s, n, 1.96) against a bound b = bn / bd, for n > 0.  The *)
(* ends of the interval are the roots x of (s/n - x)^2 = z^2 x (1 - x) / n, *)
(* and z^2 = 2401 / 625.                                                    *)

\* (s/n - b)^2 * n, and z^2 b (1 - b), with denominators multiplied out.
Distance(s, n, bn, bd) == 625 * (s * bd - bn * n) * (s * bd - bn * n)
Reach(n, bn, bd) == 2401 * bn * (bd - bn) * n

\* The upper end is above b; below b.
UpperAbove(s, n, bn, bd) ==
  s * bd > bn * n \/ Distance(s, n, bn, bd) < Reach(n, bn, bd)
UpperBelow(s, n, bn, bd) ==
  bn > bd \/ (s * bd < bn * n /\ Distance(s, n, bn, bd) > Reach(n, bn, bd))

\* The lower end is below b; above b.
LowerBelow(s, n, bn, bd) ==
  s * bd < bn * n \/ Distance(s, n, bn, bd) < Reach(n, bn, bd)
LowerAbove(s, n, bn, bd) ==
  s * bd > bn * n /\ Distance(s, n, bn, bd) > Reach(n, bn, bd)

\* The target rate, at most 1.
TNum == Min({TargetNum, TargetDen})

MinN == Max({MinAudits, 1})
RelaxMinN == Max({2 * MinN, 8})

\* Step 2: too many wrong cuts at a level, too few right ones, or a wrong one
\* among very few.
Alarm(e) ==
  /\ e.n > 0
  /\ \/ e.n >= MinN /\ UpperAbove(e.wrong, e.n, 23 * TNum, 20 * TargetDen)
     \/ e.n >= MinN /\ LowerBelow(e.right, e.n, 11, 20)
     \/ /\ e.n >= Max({MinN \div 2, 3})
        /\ e.wrong > 0
        /\ UpperAbove(e.wrong, e.n, 3 * TNum, 2 * TargetDen)

Alarms(j) == {p \in Levels : Alarm(ev[j][p])}

Raised(j, a) == Max({a} \cup {Min({p + 1, L}) : p \in Alarms(j)})

\* Mutant of StrongEvidence: precision is not asked for.
StrongEvidenceNoPrecision(j, e) ==
  /\ e.n >= RelaxMinN /\ Overall(j).n >= RelaxMinN
  /\ UpperBelow(e.wrong, e.n, 3 * TNum, 5 * TargetDen)
  /\ UpperBelow(Overall(j).wrong, Overall(j).n, 3 * TNum, 4 * TargetDen)

\* Step 2b: at the level and overall, few wrong cuts and many right ones.
StrongEvidence(j, e) ==
  /\ e.n >= RelaxMinN /\ Overall(j).n >= RelaxMinN
  /\ UpperBelow(e.wrong, e.n, 3 * TNum, 5 * TargetDen)
  /\ UpperBelow(Overall(j).wrong, Overall(j).n, 3 * TNum, 4 * TargetDen)
  /\ LowerAbove(e.right, e.n, 7, 10)
  /\ LowerAbove(Overall(j).right, Overall(j).n, 13, 20)

Relaxed(j, a) ==
  IF a > 1 /\ StrongEvidence(j, ev[j][a - 1]) THEN a - 1 ELSE a

\* Step 3: how many doublings delta_rel[j] is above the baseline, if it is
\* more than a quarter above.
Bumps(j, b) ==
  IF 4 * delta[j] <= 5 * b THEN 0
  ELSE Cardinality({i \in 0 .. delta[j] : b * 2 ^ i < delta[j]})

\* Mutant of Bumped: not kept within the ladder.
BumpedUnclamped(a, k) == a + k

Bumped(a, k) == Min({a + k, L})

\* compute_assignment.
Assignment(j, a, b) == Bumped(Relaxed(j, Raised(j, a)), Bumps(j, b))

\* delta_baseline follows the least positive delta, as long as the first is
\* positive.
NextBaseline ==
  IF delta[1] > 0 THEN Min({delta[j] : j \in Constraints} \ {0}) ELSE baseline

\* Step 1, the recency-weighted quantile of recorded cuts: left open.
BaseRule == [Constraints -> Bases]

\* update_assignment, at every batch boundary.
UpdateAssignment ==
  /\ base' \in BaseRule
  /\ baseline' = NextBaseline
  /\ asg' = [j \in Constraints |-> Assignment(j, base'[j], baseline')]
  /\ fresh' = TRUE
  /\ UNCHANGED evidence

Next ==
  \/ \E j \in Constraints, p \in Levels : BeginAudit(j, p) \/ Judge(j, p)
  \/ \E j \in Constraints : MoveDelta(j)
  \/ UpdateAssignment

Spec == Init /\ [][Next]_vars

-----------------------------------------------------------------------------
(* Properties.                                                             *)

\* Types; in particular a_j in 1..=L.
DidsTypeOK ==
  /\ open \in [Constraints -> [Levels -> Nat]]
  /\ ev \in [Constraints -> [Levels -> [n : Nat, wrong : Nat, right : Nat]]]
  /\ \A j \in Constraints, p \in Levels :
       ev[j][p].wrong + ev[j][p].right <= ev[j][p].n
  /\ delta \in [Constraints -> Deltas]
  /\ base \in BaseRule
  /\ baseline \in Deltas \ {0}
  /\ asg \in [Constraints -> Levels]

\* After update_assignment no constraint may cut at a level whose audits
\* raise an alarm: neither the base rule nor the relaxation of step 2b, whose
\* thresholds are others than the alarm's, takes the raise back.
AlarmedLevelNotUsed ==
  fresh => \A j \in Constraints : \A p \in Alarms(j) : p < L => asg[j] > p

\* No cut can happen at the level, and no evidence for it is awaited.
Closed(j, p) == asg[j] > p /\ open[j][p] = 0 /\ Alarm(ev[j][p])

\* The loop through the engine: once a level is alarmed, out of use and none
\* of its audits is open, no cut happens there any more, so no evidence can
\* clear the alarm and no update_assignment makes the level usable again.
AlarmIsFinal ==
  [][\A j \in Constraints, p \in 1 .. L - 1 : Closed(j, p) => Closed(j, p)']_vars

=============================================================================
