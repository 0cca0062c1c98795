---------------------------- MODULE MCCalibrator ----------------------------
(* Instances of Calibrator: three candidates and two constraints on the    *)
(* staircase of three tolerances and two sample counts.                    *)
EXTENDS Calibrator, LadderPolicy

MCLadder == <<[tau |-> 4, smc |-> 1], [tau |-> 4, smc |-> 2],
              [tau |-> 2, smc |-> 2], [tau |-> 1, smc |-> 2]>>

ASSUME LadderBuilt == MCLadder = RunLadder(<<4, 2, 1>>, <<1, 2>>, 1)

\* truth[s] at TRUTH, and b[s] per unit of tolerance above it.
Point(truth, b) ==
  [p \in 1 .. 4 |-> [s \in 0 .. 2 |->
     truth[s + 1] + b[s + 1] * (Ladder[p].tau - 1)]]

\* Biased alike: a false cut, a true one, one that violates only the other
\* constraint.
Uniform == <<Point(<<0, 0, -8>>, <<4, 4, 4>>),
             Point(<<0, 8, -8>>, <<4, 4, 4>>),
             Point(<<0, -8, 8>>, <<4, 4, 4>>)>>

\* Biased by different amounts, one not at all.
Mixed == <<Point(<<0, 0, -8>>, <<0, 8, 0>>),
           Point(<<4, 0, -8>>, <<4, 4, 0>>),
           Point(<<0, 4, -8>>, <<0, 0, 0>>)>>

\* The sample count matters as well: no linear bias.
Noisy == <<[p \in 1 .. 4 |-> [s \in 0 .. 2 |-> <<12, 8, 4, 0>>[p]]],
           [p \in 1 .. 4 |-> [s \in 0 .. 2 |-> <<4, 8, 4, 0>>[p]]],
           [p \in 1 .. 4 |-> [s \in 0 .. 2 |-> <<8, 8, 8, 8>>[p]]]>>

MCEvaluators == {Uniform, Mixed, Noisy}

\* q = 1, eta = 1: the largest sample at once.
SharpConfig ==
  [learnsK |-> TRUE, targetNum |-> 1, targetDen |-> 2, minAudits |-> 1,
   deltaMin |-> 0, deltaMax |-> 4, kWindow |-> 12, kMinPairs |-> 1,
   qNum |-> 1, qDen |-> 1, etaNum |-> 1, etaDen |-> 1]

\* A median over two samples, two needed.
MedianConfig ==
  [SharpConfig EXCEPT !.kWindow = 2, !.kMinPairs = 2, !.qDen = 2]

\* Smoothing, and a target the rate can stay within.
SmoothConfig ==
  [SharpConfig EXCEPT !.targetNum = 3, !.targetDen = 4, !.kMinPairs = 2,
                      !.etaDen = 2]

\* Out-of-range values that apply_cfg clamps; delta at its lower end.
ClampedConfig ==
  [SharpConfig EXCEPT !.targetNum = 2, !.targetDen = 1, !.minAudits = 0,
                      !.kWindow = 0, !.kMinPairs = 5, !.qNum = 3]

DeltaOnly == [SharpConfig EXCEPT !.learnsK = FALSE, !.minAudits = 2]

MCConfigs ==
  {SharpConfig, MedianConfig, SmoothConfig, ClampedConfig, DeltaOnly}

=============================================================================
