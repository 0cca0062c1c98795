---------------------------- MODULE MCScheduled ----------------------------
(* Instances of ScheduledEngine: three evaluators, three generators.       *)
EXTENDS ScheduledEngine, LadderPolicy

MCXMesh == -40 .. 40
MCBox == -6 .. 6

\* Three levels: two tolerances, two sample counts.
ThreeLevels == <<[tau |-> 2, smc |-> 1], [tau |-> 2, smc |-> 2],
                 [tau |-> 1, smc |-> 2]>>

ASSUME ThreeLevelsBuilt == ThreeLevels = RunLadder(<<2, 1>>, <<2, 1>>, 1)

Problem(f(_), c(_), bf(_), bc(_)) ==
  [cheap |-> [x \in MCXMesh |-> x \in MCBox],
   est |-> [x \in MCXMesh |-> [p \in 1 .. 3 |->
              IF p = 3 THEN [f |-> f(x), c |-> c(x), s |-> 0]
              ELSE [f |-> f(x) + bf(x), c |-> c(x) + bc(x), s |-> 0]]]]

Zero(x) == 0

\* A valley at -1 without ties, infeasible from 5 on, exact at every level.
Valley == LET f(x) == IF x < -1 THEN -2 * x - 2 ELSE 2 * x + 3
              c(x) == IF x > 4 THEN 1 ELSE -1
          IN  Problem(f, c, Zero, Zero)

\* A plateau: every point is tied.
Plateau == LET f(x) == 3
               c(x) == IF x > 4 THEN 1 ELSE 0
           IN  Problem(f, c, Zero, Zero)

\* The valley, where loose levels overrate the objective on the left and take
\* some points near the origin for infeasible.
Biased == LET f(x) == IF x < -1 THEN -2 * x - 2 ELSE 2 * x + 3
              c(x) == -1
              bf(x) == IF x < 0 THEN 12 ELSE 0
              bc(x) == IF Magnitude(x) \in {1, 2, 4} THEN 2 ELSE 0
          IN  Problem(f, c, bf, bc)

MCProblems == {Valley, Plateau, Biased}

\* Margins before and after a cut was refuted.
Exact == [delta |-> 0, k |-> 0]
Wide == [delta |-> 2, k |-> 0]
ExactOnly == {Exact}
MCThresholds == {Exact, Wide}

\* The events of the batch that ends.
LastBatch(evs) ==
  LET ends == {n \in DOMAIN evs : evs[n] = BatchEnd}
      from == IF ends = {} THEN 0 ELSE CHOOSE n \in ends : \A m \in ends : m <= n
  IN  {evs[n] : n \in from + 1 .. Len(evs)}

IsCut(e) == e.cand.status = "early" \/ e.cand.cut = e.phi

\* An audited candidate turned out feasible.
Refutes(e) == e.cand.status = "truth" /\ e.cand.audit /\ e.est.c <= 0

\* "frozen" learns nothing.  "learning" learns from the first batch, from every
\* batch with a cut and from one that refutes a cut, and once a cut is refuted it
\* widens the margins and cuts no more at the first level.
MCLearn(rule, evs) ==
  LET wide == \E n \in DOMAIN evs : evs[n] # BatchEnd /\ Refutes(evs[n])
      news == \/ \A n \in DOMAIN evs : evs[n] # BatchEnd
              \/ \E e \in LastBatch(evs) : IsCut(e) \/ Refutes(e)
  IN  IF rule = "learning"
        THEN [th |-> IF wide THEN Wide ELSE Exact, asg |-> IF wide THEN 2 ELSE 1,
              learned |-> news]
        ELSE [th |-> Exact, asg |-> 1, learned |-> FALSE]

MCCalibrations == {[start |-> Exact, rule |-> r] : r \in {"frozen", "learning"}}

MCHalton == <<0, 5, -5, 7, -7, 3, -3, 9, -9, 2, -2, 6, -6, 1, -1>>

Draw(r, move, scale, jitter, point) ==
  [r |-> r, move |-> move, scale |-> scale, jitter |-> jitter, point |-> point]

\* Local moves and a directional one that becomes global without a direction.
Local == [halton |-> 1, draws |->
  [i \in 0 .. 3 |-> <<Draw(100, 1, 1, 0, 4), Draw(750, -1, 2, 1, -6),
                      Draw(500, -1, 1, 0, 9)>>]]

\* Two candidates at the same point.
Twins == [halton |-> 2, draws |->
  [i \in 0 .. 3 |-> <<Draw(650, -1, 1, -1, 4), Draw(650, -1, 1, -1, 4),
                      Draw(950, 1, 1, 0, 7)>>]]

\* Global exploration first, then steps away from the incumbent.
Global == [halton |-> 3, draws |->
  [i \in 0 .. 3 |-> <<Draw(900, 2, 1, 0, -5 + i), Draw(300 * i, 2, 3, 1, 3),
                      Draw(400, 1 - i, 1, 0, -9)>>]]

MCSeeds == {Local, Twins, Global}

MCAudits == {<<x, p>> : x \in {-4, -2, 1, 4}, p \in {1}}
=============================================================================
