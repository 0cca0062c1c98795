------------------------------ MODULE MCEngine ------------------------------
(* Instances of Engine: evaluators on the lattice points -2 .. 4 with the  *)
(* cheap constraint 0 <= x <= 2.                                           *)
EXTENDS Engine, LadderPolicy

MCXMesh == -2 .. 4
MCBox == 0 .. 2

E(f, c, s) == [f |-> f, c |-> c, s |-> s]

Abs(n) == IF n < 0 THEN -n ELSE n

InBox == [x \in MCXMesh |-> x \in MCBox]

\* Two tolerances, one sample count.
TwoLevels == <<[tau |-> 2, smc |-> 1], [tau |-> 1, smc |-> 1]>>

\* The staircase over three tolerances and two sample counts: a cut at the
\* second level has a checkpoint on its way to TRUTH.
Staircase == <<[tau |-> 3, smc |-> 1], [tau |-> 3, smc |-> 2],
               [tau |-> 2, smc |-> 2], [tau |-> 1, smc |-> 2]>>

\* They are what the engine builds from such configurations.
ASSUME LaddersBuilt ==
  /\ TwoLevels = RunLadder(<<1, 2>>, <<1, 0>>, 1)
  /\ Staircase = RunLadder(<<3, 2, 1>>, <<2, 1>>, 1)

\* What the contract of trait LadderPolicy asks for (tolerances tighten,
\* sample counts do not decrease), that no level is skipped and that TRUTH is
\* the tightest tolerance with the most samples; for every configuration of
\* up to three levels of each kind, repeated ones included, and the defaults.
LevelLists == UNION {[1 .. n -> 0 .. 3] : n \in 0 .. 3}

ASSUME LadderContract ==
  \A taus, smcs \in LevelLists, dim \in {1, 9, 64} :
    LET rt == ResolveLevels(taus, DefaultTauLevels(dim))
        rs == ResolveLevels(smcs, DefaultSmcLevels(dim))
        l == RunLadder(taus, smcs, dim)
        n == Len(l)
    IN  /\ n = Len(rt) + Len(rs) - 1
        /\ \A p \in 1 .. n - 1 :
             /\ l[p].tau >= l[p + 1].tau /\ l[p].smc <= l[p + 1].smc
             /\ l[p].tau = l[p + 1].tau \/ l[p].smc = l[p + 1].smc
        /\ \A i \in DOMAIN rt : l[1].tau >= rt[i] /\ rt[i] >= l[n].tau
        /\ \A i \in DOMAIN rs : l[1].smc <= rs[i] /\ rs[i] <= l[n].smc

\* Estimates that are off by at most the tolerance below the top level.
Evaluator(f(_), c(_), bf(_, _), bc(_, _), n) ==
  [cheap |-> InBox,
   est |-> [x \in MCXMesh |-> [p \in 1 .. n |->
              IF p = n THEN E(f(x), c(x), 0)
                       ELSE E(f(x) + bf(x, p), c(x) + bc(x, p), 0)]]]

\* A valley at 1, feasible everywhere, exact at every level.
Valley(n) == LET f(x) == Abs(x - 1)
                 c(x) == -1
                 z(x, p) == 0
             IN  Evaluator(f, c, z, z, n)

\* The better the objective the more violated: 2 is infeasible, and at loose
\* levels 1 looks infeasible too.
Ramp(n) == LET f(x) == 2 - x
               c(x) == 4 * (x - 1)
               bf(x, p) == IF x = 0 THEN 1 ELSE 0
               bc(x, p) == IF x = 1 THEN 2 ELSE 0
           IN  Evaluator(f, c, bf, bc, n)

\* Feasible, but looks infeasible at the two loosest levels.
Settling(n) == LET f(x) == x
                   c(x) == 0
                   bf(x, p) == 0
                   bc(x, p) == IF p <= 2 THEN 2 ELSE 0
               IN  Evaluator(f, c, bf, bc, n)

\* A plateau.
Flat(n) == LET f(x) == 1
               c(x) == IF x = 0 THEN 1 ELSE 0
               z(x, p) == 0
           IN  Evaluator(f, c, z, z, n)

\* The valley with an invalid evaluation at the top level of 1.
Broken(n) == [Valley(n) EXCEPT !.est[1][n] = Invalid]

\* ... and with a panicking one.
Crashing(n) == [Valley(n) EXCEPT !.est[1][1] = Panic]

AllTwoLevel == {Valley(2), Ramp(2), Flat(2), Crashing(2)}
AuditedFourLevel == {Ramp(4), Settling(4), Flat(4), Broken(4)}
BiasedTwoLevel == {Ramp(2)}

Exact == [delta |-> 0, k |-> 0]
Bounded == [delta |-> 0, k |-> 1]

ExactOnly == {Exact}
ExactOrBounded == {Exact, Bounded}

=============================================================================
