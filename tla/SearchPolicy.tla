---------------------------- MODULE SearchPolicy ----------------------------
(***************************************************************************)
(* The search policies of imads-core/src/policies: DefaultSearch of        *)
(* search.rs and StratifiedSearch of stratified_search.rs, and the         *)
(* projection of their raw points onto the mesh, in one dimension.         *)
(*                                                                         *)
(* Reals are fixed-point: Frac raw units make one unit of the base         *)
(* lattice, so that a raw point lies between mesh points.  The state of a  *)
(* policy is a record; what its generator yields for one candidate is a    *)
(* draw: r, next_f64 in thousandths; move, the signed number of steps of a *)
(* coordinate move; scale and jitter of a directional one; and the point,  *)
(* in raw units per mesh step, of a global one.                            *)
(***************************************************************************)
EXTENDS Integers, Sequences, FiniteSets

CONSTANTS
  Dim,        \* resolved_dim, which decides the mixture of modes
  Halton,     \* propose_halton by index: raw units per mesh step
  None        \* Option::None for a lattice point

Frac == 4

ASSUME SearchAssumption == Dim \in Nat \ {0} /\ Halton \in Seq(Int)

Sign(n) == IF n > 0 THEN 1 ELSE IF n < 0 THEN -1 ELSE 0
Magnitude(n) == IF n < 0 THEN -n ELSE n

\* f64::round of a / b: to the nearest, halves away from zero.
Round(a, b) == Sign(a) * ((2 * Magnitude(a) + b) \div (2 * b))

\* quantize_real_to_aniso_mesh: a multiple of mesh_mul in lattice units.
Quantize(raw, mul) == Round(raw, Frac * mul) * mul

\* SearchPolicy::reset.  The direction 0 is none.
Reset(halton) == [prev |-> None, dir |-> 0, halton |-> halton]

\* Mutant of SetContext: the previous incumbent is kept, not replaced.
SetContextKeepsPrev(s, inc) ==
  IF inc = None THEN s
  ELSE [s EXCEPT !.prev = IF s.prev = None THEN inc ELSE s.prev,
                 !.dir = IF s.prev \notin {None, inc} THEN Sign(inc - s.prev)
                                                     ELSE s.dir]

\* set_context and update_direction: the direction is that of the step from
\* the incumbent of the previous iteration, if it moved.
SetContext(s, inc) ==
  IF inc = None THEN s
  ELSE [s EXCEPT !.prev = inc,
                 !.dir = IF s.prev \notin {None, inc} THEN Sign(inc - s.prev)
                                                     ELSE s.dir]

\* mode_ratios, in thousandths.
ModeRatios(hasDirection) ==
  LET base == IF Dim <= 8 THEN <<600, 200>>
              ELSE IF Dim < 32 THEN <<450, 250>> ELSE <<300, 300>>
  IN  IF hasDirection THEN base ELSE <<base[1] + base[2] \div 2, 0>>

\* Which mode proposes a candidate.
Mode(bundle, s, inc, draw) ==
  LET ratios == IF bundle = "default" THEN <<700, 0>>
                                      ELSE ModeRatios(s.dir # 0)
  IN  CASE inc = None -> "global"
        [] inc # None /\ draw.r < ratios[1] -> "coordinate"
        [] inc # None /\ draw.r \in ratios[1] .. ratios[1] + ratios[2] - 1 ->
             "directional"
        [] OTHER -> "global"

\* The candidates before the k-th that took a point of the Halton sequence.
HaltonBefore(bundle, s, inc, draws, k) ==
  IF bundle = "default" THEN 0
  ELSE Cardinality({j \in 1 .. k - 1 : Mode(bundle, s, inc, draws[j]) = "global"})

\* The raw point of the k-th candidate of propose.
RawPoint(bundle, s, inc, draws, mul, k) ==
  LET d == draws[k]
      mode == Mode(bundle, s, inc, d)
  IN  CASE mode = "coordinate" -> Frac * (inc + d.move * mul)
        [] mode = "directional" ->
             Frac * (inc + s.dir * d.scale * mul) + d.jitter * mul
        [] mode = "global" /\ bundle = "default" -> d.point * mul
        [] mode = "global" /\ bundle # "default" ->
             Halton[s.halton + HaltonBefore(bundle, s, inc, draws, k)] * mul

\* The policy after propose.
AfterPropose(bundle, s, inc, draws) ==
  [s EXCEPT !.halton =
     @ + HaltonBefore(bundle, s, inc, draws, Len(draws) + 1)]

\* score: the squared distance to the incumbent, or to the origin.
Distance2(raw, inc) ==
  LET d == IF inc = None THEN raw ELSE raw - Frac * inc IN d * d

\* What projection promises, on a range of raw points and meshes: the result
\* is on the mesh, nothing on the mesh is nearer, and mesh points stay.
ASSUME QuantizeContract ==
  \A mul \in 1 .. 4, raw \in -20 .. 20 :
    LET x == Quantize(raw, mul) IN
      /\ x % mul = 0
      /\ 2 * Magnitude(Frac * x - raw) <= Frac * mul
      /\ Quantize(Frac * x, mul) = x
=============================================================================
