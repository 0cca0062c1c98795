---------------------------- MODULE LadderPolicy ----------------------------
(***************************************************************************)
(* How the fidelity ladder of a run is built: the levels a configuration   *)
(* gives or leaves to the defaults (resolve_ladder_levels of               *)
(* imads-core/src/core/engine.rs) and the staircase through them           *)
(* (StaircaseLadder of imads-core/src/policies/ladder.rs).                 *)
(***************************************************************************)
LOCAL INSTANCE Integers
LOCAL INSTANCE Sequences
LOCAL INSTANCE TLC

\* default_tau_levels.
DefaultTauLevels(dim) ==
  IF dim >= 64 THEN <<1000, 100, 10, 1>> ELSE <<100, 10, 1>>

\* default_smc_levels: the base sample count and two multiples of it.
DefaultSmcLevels(dim) ==
  LET base == CASE dim <= 8 -> 8 [] dim > 8 /\ dim <= 32 -> 16 [] OTHER -> 32
  IN  <<base, 4 * base, 16 * base>>

\* The levels of one kind: the default if there are none, the positive ones
\* otherwise, and 1 if none is left.
ResolveLevels(given, default) ==
  LET kept == SelectSeq(IF given = << >> THEN default ELSE given,
                        LAMBDA v : v > 0)
  IN  IF kept = << >> THEN <<1>> ELSE kept

\* build_ladder: from the loosest tolerance and the least sample count,
\* alternately the next sample count and the next tolerance, as far as there
\* are any.
BuildLadder(taus, smcs) ==
  LET tau == SortSeq(taus, >)
      smc == SortSeq(smcs, <)
      Next(i, n) == IF i < n THEN i + 1 ELSE n
      Phi(i, s) == [tau |-> tau[i], smc |-> smc[s]]
      Push(more, i, s) == IF more THEN <<Phi(i, s)>> ELSE << >>
      climb[i \in 1 .. Len(tau), s \in 1 .. Len(smc)] ==
        LET i2 == Next(i, Len(tau))
            s2 == Next(s, Len(smc))
        IN  IF i = i2 /\ s = s2
              THEN << >>
              ELSE Push(s < s2, i, s2) \o Push(i < i2, i2, s2) \o climb[i2, s2]
  IN  <<Phi(1, 1)>> \o climb[1, 1]

\* The ladder of a run.
RunLadder(taus, smcs, dim) ==
  BuildLadder(ResolveLevels(taus, DefaultTauLevels(dim)),
              ResolveLevels(smcs, DefaultSmcLevels(dim)))

=============================================================================
