-------------------------- MODULE ScheduledProofs --------------------------
(***************************************************************************)
(* Proofs about ScheduledEngine, for every problem, generator and search   *)
(* policy: its steps are steps of Engine, so that what Engine promises     *)
(* holds of it, the search follows the moves of the incumbent, nested      *)
(* meshes keep the incumbent, the queue is served in its order, a run is   *)
(* determined by its start, through the core of ScheduledCore, whatever    *)
(* policies are learned on the way, and the results of two runs without a  *)
(* revised policy do not depend on the number of workers where the order   *)
(* of evaluation is all they change.                                       *)
(***************************************************************************)
EXTENDS ScheduledCore, EngineBestProofs

-----------------------------------------------------------------------------
(* The invariants.                                                         *)

\* The incumbents by iteration: there is one from some iteration on, and then
\* for the rest of the run.
TrackKept ==
  /\ track \in Seq(XMesh \cup {NoX})
  /\ \A k \in 1 .. Len(track) - 1 : track[k] # NoX => track[k + 1] # NoX
  /\ \A k \in 1 .. Len(track) : track[k] # NoX => xBest # NoX
  /\ phase = "propose" => Len(track) = iter
  /\ InSteps => Len(track) = iter + 1

\* The policy remembers the incumbent of the last iteration, and has taken at
\* most as many points of the Halton sequence as it made proposals.
SearchKept ==
  /\ bundle \in Bundles /\ seed \in Seeds
  /\ search \in [prev : XMesh \cup {NoX}, dir : {-1, 0, 1}, halton : Nat]
  /\ search.prev = IF track = << >> THEN NoX ELSE track[Len(track)]
  /\ search.halton >= seed.halton
  /\ search.halton <= seed.halton + PerIter * Len(track)

\* Multipliers that are divisible repeatedly, if the parameters allow it.
Chain ==
  CHOOSE M \in SUBSET (1 .. Larger(MulInit, 1)) :
    Larger(MulInit, 1) \in M /\ DivisibleRepeatedly(M)

\* With nested meshes every candidate, of whatever iteration, is a point of
\* the current mesh.
StoreOnMesh ==
  Nested => mul \in Chain /\ \A i \in DOMAIN cands : OnMesh(cands[i].x)

\* What the queue holds of candidate c: a poll point's score is infinite, and
\* a search point's is small beside the audit bonus; last_estimates are there
\* once a level is behind it.
InfoOK(e, c, s, now) ==
  /\ c.epoch <= now
  /\ IF c.poll THEN s.base = Infinity ELSE 4 * s.base < AuditBonus
  /\ s.last = 0 => c.next = 1
  /\ c.status = "ready" /\ s.last # 0 => e.est[c.x][s.last] \in Estimates

InfoKept ==
  /\ info \in Seq([base : Nat, last : 0 .. L])
  /\ Len(info) = Len(cands)
  /\ \A i \in DOMAIN cands : InfoOK(ev, cands[i], info[i], iter)

ScheduledInv ==
  /\ EngineInv /\ SearchInv
  /\ calib \in Calibrations
  /\ TrackKept /\ SearchKept /\ DirectionIsLastMove
  /\ StoreOnMesh /\ InfoKept

-----------------------------------------------------------------------------
(* Divisibility.                                                           *)

\* A multiple is divisible.
LEMMA MultipleDivides ==
  ASSUME NEW a \in Int, NEW m \in Nat \ {0}
  PROVE  (a * m) % m = 0
<1>1. PICK q \in Int, r \in Int : q = (a * m) \div m /\ r = (a * m) % m
  OBVIOUS
<1>2. a * m = m * q + r /\ 0 <= r /\ r < m
  BY <1>1
<1>3. r = m * (a - q)
  BY <1>2
<1>4. CASE a - q >= 1
  <2>1. \A x \in Nat \ {0}, y \in Int : y >= 1 => x * y >= x
    OBVIOUS
  <2> QED BY <1>2, <1>3, <1>4, <2>1
<1>5. CASE a - q <= -1
  <2>1. \A x \in Nat \ {0}, y \in Int : y <= -1 => x * y <= -x
    OBVIOUS
  <2> QED BY <1>2, <1>3, <1>5, <2>1
<1>6. CASE a - q = 0
  BY <1>1, <1>3, <1>6
<1> QED BY <1>4, <1>5, <1>6

\* What is divisible is a multiple.
LEMMA DividesMultiple ==
  ASSUME NEW x \in Int, NEW m \in Nat \ {0}, x % m = 0
  PROVE  x = (x \div m) * m /\ x \div m \in Int
<1>1. x = m * (x \div m) + (x % m) /\ x \div m \in Int
  OBVIOUS
<1> QED BY <1>1

\* Divisibility is transitive.
LEMMA DividesThrough ==
  ASSUME NEW x \in Int, NEW m \in Nat \ {0}, NEW n \in Nat \ {0},
         x % m = 0, m % n = 0
  PROVE  x % n = 0
<1>1. PICK a \in Int : x = a * m
  BY DividesMultiple
<1>2. PICK b \in Int : m = b * n
  BY DividesMultiple
<1>3. x = (a * b) * n /\ a * b \in Int
  BY <1>1, <1>2
<1> QED BY <1>3, MultipleDivides

\* The multipliers of the chain: refining one of them leads to another, which
\* divides it.
LEMMA ChainRefines ==
  ASSUME Nested, mul \in Chain
  PROVE  /\ Larger(MulInit, 1) \in Chain
         /\ mul \in Nat \ {0} /\ Refined \in Chain /\ Refined \in Nat \ {0}
         /\ mul % Refined = 0
<1> DEFINE minm == Larger(MulMin, 1)
           d == Larger(RefineDiv, 2)
           top == Larger(MulInit, 1)
<1>1. minm \in Nat \ {0} /\ d \in Nat /\ d >= 2 /\ top \in Nat
  BY EngineAssumption DEF Larger
<1>2. /\ Chain \in SUBSET (1 .. top) /\ top \in Chain
      /\ DivisibleRepeatedly(Chain)
  BY DEF Nested, Chain
<1>3. /\ mul \in Nat \ {0} /\ mul >= minm
      /\ mul > minm => mul % d = 0 /\ mul \div d \in Chain
  BY <1>1, <1>2 DEF DivisibleRepeatedly
<1>r. Refined = IF mul > minm THEN Larger(mul \div d, minm) ELSE mul
  BY DEF Refined
<1> HIDE DEF minm, d
<1>4. CASE mul > minm
  <2> DEFINE q == mul \div d
  <2>1. q \in Chain /\ q >= minm /\ q \in Nat \ {0}
    BY <1>1, <1>2, <1>3, <1>4 DEF DivisibleRepeatedly, minm
  <2>2. Refined = q
    BY <1>1, <1>4, <1>r, <2>1 DEF Larger
  <2>3. mul = q * d
    BY <1>1, <1>3, <1>4, DividesMultiple
  <2> HIDE DEF q
  <2>4. (d * q) % q = 0
    BY <1>1, <2>1, MultipleDivides
  <2>5. q * d = d * q
    BY <1>1, <2>1
  <2> QED BY <1>2, <1>3, <2>1, <2>2, <2>3, <2>4, <2>5
<1>5. CASE ~(mul > minm)
  <2>1. Refined = mul
    BY <1>5, <1>r
  <2>2. (1 * mul) % mul = 0
    BY <1>3, MultipleDivides
  <2>3. 1 * mul = mul
    BY <1>3
  <2> QED BY <1>2, <1>3, <2>1, <2>2, <2>3
<1> QED BY <1>4, <1>5

-----------------------------------------------------------------------------
(* The direction of the search.                                            *)

\* A set of moves that is not empty has a last one.
LEMMA LastMoveExists ==
  ASSUME NEW t, Len(t) \in Nat, Moves(t) # {}
  PROVE  LastMove(t) \in Moves(t) /\ \A k \in Moves(t) : k <= LastMove(t)
<1> DEFINE bounds == {b \in Nat : \A k \in Moves(t) : k <= b}
<1>1. Moves(t) \subseteq Nat \ {0} /\ \A k \in Moves(t) : k <= Len(t)
  BY DEF Moves
<1>2. bounds \in SUBSET Nat /\ bounds # {}
  BY <1>1
<1>3. PICK b \in bounds : \A c \in bounds : b <= c
  BY <1>2, LeastExists
<1>4. b \in Moves(t)
  <2> SUFFICES ASSUME b \notin Moves(t) PROVE FALSE
    OBVIOUS
  <2>1. \A k \in Moves(t) : k <= b - 1 /\ b - 1 \in Nat
    BY <1>1, <1>3
  <2>2. b - 1 \in bounds
    BY <2>1
  <2> QED BY <1>3, <2>2
<1>5. b \in Moves(t) /\ \A k \in Moves(t) : k <= b
  BY <1>3, <1>4
<1> QED BY <1>5 DEF LastMove

\* One more iteration, with incumbent x: the direction is that of the step to
\* x if there was one, and else what it was.
LEMMA DirectionAppended ==
  ASSUME NEW t \in Seq(XMesh \cup {NoX}), NEW x \in XMesh \cup {NoX}
  PROVE  LastDirection(Append(t, x)) =
           IF t # << >> /\ t[Len(t)] \notin {NoX, x} THEN Sign(x - t[Len(t)])
                                                  ELSE LastDirection(t)
<1> DEFINE n == Len(t)
           u == Append(t, x)
<1>1. /\ n \in Nat /\ Len(u) = n + 1 /\ u[n + 1] = x
      /\ \A k \in 1 .. n : u[k] = t[k]
      /\ t = << >> <=> n = 0
  OBVIOUS
<1> HIDE DEF u, n
<1>2. CASE t # << >> /\ t[n] \notin {NoX, x}
  <2>1. n \in Moves(u) /\ \A k \in Moves(u) : k <= n
    BY <1>1, <1>2 DEF Moves
  <2>2. LastMove(u) \in Moves(u) /\ n <= LastMove(u)
    BY <1>1, <2>1, LastMoveExists
  <2>3. LastMove(u) = n
    <3>1. LastMove(u) \in Nat /\ LastMove(u) <= n
      BY <1>1, <2>1, <2>2 DEF Moves
    <3> QED BY <1>1, <2>2, <3>1
  <2>4. u[n] = t[n]
    BY <1>1, <1>2
  <2>5. LastDirection(u) = Sign(x - t[n])
    BY <1>1, <2>1, <2>3, <2>4 DEF LastDirection
  <2> QED BY <1>2, <2>5 DEF u, n
<1>3. CASE ~(t # << >> /\ t[n] \notin {NoX, x})
  <2>1. Moves(u) = Moves(t)
    <3>1. ASSUME NEW k \in Moves(u) PROVE k \in Moves(t)
      <4>1. k \in 1 .. n /\ u[k] # NoX /\ u[k] # u[k + 1]
        BY <1>1 DEF Moves
      <4>2. k # n
        BY <1>1, <1>3, <4>1
      <4>3. k \in 1 .. n - 1 /\ u[k] = t[k] /\ u[k + 1] = t[k + 1]
        BY <1>1, <4>1, <4>2
      <4> QED BY <4>1, <4>3 DEF Moves, n
    <3>2. ASSUME NEW k \in Moves(t) PROVE k \in Moves(u)
      <4>1. k \in 1 .. n - 1 /\ t[k] # NoX /\ t[k] # t[k + 1]
        BY DEF Moves, n
      <4>2. k \in 1 .. Len(u) - 1 /\ u[k] = t[k] /\ u[k + 1] = t[k + 1]
        BY <1>1, <4>1
      <4> QED BY <4>1, <4>2 DEF Moves
    <3> QED BY <3>1, <3>2
  <2>2. LastMove(u) = LastMove(t)
    BY <2>1 DEF LastMove
  <2>3. CASE Moves(t) = {}
    <3>1. LastDirection(u) = LastDirection(t)
      BY <2>1, <2>3 DEF LastDirection
    <3> QED BY <1>3, <3>1 DEF u, n
  <2>4. CASE Moves(t) # {}
    <3>1. LastMove(t) \in 1 .. n - 1
      BY <1>1, <2>4, LastMoveExists DEF Moves, n
    <3>2. u[LastMove(t)] = t[LastMove(t)] /\ u[LastMove(t) + 1] = t[LastMove(t) + 1]
      BY <1>1, <3>1
    <3>3. LastDirection(u) = LastDirection(t)
      BY <2>1, <2>2, <3>2 DEF LastDirection
    <3> QED BY <1>3, <3>3 DEF u, n
  <2> QED BY <2>3, <2>4
<1> QED BY <1>2, <1>3

-----------------------------------------------------------------------------
(* Proposals.                                                              *)

\* What the invariant says of the state, in one place.
LEMMA Facts ==
  ASSUME ScheduledInv
  PROVE  /\ ev \in Evaluators /\ phase \in Phases /\ iter \in 0 .. MaxIters
         /\ phase # "done" => iter < MaxIters
         /\ mul \in 1 .. Larger(MulInit, 1) /\ mul \in Nat \ {0}
         /\ cands \in Seq(Candidate) /\ xBest \in XMesh \cup {NoX}
         /\ NoX \notin XMesh /\ XMesh \subseteq Int /\ PerIter \in Nat
         /\ track \in Seq(XMesh \cup {NoX}) /\ Len(track) \in Nat
         /\ None = NoX
<1>1. /\ ev \in Evaluators /\ phase \in Phases /\ iter \in 0 .. MaxIters
      /\ phase # "done" => iter < MaxIters
      /\ mul \in 1 .. Larger(MulInit, 1)
      /\ cands \in Seq(Candidate) /\ xBest \in XMesh \cup {NoX}
  BY DEF ScheduledInv, EngineInv, EngineTypes
<1>2. NoX \notin XMesh /\ XMesh \subseteq Int /\ PerIter \in Nat
      /\ Larger(MulInit, 1) \in Nat
  BY EngineAssumption DEF Larger
<1>3. track \in Seq(XMesh \cup {NoX})
  BY DEF ScheduledInv, TrackKept
<1>4. Len(track) \in Nat
  BY <1>3
<1>5. None = NoX
  BY ScheduleAssumption
<1>6. mul \in Nat \ {0}
  BY <1>1, <1>2
<1> QED BY <1>1, <1>2, <1>3, <1>4, <1>5, <1>6

\* An incumbent passes the cheap constraints and is in the store.
LEMMA IncumbentKnown ==
  ASSUME ScheduledInv, xBest # NoX
  PROVE  /\ xBest \in XMesh /\ ev.cheap[xBest]
         /\ \E j \in DOMAIN cands : cands[j].x = xBest
<1>1. PICK j \in DOMAIN cands : cands[j].status = "truth" /\ cands[j].x = xBest
  BY DEF ScheduledInv, EngineInv, Best
<1>2. ev.cheap[xBest]
  BY <1>1 DEF ScheduledInv, EngineInv, Candidates, CandidateOK
<1>3. xBest \in XMesh
  BY Facts
<1> QED BY <1>1, <1>2, <1>3

\* set_context leaves the policy with the present incumbent.
LEMMA ContextSet ==
  ASSUME ScheduledInv
  PROVE  \E dir \in {-1, 0, 1} :
           /\ SetContext(search, xBest) =
                [prev |-> xBest, dir |-> dir, halton |-> search.halton]
           /\ dir = LastDirection(Append(track, xBest))
<1> DEFINE last == IF track = << >> THEN NoX ELSE track[Len(track)]
           d == IF last \notin {NoX, xBest} THEN Sign(xBest - last) ELSE search.dir
<1>1. /\ search \in [prev : XMesh \cup {NoX}, dir : {-1, 0, 1}, halton : Nat]
      /\ search.prev = last /\ search.dir = LastDirection(track)
  BY DEF ScheduledInv, SearchKept, DirectionIsLastMove
<1>2. last # NoX => xBest # NoX
  BY Facts DEF ScheduledInv, TrackKept
<1>3. LastDirection(Append(track, xBest)) = d
  <2>1. track \in Seq(XMesh \cup {NoX}) /\ xBest \in XMesh \cup {NoX}
    BY Facts
  <2>2. LastDirection(Append(track, xBest)) =
          IF track # << >> /\ track[Len(track)] \notin {NoX, xBest}
            THEN Sign(xBest - track[Len(track)]) ELSE LastDirection(track)
    BY <2>1, DirectionAppended
  <2> QED BY <1>1, <2>2
<1>4. d \in {-1, 0, 1}
  BY <1>1 DEF Sign
<1>5. None = NoX
  BY Facts
<1> HIDE DEF last
<1>6. SetContext(search, xBest) = [prev |-> xBest, dir |-> d, halton |-> search.halton]
  <2>1. CASE xBest = NoX
    <3>1. SetContext(search, xBest) = search
      BY <1>5, <2>1 DEF SetContext
    <3>2. last = NoX
      BY <1>2, <2>1
    <3> QED BY <1>1, <2>1, <3>1, <3>2
  <2>2. CASE xBest # NoX
    <3>1. SetContext(search, xBest) = [search EXCEPT !.prev = xBest, !.dir = d]
      BY <1>1, <1>5, <2>2 DEF SetContext
    <3> QED BY <1>1, <3>1
  <2> QED BY <2>1, <2>2
<1> QED BY <1>3, <1>4, <1>6

\* Projection yields a multiple of mesh_mul.
LEMMA QuantizedOnMesh ==
  ASSUME NEW raw \in Int, NEW m \in Nat \ {0}
  PROVE  Quantize(raw, m) % m = 0
<1> DEFINE b == Frac * m
           a == 2 * Magnitude(raw) + b
<1>1. Magnitude(raw) \in Nat /\ Sign(raw) \in Int
  BY DEF Magnitude, Sign
<1>2. b \in Nat \ {0} /\ 2 * b \in Nat \ {0}
  BY DEF Frac
<1>3. a \in Nat
  BY <1>1, <1>2
<1> HIDE DEF a, b
<1>4. a \div (2 * b) \in Int
  BY <1>2, <1>3
<1>5. Sign(raw) * (a \div (2 * b)) \in Int
  BY <1>1, <1>4
<1>6. Quantize(raw, m) = (Sign(raw) * (a \div (2 * b))) * m
  BY DEF Quantize, Round, a, b
<1> QED BY <1>5, <1>6, MultipleDivides

\* The proposals of an iteration are points of the box and of the mesh.
LEMMA ProposalsOnMesh ==
  ASSUME ScheduledInv, phase = "propose", NEW k \in 1 .. PerIter
  PROVE  LET raw == RawPoint(bundle, SetContext(search, xBest), xBest,
                             seed.draws[iter], mul, k)
         IN  /\ raw \in Int /\ 4 * Distance(raw, xBest) < AuditBonus
             /\ Quantize(raw, mul) \in {x \in SearchBox : OnMesh(x)}
<1>1. PICK dir \in {-1, 0, 1} :
        SetContext(search, xBest) = [prev |-> xBest, dir |-> dir, halton |-> search.halton]
  BY ContextSet
<1>2. /\ bundle \in Bundles /\ seed \in Seeds /\ search.halton \in Nat
      /\ search.halton >= seed.halton
      /\ search.halton <= seed.halton + PerIter * iter
      /\ iter \in 0 .. MaxIters - 1
  <2>1. Len(track) = iter
    BY DEF ScheduledInv, TrackKept
  <2>2. iter \in 0 .. MaxIters - 1
    BY Facts, EngineAssumption
  <2> QED BY <2>1, <2>2 DEF ScheduledInv, SearchKept
<1>3. PICK n \in 0 .. PerIter * iter : search.halton = seed.halton + n
  <2>1. seed.halton \in Nat
    BY <1>2, ScheduleAssumption
  <2>2. PerIter \in Nat /\ iter \in Nat /\ PerIter * iter \in Nat
    BY <1>2, Facts
  <2>3. search.halton - seed.halton \in 0 .. PerIter * iter
    BY <1>2, <2>1, <2>2
  <2>4. search.halton = seed.halton + (search.halton - seed.halton)
    BY <1>2, <2>1
  <2> QED BY <2>3, <2>4
<1>4. xBest \in {x \in XMesh : \E e \in Evaluators : e.cheap[x]} \cup {NoX}
  BY Facts, IncumbentKnown
<1>5. mul \in 1 .. Larger(MulInit, 1) /\ mul \in Nat \ {0}
  BY Facts
<1> DEFINE raw == RawPoint(bundle, [prev |-> xBest, dir |-> dir, halton |-> seed.halton + n],
                           xBest, seed.draws[iter], mul, k)
<1>6. /\ raw \in Int /\ Quantize(raw, mul) \in SearchBox
      /\ 4 * Distance(raw, xBest) < AuditBonus
  BY <1>2, <1>3, <1>4, <1>5, ProposalsAssumption
<1>7. raw = RawPoint(bundle, SetContext(search, xBest), xBest, seed.draws[iter], mul, k)
  BY <1>1, <1>3
<1> HIDE DEF raw
<1>8. OnMesh(Quantize(raw, mul))
  BY <1>5, <1>6, QuantizedOnMesh DEF OnMesh
<1> QED BY <1>6, <1>7, <1>8

\* What the search proposes is one of the choices Engine leaves open.
LEMMA ProposeIsPropose ==
  ASSUME ScheduledInv, ScheduledPropose
  PROVE  Propose
<1> DEFINE raw == [k \in 1 .. PerIter |->
                     RawPoint(bundle, SetContext(search, xBest), xBest,
                              seed.draws[iter], mul, k)]
           xs == [k \in 1 .. PerIter |-> Quantize(raw[k], mul)]
<1>1. Ingest(xs) /\ phase = "propose"
  BY DEF ScheduledPropose, Ingest
<1>2. \A k \in 1 .. PerIter : xs[k] \in {x \in SearchBox : OnMesh(x)}
  BY <1>1, ProposalsOnMesh
<1>3. xs \in [1 .. PerIter -> {x \in SearchBox : OnMesh(x)}]
  BY <1>2
<1> HIDE DEF xs
<1> QED BY <1>1, <1>3 DEF Propose

-----------------------------------------------------------------------------
(* Every step is a step of Engine.                                         *)

\* The actions other than a change of engine, as Engine sees them.
LEMMA StepIsEngineStep ==
  ASSUME ScheduledInv, [ScheduledNext]_allVars
  PROVE  [Next]_vars \/ RunAnotherEngine
<1>1. CASE ScheduledPropose
  BY <1>1, ProposeIsPropose DEF Next, Step
<1>2. CASE ScheduledPoll
  BY <1>2 DEF ScheduledPoll, Next, Step
<1>3. CASE ScheduledDispatch
  BY <1>3 DEF ScheduledDispatch, Dispatch, Next, Step
<1>4. CASE ScheduledUpdate \/ Elsewhere
  BY <1>4 DEF ScheduledUpdate, Elsewhere, Next, Step
<1>5. ASSUME NEW i \in DOMAIN work, ScheduledMaterialize(i) PROVE Next
  BY <1>5 DEF ScheduledMaterialize, Next, Step
<1>6. CASE Finished \/ UNCHANGED allVars
  BY <1>6 DEF Finished, allVars
<1> QED BY <1>1, <1>2, <1>3, <1>4, <1>5, <1>6 DEF ScheduledNext

\* Another engine starts like the first one did.
LEMMA AnotherEngine ==
  ASSUME EngineInv, SearchInv, calib \in Calibrations, RunAnotherEngine
  PROVE  EngineInv' /\ SearchInv'
<1>1. LoopPhase(0) \in {"propose", "done"}
  BY DEF LoopPhase
<1>2. DOMAIN work = {} /\ run \in 1 .. Larger(MaxRuns, 1)
  BY DEF RunAnotherEngine, EngineInv, EngineTypes, Batch
<1>3. run' \in 1 .. Larger(MaxRuns, 1) /\ run' # 1
  BY <1>2, EngineAssumption DEF RunAnotherEngine, Larger
<1>4. AcceptTypeOK'
  <2>1. InitialBarrier \in Nat /\ InitialBarrier >= HFloor
    BY <1>1, FreshRun
  <2>2. IsFiniteSet({})
    BY FS_EmptySet
  <2> QED BY <2>1, <2>2 DEF RunAnotherEngine, AcceptTypeOK, HFloor
<1>5. EngineTypes'
  <2>1. /\ Larger(MulInit, 1) \in 1 .. Larger(MulInit, 1)
        /\ 0 \in 0 .. MaxIters /\ (LoopPhase(0) # "done" => 0 < MaxIters)
    BY <1>1, FreshRun
  <2>2. cands' \in Seq(Candidate)
    BY EmptySeq DEF RunAnotherEngine
  <2>3. /\ ev' \in Evaluators /\ budget' \in StepBudgets
        /\ th' \in Thresholds /\ asg' \in Levels /\ rev' \in Nat
    <3>1. calib.start \in Thresholds
      BY ScheduleAssumption, EngineAssumption
    <3>2. 1 \in Levels
      BY LadderAssumption DEF Levels
    <3> QED BY <3>1, <3>2 DEF RunAnotherEngine, EngineInv, EngineTypes
  <2> QED BY <1>1, <1>3, <1>4, <2>1, <2>2, <2>3 DEF RunAnotherEngine, EngineTypes, Phases
<1>6. /\ DOMAIN cands' = {} /\ DOMAIN work' = {}
      /\ DOMAIN evalCache' = {} /\ DOMAIN decCache' = {}
  BY <1>2 DEF RunAnotherEngine, EmptyCache
<1>7. EvalTrue' /\ DecTrue' /\ Candidates' /\ FirstRun' /\ StoppedIsBeaten' /\ Batch'
  BY <1>3, <1>6 DEF EvalTrue, DecTrue, Candidates, FirstRun, StoppedIsBeaten, Batch
<1>8. Best'
  <2>1. FeasibleOnly => InitialBarrier = 0
    BY <1>1, FreshRun
  <2> QED BY <2>1 DEF Best, RunAnotherEngine, FeasibleOnly
<1>9. ~InSteps'
  BY <1>1 DEF RunAnotherEngine, InSteps
<1>10. Unlimited' /\ PollLast' /\ PollFails'
  BY <1>9 DEF Unlimited, PollLast, PollFails, Polling, InSteps
<1>11. Lowest' /\ NearBest'
  BY <1>6 DEF RunAnotherEngine, Lowest, NearBest, IncumbentLowest, FirstCopyKept
<1> QED BY <1>5, <1>7, <1>8, <1>10, <1>11 DEF EngineInv, SearchInv

\* So the invariants of Engine are kept.
LEMMA EngineKept ==
  ASSUME ScheduledInv, [ScheduledNext]_allVars
  PROVE  EngineInv' /\ SearchInv'
<1>1. EngineInv /\ SearchInv /\ calib \in Calibrations
  BY DEF ScheduledInv
<1> QED BY <1>1, StepIsEngineStep, AnotherEngine, EngineStep, SearchStep

-----------------------------------------------------------------------------
(* The search keeps its place.                                             *)

\* An iteration is opened: the policy and the history move on together.
LEMMA ProposeKept ==
  ASSUME ScheduledInv, ScheduledPropose
  PROVE  TrackKept' /\ SearchKept' /\ DirectionIsLastMove'
<1> DEFINE draws == seed.draws[iter]
           s == SetContext(search, xBest)
           taken == HaltonBefore(bundle, s, xBest, draws, Len(draws) + 1)
<1>0. /\ search' = AfterPropose(bundle, s, xBest, draws)
      /\ track' = Append(track, xBest)
      /\ bundle' = bundle /\ seed' = seed
      /\ phase = "propose" /\ phase' = "select"
      /\ iter' = iter /\ xBest' = xBest
  BY DEF ScheduledPropose, Ingest, bestVars
<1>1. PICK dir \in {-1, 0, 1} :
        /\ s = [prev |-> xBest, dir |-> dir, halton |-> search.halton]
        /\ dir = LastDirection(Append(track, xBest))
  BY ContextSet
<1>2. /\ track \in Seq(XMesh \cup {NoX}) /\ xBest \in XMesh \cup {NoX}
      /\ Len(track) \in Nat /\ Len(track) = iter /\ PerIter \in Nat
      /\ iter \in 0 .. MaxIters - 1
  <2>1. Len(track) = iter
    BY <1>0 DEF ScheduledInv, TrackKept
  <2>2. MaxIters \in Nat
    BY EngineAssumption
  <2>3. iter \in 0 .. MaxIters /\ iter < MaxIters
    BY <1>0, Facts
  <2>4. iter \in 0 .. MaxIters - 1
    BY <2>2, <2>3
  <2> QED BY <2>1, <2>4, Facts
<1>3. /\ track' \in Seq(XMesh \cup {NoX}) /\ Len(track') = Len(track) + 1
      /\ track'[Len(track) + 1] = xBest /\ track' # << >>
      /\ \A k \in 1 .. Len(track) : track'[k] = track[k]
  BY <1>0, <1>2
<1>4. \A k \in 1 .. Len(track) : track[k] # NoX => xBest # NoX
  BY DEF ScheduledInv, TrackKept
<1>5. TrackKept'
  <2>1. ASSUME NEW k \in 1 .. Len(track') - 1, track'[k] # NoX
        PROVE  track'[k + 1] # NoX
    <3>1. k \in 1 .. Len(track) /\ track[k] # NoX
      BY <1>2, <1>3, <2>1
    <3>2. CASE k = Len(track)
      BY <1>3, <1>4, <3>1, <3>2
    <3>3. CASE k # Len(track)
      <4>1. k \in 1 .. Len(track) - 1 /\ k + 1 \in 1 .. Len(track)
        BY <1>2, <3>1, <3>3
      <4> QED BY <1>3, <3>1, <4>1 DEF ScheduledInv, TrackKept
    <3> QED BY <3>2, <3>3
  <2>2. \A k \in 1 .. Len(track') : track'[k] # NoX => xBest' # NoX
    BY <1>0, <1>2, <1>3, <1>4
  <2>3. Len(track') = iter' + 1 /\ phase' # "propose"
    BY <1>0, <1>2, <1>3
  <2> QED BY <1>3, <2>1, <2>2, <2>3 DEF TrackKept
<1>6. taken \in 0 .. PerIter
  <2>1. seed \in Seeds
    BY DEF ScheduledInv, SearchKept
  <2>2. Len(draws) = PerIter
    BY <1>2, <2>1, ScheduleAssumption
  <2> DEFINE G == {j \in 1 .. Len(draws) + 1 - 1 :
                     Mode(bundle, s, xBest, draws[j]) = "global"}
  <2>3. taken = IF bundle = "default" THEN 0 ELSE Cardinality(G)
    BY DEF HaltonBefore
  <2>4. G \in SUBSET (1 .. PerIter)
    BY <1>2, <2>2
  <2> HIDE DEF G
  <2>5. IsFiniteSet(1 .. PerIter) /\ Cardinality(1 .. PerIter) = PerIter
    BY <1>2, FS_Interval
  <2>6. IsFiniteSet(G) /\ Cardinality(G) <= Cardinality(1 .. PerIter)
    BY <2>4, <2>5, FS_Subset, Zenon
  <2>7. Cardinality(G) \in Nat
    BY <2>6, FS_CardinalityType
  <2> HIDE DEF taken
  <2> QED BY <1>2, <2>3, <2>5, <2>6, <2>7
<1> HIDE DEF taken, s, draws
<1>7. search' = [prev |-> xBest, dir |-> dir, halton |-> search.halton + taken]
  BY <1>0, <1>1 DEF AfterPropose, taken
<1>8. /\ bundle \in Bundles /\ seed \in Seeds /\ search.halton \in Nat
      /\ search.halton >= seed.halton /\ seed.halton \in Nat
      /\ search.halton <= seed.halton + PerIter * Len(track)
  BY ScheduleAssumption DEF ScheduledInv, SearchKept
<1>9. SearchKept'
  <2>1. search' \in [prev : XMesh \cup {NoX}, dir : {-1, 0, 1}, halton : Nat]
    BY <1>2, <1>6, <1>7, <1>8
  <2>2. search'.prev = track'[Len(track')]
    BY <1>2, <1>3, <1>7
  <2>3. search'.halton = search.halton + taken
    BY <1>7
  <2>4. PerIter * (Len(track) + 1) = PerIter * Len(track) + PerIter
        /\ PerIter * Len(track) \in Nat
    BY <1>2
  <2>5. /\ search'.halton >= seed'.halton
        /\ search'.halton <= seed'.halton + PerIter * Len(track')
    BY <1>0, <1>2, <1>3, <1>6, <1>8, <2>3, <2>4
  <2> QED BY <1>0, <1>3, <1>8, <2>1, <2>2, <2>5 DEF SearchKept
<1>10. DirectionIsLastMove'
  BY <1>0, <1>1, <1>7 DEF DirectionIsLastMove
<1> QED BY <1>5, <1>9, <1>10

\* A step that leaves the search alone and does not lose the incumbent.
LEMMA SearchUntouched ==
  ASSUME ScheduledInv, UNCHANGED <<bundle, seed, search, track>>,
         xBest # NoX => xBest' # NoX,
         phase' = "propose" => Len(track) = iter',
         InSteps' => Len(track) = iter' + 1
  PROVE  TrackKept' /\ SearchKept' /\ DirectionIsLastMove'
<1>1. TrackKept'
  BY DEF ScheduledInv, TrackKept
<1>2. SearchKept'
  BY DEF ScheduledInv, SearchKept
<1>3. DirectionIsLastMove'
  BY DEF ScheduledInv, DirectionIsLastMove
<1> QED BY <1>1, <1>2, <1>3

\* Processing an outcome: the candidate keeps its point, and the incumbent, if
\* it changes, becomes that of the candidate.
LEMMA Processed ==
  ASSUME ScheduledInv, NEW i, Materialize(i)
  PROVE  /\ UNCHANGED <<iter, mul>> /\ phase = "join"
         /\ phase' \in {"join", "panicked"}
         /\ xBest # NoX => xBest' # NoX
         /\ DOMAIN cands' = DOMAIN cands
         /\ \A j \in DOMAIN cands : cands'[j].x = cands[j].x
<1>0. EngineInv /\ cands \in Seq(Candidate)
  BY Facts DEF ScheduledInv
<1>1. CASE ExpectFails(i)
  BY <1>1 DEF ExpectFails, Turn, iterVars, bestVars
<1>2. CASE \E c : Effect(i, c)
  <2>1. PICK c : Effect(i, c)
    BY <1>2
  <2>2. /\ Turn(i) /\ Settle(i, c) /\ c.x = cands[i].x
        /\ UNCHANGED <<phase, iter, mul>>
    BY <2>1 DEF Effect, MatUnchanged
  <2>3. i \in DOMAIN cands /\ cands[i] \in Candidate /\ phase = "join"
    BY <1>0, <2>2, AtTurn
  <2>4. cands[i].x \in XMesh
    BY <2>3 DEF Candidate
  <2>5. xBest' \in {xBest, cands[i].x}
    BY <2>1 DEF Effect, NoTruth, Accept, bestVars
  <2>6. DOMAIN cands' = DOMAIN cands /\ \A j \in DOMAIN cands : cands'[j].x = cands[j].x
    BY <1>0, <2>2, <2>3 DEF Settle
  <2> QED BY <2>2, <2>3, <2>4, <2>5, <2>6, Facts
<1> QED BY <1>0, <1>1, <1>2, Effects

\* The end of an iteration.
LEMMA IterationEnded ==
  ASSUME ScheduledInv, EndIteration
  PROVE  /\ xBest' = xBest /\ cands' = cands
         /\ mul' \in {mul, Refined}
         /\ phase' = "propose" => Len(track) = iter'
         /\ ~InSteps'
<1>1. /\ xBest' = xBest /\ cands' = cands /\ iter' = iter + 1
      /\ mul' = (IF polled /\ ~improved THEN Refined ELSE mul)
      /\ phase = "iterend" /\ phase' = LoopPhase(iter + 1)
  BY DEF EndIteration, bestVars
<1>2. Len(track) = iter + 1
  BY <1>1 DEF ScheduledInv, TrackKept, InSteps
<1> QED BY <1>1, <1>2 DEF LoopPhase, InSteps

\* The steps that neither propose, nor poll, nor end an iteration or a run.
LEMMA Quiet ==
  ASSUME ScheduledInv,
         \/ EndSteps \/ Join \/ PolicyUpdate
         \/ \E i \in DOMAIN work : LookupDecision(i) \/ LookupEval(i) \/ Compute(i)
  PROVE  /\ UNCHANGED <<iter, mul, cands, xBest>>
         /\ InSteps /\ phase' # "propose"
<1>1. CASE EndSteps \/ Join \/ PolicyUpdate
  BY <1>1 DEF EndSteps, Join, PolicyUpdate, InSteps, iterVars, bestVars
<1>2. CASE \E i \in DOMAIN work : LookupDecision(i) \/ LookupEval(i) \/ Compute(i)
  <2>1. ItemUnchanged /\ phase = "batch"
    BY <1>2 DEF LookupDecision, LookupEval, Compute, ItemAt
  <2> QED BY <2>1 DEF ItemUnchanged, iterVars, bestVars, InSteps
<1> QED BY <1>1, <1>2

\* Dispatching moves no candidate.
LEMMA Dispatched ==
  ASSUME ScheduledInv, ScheduledDispatch
  PROVE  /\ UNCHANGED <<iter, mul, xBest>> /\ InSteps /\ phase' # "propose"
         /\ DOMAIN cands' = DOMAIN cands
         /\ \A j \in DOMAIN cands : cands'[j].x = cands[j].x
<1>0. PICK picked \in SUBSET Ready : Submit(picked)
  BY DEF ScheduledDispatch
<1>1. /\ UNCHANGED <<iter, mul, xBest>> /\ phase = "select" /\ phase' = "batch"
      /\ cands' = [i \in DOMAIN cands |->
                     IF i \in picked THEN [cands[i] EXCEPT !.status = "flight"]
                                     ELSE cands[i]]
  BY <1>0 DEF Submit, bestVars
<1>2. \A j \in DOMAIN cands : cands[j] \in Candidate
  BY Facts
<1>3. \A j \in DOMAIN cands : [cands[j] EXCEPT !.status = "flight"].x = cands[j].x
  BY <1>2 DEF Candidate
<1> QED BY <1>1, <1>3 DEF InSteps

-----------------------------------------------------------------------------
(* The store stays on the mesh.                                            *)

\* A step that moves no candidate and keeps the mesh.
LEMMA MeshKept ==
  ASSUME StoreOnMesh, mul' = mul, DOMAIN cands' = DOMAIN cands,
         \A j \in DOMAIN cands : cands'[j].x = cands[j].x
  PROVE  StoreOnMesh'
BY DEF StoreOnMesh, OnMesh

\* A refined mesh contains the coarser one.
LEMMA MeshRefined ==
  ASSUME ScheduledInv, mul' \in {mul, Refined}, cands' = cands
  PROVE  StoreOnMesh'
<1> SUFFICES ASSUME Nested
             PROVE  mul' \in Chain /\ \A i \in DOMAIN cands : cands[i].x % mul' = 0
  BY DEF StoreOnMesh, OnMesh
<1>1. mul \in Chain /\ \A i \in DOMAIN cands : cands[i].x % mul = 0
  BY DEF ScheduledInv, StoreOnMesh, OnMesh
<1>2. /\ mul \in Nat \ {0} /\ Refined \in Chain /\ Refined \in Nat \ {0}
      /\ mul % Refined = 0
  BY <1>1, ChainRefines
<1>3. CASE mul' = mul
  BY <1>1, <1>3
<1>4. CASE mul' = Refined
  <2> SUFFICES ASSUME NEW i \in DOMAIN cands PROVE cands[i].x % Refined = 0
    BY <1>2, <1>4
  <2>1. cands[i] \in Candidate
    BY Facts
  <2>2. cands[i].x \in XMesh
    BY <2>1 DEF Candidate
  <2>3. cands[i].x \in Int
    BY <2>2, Facts
  <2> QED BY <1>1, <1>2, <2>3, DividesThrough
<1> QED BY <1>3, <1>4

\* New candidates at points of the mesh.
LEMMA MeshGrows ==
  ASSUME ScheduledInv, mul' = mul, NEW n \in Nat, NEW new \in [1 .. n -> Candidate],
         Nested => \A k \in 1 .. n : OnMesh(new[k].x),
         cands' = cands \o new
  PROVE  StoreOnMesh'
<1>1. cands \in Seq(Candidate)
  BY Facts
<1>2. /\ \A i \in DOMAIN cands : i \in DOMAIN cands' /\ cands'[i] = cands[i]
      /\ \A i \in DOMAIN cands' \ DOMAIN cands : \E k \in 1 .. n : cands'[i] = new[k]
  BY <1>1, StoreGrows
<1>3. ASSUME Nested, NEW i \in DOMAIN cands' PROVE cands'[i].x % mul = 0
  <2>1. CASE i \in DOMAIN cands
    BY <1>2, <1>3, <2>1 DEF ScheduledInv, StoreOnMesh, OnMesh
  <2>2. CASE i \notin DOMAIN cands
    BY <1>2, <1>3, <2>2 DEF OnMesh
  <2> QED BY <2>1, <2>2
<1>4. Nested => mul \in Chain
  BY DEF ScheduledInv, StoreOnMesh
<1> QED BY <1>3, <1>4 DEF StoreOnMesh, OnMesh

\* The proposals are projected onto the mesh.
LEMMA MeshPropose ==
  ASSUME ScheduledInv, ScheduledPropose
  PROVE  StoreOnMesh'
<1>1. PICK xs \in [1 .. PerIter -> {x \in SearchBox : OnMesh(x)}] : Ingest(xs)
  BY ProposeIsPropose DEF Propose
<1> DEFINE new == [i \in 1 .. PerIter |-> NewCandidate(xs[i], FALSE)]
<1>2. cands' = cands \o new /\ mul' = mul
  BY <1>1 DEF Ingest
<1>3. PerIter \in Nat /\ \A i \in 1 .. PerIter : xs[i] \in XMesh /\ OnMesh(xs[i])
  BY EngineAssumption
<1>4. EngineInv
  BY DEF ScheduledInv
<1>5. \A i \in 1 .. PerIter : new[i] \in Candidate
  BY <1>3, <1>4, Ingested
<1>6. new \in [1 .. PerIter -> Candidate]
  BY <1>5
<1>7. \A i \in 1 .. PerIter : OnMesh(new[i].x)
  BY <1>3 DEF NewCandidate
<1> HIDE DEF new
<1> QED BY <1>2, <1>3, <1>6, <1>7, MeshGrows

\* The incumbent is a point of the mesh, if the meshes are nested.
LEMMA IncumbentIsOnMesh == ScheduledInv => IncumbentOnMesh
<1> SUFFICES ASSUME ScheduledInv, Nested, xBest # NoX PROVE OnMesh(xBest)
  BY DEF IncumbentOnMesh
<1>1. PICK j \in DOMAIN cands : cands[j].x = xBest
  BY IncumbentKnown
<1> QED BY <1>1 DEF ScheduledInv, StoreOnMesh

\* So are its poll neighbours.
LEMMA MeshPoll ==
  ASSUME ScheduledInv, InjectPoll
  PROVE  StoreOnMesh'
<1> DEFINE pts == PollPoints(xBest)
           new == [d \in 1 .. Len(pts) |-> NewCandidate(pts[d], TRUE)]
<1>1. xBest # NoX /\ cands' = cands \o new /\ mul' = mul
  BY DEF InjectPoll, CanPoll
<1>2. EngineInv
  BY DEF ScheduledInv
<1>3. /\ xBest \in Int
      /\ xBest + PollStep \in XMesh /\ xBest - PollStep \in XMesh
  BY <1>1, <1>2, PollInMesh
<1>4. ASSUME Nested PROVE OnMesh(xBest + PollStep) /\ OnMesh(xBest - PollStep)
  <2> DEFINE m == Larger(PollMult, 1)
  <2>1. mul \in Nat \ {0} /\ m \in Int
    BY Facts, EngineAssumption DEF Larger
  <2>2. xBest % mul = 0
    BY <1>1, <1>4, IncumbentIsOnMesh DEF IncumbentOnMesh, OnMesh
  <2>3. PollStep = mul * m
    BY DEF PollStep
  <2> HIDE DEF m
  <2>4. PICK a \in Int : xBest = a * mul
    BY <1>3, <2>1, <2>2, DividesMultiple
  <2>5. /\ xBest + PollStep = (a + m) * mul /\ a + m \in Int
        /\ xBest - PollStep = (a - m) * mul /\ a - m \in Int
    BY <2>1, <2>3, <2>4
  <2>6. ((a + m) * mul) % mul = 0 /\ ((a - m) * mul) % mul = 0
    BY <2>1, <2>5, MultipleDivides
  <2> QED BY <2>5, <2>6 DEF OnMesh
<1>5. Len(pts) = 2 /\ pts[1] = xBest + PollStep /\ pts[2] = xBest - PollStep
  BY DEF PollPoints
<1> HIDE DEF pts
<1>6. \A d \in 1 .. Len(pts) : pts[d] \in XMesh /\ (Nested => OnMesh(pts[d]))
  BY <1>3, <1>4, <1>5
<1>7. \A d \in 1 .. Len(pts) : new[d] \in Candidate
  BY <1>2, <1>6, Ingested
<1>8. new \in [1 .. Len(pts) -> Candidate]
  BY <1>7
<1>9. Nested => \A d \in 1 .. Len(pts) : OnMesh(new[d].x)
  BY <1>6 DEF NewCandidate
<1>10. Len(pts) \in Nat
  BY <1>5
<1> HIDE DEF new
<1> QED BY <1>1, <1>8, <1>9, <1>10, MeshGrows

-----------------------------------------------------------------------------
(* The queue knows its candidates.                                         *)

\* No check or decision changes where a candidate came from.
LEMMA OriginKept ==
  ASSUME NEW c \in Candidate, NEW p
  PROVE  /\ CheapChecked(c) \in Candidate
         /\ CheapChecked(c).poll = c.poll /\ CheapChecked(c).epoch = c.epoch
         /\ \A d \in AuditChoice(c, p) \cup {c} :
              /\ AfterEarly(d, p).poll = c.poll /\ AfterEarly(d, p).epoch = c.epoch
         /\ \A s, n : /\ [c EXCEPT !.status = s].poll = c.poll
                      /\ [c EXCEPT !.status = s].epoch = c.epoch
                      /\ [c EXCEPT !.status = s].status = s
                      /\ [c EXCEPT !.status = s, !.next = n].poll = c.poll
                      /\ [c EXCEPT !.status = s, !.next = n].epoch = c.epoch
<1>1. /\ CheapChecked(c) \in Candidate
      /\ CheapChecked(c).poll = c.poll /\ CheapChecked(c).epoch = c.epoch
  BY DEF CheapChecked, Candidate
<1>2. ASSUME NEW d \in AuditChoice(c, p) \cup {c}
      PROVE  /\ AfterEarly(d, p).poll = c.poll /\ AfterEarly(d, p).epoch = c.epoch
  <2>1. /\ d.poll = c.poll /\ d.epoch = c.epoch
        /\ DOMAIN d = DOMAIN c /\ {"poll", "epoch"} \subseteq DOMAIN d
    BY DEF AuditChoice, Candidate
  <2>2. AfterEarly(d, p) \in {[d EXCEPT !.status = "ready", !.next = NextAuditTarget(d.cut, p)],
                              [d EXCEPT !.status = "early"]}
    BY DEF AfterEarly
  <2> QED BY <2>1, <2>2
<1>3. ASSUME NEW s, NEW n
      PROVE  /\ [c EXCEPT !.status = s].poll = c.poll
             /\ [c EXCEPT !.status = s].epoch = c.epoch
             /\ [c EXCEPT !.status = s].status = s
             /\ [c EXCEPT !.status = s, !.next = n].poll = c.poll
             /\ [c EXCEPT !.status = s, !.next = n].epoch = c.epoch
  BY DEF Candidate
<1> QED BY <1>1, <1>2, <1>3

\* A candidate that goes on has estimates at the level it comes from.
LEMMA GoesOnWithEstimates ==
  ASSUME ScheduledInv, NEW i, Materialize(i), ~ExpectFails(i)
  PROVE  /\ cands'[i].poll = cands[i].poll /\ cands'[i].epoch = cands[i].epoch
         /\ cands'[i].status = "ready" => ev.est[cands[i].x][work[i].phi] \in Estimates
<1> DEFINE a == cands[i]
           p == work[i].phi
           b == CheapChecked(a)
<1>1. EngineInv /\ cands \in Seq(Candidate)
  BY Facts DEF ScheduledInv
<1>2. Turn(i)
  BY DEF Materialize, CachedPartial, CachedEarly, CachedTruth, RejectInvalid, RejectCheap,
         CutEarly, StopPartial, Continue, Truth, PartialTurn
<1>3. /\ i \in DOMAIN cands /\ a \in Candidate /\ p = a.next
      /\ HasCached(i) => ResultOK(ev, work[i].out.cached, a.x, p)
      /\ HasEst(i) => ev.est[a.x][p] \in Estimates
  BY <1>1, <1>2, AtTurn
<1>4. \A c : Settle(i, c) => cands'[i] = c
  BY <1>1, <1>3 DEF Settle
<1>5. /\ b \in Candidate /\ b.poll = a.poll /\ b.epoch = a.epoch
  BY <1>3, OriginKept
<1> HIDE DEF a, b, p
<1>6. CASE CachedPartial(i)
  <2>1. HasCached(i) /\ work[i].out.cached.kind = "partial"
        /\ cands'[i] = [a EXCEPT !.status = "ready", !.next = NextLevel(a, p)]
    BY <1>4, <1>6 DEF CachedPartial, CachedKind, a, p
  <2>2. ev.est[a.x][p] \in Estimates
    BY <1>3, <2>1 DEF ResultOK
  <2> QED BY <1>3, <2>1, <2>2, OriginKept DEF a, p
<1>7. CASE CachedEarly(i)
  <2>1. PICK c \in AuditChoice(a, p) \cup {a} : Settle(i, AfterEarly(c, p))
    BY <1>7 DEF CachedEarly, a, p
  <2>2. HasCached(i) /\ work[i].out.cached.kind = "early" /\ cands'[i] = AfterEarly(c, p)
    BY <1>4, <1>7, <2>1 DEF CachedEarly, CachedKind
  <2>3. ev.est[a.x][p] \in Estimates
    BY <1>3, <2>2 DEF ResultOK
  <2> QED BY <1>3, <2>2, <2>3, OriginKept DEF a, p
<1>8. CASE CutEarly(i)
  <2>1. PICK c \in AuditChoice(b, p) : Settle(i, AfterEarly(c, p))
    BY <1>8 DEF CutEarly, a, b, p
  <2>2. HasEst(i) /\ cands'[i] = AfterEarly(c, p)
    BY <1>4, <1>8, <2>1 DEF CutEarly, PartialTurn
  <2> QED BY <1>3, <1>5, <2>2, OriginKept DEF a, p
<1>9. CASE Continue(i)
  <2>1. HasEst(i) /\ cands'[i] = [b EXCEPT !.status = "ready", !.next = NextLevel(a, p)]
    BY <1>4, <1>9 DEF Continue, PartialTurn, a, b, p
  <2> QED BY <1>3, <1>5, <2>1, OriginKept DEF a, p
<1>10. CASE CachedTruth(i) \/ RejectInvalid(i)
  <2>1. PICK s \in {"truth", "invalid"} : cands'[i] = [a EXCEPT !.status = s]
    BY <1>4, <1>10 DEF CachedTruth, RejectInvalid, a
  <2> QED BY <1>3, <2>1, OriginKept DEF a, p
<1>11. CASE RejectCheap(i) \/ StopPartial(i) \/ Truth(i)
  <2>1. PICK s \in {"cheap", "stopped", "truth"} : cands'[i] = [b EXCEPT !.status = s]
    BY <1>4, <1>11 DEF RejectCheap, StopPartial, Truth, a, b
  <2> QED BY <1>3, <1>5, <2>1, OriginKept DEF a, p
<1> QED BY <1>6, <1>7, <1>8, <1>9, <1>10, <1>11 DEF Materialize

\* The scores of new candidates, all unstarted.
LEMMA QueueGrows ==
  ASSUME ScheduledInv, NEW n \in Nat, NEW new \in [1 .. n -> Candidate],
         NEW scores \in [1 .. n -> [base : Nat, last : 0 .. L]],
         UNCHANGED <<ev, iter>>, cands' = cands \o new, info' = info \o scores,
         \A k \in 1 .. n : InfoOK(ev, new[k], scores[k], iter)
  PROVE  InfoKept'
<1> DEFINE Row == [base : Nat, last : 0 .. L]
<1>1. /\ info \in Seq(Row) /\ Len(info) = Len(cands)
      /\ \A i \in DOMAIN cands : InfoOK(ev, cands[i], info[i], iter)
  BY DEF ScheduledInv, InfoKept
<1>2. /\ DOMAIN cands = 1 .. Len(cands) /\ DOMAIN cands' = 1 .. Len(cands) + n
      /\ Len(cands) \in Nat /\ Len(cands') = Len(cands) + n
      /\ \A i \in DOMAIN cands : cands'[i] = cands[i]
      /\ \A k \in 1 .. n : cands'[Len(cands) + k] = new[k]
  BY Facts, StoreGrows
<1> HIDE DEF Row
<1>3. scores \in Seq(Row) /\ Len(scores) = n
  <2>1. scores \in [1 .. n -> Row]
    BY DEF Row
  <2> QED BY <2>1
<1>4. /\ info' \in Seq(Row) /\ Len(info') = Len(info) + Len(scores)
      /\ \A i \in 1 .. Len(info) + Len(scores) :
           info'[i] = IF i <= Len(info) THEN info[i] ELSE scores[i - Len(info)]
  BY <1>1, <1>3, ConcatProperties
<1>5. ASSUME NEW i \in DOMAIN cands' PROVE InfoOK(ev, cands'[i], info'[i], iter)
  <2>1. CASE i \in DOMAIN cands
    <3>1. info'[i] = info[i]
      BY <1>1, <1>2, <1>3, <1>4, <2>1
    <3> QED BY <1>1, <1>2, <2>1, <3>1
  <2>2. CASE i \notin DOMAIN cands
    <3>1. PICK k \in 1 .. n : i = Len(cands) + k
      <4>1. i - Len(cands) \in 1 .. n /\ i = Len(cands) + (i - Len(cands))
        BY <1>2, <2>2
      <4> QED BY <4>1
    <3>2. ~(i <= Len(info)) /\ i - Len(info) = k /\ i \in 1 .. Len(info) + Len(scores)
      BY <1>1, <1>2, <1>3, <3>1
    <3>3. info'[i] = scores[k]
      BY <1>4, <3>2
    <3> QED BY <1>2, <3>1, <3>3
  <2> QED BY <2>1, <2>2
<1> QED BY <1>1, <1>2, <1>3, <1>4, <1>5 DEF InfoKept, Row

\* The scores of the proposals are their distances to the incumbent.
LEMMA QueuePropose ==
  ASSUME ScheduledInv, ScheduledPropose
  PROVE  InfoKept'
<1> DEFINE raw == [k \in 1 .. PerIter |->
                     RawPoint(bundle, SetContext(search, xBest), xBest,
                              seed.draws[iter], mul, k)]
           xs == [k \in 1 .. PerIter |-> Quantize(raw[k], mul)]
           new == [k \in 1 .. PerIter |-> NewCandidate(xs[k], FALSE)]
           scores == [k \in 1 .. PerIter |->
                        [base |-> Distance(raw[k], xBest), last |-> 0]]
<1>1. /\ phase = "propose" /\ cands' = cands \o new /\ info' = info \o scores
      /\ UNCHANGED <<ev, iter>>
  BY DEF ScheduledPropose, Ingest
<1>2. /\ EngineInv /\ PerIter \in Nat /\ iter \in Nat /\ L \in Nat
      /\ xBest \in XMesh \cup {NoX} /\ XMesh \subseteq Int /\ None = NoX
  <2>1. MaxIters \in Nat /\ L \in Nat
    BY EngineAssumption, LadderAssumption
  <2> QED BY <2>1, Facts DEF ScheduledInv
<1>3. ASSUME NEW k \in 1 .. PerIter
      PROVE  /\ new[k] \in Candidate
             /\ scores[k] \in [base : Nat, last : 0 .. L]
             /\ InfoOK(ev, new[k], scores[k], iter)
  <2>1. /\ raw[k] \in Int /\ xs[k] \in SearchBox
        /\ 4 * Distance(raw[k], xBest) < AuditBonus
    BY <1>1, ProposalsOnMesh
  <2>2. xs[k] \in XMesh
    BY <2>1, EngineAssumption
  <2>3. new[k] \in Candidate
    BY <1>2, <2>2, Ingested
  <2>4. Distance(raw[k], xBest) \in Nat
    <3> HIDE DEF raw
    <3> DEFINE u == Unit \div (Frac * Frac)
               d == IF xBest = None THEN raw[k] ELSE raw[k] - Frac * xBest
    <3>1. u \in Nat
      BY ScoreAssumption DEF Frac
    <3>2. d \in Int
      BY <1>2, <2>1 DEF Frac
    <3>3. Distance(raw[k], xBest) = (d * d) * u
      BY DEF Distance, Distance2
    <3> HIDE DEF u, d
    <3>4. d * d \in Nat
      BY <3>2
    <3> QED BY <3>1, <3>3, <3>4
  <2>5. /\ new[k].epoch = iter /\ new[k].poll = FALSE /\ new[k].next = 1
        /\ scores[k].base = Distance(raw[k], xBest) /\ scores[k].last = 0
    BY DEF NewCandidate
  <2>6. scores[k] \in [base : Nat, last : 0 .. L]
    BY <1>2, <2>4
  <2> HIDE DEF new, scores, raw, xs
  <2>7. InfoOK(ev, new[k], scores[k], iter)
    BY <1>2, <2>1, <2>5 DEF InfoOK
  <2> QED BY <2>3, <2>6, <2>7
<1>4. new \in [1 .. PerIter -> Candidate] /\ scores \in [1 .. PerIter -> [base : Nat, last : 0 .. L]]
  BY <1>3
<1> HIDE DEF new, scores
<1> QED BY <1>1, <1>2, <1>3, <1>4, QueueGrows

\* Those of poll points are infinite.
LEMMA QueuePoll ==
  ASSUME ScheduledInv, ScheduledPoll
  PROVE  InfoKept'
<1> DEFINE pts == PollPoints(xBest)
           new == [d \in 1 .. Len(pts) |-> NewCandidate(pts[d], TRUE)]
           scores == [d \in 1 .. Len(pts) |-> [base |-> PollScore, last |-> 0]]
<1>1. /\ xBest # NoX /\ cands' = cands \o new /\ info' = info \o scores
      /\ UNCHANGED <<ev, iter>>
  BY DEF ScheduledPoll, InjectPoll, CanPoll
<1>2. EngineInv /\ iter \in Nat /\ L \in Nat
  <2>1. MaxIters \in Nat /\ L \in Nat
    BY EngineAssumption, LadderAssumption
  <2> QED BY <2>1, Facts DEF ScheduledInv
<1>3. Len(pts) = 2 /\ pts[1] = xBest + PollStep /\ pts[2] = xBest - PollStep
  BY DEF PollPoints
<1>4. xBest + PollStep \in XMesh /\ xBest - PollStep \in XMesh
  BY <1>1, <1>2, PollInMesh
<1> HIDE DEF pts
<1>5. ASSUME NEW k \in 1 .. Len(pts)
      PROVE  /\ new[k] \in Candidate
             /\ scores[k] \in [base : Nat, last : 0 .. L]
             /\ InfoOK(ev, new[k], scores[k], iter)
  <2>1. pts[k] \in XMesh
    BY <1>3, <1>4
  <2>2. new[k] \in Candidate
    BY <1>2, <2>1, Ingested
  <2>3. scores[k] \in [base : Nat, last : 0 .. L]
    BY <1>2, ScoreAssumption DEF PollScore
  <2>4. /\ new[k].epoch = iter /\ new[k].poll = TRUE /\ new[k].next = 1
        /\ scores[k].base = Infinity /\ scores[k].last = 0
    BY DEF NewCandidate, PollScore
  <2> HIDE DEF new, scores
  <2>5. InfoOK(ev, new[k], scores[k], iter)
    BY <1>2, <2>4 DEF InfoOK
  <2> QED BY <2>2, <2>3, <2>5
<1>6. /\ new \in [1 .. Len(pts) -> Candidate]
      /\ scores \in [1 .. Len(pts) -> [base : Nat, last : 0 .. L]]
  BY <1>5
<1>7. Len(pts) \in Nat
  BY <1>3
<1> HIDE DEF new, scores
<1> QED BY <1>1, <1>5, <1>6, <1>7, QueueGrows

\* A step that leaves the queue alone, and starts no level.
LEMMA QueueKept ==
  ASSUME ScheduledInv, UNCHANGED <<ev, info>>, iter' \in Nat, iter <= iter',
         Len(cands') = Len(cands), DOMAIN cands' = DOMAIN cands,
         \A j \in DOMAIN cands :
           /\ cands'[j].x = cands[j].x /\ cands'[j].poll = cands[j].poll
           /\ cands'[j].epoch = cands[j].epoch /\ cands'[j].next = cands[j].next
           /\ cands'[j].status = "ready" => cands[j].status = "ready"
  PROVE  InfoKept'
<1>1. /\ info \in Seq([base : Nat, last : 0 .. L]) /\ Len(info) = Len(cands)
      /\ \A i \in DOMAIN cands : InfoOK(ev, cands[i], info[i], iter)
  BY DEF ScheduledInv, InfoKept
<1>2. ASSUME NEW j \in DOMAIN cands PROVE InfoOK(ev, cands'[j], info[j], iter')
  <2>1. cands[j].epoch \in Nat /\ iter \in Nat
    <3>1. cands[j] \in Candidate /\ MaxIters \in Nat
      BY Facts, EngineAssumption
    <3> QED BY <3>1, Facts DEF Candidate
  <2>2. cands[j].epoch <= iter'
    BY <1>1, <2>1 DEF InfoOK
  <2> QED BY <1>1, <2>2 DEF InfoOK
<1> QED BY <1>1, <1>2 DEF InfoKept

\* Processing an outcome records the level whose estimates bound the score.
LEMMA QueueProcessed ==
  ASSUME ScheduledInv, NEW i, ScheduledMaterialize(i)
  PROVE  InfoKept'
<1>1. /\ Materialize(i) /\ info' = [info EXCEPT ![i].last = work[i].phi]
      /\ EngineInv /\ cands \in Seq(Candidate)
  BY Facts DEF ScheduledMaterialize, ScheduledInv
<1>2. Turn(i) /\ ev' = ev /\ iter' = iter
  BY <1>1 DEF Materialize, CachedPartial, CachedEarly, CachedTruth, RejectInvalid, RejectCheap,
              ExpectFails, CutEarly, StopPartial, Continue, Truth, PartialTurn, MatUnchanged,
              iterVars
<1>3. /\ i \in DOMAIN cands /\ work[i].phi = cands[i].next /\ cands[i].next \in Levels
      /\ cands[i].status = "flight"
  BY <1>1, <1>2, AtTurn
<1>4. /\ info \in Seq([base : Nat, last : 0 .. L]) /\ Len(info) = Len(cands)
      /\ \A j \in DOMAIN cands : InfoOK(ev, cands[j], info[j], iter)
  BY DEF ScheduledInv, InfoKept
<1>5. DOMAIN info = DOMAIN cands /\ info[i] \in [base : Nat, last : 0 .. L]
  <2>1. DOMAIN info = 1 .. Len(info) /\ DOMAIN cands = 1 .. Len(cands)
    BY <1>1, <1>4
  <2>2. i \in 1 .. Len(info)
    BY <1>3, <1>4, <2>1
  <2>3. \A S : info \in Seq(S) => info[i] \in S
    BY <2>2
  <2>4. DOMAIN info = DOMAIN cands
    BY <1>4, <2>1
  <2> QED BY <1>4, <2>3, <2>4
<1>6. work[i].phi \in 0 .. L /\ work[i].phi # 0
  BY <1>3, LadderAssumption DEF Levels
<1> DEFINE row == [info[i] EXCEPT !.last = work[i].phi]
<1>7. row \in [base : Nat, last : 0 .. L] /\ row.base = info[i].base /\ row.last = work[i].phi
  BY <1>5, <1>6
<1>8. info' = [info EXCEPT ![i] = row]
  BY <1>1
<1> HIDE DEF row
<1>9. /\ info' \in Seq([base : Nat, last : 0 .. L]) /\ Len(info') = Len(info)
      /\ info'[i] = row /\ \A j \in DOMAIN cands : j # i => info'[j] = info[j]
  BY <1>3, <1>4, <1>5, <1>7, <1>8
<1>10. /\ DOMAIN cands' = DOMAIN cands /\ Len(cands') = Len(cands)
       /\ \A j \in DOMAIN cands : j # i => cands'[j] = cands[j]
       /\ cands'[i].x = cands[i].x
  <2>1. /\ DOMAIN cands' = DOMAIN cands
        /\ \A j \in DOMAIN cands : cands'[j].x = cands[j].x
    BY <1>1, Processed
  <2>2. ~ExpectFails(i) => \E c : cands' = [cands EXCEPT ![i] = c]
    BY <1>1, Effects DEF Effect, Settle
  <2>3. ExpectFails(i) => cands' = cands
    BY DEF ExpectFails
  <2>4. Len(cands') = Len(cands)
    BY <1>1, <2>2, <2>3
  <2>5. \A j \in DOMAIN cands : j # i => cands'[j] = cands[j]
    BY <2>2, <2>3
  <2> QED BY <1>3, <2>1, <2>4, <2>5
<1>11. /\ cands'[i].poll = cands[i].poll /\ cands'[i].epoch = cands[i].epoch
       /\ cands'[i].status = "ready" => ev.est[cands[i].x][work[i].phi] \in Estimates
  <2>1. CASE ExpectFails(i)
    <3>1. cands' = cands
      BY <2>1 DEF ExpectFails
    <3> QED BY <1>3, <3>1
  <2>2. CASE ~ExpectFails(i)
    BY <1>1, <2>2, GoesOnWithEstimates
  <2> QED BY <2>1, <2>2
<1>12. ASSUME NEW j \in DOMAIN cands PROVE InfoOK(ev, cands'[j], info'[j], iter)
  <2>1. CASE j = i
    BY <1>3, <1>4, <1>6, <1>7, <1>9, <1>10, <1>11, <2>1 DEF InfoOK
  <2>2. CASE j # i
    BY <1>4, <1>9, <1>10, <2>2
  <2> QED BY <2>1, <2>2
<1> QED BY <1>2, <1>4, <1>9, <1>10, <1>12 DEF InfoKept

\* A step that changes no candidate leaves the queue as it was.
LEMMA QueueUntouched ==
  ASSUME ScheduledInv, UNCHANGED <<ev, info, cands>>, iter' \in {iter, iter + 1}
  PROVE  InfoKept'
<1>1. iter \in Nat
  BY Facts, EngineAssumption
<1>2. iter' \in Nat /\ iter <= iter'
  BY <1>1
<1> QED BY <1>2, QueueKept

\* Dispatched candidates keep their scores.
LEMMA QueueDispatched ==
  ASSUME ScheduledInv, ScheduledDispatch
  PROVE  InfoKept'
<1>1. PICK picked \in SUBSET Ready : Submit(picked)
  BY DEF ScheduledDispatch
<1>2. /\ UNCHANGED <<ev, iter, info>>
      /\ cands' = [i \in DOMAIN cands |->
                     IF i \in picked THEN [cands[i] EXCEPT !.status = "flight"]
                                     ELSE cands[i]]
  BY <1>1 DEF ScheduledDispatch, scheduleVars, Submit
<1>3. cands \in Seq(Candidate) /\ iter \in Nat
  BY Facts, EngineAssumption
<1>4. \A j \in DOMAIN cands : cands[j] \in Candidate
  BY <1>3
<1>5. ASSUME NEW j \in DOMAIN cands
      PROVE  /\ cands'[j].x = cands[j].x /\ cands'[j].poll = cands[j].poll
             /\ cands'[j].epoch = cands[j].epoch /\ cands'[j].next = cands[j].next
             /\ cands'[j].status = "ready" => cands[j].status = "ready"
  <2> DEFINE c == [cands[j] EXCEPT !.status = "flight"]
  <2>1. /\ c.x = cands[j].x /\ c.poll = cands[j].poll /\ c.epoch = cands[j].epoch
        /\ c.next = cands[j].next /\ c.status = "flight"
    BY <1>4 DEF Candidate
  <2>2. cands'[j] \in {c, cands[j]}
    BY <1>2
  <2> HIDE DEF c
  <2> QED BY <2>1, <2>2
<1>6. DOMAIN cands' = DOMAIN cands
  BY <1>2
<1>7. DOMAIN cands = 1 .. Len(cands) /\ Len(cands) \in Nat
  BY <1>3
<1>8. Len(cands') = Len(cands)
  BY <1>2, <1>7
<1> QED BY <1>2, <1>3, <1>5, <1>6, <1>8, QueueKept

\* Every step keeps the queue in order with the store.
LEMMA QueueStep ==
  ASSUME ScheduledInv, [ScheduledNext]_allVars
  PROVE  InfoKept'
<1>1. CASE ScheduledPropose
  BY <1>1, QueuePropose
<1>2. CASE ScheduledPoll
  BY <1>2, QueuePoll
<1>3. CASE ScheduledDispatch
  BY <1>3, QueueDispatched
<1>4. CASE Elsewhere
  <2>1. UNCHANGED <<info, ev>>
    <3>1. CASE EndSteps \/ Join \/ EndIteration
      BY <1>4, <3>1 DEF Elsewhere, scheduleVars, EndSteps, Join, EndIteration
    <3>2. CASE \E i \in DOMAIN work : LookupDecision(i) \/ LookupEval(i) \/ Compute(i)
      BY <1>4, <3>2 DEF Elsewhere, scheduleVars, LookupDecision, LookupEval, Compute,
                        ItemUnchanged
    <3> QED BY <1>4, <3>1, <3>2 DEF Elsewhere
  <2>2. CASE EndIteration
    <3>1. iter' = iter + 1 /\ cands' = cands
      BY <2>2 DEF EndIteration
    <3> QED BY <2>1, <3>1, QueueUntouched
  <2>3. CASE \/ EndSteps \/ Join
             \/ \E i \in DOMAIN work : LookupDecision(i) \/ LookupEval(i) \/ Compute(i)
    BY <2>1, <2>3, Quiet, QueueUntouched
  <2> QED BY <1>4, <2>2, <2>3 DEF Elsewhere
<1>5. ASSUME NEW i \in DOMAIN work, ScheduledMaterialize(i) PROVE InfoKept'
  BY <1>5, QueueProcessed
<1>6. CASE RunAnotherEngine
  <2>1. info' = << >> /\ cands' = << >>
    BY <1>6 DEF RunAnotherEngine
  <2> QED BY <2>1 DEF InfoKept
<1>7. CASE Finished \/ UNCHANGED allVars
  <2>1. UNCHANGED <<ev, info, cands, iter>>
    BY <1>7 DEF Finished, allVars, vars, scheduleVars, iterVars
  <2> QED BY <2>1, QueueUntouched
<1>8. CASE ScheduledUpdate
  <2>1. PolicyUpdate /\ UNCHANGED <<ev, info>>
    BY <1>8 DEF ScheduledUpdate, PolicyUpdate
  <2> QED BY <2>1, Quiet, QueueUntouched
<1> QED BY <1>1, <1>2, <1>3, <1>4, <1>5, <1>6, <1>7, <1>8 DEF ScheduledNext

-----------------------------------------------------------------------------
(* ScheduledInv is inductive.                                              *)

\* It holds before the first run.
LEMMA ScheduledInitInv == ScheduledInit => ScheduledInv
<1> SUFFICES ASSUME ScheduledInit PROVE ScheduledInv
  OBVIOUS
<1>1. Init
  BY DEF ScheduledInit
<1>2. EngineInv /\ SearchInv
  BY <1>1, DoInit, SearchInit
<1>3. /\ track = << >> /\ Len(track) = 0 /\ search = Reset(seed.halton)
      /\ bundle \in Bundles /\ seed \in Seeds /\ seed.halton \in Nat
  BY ScheduleAssumption DEF ScheduledInit
<1>4. TrackKept
  <2>1. track \in Seq(XMesh \cup {NoX})
    BY <1>3
  <2>2. iter = 0 /\ phase \in {"propose", "done"}
    BY <1>1 DEF Init, LoopPhase
  <2> QED BY <1>3, <2>1, <2>2 DEF TrackKept, InSteps
<1>5. None = NoX /\ PerIter \in Nat
  BY ScheduleAssumption, EngineAssumption
<1>6. search = [prev |-> NoX, dir |-> 0, halton |-> seed.halton]
  BY <1>3, <1>5 DEF Reset
<1>7. SearchKept
  <2>1. PerIter * Len(track) = 0
    BY <1>3, <1>5
  <2> QED BY <1>3, <1>6, <2>1 DEF SearchKept
<1>8. DirectionIsLastMove
  <2>1. Moves(track) = {}
    BY <1>3 DEF Moves
  <2> QED BY <1>6, <2>1 DEF DirectionIsLastMove, LastDirection
<1>9. StoreOnMesh
  <2>1. DOMAIN cands = {} /\ mul = Larger(MulInit, 1)
    BY <1>1 DEF Init
  <2>2. Nested => Larger(MulInit, 1) \in Chain
    BY DEF Nested, Chain
  <2> QED BY <2>1, <2>2 DEF StoreOnMesh
<1>10. InfoKept
  <2>1. info = << >> /\ cands = << >>
    BY <1>1 DEF ScheduledInit, Init
  <2> QED BY <2>1 DEF InfoKept
<1>11. calib \in Calibrations
  BY DEF ScheduledInit
<1> QED BY <1>2, <1>4, <1>7, <1>8, <1>9, <1>10, <1>11 DEF ScheduledInv

\* Another engine starts with new policies.
LEMMA AnotherSearch ==
  ASSUME ScheduledInv, RunAnotherEngine
  PROVE  TrackKept' /\ SearchKept' /\ DirectionIsLastMove' /\ StoreOnMesh'
<1>1. /\ track' = << >> /\ Len(track') = 0 /\ search' = Reset(seed.halton)
      /\ bundle' = bundle /\ seed' = seed
      /\ iter' = 0 /\ phase' \in {"propose", "done"}
      /\ DOMAIN cands' = {} /\ mul' = Larger(MulInit, 1)
  BY DEF RunAnotherEngine, LoopPhase
<1>2. bundle \in Bundles /\ seed \in Seeds /\ seed.halton \in Nat
  BY ScheduleAssumption DEF ScheduledInv, SearchKept
<1>3. TrackKept'
  <2>1. track' \in Seq(XMesh \cup {NoX})
    BY <1>1
  <2> QED BY <1>1, <2>1 DEF TrackKept, InSteps
<1>4. None = NoX /\ PerIter \in Nat
  BY Facts
<1>5. search' = [prev |-> NoX, dir |-> 0, halton |-> seed.halton]
  BY <1>1, <1>4 DEF Reset
<1>6. SearchKept'
  <2>1. PerIter * Len(track') = 0
    BY <1>1, <1>4
  <2> QED BY <1>1, <1>2, <1>5, <2>1 DEF SearchKept
<1>7. DirectionIsLastMove'
  <2>1. Moves(track') = {}
    BY <1>1 DEF Moves
  <2> QED BY <1>5, <2>1 DEF DirectionIsLastMove, LastDirection
<1>8. StoreOnMesh'
  <2>1. Nested => Larger(MulInit, 1) \in Chain
    BY DEF Nested, Chain
  <2> QED BY <1>1, <2>1 DEF StoreOnMesh
<1> QED BY <1>3, <1>6, <1>7, <1>8

\* The configuration is given.
LEMMA CalibrationFixed ==
  ASSUME [ScheduledNext]_allVars
  PROVE  calib' = calib
BY DEF ScheduledNext, ScheduledPropose, ScheduledPoll, ScheduledDispatch, ScheduledUpdate,
       Elsewhere, RunAnotherEngine, Finished, ScheduledMaterialize, allVars, scheduleVars

\* Every step keeps the invariant.
LEMMA ScheduledStep == ScheduledInv /\ [ScheduledNext]_allVars => ScheduledInv'
<1> SUFFICES ASSUME ScheduledInv, [ScheduledNext]_allVars PROVE ScheduledInv'
  OBVIOUS
<1>0. EngineInv' /\ SearchInv' /\ InfoKept' /\ calib' \in Calibrations
  BY EngineKept, QueueStep, CalibrationFixed DEF ScheduledInv
<1>m. /\ StoreOnMesh
      /\ phase = "propose" => Len(track) = iter
      /\ InSteps => Len(track) = iter + 1
  BY DEF ScheduledInv, TrackKept
<1> SUFFICES TrackKept' /\ SearchKept' /\ DirectionIsLastMove' /\ StoreOnMesh'
  BY <1>0 DEF ScheduledInv
<1>1. CASE ScheduledPropose
  BY <1>1, ProposeKept, MeshPropose
<1>2. CASE ScheduledPoll
  <2>1. /\ InjectPoll /\ UNCHANGED <<bundle, seed, search, track, xBest, iter, phase>>
        /\ InSteps /\ phase # "propose"
    BY <1>2 DEF ScheduledPoll, InjectPoll, bestVars, InSteps
  <2> QED BY <1>m, <2>1, SearchUntouched, MeshPoll
<1>3. CASE ScheduledDispatch
  <2>1. UNCHANGED <<bundle, seed, search, track>>
    BY <1>3 DEF ScheduledDispatch, scheduleVars
  <2>2. TrackKept' /\ SearchKept' /\ DirectionIsLastMove'
    BY <1>m, <1>3, <2>1, Dispatched, SearchUntouched
  <2> QED BY <1>m, <1>3, <2>2, Dispatched, MeshKept
<1>4. CASE Elsewhere
  <2>1. UNCHANGED <<bundle, seed, search, track>>
    BY <1>4 DEF Elsewhere, scheduleVars
  <2>2. CASE EndIteration
    BY <2>1, <2>2, IterationEnded, SearchUntouched, MeshRefined
  <2>3. CASE \/ EndSteps \/ Join
             \/ \E i \in DOMAIN work : LookupDecision(i) \/ LookupEval(i) \/ Compute(i)
    <3>1. /\ UNCHANGED <<iter, mul, cands, xBest>>
          /\ InSteps /\ phase' # "propose"
      BY <2>3, Quiet
    <3>2. TrackKept' /\ SearchKept' /\ DirectionIsLastMove'
      BY <1>m, <2>1, <3>1, SearchUntouched
    <3>3. StoreOnMesh'
      BY <1>m, <3>1, MeshKept
    <3> QED BY <3>2, <3>3
  <2> QED BY <1>4, <2>2, <2>3 DEF Elsewhere
<1>5. ASSUME NEW i \in DOMAIN work, ScheduledMaterialize(i)
      PROVE  TrackKept' /\ SearchKept' /\ DirectionIsLastMove' /\ StoreOnMesh'
  <2>1. Materialize(i) /\ UNCHANGED <<bundle, seed, search, track>>
    BY <1>5 DEF ScheduledMaterialize
  <2>2. /\ UNCHANGED <<iter, mul>> /\ phase = "join" /\ phase' \in {"join", "panicked"}
        /\ xBest # NoX => xBest' # NoX
        /\ DOMAIN cands' = DOMAIN cands
        /\ \A j \in DOMAIN cands : cands'[j].x = cands[j].x
    BY <2>1, Processed
  <2>3. TrackKept' /\ SearchKept' /\ DirectionIsLastMove'
    BY <1>m, <2>1, <2>2, SearchUntouched DEF InSteps
  <2> QED BY <1>m, <2>2, <2>3, MeshKept
<1>6. CASE RunAnotherEngine
  BY <1>6, AnotherSearch
<1>7. CASE Finished \/ UNCHANGED allVars
  <2>1. UNCHANGED <<bundle, seed, search, track, xBest, iter, phase, mul, cands>>
    BY <1>7 DEF Finished, allVars, vars, scheduleVars, iterVars, bestVars
  <2>2. TrackKept' /\ SearchKept' /\ DirectionIsLastMove'
    BY <1>m, <2>1, SearchUntouched DEF InSteps
  <2> QED BY <1>m, <2>1, <2>2, MeshKept
<1>8. CASE ScheduledUpdate
  <2>1. PolicyUpdate /\ UNCHANGED <<bundle, seed, search, track>>
    BY <1>8 DEF ScheduledUpdate
  <2>2. /\ UNCHANGED <<iter, mul, cands, xBest>>
        /\ InSteps /\ phase' # "propose"
    BY <2>1, Quiet
  <2>3. TrackKept' /\ SearchKept' /\ DirectionIsLastMove'
    BY <1>m, <2>1, <2>2, SearchUntouched
  <2> QED BY <1>m, <2>2, <2>3, MeshKept
<1> QED BY <1>1, <1>2, <1>3, <1>4, <1>5, <1>6, <1>7, <1>8 DEF ScheduledNext

-----------------------------------------------------------------------------
(* The order of the queue.                                                 *)

\* What a score is made of, for a ready candidate.
LEMMA ScoreBounds ==
  ASSUME ScheduledInv, NEW i \in DOMAIN cands, cands[i].status = "ready"
  PROVE  /\ OwnScore(i) \in Int /\ Score(i) \in Int
         /\ Score(i) <= OwnScore(i)
         /\ info[i].last = 0 => Score(i) = OwnScore(i)
         /\ -AuditBonus < 4 * OwnScore(i) => -AuditBonus < 2 * Score(i)
         /\ ~cands[i].poll /\ cands[i].audit =>
              /\ OwnScore(i) = info[i].base - AuditBonus
              /\ 4 * OwnScore(i) < -3 * AuditBonus
         /\ ~cands[i].poll /\ ~cands[i].audit =>
              /\ OwnScore(i) = info[i].base - AgeBonus * (iter - cands[i].epoch)
              /\ -AuditBonus < 4 * OwnScore(i)
         /\ ~cands[i].poll => OwnScore(i) < Infinity
         /\ cands[i].poll => OwnScore(i) = Infinity
<1> DEFINE b == info[i].base
           p == info[i].last
           c == cands[i]
           age == AgeBonus * (iter - c.epoch)
           lcb == Unit * Lcb(ev.est[c.x][p], p, th)
           up == LevelBonus * (c.next - 1)
<1>1. /\ InfoOK(ev, c, info[i], iter) /\ cands \in Seq(Candidate)
      /\ info \in Seq([base : Nat, last : 0 .. L]) /\ Len(info) = Len(cands)
  BY Facts DEF ScheduledInv, InfoKept
<1>2. c \in Candidate
  BY <1>1
<1>3. info[i] \in [base : Nat, last : 0 .. L]
  <2>1. i \in 1 .. Len(info)
    BY <1>1
  <2>2. \A S : info \in Seq(S) => info[i] \in S
    BY <2>1
  <2> QED BY <1>1, <2>2
<1>4. /\ AgeBonus \in Nat \ {0} /\ LevelBonus \in Nat \ {0} /\ AuditBonus \in Nat \ {0}
      /\ Infinity \in Nat /\ Unit \in Nat /\ AuditBonus <= Infinity
      /\ 4 * (AgeBonus * MaxIters) < AuditBonus /\ 4 * (LevelBonus * L) < AuditBonus
  BY ScoreAssumption
<1>5. /\ c.epoch \in Nat /\ c.next \in 1 .. L /\ L \in Nat /\ c.x \in XMesh
      /\ iter \in Nat /\ iter <= MaxIters /\ MaxIters \in Nat /\ ev \in Evaluators
  BY <1>2, Facts, EngineAssumption, LadderAssumption DEF Candidate, Levels
<1>6. b \in Nat /\ p \in 0 .. L
  BY <1>3
<1>7. /\ c.epoch <= iter /\ (c.poll => b = Infinity) /\ (~c.poll => 4 * b < AuditBonus)
      /\ p = 0 => c.next = 1
      /\ p # 0 => ev.est[c.x][p] \in Estimates
  BY <1>1 DEF InfoOK
<1>8. age \in Nat /\ 4 * age < AuditBonus
  <2> DEFINE n == iter - c.epoch
  <2>1. n \in Nat /\ n <= MaxIters
    BY <1>5, <1>7
  <2> HIDE DEF n
  <2>2. \A x, y, z \in Nat : y <= z => x * y \in Nat /\ x * z \in Nat /\ x * y <= x * z
    OBVIOUS
  <2>3. AgeBonus * n \in Nat /\ AgeBonus * MaxIters \in Nat /\ AgeBonus * n <= AgeBonus * MaxIters
    BY <1>4, <1>5, <2>1, <2>2
  <2>4. age = AgeBonus * n
    BY DEF n
  <2> HIDE DEF age
  <2> QED BY <1>4, <2>3, <2>4
<1>9. up \in Nat /\ 4 * up < AuditBonus /\ (c.next = 1 => up = 0)
  <2> DEFINE n == c.next - 1
  <2>1. n \in Nat /\ n <= L /\ (c.next = 1 => n = 0)
    BY <1>5
  <2> HIDE DEF n
  <2>2. \A x, y, z \in Nat : y <= z => x * y \in Nat /\ x * z \in Nat /\ x * y <= x * z
    OBVIOUS
  <2>3. LevelBonus * n \in Nat /\ LevelBonus * L \in Nat /\ LevelBonus * n <= LevelBonus * L
    BY <1>4, <1>5, <2>1, <2>2
  <2>4. n = 0 => LevelBonus * n = 0
    BY <1>4
  <2>5. up = LevelBonus * n
    BY DEF n
  <2> HIDE DEF up
  <2> QED BY <1>4, <2>1, <2>3, <2>4, <2>5
<1>10. p # 0 => lcb \in Int /\ -AuditBonus < 4 * lcb
  <2> SUFFICES ASSUME p # 0 PROVE lcb \in Int /\ -AuditBonus < 4 * lcb
    OBVIOUS
  <2> DEFINE e == ev.est[c.x][p]
  <2>1. th \in Thresholds /\ p \in Levels /\ e \in Estimates
    BY <1>5, <1>6, <1>7 DEF ScheduledInv, EngineInv, EngineTypes, Levels
  <2>2. Lcb(e, p, th) \in Int
    <3>1. e.f \in Int /\ e.s \in Int
      BY <2>1 DEF Estimates
    <3>2. Bias(p, th) \in Int
      BY <2>1, EngineAssumption, LadderAssumption DEF Bias
    <3> QED BY <3>1, <3>2 DEF Lcb
  <2>3. -AuditBonus < 4 * (Unit * Lcb(e, p, th))
    BY <1>5, <2>1, ScoreAssumption
  <2>4. lcb = Unit * Lcb(e, p, th)
    OBVIOUS
  <2> HIDE DEF e
  <2> QED BY <1>4, <2>2, <2>3, <2>4
<1>11. /\ OwnScore(i) = IF b = Infinity THEN Infinity
                        ELSE IF c.audit THEN b - AuditBonus ELSE b - age
       /\ BoundedScore(i) = IF p = 0 THEN OwnScore(i) ELSE Lesser(OwnScore(i), lcb)
       /\ Score(i) = IF BoundedScore(i) = Infinity \/ BoundedScore(i) < -(AuditBonus \div 2)
                       THEN BoundedScore(i) ELSE BoundedScore(i) - up
  BY DEF OwnScore, BoundedScore, Score
<1>12. (~c.poll => b # Infinity) /\ AuditBonus \div 2 \in Nat
  BY <1>4, <1>6, <1>7
<1> HIDE DEF b, p, c, age, lcb, up
<1>13. /\ OwnScore(i) \in Int
       /\ ~c.poll /\ c.audit =>
            /\ OwnScore(i) = b - AuditBonus
            /\ 4 * OwnScore(i) < -3 * AuditBonus
       /\ ~c.poll /\ ~c.audit =>
            /\ OwnScore(i) = b - age
            /\ -AuditBonus < 4 * OwnScore(i)
       /\ ~c.poll => OwnScore(i) < Infinity
       /\ c.poll => OwnScore(i) = Infinity
  BY <1>4, <1>6, <1>7, <1>8, <1>11, <1>12
<1>14. /\ BoundedScore(i) \in Int /\ BoundedScore(i) <= OwnScore(i)
       /\ p = 0 => BoundedScore(i) = OwnScore(i)
       /\ -AuditBonus < 4 * OwnScore(i) => -AuditBonus < 4 * BoundedScore(i)
  BY <1>10, <1>11, <1>13 DEF Lesser
<1>15. /\ Score(i) \in Int /\ Score(i) <= BoundedScore(i)
       /\ p = 0 => Score(i) = BoundedScore(i)
  BY <1>7, <1>9, <1>11, <1>14
<1>16. -AuditBonus < 4 * BoundedScore(i) => -AuditBonus < 2 * Score(i)
  BY <1>4, <1>9, <1>11, <1>14
<1>17. /\ Score(i) <= OwnScore(i) /\ (p = 0 => Score(i) = OwnScore(i))
       /\ -AuditBonus < 4 * OwnScore(i) => -AuditBonus < 2 * Score(i)
  BY <1>13, <1>14, <1>15, <1>16
<1> QED BY <1>13, <1>15, <1>17 DEF b, p, c, age

\* What is picked scores no worse than what is passed over.
LEMMA PickedBeforePassed ==
  ASSUME ScheduledInv, [ScheduledNext]_allVars, phase = "select", phase' = "batch",
         NEW i \in DOMAIN cands, NEW j \in DOMAIN cands, PassedOver(i), Picked(j)
  PROVE  /\ cands[i].status = "ready" /\ cands[j].status = "ready"
         /\ Score(j) <= Score(i)
<1>1. ScheduledDispatch
  <2>1. ~ScheduledPropose /\ ~ScheduledPoll /\ ~RunAnotherEngine /\ ~Finished
    BY DEF ScheduledPropose, ScheduledPoll, RunAnotherEngine, Finished, Ingest, InjectPoll
  <2>2. ~\E k \in DOMAIN work : ScheduledMaterialize(k)
    BY Processed DEF ScheduledMaterialize
  <2>3. ~ScheduledUpdate /\ ~Elsewhere
    BY DEF ScheduledUpdate, Elsewhere, EndSteps, Join, PolicyUpdate, EndIteration,
           LookupDecision, LookupEval, Compute, ItemAt
  <2>4. ~UNCHANGED allVars
    BY DEF allVars, vars
  <2> QED BY <2>1, <2>2, <2>3, <2>4 DEF ScheduledNext
<1>2. PICK picked \in SUBSET Ready :
        /\ \A a \in picked, b \in Ready \ picked : RanksBefore(a, b)
        /\ Submit(picked)
  BY <1>1 DEF ScheduledDispatch
<1>3. cands' = [k \in DOMAIN cands |->
                  IF k \in picked THEN [cands[k] EXCEPT !.status = "flight"] ELSE cands[k]]
  BY <1>2 DEF Submit
<1>4. cands[i] \in Candidate /\ cands[j] \in Candidate
  BY Facts
<1>5. i \notin picked
  <2> SUFFICES ASSUME i \in picked PROVE FALSE
    OBVIOUS
  <2>1. cands'[i] = [cands[i] EXCEPT !.status = "flight"]
    BY <1>3
  <2>2. cands'[i].status = "flight"
    BY <1>4, <2>1 DEF Candidate
  <2> QED BY <2>2 DEF PassedOver
<1>6. j \in picked
  BY <1>3 DEF Picked
<1>7. /\ cands[i].status = "ready" /\ cands[j].status = "ready" /\ i \in Ready
      /\ RanksBefore(j, i)
  BY <1>2, <1>5, <1>6 DEF PassedOver, Picked, Ready
<1>8. Score(i) \in Int /\ Score(j) \in Int
  BY <1>7, ScoreBounds
<1>9. Score(j) <= Score(i)
  BY <1>7, <1>8 DEF RanksBefore
<1> QED BY <1>7, <1>9

\* An audited search candidate is never passed over for anything else.
LEMMA AuditedStep ==
  ASSUME ScheduledInv, [ScheduledNext]_allVars, phase = "select", phase' = "batch",
         NEW i \in DOMAIN cands, NEW j \in DOMAIN cands,
         PassedOver(i), cands[i].audit, ~cands[i].poll, Picked(j)
  PROVE  cands[j].audit /\ ~cands[j].poll
<1> SUFFICES ASSUME ~cands[j].audit \/ cands[j].poll PROVE FALSE
  OBVIOUS
<1>1. /\ cands[i].status = "ready" /\ cands[j].status = "ready" /\ Score(j) <= Score(i)
  BY PickedBeforePassed
<1>2. /\ OwnScore(i) \in Int /\ Score(i) \in Int /\ Score(i) <= OwnScore(i)
      /\ 4 * OwnScore(i) < -3 * AuditBonus
  BY <1>1, ScoreBounds
<1>3. AuditBonus \in Nat \ {0} /\ Infinity \in Nat
  BY ScoreAssumption
<1>4. Score(j) \in Int /\ -AuditBonus < 2 * Score(j)
  <2>1. /\ OwnScore(j) \in Int /\ Score(j) \in Int
        /\ -AuditBonus < 4 * OwnScore(j) => -AuditBonus < 2 * Score(j)
        /\ cands[j].poll => OwnScore(j) = Infinity
        /\ ~cands[j].poll /\ ~cands[j].audit => -AuditBonus < 4 * OwnScore(j)
    BY <1>1, ScoreBounds
  <2>2. -AuditBonus < 4 * Infinity
    BY <1>3
  <2> QED BY <2>1, <2>2
<1> QED BY <1>1, <1>2, <1>3, <1>4

\* Nor an older search candidate for a younger one with nothing to show.
LEMMA OlderStep ==
  ASSUME ScheduledInv, [ScheduledNext]_allVars, phase = "select", phase' = "batch",
         NEW i \in DOMAIN cands, NEW j \in DOMAIN cands,
         PassedOver(i), Picked(j), ~cands[i].poll, ~cands[j].poll,
         cands[i].epoch < cands[j].epoch, info[i].base <= info[j].base,
         ~cands[j].audit, info[j].last = 0
  PROVE  FALSE
<1> DEFINE ageI == AgeBonus * (iter - cands[i].epoch)
           ageJ == AgeBonus * (iter - cands[j].epoch)
<1>1. /\ cands[i].status = "ready" /\ cands[j].status = "ready" /\ Score(j) <= Score(i)
  BY PickedBeforePassed
<1>2. /\ OwnScore(i) \in Int /\ Score(i) \in Int /\ Score(i) <= OwnScore(i)
      /\ cands[i].audit => OwnScore(i) = info[i].base - AuditBonus
      /\ ~cands[i].audit => OwnScore(i) = info[i].base - ageI
  BY <1>1, ScoreBounds
<1>3. Score(j) = info[j].base - ageJ /\ Score(j) \in Int
  BY <1>1, ScoreBounds
<1>4. /\ cands[i].epoch \in Nat /\ cands[j].epoch \in Nat /\ iter \in 0 .. MaxIters
      /\ MaxIters \in Nat /\ info[i].base \in Nat /\ info[j].base \in Nat
  <2>1. cands[i] \in Candidate /\ cands[j] \in Candidate /\ MaxIters \in Nat
    BY Facts, EngineAssumption
  <2>2. /\ info \in Seq([base : Nat, last : 0 .. L]) /\ Len(info) = Len(cands)
        /\ cands \in Seq(Candidate)
    BY Facts DEF ScheduledInv, InfoKept
  <2>3. i \in 1 .. Len(info) /\ j \in 1 .. Len(info)
    BY <2>2
  <2>4. \A S : info \in Seq(S) => info[i] \in S /\ info[j] \in S
    BY <2>3
  <2>5. info[i].base \in Nat /\ info[j].base \in Nat
    BY <2>2, <2>4
  <2> QED BY <2>1, <2>5, Facts DEF Candidate
<1>5. /\ AgeBonus \in Nat \ {0} /\ AuditBonus \in Nat
      /\ 4 * (AgeBonus * MaxIters) < AuditBonus
  BY ScoreAssumption
<1>6. ageI \in Int /\ ageJ \in Int /\ ageJ < ageI /\ ageJ < AuditBonus
  <2> DEFINE m == iter - cands[i].epoch
             n == iter - cands[j].epoch
  <2>1. m \in Int /\ n \in Int /\ n < m /\ n <= MaxIters
    BY <1>4
  <2>2. ageI = AgeBonus * m /\ ageJ = AgeBonus * n
    OBVIOUS
  <2> HIDE DEF m, n, ageI, ageJ
  <2>3. \A x \in Nat \ {0}, y, z \in Int : y < z => x * y < x * z
    OBVIOUS
  <2>4. \A x \in Nat \ {0}, y, z \in Int : y <= z => x * y <= x * z
    OBVIOUS
  <2>5. AgeBonus * n < AgeBonus * m
    BY <1>5, <2>1, <2>3
  <2>6. AgeBonus * n <= AgeBonus * MaxIters
    BY <1>4, <1>5, <2>1, <2>4
  <2>7. AgeBonus * m \in Int /\ AgeBonus * n \in Int /\ AgeBonus * MaxIters \in Nat
    BY <1>4, <1>5, <2>1
  <2> QED BY <1>5, <2>2, <2>5, <2>6, <2>7
<1> HIDE DEF ageI, ageJ
<1> QED BY <1>1, <1>2, <1>3, <1>4, <1>5, <1>6

\* Nor any search candidate for a poll point that has not started.
LEMMA SearchFirstStep ==
  ASSUME ScheduledInv, [ScheduledNext]_allVars, phase = "select", phase' = "batch",
         NEW i \in DOMAIN cands, NEW j \in DOMAIN cands,
         Picked(j), cands[j].poll, info[j].last = 0, PassedOver(i)
  PROVE  cands[i].poll
<1> SUFFICES ASSUME ~cands[i].poll PROVE FALSE
  OBVIOUS
<1>1. /\ cands[i].status = "ready" /\ cands[j].status = "ready" /\ Score(j) <= Score(i)
  BY PickedBeforePassed
<1>2. /\ OwnScore(i) \in Int /\ Score(i) \in Int /\ Score(i) <= OwnScore(i)
      /\ OwnScore(i) < Infinity
  BY <1>1, ScoreBounds
<1>3. Score(j) = Infinity
  BY <1>1, ScoreBounds
<1>4. Infinity \in Nat
  BY ScoreAssumption
<1> QED BY <1>1, <1>2, <1>3, <1>4

-----------------------------------------------------------------------------
(* Theorems.                                                               *)

\* ScheduledInv is an inductive invariant.
THEOREM ScheduledInvariant == ScheduledSpec => []ScheduledInv
BY ScheduledInitInv, ScheduledStep, PTL DEF ScheduledSpec

\* The engine with the search policies, the scores and the sorted queue of the
\* code only makes choices that Engine leaves open, from its first state on;
\* the one other step is the change to a new engine between runs.
THEOREM SchedulingIsAChoice ==
  ScheduledSpec => Init /\ [][Next \/ RunAnotherEngine]_vars
<1>1. ScheduledInit => Init
  BY DEF ScheduledInit
<1>2. ScheduledInv /\ [ScheduledNext]_allVars => [Next \/ RunAnotherEngine]_vars
  BY StepIsEngineStep
<1> QED BY <1>1, <1>2, ScheduledInvariant, PTL DEF ScheduledSpec

\* What Engine promises holds under the code's own scheduling, in the run on
\* either engine: the reported value is the best TRUTH, audits reach TRUTH,
\* what is stopped is beaten, the mesh is refined at a local minimum.
THEOREM PromisesKept ==
  ScheduledSpec => [](/\ BestIsTruth /\ BestSoFar /\ AuditReachesTruth
                      /\ StoppedIsBeaten /\ FailedPollMeansLocalBest)
<1>1. EngineInv => BestIsTruth /\ AuditReachesTruth /\ StoppedIsBeaten
  BY TruthFollows, AuditFollows DEF EngineInv
<1>2. ScheduledInv => EngineInv /\ SearchInv
  BY DEF ScheduledInv
<1> QED BY <1>1, <1>2, BestFollows, LocalBestFollows, ScheduledInvariant, PTL

\* The direction of the search is that of the last move of the incumbent, for
\* either policy and any number of iterations without a move.
THEOREM SearchFollowsIncumbent == ScheduledSpec => []DirectionIsLastMove
<1>1. ScheduledInv => DirectionIsLastMove
  BY DEF ScheduledInv
<1> QED BY <1>1, ScheduledInvariant, PTL

\* If mesh_mul is divisible by refine_div repeatedly, down to the least
\* multiplier, the incumbent is on every mesh of the run.
THEOREM NestedMeshesKeepIncumbent == ScheduledSpec => []IncumbentOnMesh
BY IncumbentIsOnMesh, ScheduledInvariant, PTL

\* Whatever the ladder, the margins, the numbers of workers and iterations:
\* while an audited search candidate waits, only such candidates are
\* dispatched.
THEOREM AuditsGoFirst == ScheduledSpec => AuditedFirst
<1>1. ScheduledInv /\ [ScheduledNext]_allVars =>
        [phase = "select" /\ phase' = "batch" => \A i, j \in DOMAIN cands :
           PassedOver(i) /\ cands[i].audit /\ ~cands[i].poll /\ Picked(j) =>
             cands[j].audit /\ ~cands[j].poll]_allVars
  BY AuditedStep
<1> QED BY <1>1, ScheduledInvariant, PTL DEF ScheduledSpec, AuditedFirst

\* The age bonus orders what is otherwise equal: a candidate left over from an
\* earlier iteration is not passed over for a younger one with nothing better
\* to show, however many iterations there are.
THEOREM NoStarvationByYounger == ScheduledSpec => OlderFirst
<1>1. ScheduledInv /\ [ScheduledNext]_allVars =>
        [phase = "select" /\ phase' = "batch" => \A i, j \in DOMAIN cands :
           ~(/\ PassedOver(i) /\ Picked(j)
             /\ ~cands[i].poll /\ ~cands[j].poll
             /\ cands[i].epoch < cands[j].epoch
             /\ info[i].base <= info[j].base
             /\ ~cands[j].audit /\ info[j].last = 0)]_allVars
  BY OlderStep
<1> QED BY <1>1, ScheduledInvariant, PTL DEF ScheduledSpec, OlderFirst

\* Poll points start only when no search candidate, of any iteration, is left
\* waiting.
THEOREM SearchGoesFirst == ScheduledSpec => SearchBeforePoll
<1>1. ScheduledInv /\ [ScheduledNext]_allVars =>
        [phase = "select" /\ phase' = "batch" => \A i, j \in DOMAIN cands :
           Picked(j) /\ cands[j].poll /\ info[j].last = 0 /\ PassedOver(i) =>
             cands[i].poll]_allVars
  BY SearchFirstStep
<1> QED BY <1>1, ScheduledInvariant, PTL DEF ScheduledSpec, SearchBeforePoll

-----------------------------------------------------------------------------
(* The deterministic core: the step from a core, as a function of it.      *)

\* The engine whose core is c.
At(c) == INSTANCE ScheduledCore WITH
  ev <- c.ev, budget <- c.budget, workers <- c.workers, th <- c.th, asg <- c.asg,
  rev <- c.rev, bundle <- c.bundle, seed <- c.seed, calib <- c.calib,
  events <- c.events, phase <- c.phase,
  iter <- c.iter, polled <- c.polled, improved <- c.improved,
  stepsLeft <- c.stepsLeft, mul <- c.mul, cands <- c.cands, xBest <- c.xBest,
  fBest <- c.fBest, h <- c.h, points <- c.points, incumbent <- c.incumbent,
  search <- c.search, info <- c.info,
  run <- 0, work <- << >>, evalCache <- << >>, decCache <- << >>,
  track <- << >>, first <- NoRun

After(c) == At(c)!NextCore(c.known, c.verdicts)

\* The state agrees with core c on what At takes from it.
CoreOf(c) ==
  /\ c.ev = ev /\ c.budget = budget /\ c.workers = workers /\ c.th = th /\ c.asg = asg
  /\ c.rev = rev /\ c.bundle = bundle /\ c.seed = seed /\ c.calib = calib
  /\ c.events = events /\ c.phase = phase
  /\ c.iter = iter /\ c.polled = polled /\ c.improved = improved
  /\ c.stepsLeft = stepsLeft /\ c.mul = mul /\ c.cands = cands /\ c.xBest = xBest
  /\ c.fBest = fBest /\ c.h = h /\ c.points = points /\ c.incumbent = incumbent
  /\ c.search = search /\ c.info = info

\* The search policies are the same in every engine.
LEMMA SameSearch ==
  ASSUME NEW c
  PROVE  /\ \A s, x : At(c)!SetContext(s, x) = SetContext(s, x)
         /\ \A b, s, x, ds, m, k : At(c)!RawPoint(b, s, x, ds, m, k) = RawPoint(b, s, x, ds, m, k)
         /\ \A b, s, x, ds : At(c)!AfterPropose(b, s, x, ds) = AfterPropose(b, s, x, ds)
         /\ \A r, m : At(c)!Quantize(r, m) = Quantize(r, m)
         /\ \A r, x : At(c)!Distance(r, x) = Distance(r, x)
<1>1. ASSUME NEW s, NEW x PROVE At(c)!SetContext(s, x) = SetContext(s, x)
  BY DEF SetContext, At!SetContext, Sign, At!Sign
<1>2. ASSUME NEW b, NEW s, NEW x, NEW ds, NEW k
      PROVE At(c)!HaltonBefore(b, s, x, ds, k) = HaltonBefore(b, s, x, ds, k)
  BY DEF HaltonBefore, At!HaltonBefore, Cardinality, At!Cardinality, Mode, At!Mode,
         ModeRatios, At!ModeRatios
<1>3. ASSUME NEW b, NEW s, NEW x, NEW ds, NEW m, NEW k
      PROVE At(c)!RawPoint(b, s, x, ds, m, k) = RawPoint(b, s, x, ds, m, k)
  BY DEF RawPoint, At!RawPoint, Frac, At!Frac, HaltonBefore, At!HaltonBefore,
         Cardinality, At!Cardinality, Mode, At!Mode, ModeRatios, At!ModeRatios
<1>4. ASSUME NEW b, NEW s, NEW x, NEW ds
      PROVE At(c)!AfterPropose(b, s, x, ds) = AfterPropose(b, s, x, ds)
  BY <1>2 DEF AfterPropose, At!AfterPropose
<1>5. ASSUME NEW r, NEW m PROVE At(c)!Quantize(r, m) = Quantize(r, m)
  BY DEF Quantize, At!Quantize, Round, At!Round, Sign, At!Sign, Magnitude, At!Magnitude,
         Frac, At!Frac
<1>6. ASSUME NEW r, NEW x PROVE At(c)!Distance(r, x) = Distance(r, x)
  BY DEF Distance, At!Distance, Distance2, At!Distance2, Frac, At!Frac
<1> QED BY <1>1, <1>3, <1>4, <1>5, <1>6

\* Proposing in an engine with this core is proposing here.
LEMMA SameProposal ==
  ASSUME NEW c, CoreOf(c), NEW b
  PROVE  At(c)!CoreProposed(b) = CoreProposed(b)
<1>1. \A x, q : At(c)!NewCandidate(x, q) = NewCandidate(x, q)
  BY DEF CoreOf, NewCandidate, At!NewCandidate
<1>2. At(c)!SetContext(search, xBest) = SetContext(search, xBest)
  BY SameSearch
<1> DEFINE ds == seed.draws[iter]
           s == SetContext(search, xBest)
           raw == [k \in 1 .. PerIter |-> RawPoint(bundle, s, xBest, ds, mul, k)]
           new == [k \in 1 .. PerIter |-> NewCandidate(Quantize(raw[k], mul), FALSE)]
           more == [k \in 1 .. PerIter |-> [base |-> Distance(raw[k], xBest), last |-> 0]]
<1>3. [k \in 1 .. PerIter |-> At(c)!RawPoint(bundle, s, xBest, ds, mul, k)] = raw
  BY SameSearch
<1>4. At(c)!AfterPropose(bundle, s, xBest, ds) = AfterPropose(bundle, s, xBest, ds)
  BY SameSearch
<1> HIDE DEF s, raw, ds
<1>5. [k \in 1 .. PerIter |-> At(c)!NewCandidate(At(c)!Quantize(raw[k], mul), FALSE)] = new
  BY <1>1, SameSearch
<1>6. [k \in 1 .. PerIter |-> [base |-> At(c)!Distance(raw[k], xBest), last |-> 0]] = more
  BY SameSearch
<1>7. CoreProposed(b) =
        [b EXCEPT !.cands = cands \o new, !.info = info \o more,
           !.search = AfterPropose(bundle, s, xBest, ds), !.improved = FALSE,
           !.polled = FALSE, !.stepsLeft = budget, !.phase = "select"]
  BY DEF CoreProposed, s, raw, ds
<1>8. At(c)!CoreProposed(b) =
        [b EXCEPT !.cands = cands \o new, !.info = info \o more,
           !.search = AfterPropose(bundle, s, xBest, ds), !.improved = FALSE,
           !.polled = FALSE, !.stepsLeft = budget, !.phase = "select"]
  <2> HIDE DEF new, more
  <2> QED BY <1>2, <1>3, <1>4, <1>5, <1>6 DEF CoreOf, At!CoreProposed, s, ds
<1> QED BY <1>7, <1>8

\* So is every other part of the step.
LEMMA SameParts ==
  ASSUME NEW c, CoreOf(c)
  PROVE  /\ \A b : At(c)!CorePolled(b) = CorePolled(b)
         /\ At(c)!QueueHead = QueueHead
         /\ \A b, k, s : At(c)!CoreDispatched(b, k, s) = CoreDispatched(b, k, s)
         /\ \A a, v : At(c)!Fate(a, v) = Fate(a, v)
         /\ \A k, a, v : At(c)!Learned(k, a, v) = Learned(k, a, v)
         /\ \A b, x, e : At(c)!CoreAccepted(b, x, e) = CoreAccepted(b, x, e)
         /\ \A b : At(c)!CoreEnded(b) = CoreEnded(b)
         /\ \A b : At(c)!CoreRevised(b) = CoreRevised(b)
         /\ \A i, p, v, a : At(c)!Event(i, p, v, a) = Event(i, p, v, a)
<1> USE DEF CoreOf
<1>1. ASSUME NEW b PROVE At(c)!CorePolled(b) = CorePolled(b)
  BY DEF CorePolled, At!CorePolled, PollPoints, At!PollPoints, PollStep, At!PollStep,
         Larger, At!Larger, PollScore, At!PollScore, NewCandidate, At!NewCandidate
<1>2. At(c)!QueueHead = QueueHead
  BY DEF QueueHead, At!QueueHead, IsHead, At!IsHead, Cardinality, At!Cardinality, BatchSize,
         At!BatchSize, Ready, At!Ready, RanksBefore, At!RanksBefore, Score, At!Score,
         BoundedScore, At!BoundedScore, OwnScore, At!OwnScore, Lesser, At!Lesser, Lcb, At!Lcb,
         Bias, At!Bias, IdLess, At!IdLess
<1>3. ASSUME NEW b, NEW k, NEW s PROVE At(c)!CoreDispatched(b, k, s) = CoreDispatched(b, k, s)
  BY DEF CoreDispatched, At!CoreDispatched, Spend, At!Spend, Cardinality, At!Cardinality,
         Verdict, At!Verdict, DecisionKey, At!DecisionKey, TagOf, At!TagOf, Invalid, At!Invalid,
         Panic, At!Panic, L, At!L
<1>4. ASSUME NEW a, NEW v PROVE At(c)!Fate(a, v) = Fate(a, v)
  BY DEF Fate, At!Fate, CheapChecked, At!CheapChecked, Judged, At!Judged, CutsAt, At!CutsAt,
         EarlyInfeasible, At!EarlyInfeasible, NextLevel, At!NextLevel, NextAuditTarget,
         At!NextAuditTarget, Paired, At!Paired, Levels, At!Levels, L, At!L, AfterEarly,
         At!AfterEarly, CutOrAudited, At!CutOrAudited, Prunes, At!Prunes, PruningAllowed,
         At!PruningAllowed, SmcLevels, At!SmcLevels, Clamp, At!Clamp, Larger, At!Larger,
         Cardinality, At!Cardinality, Lcb, At!Lcb, Bias, At!Bias
<1>5. ASSUME NEW k, NEW a, NEW v PROVE At(c)!Learned(k, a, v) = Learned(k, a, v)
  BY DEF Learned, At!Learned, CheapChecked, At!CheapChecked, CutsAt, At!CutsAt,
         EarlyInfeasible, At!EarlyInfeasible, Bias, At!Bias, Put, At!Put, DecisionKey,
         At!DecisionKey, TagOf, At!TagOf, L, At!L
<1>6. ASSUME NEW b, NEW x, NEW e PROVE At(c)!CoreAccepted(b, x, e) = CoreAccepted(b, x, e)
  BY DEF CoreAccepted, At!CoreAccepted, Larger, At!Larger, Accepts, At!Accepts, Dominated,
         At!Dominated, Dominates, At!Dominates, BetterFeasible, At!BetterFeasible,
         FilterInsert, At!FilterInsert, Truncate, At!Truncate, NewPoint, At!NewPoint,
         Before, At!Before, Cap, At!Cap, Cardinality, At!Cardinality
<1>7. ASSUME NEW b PROVE At(c)!CoreEnded(b) = CoreEnded(b)
  BY DEF CoreEnded, At!CoreEnded, Tightened, At!Tightened, Larger, At!Larger, Clamp, At!Clamp,
         HFloor, At!HFloor, Refined, At!Refined, LoopPhase, At!LoopPhase
<1>8. ASSUME NEW b PROVE At(c)!CoreRevised(b) = CoreRevised(b)
  <2>1. At(c)!Revised = Revised
    BY DEF Revised, At!Revised, Policies, At!Policies, Levels, At!Levels, L, At!L
  <2>2. At(c)!Learning(Revised) <=> Learning(Revised)
    BY DEF Learning, At!Learning
  <2> QED BY <2>1, <2>2 DEF CoreRevised, At!CoreRevised, Bump, At!Bump, BatchEnd, At!BatchEnd
<1>9. ASSUME NEW i, NEW p, NEW v, NEW a PROVE At(c)!Event(i, p, v, a) = Event(i, p, v, a)
  BY DEF Event, At!Event
<1> QED BY <1>1, <1>2, <1>3, <1>4, <1>5, <1>6, <1>7, <1>8, <1>9

\* Hence the whole step.
LEMMA AfterNow ==
  ASSUME phase # "batch"
  PROVE  After(CoreNow) = NextCore(Known, Verdicts)
<1> DEFINE kn == Known
           vs == Verdicts
           c == Core(kn, vs)
<1>1. c = CoreNow
  BY DEF CoreNow
<1>2. CoreOf(c) /\ c.known = kn /\ c.verdicts = vs
  <2> HIDE DEF kn, vs
  <2> QED BY DEF Core, CoreOf
<1>3. After(c) = At(c)!NextCore(kn, vs)
  BY <1>2 DEF After
<1> HIDE DEF c, kn, vs
<1>4. At(c)!NextCore(kn, vs) = NextCore(kn, vs)
  <2> DEFINE b == Core(kn, vs)
  <2>1. At(c)!Core(kn, vs) = b
    BY <1>2 DEF CoreOf, Core, At!Core
  <2>2. At(c)!CoreProposed(b) = CoreProposed(b)
    BY <1>2, SameProposal
  <2> HIDE DEF b
  <2>3. At(c)!CoreEnded(b) = CoreEnded(b)
    BY <1>2, SameParts
  <2>4. At(c)!CoreSelected(b, kn) = CoreSelected(b, kn)
    <3>1. At(c)!Ready = Ready /\ (At(c)!CanPoll <=> CanPoll)
      BY <1>2 DEF CoreOf, Ready, At!Ready, CanPoll, At!CanPoll
    <3> QED BY <3>1, <1>2, SameParts DEF CoreOf, CoreSelected, At!CoreSelected
  <2>5. At(c)!CoreJoined(b, kn, vs) = CoreJoined(b, kn, vs)
    <3>1. \A v, a : At(c)!Unwinds(v, a) <=> Unwinds(v, a)
      BY <1>2 DEF CoreOf, Unwinds, At!Unwinds, CheapChecked, At!CheapChecked
    <3>2. \A i : At(c)!CoreSettled(b, kn, vs, i) = CoreSettled(b, kn, vs, i)
      <4> SUFFICES ASSUME NEW i
                   PROVE  At(c)!CoreSettled(b, kn, vs, i) = CoreSettled(b, kn, vs, i)
        OBVIOUS
      <4>1. /\ At(c)!Fate(cands[i], vs[i]) = Fate(cands[i], vs[i])
            /\ At(c)!Learned(kn, cands[i], vs[i]) = Learned(kn, cands[i], vs[i])
            /\ At(c)!L = L
            /\ \A a, x, e : At(c)!CoreAccepted(a, x, e) = CoreAccepted(a, x, e)
            /\ \A j, p, v, a : At(c)!Event(j, p, v, a) = Event(j, p, v, a)
        BY <1>2, SameParts DEF L, At!L
      <4> DEFINE d == Fate(cands[i], vs[i])
                 told == Event(i, cands[i].next, vs[i], d)
                 more == Learned(kn, cands[i], vs[i])
                 s == [b EXCEPT
                         !.cands = [cands EXCEPT ![i] = d],
                         !.info = [info EXCEPT ![i].last = cands[i].next],
                         !.events = Append(events, told),
                         !.verdicts = [j \in DOMAIN vs \ {i} |-> vs[j]],
                         !.known = more]
                 e == ev.est[cands[i].x][L]
      <4>2. CoreSettled(b, kn, vs, i) =
              IF d.status = "truth" THEN CoreAccepted(s, cands[i].x, e) ELSE s
        BY DEF CoreSettled
      <4>3. At(c)!Event(i, cands[i].next, vs[i], d) = told
        BY <4>1
      <4>4. At(c)!Fate(cands[i], vs[i]) = d /\ At(c)!Learned(kn, cands[i], vs[i]) = more
        BY <4>1
      <4> HIDE DEF d, told, more
      <4>5. At(c)!CoreSettled(b, kn, vs, i) =
              IF d.status = "truth" THEN At(c)!CoreAccepted(s, cands[i].x, e) ELSE s
        BY <1>2, <4>1, <4>3, <4>4 DEF CoreOf, At!CoreSettled
      <4> HIDE DEF s, e
      <4> QED BY <4>1, <4>2, <4>5
    <3>3. \A i : At(c)!CoreProcessed(b, kn, vs, i) = CoreProcessed(b, kn, vs, i)
      <4>1. \A j, p, v, a : At(c)!Event(j, p, v, a) = Event(j, p, v, a)
        BY <1>2, SameParts
      <4> QED BY <1>2, <3>1, <3>2, <4>1 DEF CoreOf, CoreProcessed, At!CoreProcessed
    <3> DEFINE f == CHOOSE i \in DOMAIN vs : IsFirst(vs, i)
    <3>4. CoreJoined(b, kn, vs) = IF DOMAIN vs = {} THEN CoreRevised(b)
                                  ELSE CoreProcessed(b, kn, vs, f)
      BY DEF CoreJoined
    <3>5. At(c)!CoreJoined(b, kn, vs) = IF DOMAIN vs = {} THEN At(c)!CoreRevised(b)
                                        ELSE At(c)!CoreProcessed(b, kn, vs, f)
      BY <1>2 DEF CoreOf, At!CoreJoined, IsFirst, At!IsFirst, IdLess, At!IdLess
    <3>6. At(c)!CoreRevised(b) = CoreRevised(b)
      BY <1>2, SameParts
    <3> HIDE DEF f
    <3> QED BY <3>3, <3>4, <3>5, <3>6
  <2> QED BY <1>2, <2>1, <2>2, <2>3, <2>4, <2>5 DEF b, CoreOf, NextCore, At!NextCore
<1> QED BY <1>1, <1>3, <1>4 DEF kn, vs

-----------------------------------------------------------------------------
(* The workers of a batch leave the core alone.                            *)

\* An item that is past the decision cache found nothing in it that counts.
Missed ==
  \A i \in DOMAIN work : work[i].pc \in {"eval", "compute"} =>
    DecisionKey(cands[i].x, work[i].phi, TagOf(work[i].phi)) \notin DOMAIN Known

\* The core after a step, in full.
LEMMA CoreNext ==
  CoreNow' =
    [ev |-> ev', budget |-> budget', workers |-> workers', th |-> th', asg |-> asg',
     rev |-> rev', bundle |-> bundle', seed |-> seed', calib |-> calib',
     events |-> events',
     phase |-> IF phase' = "batch" THEN "join" ELSE phase',
     iter |-> iter', polled |-> polled', improved |-> improved',
     stepsLeft |-> stepsLeft', mul |-> mul', cands |-> cands',
     xBest |-> xBest', fBest |-> fBest',
     h |-> h', points |-> points', incumbent |-> incumbent',
     search |-> search', info |-> info', known |-> Known', verdicts |-> Verdicts']
BY DEF CoreNow, Core

\* What is known depends on the cache alone, a verdict also on problem and
\* revision.
LEMMA SameVerdicts ==
  /\ UNCHANGED decCache => Known' = Known
  /\ UNCHANGED <<ev, rev>> => \A k, x, p : Verdict(k, x, p)' = Verdict(k, x, p)
  /\ \A out : KindOf(out)' = KindOf(out)
BY DEF Known, Verdict, KindOf, DecisionKey, TagOf

\* A decision that counts is known from then on, under its key.
LEMMA KnownPut ==
  ASSUME NEW key, NEW d, decCache' = Put(decCache, key, d)
  PROVE  /\ d.kind # "invalid" => Known' = Put(Known, key, d.kind)
         /\ d.kind = "invalid" /\ key \notin DOMAIN Known => Known' = Known
<1> DEFINE D == {q \in DOMAIN decCache : decCache[q].kind # "invalid"}
           E == {q \in DOMAIN decCache' : decCache'[q].kind # "invalid"}
<1>1. /\ DOMAIN decCache' = DOMAIN decCache \cup {key} /\ decCache'[key] = d
      /\ \A q \in DOMAIN decCache : q # key => decCache'[q] = decCache[q]
  BY DEF Put
<1>2. Known = [q \in D |-> decCache[q].kind] /\ Known' = [q \in E |-> decCache'[q].kind]
  BY DEF Known
<1>3. CASE d.kind # "invalid"
  <2>1. E = D \cup {key}
    BY <1>1, <1>3
  <2>2. \A q \in E : decCache'[q].kind = IF q = key THEN d.kind ELSE Known[q]
    BY <1>1, <1>2, <2>1
  <2>3. DOMAIN Known = D
    BY <1>2
  <2> HIDE DEF D, E
  <2> QED BY <1>2, <1>3, <2>1, <2>2, <2>3 DEF Put
<1>4. CASE d.kind = "invalid" /\ key \notin DOMAIN Known
  <2>1. E = D
    BY <1>1, <1>2, <1>4
  <2>2. \A q \in D : decCache'[q].kind = decCache[q].kind
    BY <1>1, <1>2, <1>4
  <2> HIDE DEF D, E
  <2> QED BY <1>2, <1>4, <2>1, <2>2
<1> QED BY <1>3, <1>4

\* Estimates are not an invalid evaluation, nor is a panic.
LEMMA EstimatesDiffer == Invalid # Panic /\ Invalid \notin Estimates /\ Panic \notin Estimates
<1>1. Invalid # Panic
  <2>1. Invalid.none = "invalid" /\ Panic.none = "panic"
    BY DEF Invalid, Panic
  <2> QED BY <2>1
<1>2. \A e \in Estimates : DOMAIN e = {"f", "c", "s"}
  BY DEF Estimates
<1>3. DOMAIN Invalid = {"none"} /\ DOMAIN Panic = {"none"}
  BY DEF Invalid, Panic
<1> QED BY <1>1, <1>2, <1>3

\* An item of the batch becomes w: what it comes back with is settled already.
LEMMA ItemSettled ==
  ASSUME EngineInv, Missed, ItemUnchanged, UNCHANGED scheduleVars, phase = "batch",
         NEW i \in DOMAIN work, work[i].pc # "done",
         NEW w, work' = [work EXCEPT ![i] = w], w.phi = work[i].phi, Known' = Known,
         w.pc = "done" => KindOf(w.out) = Verdict(Known, cands[i].x, work[i].phi),
         w.pc \in {"eval", "compute"} =>
           DecisionKey(cands[i].x, work[i].phi, TagOf(work[i].phi)) \notin DOMAIN Known
  PROVE  CoreNow' = CoreNow /\ Missed'
<1>1. UNCHANGED <<ev, budget, workers, th, asg, rev, bundle, seed, calib, events, phase,
                  iter, polled, improved, stepsLeft, mul, cands, xBest, fBest, h, points,
                  incumbent, search, info>>
  BY DEF ItemUnchanged, scheduleVars, runVars, iterVars, bestVars, policyVars, acceptVars
<1>2. /\ DOMAIN work' = DOMAIN work /\ work'[i] = w
      /\ \A j \in DOMAIN work : j # i => work'[j] = work[j]
  OBVIOUS
<1> DEFINE kn == Known
           old(j) == IF work[j].pc = "done" THEN KindOf(work[j].out)
                                            ELSE Verdict(kn, cands[j].x, work[j].phi)
           new(j) == IF work'[j].pc = "done" THEN KindOf(work'[j].out)
                                             ELSE Verdict(kn, cands[j].x, work'[j].phi)
<1>3. Verdicts = [j \in DOMAIN work |-> old(j)]
  BY DEF Verdicts
<1>4. Verdicts' = [j \in DOMAIN work' |-> new(j)]
  BY <1>1 DEF Verdicts, Verdict, KindOf, DecisionKey, TagOf
<1>5. \A j \in DOMAIN work : new(j) = old(j)
  <2> HIDE DEF kn
  <2> QED BY <1>2 DEF kn
<1>6. Verdicts' = Verdicts
  <2> HIDE DEF old, new
  <2> QED BY <1>2, <1>3, <1>4, <1>5
<1>7. CoreNow' = CoreNow
  <2> DEFINE vs == Verdicts
  <2>1. Verdicts' = vs /\ Known' = kn /\ CoreNow = Core(kn, vs)
    BY <1>6 DEF CoreNow
  <2> HIDE DEF vs, kn
  <2> QED BY <1>1, <2>1, CoreNext DEF Core
<1>8. Missed'
  <2> DEFINE key(j) == DecisionKey(cands[j].x, work[j].phi, TagOf(work[j].phi))
             D == DOMAIN Known
  <2>1. \A j \in DOMAIN work : work[j].pc \in {"eval", "compute"} => key(j) \notin D
    BY DEF Missed
  <2>2. \A j \in DOMAIN work : work'[j].phi = work[j].phi
    BY <1>2
  <2>3. \A j \in DOMAIN work : key(j)' = key(j)
    BY <1>1, <2>2 DEF DecisionKey, TagOf
  <2>4. (DOMAIN Known)' = D
    OBVIOUS
  <2>5. \A j \in DOMAIN work : work'[j].pc \in {"eval", "compute"} => key(j)' \notin D
    <3> HIDE DEF D
    <3> QED BY <1>2, <2>1, <2>3 DEF D
  <2> QED BY <1>2, <2>4, <2>5 DEF Missed
<1> QED BY <1>7, <1>8

\* Records with the fields of a core.
CoreFields ==
  {"ev", "budget", "workers", "th", "asg", "rev", "bundle", "seed", "calib", "events",
   "phase", "iter", "polled", "improved", "stepsLeft", "mul", "cands", "xBest", "fBest",
   "h", "points", "incumbent", "search", "info", "known", "verdicts"}

IsCore(c) == c = [k \in CoreFields |-> c[k]]

SameFields(c, d) ==
  /\ c.ev = d.ev /\ c.budget = d.budget /\ c.workers = d.workers /\ c.th = d.th
  /\ c.asg = d.asg /\ c.rev = d.rev /\ c.bundle = d.bundle /\ c.seed = d.seed
  /\ c.calib = d.calib /\ c.events = d.events
  /\ c.phase = d.phase /\ c.iter = d.iter /\ c.polled = d.polled
  /\ c.improved = d.improved /\ c.stepsLeft = d.stepsLeft /\ c.mul = d.mul
  /\ c.cands = d.cands /\ c.xBest = d.xBest /\ c.fBest = d.fBest /\ c.h = d.h
  /\ c.points = d.points /\ c.incumbent = d.incumbent /\ c.search = d.search
  /\ c.info = d.info /\ c.known = d.known /\ c.verdicts = d.verdicts

\* Cores that agree in every field are equal.
LEMMA CoreEqual ==
  ASSUME NEW c, NEW d, IsCore(c), IsCore(d), SameFields(c, d)
  PROVE  c = d
<1>1. \A k \in CoreFields : c[k] = d[k]
  BY DEF CoreFields, SameFields
<1> QED BY <1>1 DEF IsCore

\* The core after a step is one, and so is what a core is changed to.
LEMMA CoreIsCore ==
  /\ IsCore(CoreNow')
  /\ \A kn, vs : IsCore(Core(kn, vs))
<1>1. IsCore(CoreNow')
  BY CoreNext DEF IsCore, CoreFields
<1>2. ASSUME NEW kn, NEW vs PROVE IsCore(Core(kn, vs))
  BY DEF IsCore, CoreFields, Core
<1> QED BY <1>1, <1>2

\* The steps of execute_one.
LEMMA ItemQuiet ==
  ASSUME EngineInv, Missed, UNCHANGED scheduleVars, NEW i \in DOMAIN work,
         LookupDecision(i) \/ LookupEval(i) \/ Compute(i)
  PROVE  CoreNow' = CoreNow /\ Missed'
<1> DEFINE x == cands[i].x
           p == work[i].phi
           e == ev.est[x][p]
           key == DecisionKey(x, p, TagOf(p))
<1>1. /\ phase = "batch" /\ ItemUnchanged /\ work[i].pc # "done"
      /\ work[i].pc # "decision" => key \notin DOMAIN Known
  BY DEF LookupDecision, LookupEval, Compute, ItemAt, ItemUnchanged, Missed
<1>2. /\ x \in XMesh /\ p \in Levels /\ p = cands[i].next /\ ev \in Evaluators
      /\ e \in Estimates \cup {Invalid, Panic}
  BY ItemFacts, EstType
<1>3. key[1] = x /\ key[2] = Ladder[p] /\ key[4] = TagOf(p)
  BY DEF DecisionKey
<1>4. work[i] \in [pc : {"decision", "eval", "compute"}, phi : {p}]
  BY <1>1, <1>2 DEF EngineInv, Batch, ItemOK
<1>5. Verdict(Known, x, p) = IF e = Invalid THEN "invalid"
                             ELSE IF key \in DOMAIN Known THEN Known[key]
                             ELSE IF e = Panic THEN "none" ELSE "est"
  BY DEF Verdict
<1>6. UNCHANGED decCache => Known' = Known
  BY SameVerdicts
<1>7. CASE LookupDecision(i)
  <2>1. UNCHANGED decCache
    BY <1>7 DEF LookupDecision, cacheVars
  <2>2. CASE key \in DOMAIN decCache
    <3> DEFINE d == decCache[key]
               w == [pc |-> "done", phi |-> p, out |-> [cached |-> d]]
    <3>1. work' = [work EXCEPT ![i] = w]
      BY <1>7, <2>2 DEF LookupDecision, Outcome
    <3>2. ResultOK(ev, d, x, p)
      <4> HIDE DEF key
      <4> QED BY <1>2, <1>3, <2>2 DEF EngineInv, DecTrue
    <3>3. (d.kind = "invalid" /\ e = Invalid) \/ (d.kind # "invalid" /\ e # Invalid)
      BY <3>2, EstimatesDiffer DEF ResultOK
    <3>4. d.kind # "invalid" => key \in DOMAIN Known /\ Known[key] = d.kind
      <4> HIDE DEF key
      <4> QED BY <2>2 DEF Known
    <3>5. KindOf(w.out) = d.kind
      <4> HIDE DEF d
      <4> QED BY DEF KindOf
    <3>6. w.pc = "done" /\ w.phi = p
      OBVIOUS
    <3>7. KindOf(w.out) = Verdict(Known, x, p)
      <4> HIDE DEF d, w, key, e
      <4> QED BY <1>5, <3>3, <3>4, <3>5
    <3> HIDE DEF w
    <3> QED BY <1>1, <1>6, <2>1, <3>1, <3>6, <3>7, ItemSettled
  <2>3. CASE key \notin DOMAIN decCache
    <3> DEFINE w == [work[i] EXCEPT !.pc = "eval"]
    <3>1. work' = [work EXCEPT ![i] = w]
      BY <1>7, <2>3 DEF LookupDecision
    <3>2. w.pc = "eval" /\ w.phi = p
      BY <1>4
    <3>3. key \notin DOMAIN Known
      BY <2>3 DEF Known
    <3> HIDE DEF w
    <3> QED BY <1>1, <1>6, <2>1, <3>1, <3>2, <3>3, ItemSettled
  <2> QED BY <2>2, <2>3
<1>8. CASE LookupEval(i)
  <2> DEFINE slot == EvalKey(x, p)
  <2>1. UNCHANGED decCache /\ key \notin DOMAIN Known
    BY <1>1, <1>8 DEF LookupEval, ItemAt, cacheVars
  <2>2. CASE slot \in DOMAIN evalCache
    <3> DEFINE w == [pc |-> "done", phi |-> p, out |-> [est |-> evalCache[slot]]]
    <3>1. work' = [work EXCEPT ![i] = w]
      BY <1>8, <2>2 DEF LookupEval, Outcome
    <3>2. e \in Estimates
      <4>1. slot[1] = x /\ slot[2] = Ladder[p]
        BY DEF EvalKey
      <4> HIDE DEF slot
      <4> QED BY <1>2, <2>2, <4>1 DEF EngineInv, EvalTrue
    <3>3. KindOf(w.out) = "est"
      BY DEF KindOf
    <3>4. KindOf(w.out) = Verdict(Known, x, p)
      <4> HIDE DEF w, key, e
      <4> QED BY <1>5, <2>1, <3>2, <3>3, EstimatesDiffer
    <3>5. w.pc = "done" /\ w.phi = p
      OBVIOUS
    <3> HIDE DEF w
    <3> QED BY <1>1, <1>6, <2>1, <3>1, <3>4, <3>5, ItemSettled
  <2>3. CASE slot \notin DOMAIN evalCache
    <3> DEFINE w == [work[i] EXCEPT !.pc = "compute"]
    <3>1. work' = [work EXCEPT ![i] = w]
      BY <1>8, <2>3 DEF LookupEval
    <3>2. w.pc = "compute" /\ w.phi = p
      BY <1>4
    <3> HIDE DEF w
    <3> QED BY <1>1, <1>6, <2>1, <3>1, <3>2, ItemSettled
  <2> QED BY <2>2, <2>3
<1>9. CASE Compute(i)
  <2>1. key \notin DOMAIN Known
    BY <1>1, <1>9 DEF Compute, ItemAt
  <2>2. CASE e = Invalid
    <3>1. /\ work' = [work EXCEPT ![i] = [pc |-> "done", phi |-> p,
                                          out |-> [cached |-> Decided("invalid", e)]]]
          /\ decCache' = Put(decCache, key, Decided("invalid", e))
      BY <1>9, <2>2, EstimatesDiffer DEF Compute, Outcome
    <3>2. Decided("invalid", e).kind = "invalid"
      BY DEF Decided
    <3>3. Known' = Known
      BY <2>1, <3>1, <3>2, KnownPut
    <3> DEFINE u == [pc |-> "done", phi |-> p, out |-> [cached |-> Decided("invalid", e)]]
    <3>4. KindOf(u.out) = Verdict(Known, x, p)
      <4>1. KindOf(u.out) = "invalid"
        BY <3>2 DEF KindOf
      <4> QED BY <1>5, <2>2, <4>1
    <3>5. u.pc = "done" /\ u.phi = p /\ work' = [work EXCEPT ![i] = u]
      BY <3>1
    <3> HIDE DEF u
    <3> QED BY <1>1, <3>3, <3>4, <3>5, ItemSettled
  <2>3. CASE e = Panic
    <3> DEFINE u == [pc |-> "done", phi |-> p, out |-> [none |-> TRUE]]
    <3>1. UNCHANGED decCache /\ work' = [work EXCEPT ![i] = u]
      BY <1>9, <2>3, EstimatesDiffer DEF Compute, Outcome, cacheVars
    <3>2. KindOf(u.out) = "none"
      BY DEF KindOf
    <3>3. KindOf(u.out) = Verdict(Known, x, p)
      <4> HIDE DEF u, key, e
      <4> QED BY <1>5, <2>1, <2>3, <3>2, EstimatesDiffer
    <3>4. u.pc = "done" /\ u.phi = p
      OBVIOUS
    <3> HIDE DEF u
    <3> QED BY <1>1, <1>6, <3>1, <3>3, <3>4, ItemSettled
  <2>4. CASE e \in Estimates
    <3> DEFINE u == [pc |-> "done", phi |-> p, out |-> [est |-> e]]
    <3>1. UNCHANGED decCache /\ work' = [work EXCEPT ![i] = u]
      BY <1>9, <2>4, EstimatesDiffer DEF Compute, Outcome
    <3>2. KindOf(u.out) = "est"
      BY DEF KindOf
    <3>3. KindOf(u.out) = Verdict(Known, x, p)
      <4> HIDE DEF u, key, e
      <4> QED BY <1>5, <2>1, <2>4, <3>2, EstimatesDiffer
    <3>4. u.pc = "done" /\ u.phi = p
      OBVIOUS
    <3> HIDE DEF u
    <3> QED BY <1>1, <1>6, <3>1, <3>3, <3>4, ItemSettled
  <2> QED BY <1>2, <2>2, <2>3, <2>4
<1> QED BY <1>7, <1>8, <1>9

-----------------------------------------------------------------------------
(* The engine thread takes the core one step on.                           *)

\* What the batch comes back with does not change while batch and cache stay.
LEMMA VerdictsKept ==
  ASSUME Missed, UNCHANGED <<decCache, work, ev, rev>>,
         \A i \in DOMAIN work : cands'[i].x = cands[i].x
  PROVE  Known' = Known /\ Verdicts' = Verdicts /\ Missed'
<1>1. Known' = Known
  BY SameVerdicts
<1>2. Verdicts' = Verdicts
  BY <1>1 DEF Verdicts, Verdict, KindOf, DecisionKey, TagOf
<1>3. \A i \in DOMAIN work :
        DecisionKey(cands[i].x, work[i].phi, TagOf(work[i].phi))'
          = DecisionKey(cands[i].x, work[i].phi, TagOf(work[i].phi))
  BY DEF DecisionKey, TagOf
<1>4. Missed'
  BY <1>1, <1>3 DEF Missed
<1> QED BY <1>1, <1>2, <1>4

\* The batch is joined, or nothing happens.
LEMMA CoreJoin ==
  ASSUME Missed, Join \/ UNCHANGED vars, UNCHANGED scheduleVars
  PROVE  CoreNow' = CoreNow /\ Missed'
<1>1. UNCHANGED <<ev, budget, workers, th, asg, rev, bundle, seed, calib, events, iter,
                  polled, improved, stepsLeft, mul, cands, xBest, fBest, h, points,
                  incumbent, search, info, work, decCache>>
  BY DEF Join, vars, scheduleVars, runVars, iterVars, bestVars, policyVars, cacheVars, acceptVars
<1>2. phase' = phase \/ (phase = "batch" /\ phase' = "join")
  BY DEF Join, vars
<1> DEFINE kn == Known
           vs == Verdicts
<1>3. Known' = kn /\ Verdicts' = vs /\ Missed' /\ CoreNow = Core(kn, vs)
  BY <1>1, VerdictsKept DEF CoreNow
<1> HIDE DEF kn, vs
<1> QED BY <1>1, <1>2, <1>3, CoreNext DEF Core

\* The search proposes its points.
LEMMA CorePropose ==
  ASSUME ScheduledInv, Missed, ScheduledPropose
  PROVE  CoreNow' = NextCore(Known, Verdicts) /\ Missed'
<1> DEFINE draws == seed.draws[iter]
           s == SetContext(search, xBest)
           raw == [k \in 1 .. PerIter |-> RawPoint(bundle, s, xBest, draws, mul, k)]
           xs == [k \in 1 .. PerIter |-> Quantize(raw[k], mul)]
           new == [k \in 1 .. PerIter |-> NewCandidate(Quantize(raw[k], mul), FALSE)]
           more == [k \in 1 .. PerIter |-> [base |-> Distance(raw[k], xBest), last |-> 0]]
           after == AfterPropose(bundle, s, xBest, draws)
           kn == Known
           vs == Verdicts
           core == Core(kn, vs)
<1>1. /\ phase = "propose" /\ phase' = "select"
      /\ cands' = cands \o [k \in 1 .. PerIter |-> NewCandidate(xs[k], FALSE)]
      /\ info' = info \o more /\ search' = after
      /\ improved' = FALSE /\ polled' = FALSE /\ stepsLeft' = budget
  BY DEF ScheduledPropose, Ingest
<1>2. [k \in 1 .. PerIter |-> NewCandidate(xs[k], FALSE)] = new
  OBVIOUS
<1>3. UNCHANGED <<ev, budget, workers, th, asg, rev, bundle, seed, calib, events, iter,
                  mul, xBest, fBest, h, points, incumbent, work, decCache>>
  BY DEF ScheduledPropose, Ingest, runVars, bestVars, policyVars, cacheVars, acceptVars
<1>4. DOMAIN work = {}
  BY <1>1 DEF ScheduledInv, EngineInv, Batch
<1>5. Known' = kn /\ Verdicts' = vs /\ Missed'
  BY <1>3, <1>4, VerdictsKept
<1>6. NextCore(kn, vs) =
        [core EXCEPT
           !.cands = cands \o new, !.info = info \o more, !.search = after,
           !.improved = FALSE, !.polled = FALSE, !.stepsLeft = budget, !.phase = "select"]
  <2> HIDE DEF kn, vs
  <2> QED BY <1>1 DEF NextCore, CoreProposed
<1> HIDE DEF kn, vs, new, more, after
<1>7. CoreNow' = NextCore(kn, vs)
  <2> DEFINE cs == cands \o new
             is == info \o more
  <2>1. cands' = cs /\ info' = is
    BY <1>1, <1>2
  <2> DEFINE c == [core EXCEPT !.cands = cs, !.info = is, !.search = after]
             d == [ev |-> ev, budget |-> budget, workers |-> workers, th |-> th,
                   asg |-> asg, rev |-> rev, bundle |-> bundle, seed |-> seed,
                   calib |-> calib, events |-> events, phase |-> phase, iter |-> iter, polled |-> polled,
                   improved |-> improved, stepsLeft |-> stepsLeft, mul |-> mul,
                   cands |-> cs, xBest |-> xBest, fBest |-> fBest, h |-> h,
                   points |-> points, incumbent |-> incumbent, search |-> after,
                   info |-> is, known |-> kn, verdicts |-> vs]
             r == [d EXCEPT !.improved = FALSE, !.polled = FALSE,
                            !.stepsLeft = budget, !.phase = "select"]
  <2>2. NextCore(kn, vs) = [c EXCEPT !.improved = FALSE, !.polled = FALSE,
                                     !.stepsLeft = budget, !.phase = "select"]
    BY <1>6
  <2> HIDE DEF cs, is
  <2>3. IsCore(c) /\ IsCore(d)
    <3>1. IsCore(c)
      <4>1. IsCore(core)
        BY CoreIsCore
      <4> HIDE DEF core
      <4> QED BY <4>1 DEF IsCore
    <3>2. IsCore(d)
      BY DEF IsCore, CoreFields
    <3> QED BY <3>1, <3>2
  <2>4. SameFields(c, d)
    BY <1>1 DEF Core, SameFields
  <2>5. c = d
    <3> HIDE DEF c, d
    <3> QED BY <2>3, <2>4, CoreEqual
  <2>6. IsCore(r)
    <3> HIDE DEF d
    <3> QED BY <2>3 DEF IsCore
  <2>7. SameFields(CoreNow', r)
    <3> DEFINE q == [ev |-> ev, budget |-> budget, workers |-> workers, th |-> th,
                     asg |-> asg, rev |-> rev, bundle |-> bundle, seed |-> seed,
                     calib |-> calib, events |-> events, phase |-> "select", iter |-> iter, polled |-> FALSE,
                     improved |-> FALSE, stepsLeft |-> budget, mul |-> mul,
                     cands |-> cs, xBest |-> xBest, fBest |-> fBest, h |-> h,
                     points |-> points, incumbent |-> incumbent, search |-> after,
                     info |-> is, known |-> kn, verdicts |-> vs]
    <3>1. SameFields(q, r)
      BY DEF SameFields
    <3>2. CoreNow' = q
      <4> HIDE DEF r
      <4> QED BY <1>1, <1>3, <1>5, <2>1, CoreNext
    <3> HIDE DEF q, r
    <3> QED BY <3>1, <3>2
  <2> HIDE DEF c, d
  <2>8. NextCore(kn, vs) = r
    BY <2>2, <2>5
  <2> HIDE DEF r
  <2> QED BY <2>6, <2>7, <2>8, CoreIsCore, CoreEqual
<1> QED BY <1>5, <1>7 DEF kn, vs

\* The queue is empty: the frame around the incumbent is polled.
LEMMA CorePoll ==
  ASSUME ScheduledInv, Missed, ScheduledPoll
  PROVE  CoreNow' = NextCore(Known, Verdicts) /\ Missed'
<1> DEFINE pts == PollPoints(xBest)
           new == [d \in 1 .. Len(pts) |-> NewCandidate(pts[d], TRUE)]
           more == [d \in 1 .. Len(pts) |-> [base |-> PollScore, last |-> 0]]
           kn == Known
           vs == Verdicts
           core == Core(kn, vs)
<1>1. /\ phase = "select" /\ phase' = phase /\ stepsLeft # 0 /\ Ready = {} /\ CanPoll
      /\ cands' = cands \o new /\ info' = info \o more /\ polled' = TRUE
  BY DEF ScheduledPoll, InjectPoll
<1>2. UNCHANGED <<ev, budget, workers, th, asg, rev, bundle, seed, calib, events, iter,
                  improved, stepsLeft, mul, xBest, fBest, h, points, incumbent, search,
                  work, decCache>>
  BY DEF ScheduledPoll, InjectPoll, runVars, bestVars, policyVars, cacheVars, acceptVars
<1>3. DOMAIN work = {}
  BY <1>1 DEF ScheduledInv, EngineInv, Batch
<1>4. Known' = kn /\ Verdicts' = vs /\ Missed'
  BY <1>2, <1>3, VerdictsKept
<1>5. NextCore(kn, vs) =
        [core EXCEPT !.cands = cands \o new, !.info = info \o more, !.polled = TRUE]
  <2> HIDE DEF kn, vs
  <2> QED BY <1>1 DEF NextCore, CoreSelected, CorePolled
<1> HIDE DEF kn, vs, new, more
<1>6. CoreNow' = NextCore(kn, vs)
  <2> DEFINE cs == cands \o new
             is == info \o more
  <2>1. cands' = cs /\ info' = is
    BY <1>1
  <2> DEFINE r == [core EXCEPT !.cands = cs, !.info = is, !.polled = TRUE]
  <2>2. NextCore(kn, vs) = r
    BY <1>5
  <2> HIDE DEF cs, is
  <2>3. IsCore(r)
    <3>1. IsCore(core)
      BY CoreIsCore
    <3> HIDE DEF core
    <3> QED BY <3>1 DEF IsCore
  <2>4. SameFields(CoreNow', r)
    BY <1>1, <1>2, <1>4, <2>1, CoreNext DEF Core, SameFields
  <2> HIDE DEF r
  <2> QED BY <2>2, <2>3, <2>4, CoreIsCore, CoreEqual
<1> QED BY <1>4, <1>6 DEF kn, vs

\* The step loop ends, or the iteration.
LEMMA CoreElsewhere ==
  ASSUME ScheduledInv, Missed, EndSteps \/ EndIteration,
         UNCHANGED scheduleVars
  PROVE  CoreNow' = NextCore(Known, Verdicts) /\ Missed'
<1> DEFINE kn == Known
           vs == Verdicts
           core == Core(kn, vs)
<1>1. UNCHANGED <<ev, budget, workers, th, asg, rev, bundle, seed, calib, events, polled,
                  improved, stepsLeft, cands, xBest, fBest, points, incumbent, search, info,
                  work, decCache>>
  <2>1. UNCHANGED <<bundle, seed, calib, events, search, info>>
    BY DEF scheduleVars
  <2>2. CASE EndSteps
    BY <2>1, <2>2 DEF EndSteps, runVars, iterVars, bestVars, policyVars, cacheVars, acceptVars
  <2>3. CASE EndIteration
    BY <2>1, <2>3 DEF EndIteration, OnIterationEnd, runVars, bestVars, policyVars, cacheVars
  <2> QED BY <2>2, <2>3
<1>2. Known' = kn /\ Verdicts' = vs /\ Missed'
  BY <1>1, VerdictsKept
<1> HIDE DEF kn, vs
<1>3. CASE EndSteps
  <2>1. NextCore(kn, vs) = [core EXCEPT !.phase = "iterend"]
    BY <1>3 DEF EndSteps, NextCore, CoreSelected
  <2>2. phase' = "iterend" /\ UNCHANGED <<iter, mul, h>>
    BY <1>3 DEF EndSteps, iterVars, acceptVars
  <2>3. CoreNow' = NextCore(kn, vs)
    BY <1>1, <1>2, <2>1, <2>2, CoreNext DEF Core
  <2> QED BY <1>2, <2>3 DEF kn, vs
<1>4. CASE EndIteration
  <2> DEFINE barrier == IF polled /\ ~improved THEN Tightened ELSE h
             mesh == IF polled /\ ~improved THEN Refined ELSE mul
             next == iter + 1
             then == LoopPhase(iter + 1)
             r == [core EXCEPT
                     !.h = barrier, !.mul = mesh, !.iter = next, !.phase = then]
  <2>1. NextCore(kn, vs) = r
    BY <1>4 DEF EndIteration, NextCore, CoreEnded
  <2>2. phase' = then /\ iter' = next /\ mul' = mesh /\ h' = barrier
    BY <1>4 DEF EndIteration, OnIterationEnd
  <2>3. then # "batch"
    BY DEF LoopPhase
  <2> HIDE DEF barrier, mesh, next, then
  <2>4. IsCore(r)
    <3>1. IsCore(core)
      BY CoreIsCore
    <3> HIDE DEF core
    <3> QED BY <3>1 DEF IsCore
  <2>5. SameFields(CoreNow', r)
    BY <1>1, <1>2, <2>2, <2>3, CoreNext DEF Core, SameFields
  <2> HIDE DEF r
  <2>6. CoreNow' = NextCore(kn, vs)
    BY <2>1, <2>4, <2>5, CoreIsCore, CoreEqual
  <2> QED BY <1>2, <2>6 DEF kn, vs
<1> QED BY <1>3, <1>4

\* The policy is revised by the events so far, which are part of the core.
LEMMA CoreUpdate ==
  ASSUME ScheduledInv, Missed, ScheduledUpdate
  PROVE  CoreNow' = NextCore(Known, Verdicts) /\ Missed'
<1> DEFINE kn == Known
           vs == Verdicts
           core == Core(kn, vs)
           new == Revised
           up == rev + Bump(Learning(new)) + Bump(new.asg # asg)
           told == Append(events, BatchEnd)
           r == [core EXCEPT !.th = new.th, !.asg = new.asg, !.rev = up, !.events = told,
                             !.phase = "select"]
<1>1. /\ phase = "join" /\ phase' = "select" /\ DOMAIN work = {}
      /\ th' = new.th /\ asg' = new.asg /\ rev' = up /\ events' = told
  BY DEF ScheduledUpdate, PolicyUpdate
<1>2. UNCHANGED <<ev, budget, workers, bundle, seed, calib, iter, polled, improved,
                  stepsLeft, mul, cands, xBest, fBest, h, points, incumbent, search, info,
                  work, decCache>>
  BY DEF ScheduledUpdate, PolicyUpdate, runVars, iterVars, bestVars, cacheVars, acceptVars
<1>3. Known' = kn
  BY <1>2, SameVerdicts
<1>4. DOMAIN vs = {} /\ vs = EmptyCache /\ Verdicts' = EmptyCache
  BY <1>1, <1>2 DEF Verdicts, EmptyCache
<1>5. Missed'
  BY <1>1, <1>2 DEF Missed
<1> HIDE DEF kn, vs
<1>6. NextCore(kn, vs) = r
  BY <1>1, <1>4 DEF NextCore, CoreJoined, CoreRevised
<1> HIDE DEF new, up, told
<1>7. IsCore(r)
  <2>1. IsCore(core)
    BY CoreIsCore
  <2> HIDE DEF core
  <2> QED BY <2>1 DEF IsCore
<1>8. SameFields(CoreNow', r)
  BY <1>1, <1>2, <1>3, <1>4, CoreNext DEF Core, SameFields
<1> HIDE DEF r
<1>9. CoreNow' = NextCore(kn, vs)
  BY <1>6, <1>7, <1>8, CoreIsCore, CoreEqual
<1> QED BY <1>5, <1>9 DEF kn, vs

\* Of two candidates that wait, not each can rank before the other.
LEMMA RanksApart ==
  ASSUME ScheduledInv, NEW i \in Ready, NEW j \in Ready, RanksBefore(i, j), RanksBefore(j, i)
  PROVE  FALSE
<1>1. i \in DOMAIN cands /\ j \in DOMAIN cands /\ cands[i].status = "ready" /\ cands[j].status = "ready"
  BY DEF Ready
<1>2. Score(i) \in Int /\ Score(j) \in Int
  BY <1>1, ScoreBounds
<1>3. i \in Int /\ j \in Int /\ cands[i].poll \in BOOLEAN /\ cands[j].poll \in BOOLEAN
  <2>1. cands[i] \in Candidate /\ cands[j] \in Candidate /\ DOMAIN cands = 1 .. Len(cands)
    BY <1>1, Facts
  <2> QED BY <1>1, <2>1 DEF Candidate
<1>4. ~(IdLess(i, j) /\ IdLess(j, i))
  BY <1>3 DEF IdLess
<1>5. IdLess(i, j) /\ IdLess(j, i)
  BY <1>2 DEF RanksBefore
<1> QED BY <1>4, <1>5

\* The queue has one head.
LEMMA OneHead ==
  ASSUME ScheduledInv, NEW A \in SUBSET Ready, NEW B \in SUBSET Ready, IsHead(A), IsHead(B)
  PROVE  A = B
<1>1. IsFiniteSet(Ready)
  <2>1. DOMAIN cands = 1 .. Len(cands) /\ Len(cands) \in Nat
    BY Facts
  <2>2. IsFiniteSet(1 .. Len(cands))
    BY <2>1, FS_Interval
  <2>3. Ready \subseteq 1 .. Len(cands)
    BY <2>1 DEF Ready
  <2> QED BY <2>2, <2>3, FS_Subset
<1>2. /\ IsFiniteSet(A) /\ IsFiniteSet(B)
      /\ Cardinality(A) = Cardinality(B)
  BY <1>1, FS_Subset DEF IsHead
<1>3. CASE A \subseteq B \/ B \subseteq A
  BY <1>2, <1>3, FS_Subset
<1>4. CASE ~(A \subseteq B) /\ ~(B \subseteq A)
  <2>1. PICK i \in A : i \notin B
    BY <1>4
  <2>2. PICK j \in B : j \notin A
    BY <1>4
  <2>3. i \in Ready /\ j \in Ready /\ RanksBefore(i, j) /\ RanksBefore(j, i)
    BY <2>1, <2>2 DEF IsHead
  <2> QED BY <2>3, RanksApart
<1> QED BY <1>3, <1>4

\* The head of the queue is dispatched, and what it comes back with is settled.
LEMMA CoreDispatch ==
  ASSUME ScheduledInv, Missed, ScheduledDispatch
  PROVE  CoreNow' = NextCore(Known, Verdicts) /\ Missed'
<1> DEFINE kn == Known
           vs == Verdicts
           core == Core(kn, vs)
<1>1. PICK picked \in SUBSET Ready :
        /\ \A i \in picked, j \in Ready \ picked : RanksBefore(i, j)
        /\ Submit(picked)
  BY DEF ScheduledDispatch
<1> DEFINE cs == [i \in DOMAIN cands |->
                    IF i \in picked THEN [cands[i] EXCEPT !.status = "flight"] ELSE cands[i]]
           new == [i \in picked |-> Verdict(kn, cands[i].x, cands[i].next)]
           left == Spend(Cardinality(picked))
           r == [core EXCEPT !.cands = cs, !.verdicts = new, !.stepsLeft = left,
                                     !.phase = "join"]
<1>2. /\ phase = "select" /\ phase' = "batch" /\ stepsLeft # 0 /\ picked # {}
      /\ Cardinality(picked) = BatchSize /\ cands' = cs /\ stepsLeft' = left
      /\ work' = [i \in picked |-> [pc |-> "decision", phi |-> cands[i].next]]
  BY <1>1 DEF Submit
<1>3. UNCHANGED <<ev, budget, workers, th, asg, rev, bundle, seed, calib, events, iter,
                  polled, improved, mul, xBest, fBest, h, points, incumbent, search, info,
                  decCache>>
  BY <1>1 DEF ScheduledDispatch, Submit, scheduleVars, runVars, bestVars, policyVars,
              cacheVars, acceptVars
<1>4. QueueHead = picked
  <2>1. IsHead(picked)
    BY <1>1, <1>2 DEF IsHead
  <2>2. QueueHead \in SUBSET Ready /\ IsHead(QueueHead)
    BY <2>1 DEF QueueHead
  <2> QED BY <2>1, <2>2, OneHead
<1>5. NextCore(kn, vs) = r
  <2>1. Ready # {}
    BY <1>2
  <2>2. NextCore(kn, vs) = CoreDispatched(Core(kn, vs), kn, picked)
    <3> HIDE DEF kn, vs
    <3> QED BY <1>2, <1>4, <2>1 DEF NextCore, CoreSelected
  <2> QED BY <2>2 DEF CoreDispatched
<1>6. Known' = kn
  BY <1>3, SameVerdicts
<1>7. \A i \in picked : i \in DOMAIN cands /\ cands'[i].x = cands[i].x
  <2> SUFFICES ASSUME NEW i \in picked PROVE i \in DOMAIN cands /\ cands'[i].x = cands[i].x
    OBVIOUS
  <2>1. i \in DOMAIN cands
    BY DEF Ready
  <2>2. cands[i] \in Candidate
    BY <2>1, Facts
  <2> QED BY <1>2, <2>1, <2>2 DEF Candidate
<1>8. /\ DOMAIN work' = picked
      /\ \A i \in picked : work'[i].pc = "decision" /\ work'[i].phi = cands[i].next
  BY <1>2
<1>9. Verdicts' = new
  <2> DEFINE now(i) == IF work'[i].pc = "done" THEN KindOf(work'[i].out)
                       ELSE Verdict(kn, cands'[i].x, work'[i].phi)
  <2>1. Verdicts' = [i \in DOMAIN work' |-> now(i)]
    <3> HIDE DEF cs, new
    <3> QED BY <1>3, <1>6 DEF Verdicts, Verdict, KindOf, DecisionKey, TagOf
  <2>2. \A i \in picked : now(i) = Verdict(kn, cands[i].x, cands[i].next)
    <3> HIDE DEF kn
    <3> QED BY <1>7, <1>8
  <2> HIDE DEF now
  <2> QED BY <1>8, <2>1, <2>2
<1>10. Missed'
  BY <1>8 DEF Missed
<1> HIDE DEF kn, vs, cs, new, left
<1>11. IsCore(r)
  <2>1. IsCore(core)
    BY CoreIsCore
  <2> HIDE DEF core
  <2> QED BY <2>1 DEF IsCore
<1>12. SameFields(CoreNow', r)
  BY <1>2, <1>3, <1>6, <1>9, CoreNext DEF Core, SameFields
<1> HIDE DEF r
<1>13. CoreNow' = NextCore(kn, vs)
  BY <1>5, <1>11, <1>12, CoreIsCore, CoreEqual
<1> QED BY <1>10, <1>13 DEF kn, vs

\* The outcome whose turn it is, as the core has it.
LEMMA TurnInCore ==
  ASSUME ScheduledInv, NEW i, Turn(i)
  PROVE  /\ DOMAIN Verdicts = DOMAIN work
         /\ \A j \in DOMAIN work : Verdicts[j] = KindOf(work[j].out)
         /\ NextCore(Known, Verdicts) = CoreProcessed(CoreNow, Known, Verdicts, i)
<1> DEFINE kn == Known
           vs == Verdicts
<1>1. phase = "join" /\ i \in DOMAIN work /\ \A j \in DOMAIN work : j = i \/ IdLess(i, j)
  BY DEF Turn
<1>2. DOMAIN vs = DOMAIN work /\ \A j \in DOMAIN work : vs[j] = KindOf(work[j].out)
  <2>1. \A j \in DOMAIN work : work[j].pc = "done"
    BY <1>1 DEF ScheduledInv, EngineInv, Batch
  <2> QED BY <2>1 DEF Verdicts
<1> HIDE DEF kn, vs
<1>3. (CHOOSE j \in DOMAIN vs : IsFirst(vs, j)) = i
  <2>1. IsFirst(vs, i)
    BY <1>1, <1>2 DEF IsFirst
  <2>2. ASSUME NEW j \in DOMAIN vs, IsFirst(vs, j) PROVE j = i
    <3> SUFFICES ASSUME j # i PROVE FALSE
      OBVIOUS
    <3>1. IdLess(i, j) /\ IdLess(j, i) /\ i \in DOMAIN work /\ j \in DOMAIN work
      BY <1>1, <1>2, <2>2 DEF IsFirst
    <3>2. cands[i] \in Candidate /\ cands[j] \in Candidate /\ i \in DOMAIN cands /\ j \in DOMAIN cands
      BY <3>1, ItemFacts DEF ScheduledInv
    <3>3. i \in Int /\ j \in Int
      BY <3>2, Facts
    <3>4. cands[i].poll \in BOOLEAN /\ cands[j].poll \in BOOLEAN
      BY <3>2 DEF Candidate
    <3> QED BY <3>1, <3>3, <3>4 DEF IdLess
  <2> DEFINE f == CHOOSE j \in DOMAIN vs : IsFirst(vs, j)
  <2>3. f \in DOMAIN vs /\ IsFirst(vs, f)
    BY <1>1, <1>2, <2>1
  <2> HIDE DEF f
  <2>4. f = i
    BY <2>2, <2>3
  <2> QED BY <2>4 DEF f
<1>4. NextCore(kn, vs) = CoreProcessed(Core(kn, vs), kn, vs, i)
  <2>1. DOMAIN vs # {}
    BY <1>1, <1>2
  <2> QED BY <1>1, <1>3, <2>1 DEF NextCore, CoreJoined
<1> QED BY <1>2, <1>4 DEF kn, vs, CoreNow

\* A candidate is settled the way the core foresees.
LEMMA CoreSettles ==
  ASSUME ScheduledInv, NEW i, Turn(i), MatUnchanged,
         UNCHANGED <<bundle, seed, calib, search>>,
         info' = [info EXCEPT ![i].last = work[i].phi],
         events' = Append(events, Event(i, work[i].phi, KindOf(work[i].out), cands'[i])),
         Settle(i, Fate(cands[i], Verdicts[i])),
         Known' = Learned(Known, cands[i], Verdicts[i]),
         ~Unwinds(Verdicts[i], cands[i]),
         IF Fate(cands[i], Verdicts[i]).status = "truth"
           THEN Accept(cands[i], ev.est[cands[i].x][L]) ELSE NoTruth
  PROVE  CoreNow' = NextCore(Known, Verdicts) /\ Missed'
<1> DEFINE kn == Known
           vs == Verdicts
           core == Core(kn, vs)
           d == Fate(cands[i], vs[i])
           cs == [cands EXCEPT ![i] = d]
           is == [info EXCEPT ![i].last = cands[i].next]
           told == Append(events, Event(i, cands[i].next, vs[i], d))
           left == [j \in DOMAIN vs \ {i} |-> vs[j]]
           learned == Learned(kn, cands[i], vs[i])
           s == [core EXCEPT !.cands = cs, !.info = is, !.events = told, !.verdicts = left,
                             !.known = learned]
           x == cands[i].x
           e == ev.est[x][L]
<1>1. /\ phase = "join" /\ i \in DOMAIN work /\ work[i].phi = cands[i].next
      /\ i \in DOMAIN cands /\ \A j \in DOMAIN work : work[j].pc = "done"
  BY AtTurn DEF ScheduledInv, EngineInv, Batch
<1>2. /\ cands' = cs /\ info' = is /\ Known' = learned
      /\ work' = [j \in DOMAIN work \ {i} |-> work[j]]
      /\ UNCHANGED <<ev, budget, workers, th, asg, rev, bundle, seed, calib, phase, iter,
                     polled, stepsLeft, mul, search>>
  BY <1>1 DEF Settle, Without, MatUnchanged, runVars, policyVars
<1>3. /\ DOMAIN vs = DOMAIN work
      /\ \A j \in DOMAIN work : vs[j] = KindOf(work[j].out)
      /\ NextCore(kn, vs) = CoreProcessed(core, kn, vs, i)
  BY TurnInCore DEF CoreNow
<1>12. events' = told
  <2>1. cands'[i] = d /\ vs[i] = KindOf(work[i].out)
    BY <1>1, <1>2, <1>3
  <2> HIDE DEF d, vs
  <2> QED BY <1>1, <2>1
<1>4. /\ DOMAIN work' = DOMAIN work \ {i}
      /\ \A j \in DOMAIN work' : work'[j].pc = "done" /\ work'[j].out = work[j].out
  BY <1>1, <1>2
<1>5. Verdicts' = left
  <2>1. Verdicts' = [j \in DOMAIN work' |-> KindOf(work'[j].out)]
    BY <1>4 DEF Verdicts, KindOf
  <2> HIDE DEF vs
  <2>2. \A j \in DOMAIN work' : KindOf(work'[j].out) = vs[j]
    BY <1>3, <1>4
  <2> QED BY <1>3, <1>4, <2>1, <2>2
<1>6. Missed'
  BY <1>4 DEF Missed
<1>7. CoreProcessed(core, kn, vs, i) = IF d.status = "truth" THEN CoreAccepted(s, x, e) ELSE s
  <2> HIDE DEF kn, core
  <2>1. ~Unwinds(vs[i], cands[i])
    OBVIOUS
  <2> HIDE DEF vs
  <2> QED BY <2>1 DEF CoreProcessed, CoreSettled
<1>8. IF d.status = "truth" THEN Accept(cands[i], e) ELSE NoTruth
  OBVIOUS
<1> HIDE DEF kn, vs, d, cs, is, told, left, learned, e
<1>9. IsCore(s)
  <2>1. IsCore(core)
    BY CoreIsCore
  <2> HIDE DEF core
  <2> QED BY <2>1 DEF IsCore
<1>10. CASE d.status # "truth"
  <2>1. UNCHANGED <<improved, xBest, fBest, h, points, incumbent>>
    BY <1>8, <1>10 DEF NoTruth, bestVars, acceptVars
  <2>2. SameFields(CoreNow', s)
    BY <1>1, <1>2, <1>5, <1>12, <2>1, CoreNext DEF Core, SameFields
  <2>3. NextCore(kn, vs) = s
    BY <1>3, <1>7, <1>10
  <2> HIDE DEF s
  <2>4. CoreNow' = NextCore(kn, vs)
    BY <1>9, <2>2, <2>3, CoreIsCore, CoreEqual
  <2> QED BY <1>6, <2>4 DEF kn, vs
<1>11. CASE d.status = "truth"
  <2> DEFINE v == Larger(e.c, 0)
             yes == Accepts(e.f, v)
             inc == IF v <= h /\ BetterFeasible(e.f, v) THEN e.f ELSE incumbent
             pts == IF yes THEN FilterInsert(e.f, v) ELSE points
             imp == IF yes THEN TRUE ELSE improved
             xb == IF yes THEN x ELSE xBest
             fb == IF yes THEN e.f ELSE fBest
             t == [ev |-> ev, budget |-> budget, workers |-> workers, th |-> th,
                   asg |-> asg, rev |-> rev, bundle |-> bundle, seed |-> seed,
                   calib |-> calib, events |-> told, phase |-> phase, iter |-> iter, polled |-> polled,
                   improved |-> improved, stepsLeft |-> stepsLeft, mul |-> mul,
                   cands |-> cs, xBest |-> xBest, fBest |-> fBest, h |-> h,
                   points |-> points, incumbent |-> incumbent, search |-> search,
                   info |-> is, known |-> learned, verdicts |-> left]
             r == [t EXCEPT !.incumbent = inc, !.points = pts, !.improved = imp,
                            !.xBest = xb, !.fBest = fb]
  <2>1. Accept(cands[i], e)
    BY <1>8, <1>11
  <2>2. /\ incumbent' = inc /\ points' = pts /\ h' = h
        /\ improved' = imp /\ xBest' = xb /\ fBest' = fb
    <3>1. incumbent' = inc /\ points' = pts /\ h' = h
      BY <2>1 DEF Accept, DecideTruth
    <3>2. improved' = imp /\ xBest' = xb /\ fBest' = fb
      <4>1. IF yes THEN improved' = TRUE /\ xBest' = x /\ fBest' = e.f
            ELSE UNCHANGED <<improved, bestVars>>
        BY <2>1 DEF Accept
      <4> HIDE DEF yes
      <4> QED BY <4>1 DEF bestVars
    <3> QED BY <3>1, <3>2
  <2>3. NextCore(kn, vs) =
          [s EXCEPT !.incumbent = inc, !.points = pts, !.improved = imp,
                    !.xBest = xb, !.fBest = fb]
    <3>1. NextCore(kn, vs) = CoreAccepted(s, x, e)
      BY <1>3, <1>7, <1>11
    <3> HIDE DEF s
    <3> QED BY <3>1 DEF CoreAccepted
  <2> HIDE DEF v, yes, inc, pts, imp, xb, fb
  <2>4. IsCore(t)
    BY DEF IsCore, CoreFields
  <2>5. SameFields(s, t)
    BY <1>1 DEF Core, SameFields
  <2>6. s = t
    <3> HIDE DEF s, t
    <3> QED BY <1>9, <2>4, <2>5, CoreEqual
  <2>7. IsCore(r)
    <3> HIDE DEF t
    <3> QED BY <2>4 DEF IsCore
  <2>8. SameFields(CoreNow', r)
    BY <1>1, <1>2, <1>5, <1>12, <2>2, CoreNext DEF SameFields
  <2>9. NextCore(kn, vs) = r
    <3> HIDE DEF s, t
    <3> QED BY <2>3, <2>6
  <2> HIDE DEF r
  <2>10. CoreNow' = NextCore(kn, vs)
    BY <2>7, <2>8, <2>9, CoreIsCore, CoreEqual
  <2> QED BY <1>6, <2>10 DEF kn, vs
<1> QED BY <1>10, <1>11

\* A candidate that is cut is audited if the hash says so.
LEMMA CutByHash ==
  ASSUME NEW b \in Candidate, NEW p \in Levels,
         NEW c \in IF p >= asg THEN AuditChoice(b, p) ELSE {b},
         IF p >= asg /\ <<b.x, p>> \in AuditSet
           THEN AfterEarly(c, p).status # "early" ELSE AfterEarly(c, p).audit = b.audit
  PROVE  AfterEarly(c, p) = CutOrAudited(b, p) /\ CutOrAudited(b, p).status # "truth"
<1> DEFINE a == [b EXCEPT !.audit = TRUE, !.cut = p]
<1>1. b.audit \in BOOLEAN /\ p \in 0 .. L
  BY LadderAssumption DEF Candidate, Levels
<1>2. a \in Candidate /\ a.audit = TRUE
  BY <1>1 DEF Candidate
<1>3. \A q \in Candidate :
        /\ AfterEarly(q, p).audit = q.audit
        /\ AfterEarly(q, p).status = IF q.audit THEN "ready" ELSE "early"
  BY DEF AfterEarly, Candidate
<1>4. c = b \/ (c = a /\ ~b.audit /\ p >= asg)
  BY <1>1 DEF AuditChoice
<1>5. CutOrAudited(b, p) =
        AfterEarly(IF ~b.audit /\ p >= asg /\ <<b.x, p>> \in AuditSet THEN a ELSE b, p)
  BY DEF CutOrAudited
<1> HIDE DEF a
<1>6. c = IF ~b.audit /\ p >= asg /\ <<b.x, p>> \in AuditSet THEN a ELSE b
  BY <1>1, <1>2, <1>3, <1>4
<1>7. AfterEarly(c, p) = CutOrAudited(b, p)
  BY <1>5, <1>6
<1>8. c \in Candidate
  BY <1>2, <1>4
<1> QED BY <1>3, <1>7, <1>8

\* The engine thread processes an outcome.
LEMMA CoreMaterialize ==
  ASSUME ScheduledInv, Missed, NEW i \in DOMAIN work, ScheduledMaterialize(i)
  PROVE  CoreNow' = NextCore(Known, Verdicts) /\ Missed'
<1> DEFINE a == cands[i]
           x == a.x
           p == a.next
           e == ev.est[x][p]
           v == Verdicts[i]
           b == CheapChecked(a)
           key == DecisionKey(x, p, TagOf(p))
           out == work[i].out
<1>1. /\ Materialize(i) /\ AuditByHash(i) /\ UNCHANGED <<bundle, seed, calib, search>>
      /\ info' = [info EXCEPT ![i].last = work[i].phi]
      /\ events' = Append(events, Event(i, work[i].phi, KindOf(work[i].out), cands'[i]))
  BY DEF ScheduledMaterialize
<1>2. Turn(i) /\ phase = "join"
  BY <1>1 DEF Materialize, CachedPartial, CachedEarly, CachedTruth, RejectInvalid, RejectCheap,
              ExpectFails, CutEarly, StopPartial, Continue, Truth, PartialTurn, Turn
<1>3. /\ i \in DOMAIN cands /\ a \in Candidate /\ x \in XMesh /\ p \in Levels
      /\ work[i].phi = p /\ ev \in Evaluators
      /\ HasCached(i) => ResultOK(ev, out.cached, x, p)
      /\ HasEst(i) => out.est = e /\ out.est \in Estimates
  BY <1>2, AtTurn DEF ScheduledInv
<1>4. /\ DOMAIN Verdicts = DOMAIN work /\ v = KindOf(out)
      /\ NextCore(Known, Verdicts) = CoreProcessed(CoreNow, Known, Verdicts, i)
  BY <1>2, TurnInCore
<1>5. /\ HasCached(i) => v = out.cached.kind
      /\ ~HasCached(i) => v = IF HasEst(i) THEN "est" ELSE "none"
  BY <1>4 DEF HasCached, HasEst, KindOf
<1>6. OutcomeOK(ev, out, a)
  BY <1>2, <1>3 DEF Turn, ScheduledInv, EngineInv, Batch, ItemOK
<1>7. /\ "none" \in DOMAIN out => ~HasCached(i) /\ ~HasEst(i)
      /\ HasEst(i) => ~HasCached(i)
  BY <1>6 DEF OutcomeOK, HasCached, HasEst
<1>8. /\ b \in Candidate /\ b.x = x /\ b.audit = a.audit /\ b.cut = a.cut /\ b.next = p
      /\ b.cheap \in {"ok", "bad"}
  BY <1>3 DEF CheapChecked, Candidate
<1>9. \A q, l : NextLevel(q, l) = IF q.audit THEN NextAuditTarget(q.cut, l) ELSE l + 1
  BY DEF NextLevel
<1>11. ASSUME NEW d, Settle(i, d), MatUnchanged, d = Fate(a, v),
              Known' = Learned(Known, a, v), ~Unwinds(v, a),
              IF d.status = "truth" THEN Accept(a, ev.est[x][L]) ELSE NoTruth
       PROVE  CoreNow' = NextCore(Known, Verdicts) /\ Missed'
  BY <1>1, <1>2, <1>11, CoreSettles
<1>12. UNCHANGED decCache => Known' = Known
  BY SameVerdicts
<1>13. ASSUME NEW kind, kind # "invalid", NEW f, Record(i, kind, f)
       PROVE  Known' = Put(Known, key, kind)
  <2>1. decCache' = Put(decCache, key, Decided(kind, f)) /\ Decided(kind, f).kind = kind
    BY <1>3, <1>13 DEF Record, Decided
  <2> QED BY <1>13, <2>1, KnownPut
<1> HIDE DEF a, x, p, e, v, b, key, out
<1>14. CASE CachedPartial(i)
  <2> DEFINE d == [a EXCEPT !.status = "ready", !.next = NextLevel(a, p)]
  <2>1. v = "partial"
    BY <1>5, <1>14 DEF CachedPartial, CachedKind, out
  <2>2. Settle(i, d) /\ MatUnchanged /\ UNCHANGED decCache /\ NoTruth
    BY <1>3, <1>14 DEF CachedPartial, a
  <2>3. d = Fate(a, v) /\ d.status = "ready"
    BY <1>3, <2>1 DEF Fate, Candidate, p
  <2>4. Learned(Known, a, v) = Known /\ ~Unwinds(v, a)
    BY <2>1 DEF Learned, Unwinds
  <2> QED BY <1>11, <1>12, <2>2, <2>3, <2>4
<1>15. CASE CachedEarly(i)
  <2>1. v = "early"
    BY <1>5, <1>15 DEF CachedEarly, CachedKind, out
  <2>2. PICK c \in IF p >= asg THEN AuditChoice(a, p) ELSE {a} : Settle(i, AfterEarly(c, p))
    BY <1>3, <1>15 DEF CachedEarly, a
  <2>3. MatUnchanged /\ UNCHANGED decCache /\ NoTruth
    BY <1>15 DEF CachedEarly
  <2>4. cands'[i] = AfterEarly(c, p)
    BY <1>3, <2>2 DEF Settle
  <2>5. IF p >= asg /\ <<x, p>> \in AuditSet
          THEN AfterEarly(c, p).status # "early" ELSE AfterEarly(c, p).audit = a.audit
    BY <1>1, <1>3, <2>4 DEF AuditByHash, a, x
  <2>6. AfterEarly(c, p) = CutOrAudited(a, p) /\ CutOrAudited(a, p).status # "truth"
    BY <1>3, <2>5, CutByHash DEF x
  <2>7. CutOrAudited(a, p) = Fate(a, v)
    BY <2>1 DEF Fate, p
  <2>8. Learned(Known, a, v) = Known /\ ~Unwinds(v, a)
    BY <2>1 DEF Learned, Unwinds
  <2> QED BY <1>11, <1>12, <2>2, <2>3, <2>6, <2>7, <2>8
<1>16. CASE CachedTruth(i)
  <2> DEFINE d == [a EXCEPT !.status = "truth"]
  <2>1. v = "truth" /\ HasCached(i) /\ out.cached.kind = "truth"
    BY <1>5, <1>16 DEF CachedTruth, CachedKind, out
  <2>2. p = L /\ out.cached.est = ev.est[x][L]
    BY <1>3, <2>1 DEF ResultOK
  <2>3. /\ Settle(i, d) /\ MatUnchanged /\ UNCHANGED decCache
        /\ Accept(a, ev.est[x][L])
    BY <2>2, <1>16 DEF CachedTruth, a, out
  <2>4. d = Fate(a, v) /\ d.status = "truth"
    BY <1>3, <2>1 DEF Fate, Candidate
  <2>5. Learned(Known, a, v) = Known /\ ~Unwinds(v, a)
    BY <2>1 DEF Learned, Unwinds
  <2> QED BY <1>11, <1>12, <2>3, <2>4, <2>5
<1>17. CASE RejectInvalid(i)
  <2> DEFINE d == [a EXCEPT !.status = "invalid"]
  <2>1. v = "invalid"
    BY <1>5, <1>17 DEF RejectInvalid, CachedKind, out
  <2>2. Settle(i, d) /\ MatUnchanged /\ UNCHANGED decCache /\ NoTruth
    BY <1>17 DEF RejectInvalid, a
  <2>3. d = Fate(a, v) /\ d.status = "invalid"
    BY <1>3, <2>1 DEF Fate, Candidate
  <2>4. Learned(Known, a, v) = Known /\ ~Unwinds(v, a)
    BY <2>1 DEF Learned, Unwinds
  <2> QED BY <1>11, <1>12, <2>2, <2>3, <2>4
<1>18. CASE RejectCheap(i)
  <2> DEFINE d == [b EXCEPT !.status = "cheap"]
             slot == DecisionKey(x, p, "cheap")
  <2>1. /\ v \in {"est", "none"} /\ b.cheap = "bad"
        /\ Settle(i, d) /\ MatUnchanged /\ NoTruth
        /\ decCache' = Put(decCache, slot, Decided("cheap", NoX))
    BY <1>3, <1>5, <1>8, <1>18 DEF RejectCheap, a, b
  <2>2. d = Fate(a, v) /\ d.status = "cheap"
    BY <1>8, <2>1 DEF Fate, Candidate, b
  <2>3. Known' = Put(Known, slot, "cheap")
    <3>1. Decided("cheap", NoX).kind = "cheap"
      BY DEF Decided
    <3> QED BY <2>1, <3>1, KnownPut
  <2>4. Learned(Known, a, v) = Put(Known, slot, "cheap") /\ ~Unwinds(v, a)
    BY <2>1 DEF Learned, Unwinds, b, x, p
  <2> QED BY <1>11, <2>1, <2>2, <2>3, <2>4
<1>19. CASE ExpectFails(i)
  <2> DEFINE kn == Known
             vs == Verdicts
             core == Core(kn, vs)
             is == [info EXCEPT ![i].last = a.next]
             told == Append(events, Event(i, a.next, v, a))
             r == [core EXCEPT !.phase = "panicked", !.info = is, !.events = told]
  <2>1. /\ v = "none" /\ b.cheap = "ok" /\ phase' = "panicked"
        /\ UNCHANGED <<ev, budget, workers, th, asg, rev, bundle, seed, calib, iter, polled,
                       improved, stepsLeft, mul, cands, xBest, fBest, h, points, incumbent,
                       search, work, decCache>>
    BY <1>1, <1>5, <1>7, <1>19
       DEF ExpectFails, out, a, b, runVars, iterVars, bestVars, policyVars, cacheVars, acceptVars
  <2>2. Known' = kn /\ Verdicts' = vs /\ Missed'
    BY <2>1, VerdictsKept
  <2>3. info' = is /\ events' = told
    BY <1>1, <1>3, <1>4, <2>1 DEF a, p, out
  <2>4. Unwinds(v, a)
    BY <2>1 DEF Unwinds, b
  <2>5. NextCore(kn, vs) = r
    BY <1>4, <2>4 DEF CoreProcessed, CoreNow, v, a
  <2> HIDE DEF kn, vs, is, told
  <2>6. IsCore(r)
    <3>1. IsCore(core)
      BY CoreIsCore
    <3> HIDE DEF core
    <3> QED BY <3>1 DEF IsCore
  <2>7. SameFields(CoreNow', r)
    BY <2>1, <2>2, <2>3, CoreNext DEF Core, SameFields
  <2> HIDE DEF r
  <2>8. CoreNow' = NextCore(kn, vs)
    BY <2>5, <2>6, <2>7, CoreIsCore, CoreEqual
  <2> QED BY <2>2, <2>8 DEF kn, vs
<1>20. ASSUME HasEst(i), b.cheap = "ok"
       PROVE  /\ v = "est" /\ out.est = e /\ ~Unwinds(v, a) /\ Fate(a, v) = Judged(b, p, e)
              /\ Learned(Known, a, v) =
                   Put(Known, key, IF p = L THEN "truth"
                                   ELSE IF CutsAt(e, p) THEN "early" ELSE "partial")
  <2>1. v = "est" /\ out.est = e
    BY <1>3, <1>5, <1>7, <1>20
  <2>2. ~Unwinds(v, a)
    BY <2>1 DEF Unwinds
  <2>3. Fate(a, v) = Judged(b, p, e)
    BY <1>20, <2>1 DEF Fate, b, p, e, x
  <2>4. Learned(Known, a, v) =
          Put(Known, key, IF p = L THEN "truth"
                          ELSE IF CutsAt(e, p) THEN "early" ELSE "partial")
    BY <1>20, <2>1 DEF Learned, b, p, e, x, key
  <2> QED BY <2>1, <2>2, <2>3, <2>4
<1>21. PartialTurn(i) => HasEst(i) /\ b.cheap = "ok" /\ p < L /\ p # L
  BY <1>3, LadderAssumption DEF PartialTurn, a, b
<1>22. HasEst(i) => (Cuts(i) <=> CutsAt(e, p)) /\ (Stops(i) <=> Prunes(e, p, b.audit))
  BY <1>3, <1>8 DEF Cuts, CutsAt, Stops, out, a
<1>23. CASE CutEarly(i)
  <2>1. /\ PartialTurn(i) /\ Cuts(i) /\ Record(i, "early", out.est) /\ MatUnchanged /\ NoTruth
    BY <1>23 DEF CutEarly, out
  <2>7. p >= asg
    BY <1>3, <2>1 DEF Cuts
  <2>2. PICK c \in IF p >= asg THEN AuditChoice(b, p) ELSE {b} : Settle(i, AfterEarly(c, p))
    BY <1>3, <1>23, <2>7 DEF CutEarly, a, b
  <2>3. cands'[i] = AfterEarly(c, p)
    BY <1>3, <2>2 DEF Settle
  <2>4. IF p >= asg /\ <<b.x, p>> \in AuditSet
          THEN AfterEarly(c, p).status # "early" ELSE AfterEarly(c, p).audit = b.audit
    BY <1>1, <1>3, <1>8, <2>3 DEF AuditByHash, a, x
  <2>5. AfterEarly(c, p) = CutOrAudited(b, p) /\ CutOrAudited(b, p).status # "truth"
    BY <1>3, <1>8, <2>4, CutByHash
  <2>6. Judged(b, p, e) = CutOrAudited(b, p)
    BY <1>21, <1>22, <2>1 DEF Judged
  <2>8. Known' = Put(Known, key, "early")
    BY <1>13, <2>1
  <2> QED BY <1>11, <1>20, <1>21, <1>22, <2>1, <2>2, <2>5, <2>6, <2>8
<1>24. CASE StopPartial(i)
  <2> DEFINE d == [b EXCEPT !.status = "stopped"]
  <2>1. /\ PartialTurn(i) /\ ~Cuts(i) /\ Stops(i) /\ Record(i, "partial", out.est)
        /\ MatUnchanged /\ NoTruth /\ Settle(i, d)
    BY <1>24 DEF StopPartial, out, a, b
  <2>2. Judged(b, p, e) = d /\ d.status = "stopped"
    BY <1>8, <1>21, <1>22, <2>1 DEF Judged, Candidate
  <2>3. Known' = Put(Known, key, "partial")
    BY <1>13, <2>1
  <2> QED BY <1>11, <1>20, <1>21, <1>22, <2>1, <2>2, <2>3
<1>25. CASE Continue(i)
  <2> DEFINE d == [b EXCEPT !.status = "ready", !.next = NextLevel(a, p)]
  <2>1. /\ PartialTurn(i) /\ ~Cuts(i) /\ ~Stops(i) /\ Record(i, "partial", out.est)
        /\ MatUnchanged /\ NoTruth /\ Settle(i, d)
    BY <1>3, <1>25 DEF Continue, out, a, b
  <2>2. NextLevel(a, p) = NextLevel(b, p)
    BY <1>8, <1>9
  <2>3. Judged(b, p, e) = d /\ d.status = "ready"
    BY <1>8, <1>21, <1>22, <2>1, <2>2 DEF Judged, Candidate
  <2>4. Known' = Put(Known, key, "partial")
    BY <1>13, <2>1
  <2> QED BY <1>11, <1>20, <1>21, <1>22, <2>1, <2>3, <2>4
<1>26. CASE Truth(i)
  <2> DEFINE d == [b EXCEPT !.status = "truth"]
  <2>1. /\ HasEst(i) /\ b.cheap = "ok" /\ p = L /\ Record(i, "truth", out.est)
        /\ MatUnchanged /\ Settle(i, d) /\ Accept(a, out.est)
    BY <1>3, <1>26 DEF Truth, out, a, b
  <2>2. Judged(b, p, e) = d /\ d.status = "truth"
    BY <1>8, <2>1 DEF Judged, Candidate
  <2>3. Known' = Put(Known, key, "truth")
    BY <1>13, <2>1
  <2>4. Accept(a, ev.est[x][L])
    BY <1>20, <2>1 DEF e
  <2> QED BY <1>11, <1>20, <2>1, <2>2, <2>3, <2>4
<1> QED BY <1>1, <1>14, <1>15, <1>16, <1>17, <1>18, <1>19, <1>23, <1>24, <1>25, <1>26
        DEF Materialize

-----------------------------------------------------------------------------
(* A run is determined by where it starts.                                 *)

\* s is a way of n steps from core a to core b, which does not go on from the
\* end of a run.
IsWay(s, n, a, b) ==
  /\ s[0] = a /\ s[n] = b
  /\ \A k \in 0 .. n - 1 : s[k].phase # "done" /\ s[k + 1] = After(s[k])

Leads(a, b) == \E n \in Nat : \E s : IsWay(s, n, a, b)

\* A core leads to itself, and one step beyond what it leads to.
LEMMA LeadsOn ==
  /\ \A a : Leads(a, a)
  /\ \A a, b : Leads(a, b) /\ b.phase # "done" => Leads(a, After(b))
<1>1. ASSUME NEW a PROVE Leads(a, a)
  <2> DEFINE s == [k \in {0} |-> a]
  <2>1. IsWay(s, 0, a, a)
    BY DEF IsWay
  <2> QED BY <2>1 DEF Leads
<1>2. ASSUME NEW a, NEW b, Leads(a, b), b.phase # "done" PROVE Leads(a, After(b))
  <2>0. PICK n \in Nat : \E s : IsWay(s, n, a, b)
    BY <1>2 DEF Leads
  <2>1. PICK s : IsWay(s, n, a, b)
    BY <2>0
  <2> DEFINE c == After(b)
             t == [k \in 0 .. n + 1 |-> IF k = n + 1 THEN c ELSE s[k]]
  <2> HIDE DEF c
  <2>2. t[0] = a /\ t[n] = b /\ t[n + 1] = c
    BY <2>1 DEF IsWay
  <2>3. ASSUME NEW k \in 0 .. (n + 1) - 1
        PROVE  t[k].phase # "done" /\ t[k + 1] = After(t[k])
    <3>1. CASE k = n
      BY <1>2, <2>2, <3>1 DEF c
    <3>2. CASE k # n
      <4>1. k \in 0 .. n - 1 /\ t[k] = s[k] /\ t[k + 1] = s[k + 1]
        BY <3>2
      <4> HIDE DEF t
      <4> QED BY <2>1, <4>1 DEF IsWay
    <3> QED BY <3>1, <3>2
  <2> HIDE DEF t
  <2>4. IsWay(t, n + 1, a, c) /\ n + 1 \in Nat
    BY <2>2, <2>3 DEF IsWay
  <2> QED BY <2>4 DEF Leads, c
<1> QED BY <1>1, <1>2

\* Two ways from the same core agree as far as both go.
LEMMA WaysAgree ==
  ASSUME NEW a, NEW b, NEW c, NEW n \in Nat, NEW m \in Nat, NEW s, NEW t,
         IsWay(s, n, a, b), IsWay(t, m, a, c)
  PROVE  \A k \in Nat : k <= n /\ k <= m => s[k] = t[k]
<1> SUFFICES ASSUME ~\A k \in Nat : k <= n /\ k <= m => s[k] = t[k] PROVE FALSE
  OBVIOUS
<1> DEFINE S == {k \in Nat : k <= n /\ k <= m /\ s[k] # t[k]}
<1>1. S \subseteq Nat /\ S # {}
  OBVIOUS
<1>2. PICK k \in S : \A l \in S : k <= l
  BY <1>1, LeastExists
<1>3. k \in Nat /\ k <= n /\ k <= m /\ s[k] # t[k]
  BY <1>2
<1>4. k # 0
  BY <1>3 DEF IsWay
<1>5. k - 1 \in Nat /\ k - 1 \in 0 .. n - 1 /\ k - 1 \in 0 .. m - 1 /\ (k - 1) + 1 = k
  BY <1>3, <1>4
<1>6. k - 1 \notin S
  BY <1>2, <1>3
<1>7. s[k - 1] = t[k - 1]
  BY <1>3, <1>5, <1>6
<1>8. s[k] = After(s[k - 1]) /\ t[k] = After(t[k - 1])
  BY <1>5 DEF IsWay
<1> QED BY <1>3, <1>7, <1>8

\* A core leads to one end.
LEMMA OneEnd ==
  ASSUME NEW a, NEW b, NEW c, Leads(a, b), Leads(a, c), b.phase = "done", c.phase = "done"
  PROVE  b = c
<1>1a. PICK n \in Nat : \E s : IsWay(s, n, a, b)
  BY DEF Leads
<1>1. PICK s : IsWay(s, n, a, b)
  BY <1>1a
<1>2a. PICK m \in Nat : \E t : IsWay(t, m, a, c)
  BY DEF Leads
<1>2. PICK t : IsWay(t, m, a, c)
  BY <1>2a
<1>3. \A k \in Nat : k <= n /\ k <= m => s[k] = t[k]
  BY <1>1, <1>2, WaysAgree
<1>4. ~(n < m)
  <2> SUFFICES ASSUME n < m PROVE FALSE
    OBVIOUS
  <2>1. n \in 0 .. m - 1 /\ s[n] = t[n]
    BY <1>3
  <2> QED BY <1>1, <1>2, <2>1 DEF IsWay
<1>5. ~(m < n)
  <2> SUFFICES ASSUME m < n PROVE FALSE
    OBVIOUS
  <2>1. m \in 0 .. n - 1 /\ s[m] = t[m]
    BY <1>3
  <2> QED BY <1>1, <1>2, <2>1 DEF IsWay
<1>6. n = m
  BY <1>4, <1>5
<1> QED BY <1>1, <1>2, <1>3, <1>6 DEF IsWay

\* The run so far is the way from its start; the output of the engine before
\* is the end of the way from its own start, on the same problem.
Replayed ==
  /\ Leads(Start(workers), CoreNow)
  /\ run > 1 => \E d : /\ Leads(Start(first.workers), d) /\ d.phase = "done"
                       /\ first.out = [x |-> d.xBest, f |-> d.fBest, cands |-> d.cands]

ReplayInv == ScheduledInv /\ Missed /\ Replayed

\* A new engine is at the start.
LEMMA StartsAtStart ==
  /\ ScheduledInit => CoreNow = Start(workers) /\ Missed /\ run = 1
  /\ ScheduledInv /\ RunAnotherEngine => CoreNow' = Start(workers)' /\ Missed'
<1>1. ASSUME ScheduledInit PROVE CoreNow = Start(workers) /\ Missed /\ run = 1
  <2>1. DOMAIN decCache = {} /\ DOMAIN work = {} /\ run = 1
    BY <1>1 DEF ScheduledInit, Init, EmptyCache
  <2>2. Known = EmptyCache /\ Verdicts = EmptyCache
    BY <2>1 DEF Known, Verdicts, EmptyCache
  <2>3. Missed
    BY <2>1 DEF Missed
  <2>4. LoopPhase(0) # "batch"
    BY DEF LoopPhase
  <2>5. CoreNow = Start(workers)
    <3> DEFINE kn == Known
               vs == Verdicts
               none == EmptyCache
    <3>1. kn = none /\ vs = none /\ CoreNow = Core(kn, vs)
      BY <2>2 DEF CoreNow
    <3>2. Start(workers) =
            [ev |-> ev, budget |-> budget, workers |-> workers, th |-> calib.start,
             asg |-> 1, rev |-> 0, bundle |-> bundle, seed |-> seed, calib |-> calib,
             events |-> << >>, phase |-> LoopPhase(0),
             iter |-> 0, polled |-> FALSE, improved |-> FALSE,
             stepsLeft |-> 0, mul |-> Larger(MulInit, 1), cands |-> << >>,
             xBest |-> NoX, fBest |-> NoF,
             h |-> InitialBarrier, points |-> {}, incumbent |-> NoF,
             search |-> Reset(seed.halton), info |-> << >>,
             known |-> none, verdicts |-> none]
      BY DEF Start
    <3> HIDE DEF kn, vs, none
    <3> QED BY <1>1, <2>4, <3>1, <3>2 DEF ScheduledInit, Init, AcceptInit, Core
  <2> QED BY <2>1, <2>3, <2>5
<1>2. ASSUME ScheduledInv, RunAnotherEngine
      PROVE  CoreNow' = Start(workers)' /\ Missed'
  <2>1. DOMAIN work = {} /\ work' = work /\ decCache' = EmptyCache
    BY <1>2 DEF ScheduledInv, EngineInv, Batch, RunAnotherEngine
  <2>2. DOMAIN decCache' = {} /\ DOMAIN work' = {}
    BY <2>1 DEF EmptyCache
  <2>3. Known' = EmptyCache /\ Verdicts' = EmptyCache
    BY <2>2 DEF Known, Verdicts, EmptyCache
  <2>4. Missed'
    BY <2>2 DEF Missed
  <2>5. LoopPhase(0) # "batch"
    BY DEF LoopPhase
  <2>6. CoreNow' = Start(workers)'
    <3> DEFINE none == EmptyCache
    <3>1. Known' = none /\ Verdicts' = none
      BY <2>3
    <3>2. Start(workers)' =
            [ev |-> ev', budget |-> budget', workers |-> workers', th |-> calib'.start,
             asg |-> 1, rev |-> 0, bundle |-> bundle', seed |-> seed', calib |-> calib',
             events |-> << >>, phase |-> LoopPhase(0),
             iter |-> 0, polled |-> FALSE, improved |-> FALSE,
             stepsLeft |-> 0, mul |-> Larger(MulInit, 1), cands |-> << >>,
             xBest |-> NoX, fBest |-> NoF,
             h |-> InitialBarrier, points |-> {}, incumbent |-> NoF,
             search |-> Reset(seed'.halton), info |-> << >>,
             known |-> none, verdicts |-> none]
      BY DEF Start
    <3> HIDE DEF none
    <3> QED BY <1>2, <2>5, <3>1, <3>2, CoreNext DEF RunAnotherEngine
  <2> QED BY <2>1, <2>4, <2>6
<1> QED BY <1>1, <1>2

\* Every other step leaves the problem alone, and takes the core a step on or
\* leaves it where it is.
LEMMA CoreStep ==
  ASSUME ScheduledInv, Missed, [ScheduledNext]_allVars, ~RunAnotherEngine
  PROVE  /\ UNCHANGED <<ev, budget, workers, bundle, seed, calib, run, first>>
         /\ Missed'
         /\ \/ CoreNow' = CoreNow
            \/ phase \notin {"batch", "done"} /\ CoreNow' = NextCore(Known, Verdicts)
<1>1. CASE ScheduledPropose
  <2>1. /\ phase = "propose"
        /\ UNCHANGED <<ev, budget, workers, bundle, seed, calib, run, first>>
    BY <1>1 DEF ScheduledPropose, Ingest, runVars
  <2> QED BY <1>1, <2>1, CorePropose
<1>2. CASE ScheduledPoll
  <2>1. /\ phase = "select"
        /\ UNCHANGED <<ev, budget, workers, bundle, seed, calib, run, first>>
    BY <1>2 DEF ScheduledPoll, InjectPoll, runVars
  <2> QED BY <1>2, <2>1, CorePoll
<1>3. CASE ScheduledDispatch
  <2>1. /\ phase = "select"
        /\ UNCHANGED <<ev, budget, workers, bundle, seed, calib, run, first>>
    BY <1>3 DEF ScheduledDispatch, Submit, runVars, scheduleVars
  <2> QED BY <1>3, <2>1, CoreDispatch
<1>4. CASE Elsewhere
  <2>1. UNCHANGED scheduleVars /\ UNCHANGED <<bundle, seed, calib, first>>
    BY <1>4 DEF Elsewhere, scheduleVars
  <2>2. CASE EndSteps \/ EndIteration
    <3>1. phase \in {"select", "iterend"} /\ UNCHANGED <<ev, budget, workers, run>>
      BY <2>2 DEF EndSteps, EndIteration, runVars
    <3> QED BY <2>1, <2>2, <3>1, CoreElsewhere
  <2>3. CASE Join
    <3>1. UNCHANGED <<ev, budget, workers, run>>
      BY <2>3 DEF Join, runVars
    <3> QED BY <2>1, <2>3, <3>1, CoreJoin
  <2>4. ASSUME NEW i \in DOMAIN work, LookupDecision(i) \/ LookupEval(i) \/ Compute(i)
        PROVE  /\ UNCHANGED <<ev, budget, workers, bundle, seed, calib, run, first>>
               /\ Missed' /\ CoreNow' = CoreNow
    <3>1. UNCHANGED <<ev, budget, workers, run>>
      BY <2>4 DEF LookupDecision, LookupEval, Compute, ItemUnchanged, runVars
    <3>2. EngineInv
      BY DEF ScheduledInv
    <3> QED BY <2>1, <2>4, <3>1, <3>2, ItemQuiet
  <2> QED BY <1>4, <2>2, <2>3, <2>4 DEF Elsewhere
<1>5. ASSUME NEW i \in DOMAIN work, ScheduledMaterialize(i)
      PROVE  /\ UNCHANGED <<ev, budget, workers, bundle, seed, calib, run, first>>
             /\ Missed' /\ phase \notin {"batch", "done"} /\ CoreNow' = NextCore(Known, Verdicts)
  <2>1. Materialize(i) /\ UNCHANGED <<bundle, seed, calib, first>>
    BY <1>5 DEF ScheduledMaterialize
  <2>2. phase = "join" /\ UNCHANGED <<ev, budget, workers, run>>
    BY <2>1 DEF Materialize, CachedPartial, CachedEarly, CachedTruth, RejectInvalid, RejectCheap,
                ExpectFails, CutEarly, StopPartial, Continue, Truth, PartialTurn, Turn,
                MatUnchanged, runVars
  <2> QED BY <1>5, <2>1, <2>2, CoreMaterialize
<1>6. CASE Finished \/ UNCHANGED allVars
  <2>1. UNCHANGED vars /\ UNCHANGED scheduleVars
    BY <1>6 DEF Finished, allVars
  <2>2. UNCHANGED <<ev, budget, workers, bundle, seed, calib, run, first>>
    BY <2>1 DEF vars, scheduleVars, runVars
  <2> QED BY <2>1, <2>2, CoreJoin
<1>7. CASE ScheduledUpdate
  <2>1. /\ phase = "join"
        /\ UNCHANGED <<ev, budget, workers, bundle, seed, calib, run, first>>
    BY <1>7 DEF ScheduledUpdate, PolicyUpdate, runVars
  <2> QED BY <1>7, <2>1, CoreUpdate
<1> QED BY <1>1, <1>2, <1>3, <1>4, <1>5, <1>6, <1>7 DEF ScheduledNext

\* The way is kept.
LEMMA ReplayStep == ReplayInv /\ [ScheduledNext]_allVars => ReplayInv'
<1> SUFFICES ASSUME ReplayInv, [ScheduledNext]_allVars PROVE ReplayInv'
  OBVIOUS
<1>1. ScheduledInv /\ Missed /\ Replayed
  BY DEF ReplayInv
<1>2. ScheduledInv'
  BY <1>1, ScheduledStep
<1>3. CASE RunAnotherEngine
  <2> DEFINE d == CoreNow
             from == Start(workers)
  <2>1. CoreNow' = Start(workers)' /\ Missed'
    BY <1>1, <1>3, StartsAtStart
  <2>2. phase = "done" /\ first' = [workers |-> workers, revised |-> rev # 0, out |-> Output]
    BY <1>3 DEF RunAnotherEngine
  <2>3. d.phase = "done" /\ Output = [x |-> d.xBest, f |-> d.fBest, cands |-> d.cands]
    <3> DEFINE kn == Known
               vs == Verdicts
    <3>1. d = Core(kn, vs)
      BY DEF CoreNow
    <3> HIDE DEF kn, vs, d
    <3> QED BY <2>2, <3>1 DEF Core, Output
  <2>4. Leads(from, d)
    BY <1>1 DEF Replayed
  <2>5. Start(first.workers)' = from
    <3>1. first'.workers = workers
      BY <2>2
    <3>2. UNCHANGED <<ev, budget, bundle, seed, calib>>
      BY <1>3 DEF RunAnotherEngine
    <3> QED BY <3>1, <3>2 DEF Start, EmptyCache
  <2>6. first'.out = [x |-> d.xBest, f |-> d.fBest, cands |-> d.cands]
    BY <2>2, <2>3
  <2>7. Replayed'
    <3> HIDE DEF d, from
    <3>1. \E q : /\ Leads(from, q) /\ q.phase = "done"
                 /\ first'.out = [x |-> q.xBest, f |-> q.fBest, cands |-> q.cands]
      BY <2>3, <2>4, <2>6
    <3>2. Leads(CoreNow', CoreNow')
      BY LeadsOn
    <3> QED BY <2>1, <2>5, <3>1, <3>2 DEF Replayed
  <2> QED BY <1>1, <1>2, <2>1, <2>7 DEF ReplayInv
<1>4. CASE ~RunAnotherEngine
  <2>1. /\ UNCHANGED <<ev, budget, workers, bundle, seed, calib, run, first>>
        /\ Missed'
        /\ \/ CoreNow' = CoreNow
           \/ phase \notin {"batch", "done"} /\ CoreNow' = NextCore(Known, Verdicts)
    BY <1>1, <1>4, CoreStep
  <2>2. \A w : Start(w)' = Start(w)
    BY <2>1 DEF Start, EmptyCache
  <2> DEFINE d == CoreNow
             from == Start(workers)
             before == Start(first.workers)
  <2>3. Start(workers)' = from /\ Start(first.workers)' = before
    BY <2>1 DEF Start, EmptyCache
  <2>4. Leads(from, CoreNow')
    <3>1. Leads(from, d)
      BY <1>1 DEF Replayed
    <3>2. CASE CoreNow' = CoreNow
      BY <3>1, <3>2
    <3>3. CASE phase \notin {"batch", "done"} /\ CoreNow' = NextCore(Known, Verdicts)
      <4>1. CoreNow' = After(d)
        BY <3>3, AfterNow
      <4>2. d.phase # "done"
        <5> DEFINE kn == Known
                   vs == Verdicts
        <5>1. d = Core(kn, vs)
          BY DEF CoreNow
        <5> HIDE DEF kn, vs, d
        <5> QED BY <3>3, <5>1 DEF Core
      <4> HIDE DEF d, from
      <4> QED BY <3>1, <4>1, <4>2, LeadsOn
    <3> QED BY <2>1, <3>2, <3>3
  <2>5. Replayed'
    <3>1. run > 1 => \E q : /\ Leads(before, q) /\ q.phase = "done"
                            /\ first.out = [x |-> q.xBest, f |-> q.fBest, cands |-> q.cands]
      BY <1>1 DEF Replayed
    <3> HIDE DEF from, before
    <3> QED BY <2>1, <2>3, <2>4, <3>1 DEF Replayed
  <2> QED BY <1>1, <1>2, <2>1, <2>5 DEF ReplayInv
<1> QED BY <1>3, <1>4

\* From the way to the property: both outputs are at the end of the same way.
LEMMA ReplayReproduces == ReplayInv => Reproducible
<1> SUFFICES ASSUME ReplayInv, phase = "done", run > 1, first.workers = workers
             PROVE  Output = first.out
  BY DEF Reproducible, Rerun
<1> DEFINE d == CoreNow
           from == Start(workers)
<1>1. Leads(from, d)
  BY DEF ReplayInv, Replayed
<1>2. PICK q : /\ Leads(from, q) /\ q.phase = "done"
               /\ first.out = [x |-> q.xBest, f |-> q.fBest, cands |-> q.cands]
  BY DEF ReplayInv, Replayed
<1>3. d.phase = "done" /\ Output = [x |-> d.xBest, f |-> d.fBest, cands |-> d.cands]
  <2> DEFINE kn == Known
             vs == Verdicts
  <2>1. d = Core(kn, vs)
    BY DEF CoreNow
  <2> HIDE DEF kn, vs, d
  <2> QED BY <2>1 DEF Core, Output
<1> HIDE DEF d, from
<1>4. d = q
  BY <1>1, <1>2, <1>3, OneEnd
<1> QED BY <1>2, <1>3, <1>4

\* Reproducible.  A run is a function of problem, configuration, seed and
\* number of workers: whatever the interleaving of the evaluations, whichever
\* of them find what another has left in the caches, and whatever calibrator
\* and DIDS make of the events, as often as they do, the engine thread takes
\* the same decisions, and a new engine comes to the same output.
THEOREM RunsRepeat == ScheduledSpec => []Reproducible
<1>1. ScheduledInit => ReplayInv
  <2> SUFFICES ASSUME ScheduledInit PROVE ReplayInv
    OBVIOUS
  <2>1. ScheduledInv
    BY ScheduledInitInv
  <2>2. CoreNow = Start(workers) /\ Missed /\ run = 1
    BY StartsAtStart
  <2>3. Replayed
    BY <2>2, LeadsOn DEF Replayed
  <2> QED BY <2>1, <2>2, <2>3 DEF ReplayInv
<1>2. ReplayInv /\ [ScheduledNext]_allVars => ReplayInv'
  BY ReplayStep
<1>3. ReplayInv => Reproducible
  BY ReplayReproduces
<1> QED BY <1>1, <1>2, <1>3, PTL DEF ScheduledSpec

-----------------------------------------------------------------------------
(* The number of workers.  Which candidates of an iteration are evaluated, *)
(* and in what order, depends on the batches; what the iteration leaves as *)
(* the incumbent does not, if nothing but the objective of feasible points *)
(* decides, and as long as the policy is the one the run began with.       *)

Feasible(x) == x \in XMesh /\ TruthOf(x) \in Estimates /\ Violation(x) = 0

\* A point that no level and no constraint turns away.
Viable(x) ==
  Feasible(x) /\ ev.cheap[x] /\ \A p \in Levels : ev.est[x][p] \in Estimates

\* The decision cache has that x goes on at level p, or its TRUTH.
Kept(x, p) ==
  LET key == DecisionKey(x, p, TagOf(p)) IN
  key \in DOMAIN decCache /\ decCache[key].kind = TagOf(p)

\* The levels behind a feasible candidate went well, and are remembered; if
\* it is turned away it is not for its estimates.
ClimbOK(c) ==
  Feasible(c.x) =>
    /\ ~c.audit /\ c.status # "early"
    /\ \A p \in Levels : p < c.next \/ c.status = "truth" =>
         ev.est[c.x][p] \in Estimates /\ Kept(c.x, p)
    /\ c.status = "cheap" => ~ev.cheap[c.x]
    /\ c.status = "invalid" => \E p \in Levels : ev.est[c.x][p] \notin Estimates

\* What an item found in the decision cache is still there.
Recalled(i) ==
  /\ Feasible(cands[i].x) /\ work[i].pc = "done"
  /\ CachedKind(i, TagOf(work[i].phi))
  => Kept(cands[i].x, work[i].phi)

Climbing ==
  SoundMargins => /\ \A i \in DOMAIN cands : ClimbOK(cands[i])
                  /\ \A i \in DOMAIN work : Recalled(i)

\* Nothing viable in the store is below the incumbent.
StoreBest ==
  /\ xBest # NoX => Viable(xBest) /\ \A p \in Levels : Kept(xBest, p)
  /\ \A i \in DOMAIN cands :
       Viable(cands[i].x) => fBest # NoF /\ fBest <= TruthOf(cands[i].x).f

\* x is the best of the points of A, NoX if none is viable.
IsBest(A, x) ==
  /\ x # NoX => x \in A /\ Viable(x)
  /\ \A y \in A : Viable(y) => x # NoX /\ TruthOf(x).f <= TruthOf(y).f

\* Where an iteration k sets out: t has the incumbent, the mesh and the state
\* of the search.  Then its proposals, and its poll points.
Proposals(k, t) ==
  {Quantize(RawPoint(bundle, SetContext(t.s, t.x), t.x, seed.draws[k], t.m, j), t.m) :
     j \in 1 .. PerIter}

Neighbours(t) == {t.x + t.m * Larger(PollMult, 1), t.x - t.m * Larger(PollMult, 1)}

Proposed(k, t) == AfterPropose(bundle, SetContext(t.s, t.x), t.x, seed.draws[k])

Finer(m) ==
  LET minm == Larger(MulMin, 1)
  IN  IF m > minm THEN Larger(m \div Larger(RefineDiv, 2), minm) ELSE m

\* The iteration polls: it does not improve on t, nor come upon it again.
Polls(k, t) ==
  /\ t.x # NoX /\ t.x \notin Proposals(k, t)
  /\ IsBest({t.x} \cup Proposals(k, t), t.x)

\* What iteration k makes of t.
Iterated(k, t, u) ==
  \E x :
    \/ /\ ~Polls(k, t)
       /\ IsBest({t.x} \cup Proposals(k, t), x)
       /\ u = [x |-> x, m |-> t.m, s |-> Proposed(k, t)]
    \/ /\ Polls(k, t)
       /\ IsBest({t.x} \cup Proposals(k, t) \cup Neighbours(t), x)
       /\ u = [x |-> x, m |-> IF x = t.x THEN Finer(t.m) ELSE t.m, s |-> Proposed(k, t)]

\* The points that iteration iter, set out from t, has come to so far.
Reached(t) == Proposals(iter, t) \cup (IF polled THEN Neighbours(t) ELSE {})

\* It has the mesh and the search of t; it polls if it was to; what is at t is
\* viable, and remembered.
Bearing(t) ==
  /\ t.m = mul /\ search = Proposed(iter, t)
  /\ polled => Polls(iter, t)
  /\ t.x # NoX => Viable(t.x) /\ \A p \in Levels : Kept(t.x, p)

\* There is a candidate for every such point; what waits is one of them.
Covering(t) ==
  /\ \A y \in Reached(t) : \E i \in DOMAIN cands :
       cands[i].x = y /\ cands[i].epoch = iter
  /\ \A i \in DOMAIN cands :
       cands[i].status \in {"ready", "flight"} => cands[i].x \in Reached(t)

\* It improves on t or keeps it; coming upon t again counts as improving.
Improving(t) ==
  /\ ~improved => xBest = t.x
  /\ improved => /\ xBest # NoX /\ xBest \in Reached(t)
                 /\ t.x = NoX \/ fBest <= TruthOf(t.x).f
  /\ \A i \in DOMAIN cands : cands[i].x = t.x /\ cands[i].epoch = iter =>
       improved \/ cands[i].status \in {"ready", "flight"}

\* Every level of t is in the decision cache, where its items find it.
Recalling(t) ==
  \A i \in DOMAIN work : cands[i].x = t.x =>
    work[i].pc = "decision" \/ (work[i].pc = "done" /\ CachedKind(i, TagOf(work[i].phi)))

\* Where an iteration is that set out from t.
Midway(t) ==
  /\ Bearing(t) /\ Covering(t) /\ Improving(t) /\ Recalling(t)
  /\ phase = "iterend" => ~CanPoll

\* What is early-infeasible at some level is not feasible.
LEMMA EarlyIsInfeasible ==
  ASSUME SoundMargins, NEW x, Feasible(x), NEW p \in Levels, p < L, NEW t \in Thresholds,
         ev.est[x][p] \in Estimates, EarlyInfeasible(ev.est[x][p], p, t)
  PROVE  FALSE
<1>1. p \in 1 .. L - 1
  BY LadderAssumption DEF Levels
<1>2. TruthOf(x).c > 0 /\ TruthOf(x).c \in Int
  BY <1>1 DEF SoundMargins, Feasible, Estimates
<1> QED BY <1>2 DEF Feasible, Violation, Larger

\* Without slack acceptance takes what is feasible and not worse.
LEMMA AcceptsExact ==
  ASSUME EngineInv, Lowest, ExactBarrier, NEW f \in Int, NEW v \in Nat
  PROVE  Accepts(f, v) <=> v = 0 /\ (fBest = NoF \/ f <= fBest)
<1> DEFINE new == [f |-> f, v |-> v]
<1>1. /\ AcceptTypeOK /\ h = 0 /\ fBest \in Int \cup {NoF} /\ NoF \notin Int
      /\ Larger(EpsF, 0) = 0 /\ Larger(EpsV, 0) = 0
  BY AcceptanceAssumption DEF EngineInv, EngineTypes, Best, ExactBarrier, Larger
<1>2. \A q \in points : q.f \in Int /\ q.v = 0 /\ q.f = fBest
  BY <1>1 DEF AcceptTypeOK, FilterPoint, Lowest
<1>3. fBest # NoF => \E q \in points : q.f = fBest
  BY DEF Lowest, FirstCopyKept
<1>4. \A q \in points : Dominates(q, new) <=> (v > 0 /\ q.f <= f) \/ q.f < f
  BY <1>1, <1>2 DEF Dominates
<1>5. Accepts(f, v) <=> v = 0 /\ \A q \in points : ~Dominates(q, new)
  BY <1>1 DEF Accepts, Dominated
<1> HIDE DEF new
<1> QED BY <1>1, <1>2, <1>3, <1>4, <1>5

\* A decision under another key, or one that says the same, does not make the
\* cache forget.
LEMMA KeptPut ==
  ASSUME NEW x, NEW p \in Levels, Kept(x, p), rev' = rev,
         NEW y, NEW q \in Levels, NEW tag, NEW d,
         decCache' = Put(decCache, DecisionKey(y, q, tag), d),
         y = x /\ Ladder[q] = Ladder[p] /\ tag = TagOf(p) => d.kind = tag
  PROVE  Kept(x, p)'
<1> DEFINE key == DecisionKey(x, p, TagOf(p))
           put == DecisionKey(y, q, tag)
<1>1. key \in DOMAIN decCache /\ decCache[key].kind = TagOf(p)
  BY DEF Kept
<1>2. /\ DOMAIN decCache' = DOMAIN decCache \cup {put} /\ decCache'[put] = d
      /\ \A k \in DOMAIN decCache : k # put => decCache'[k] = decCache[k]
  BY DEF Put
<1>3. key = put => y = x /\ Ladder[q] = Ladder[p] /\ tag = TagOf(p)
  BY DEF DecisionKey
<1>4. key' = key /\ TagOf(p)' = TagOf(p)
  BY DEF DecisionKey, TagOf
<1> HIDE DEF key, put
<1>5. key \in DOMAIN decCache' /\ decCache'[key].kind = TagOf(p)
  BY <1>1, <1>2, <1>3
<1> QED BY <1>4, <1>5 DEF Kept, key

\* Nor do the workers.
LEMMA KeptItem ==
  ASSUME EngineInv, NEW i \in DOMAIN work, LookupDecision(i) \/ LookupEval(i) \/ Compute(i),
         NEW x, NEW p \in Levels, ev.est[x][p] \in Estimates, Kept(x, p)
  PROVE  Kept(x, p)'
<1>1. rev' = rev
  BY DEF LookupDecision, LookupEval, Compute, ItemUnchanged, policyVars
<1>2. CASE decCache' = decCache
  BY <1>1, <1>2 DEF Kept, DecisionKey, TagOf
<1>3. CASE decCache' # decCache
  <2> DEFINE y == cands[i].x
             q == work[i].phi
             e == ev.est[y][q]
  <2>1. /\ e = Invalid
        /\ decCache' = Put(decCache, DecisionKey(y, q, TagOf(q)), Decided("invalid", e))
    BY <1>3 DEF LookupDecision, LookupEval, Compute, cacheVars
  <2>2. i \in DOMAIN cands /\ y \in XMesh /\ q \in Levels /\ ev \in Evaluators
    BY ItemFacts
  <2>3. ~(y = x /\ Ladder[q] = Ladder[p])
    BY <2>1, <2>2, EstType, EstimatesDiffer
  <2> HIDE DEF y, q, e
  <2> QED BY <1>1, <2>1, <2>2, <2>3, KeptPut
<1> QED BY <1>2, <1>3

\* Nor does the engine thread, of a feasible point.
LEMMA KeptMaterialize ==
  ASSUME EngineInv, SoundMargins, NEW i, Materialize(i),
         NEW x, Feasible(x), NEW p \in Levels, ev.est[x][p] \in Estimates, Kept(x, p)
  PROVE  Kept(x, p)'
<1> DEFINE a == cands[i]
           q == work[i].phi
<1>1. rev' = rev /\ Turn(i)
  BY DEF Materialize, CachedPartial, CachedEarly, CachedTruth, RejectInvalid, RejectCheap,
         ExpectFails, CutEarly, StopPartial, Continue, Truth, MatUnchanged, policyVars,
         PartialTurn
<1>2. /\ a.x \in XMesh /\ q \in Levels /\ q = a.next /\ ev \in Evaluators
      /\ a \in Candidate /\ CandidateOK(ev, a)
      /\ HasEst(i) => work[i].out.est = ev.est[a.x][q] /\ work[i].out.est \in Estimates
  BY <1>1, AtTurn
<1>3. CASE decCache' = decCache
  BY <1>1, <1>3 DEF Kept, DecisionKey, TagOf
<1>4. CASE RejectCheap(i)
  <2>1. decCache' = Put(decCache, DecisionKey(CheapChecked(a).x, q, "cheap"),
                        Decided("cheap", NoX))
    BY <1>4 DEF RejectCheap
  <2>2. "cheap" # TagOf(p)
    BY DEF TagOf
  <2> QED BY <1>1, <1>2, <2>1, <2>2, KeptPut
<1>5. ASSUME NEW kind, Record(i, kind, work[i].out.est), kind = TagOf(q)
      PROVE  Kept(x, p)'
  <2> DEFINE d == Decided(kind, work[i].out.est)
  <2>1. decCache' = Put(decCache, DecisionKey(a.x, q, TagOf(q)), d)
    BY <1>5 DEF Record
  <2>2. d.kind = kind
    BY DEF Decided
  <2> HIDE DEF d
  <2> QED BY <1>1, <1>2, <1>5, <2>1, <2>2, KeptPut
<1>6. CASE StopPartial(i) \/ Continue(i)
  <2>1. Record(i, "partial", work[i].out.est) /\ q < L
    BY <1>6 DEF StopPartial, Continue, PartialTurn
  <2>2. TagOf(q) = "partial"
    BY <1>2, <2>1, LadderAssumption DEF TagOf, Levels
  <2> QED BY <1>5, <2>1, <2>2
<1>7. CASE Truth(i)
  BY <1>5, <1>7 DEF Truth, TagOf
<1>8. CASE CutEarly(i)
  <2> DEFINE d == Decided("early", work[i].out.est)
  <2>1. /\ HasEst(i) /\ q < L /\ EarlyInfeasible(work[i].out.est, q, th)
        /\ decCache' = Put(decCache, DecisionKey(a.x, q, TagOf(q)), d)
    BY <1>8 DEF CutEarly, PartialTurn, Cuts, Record
  <2>2. th \in Thresholds
    BY DEF EngineInv, EngineTypes
  <2>3. a.x # x
    BY <1>2, <2>1, <2>2, EarlyIsInfeasible
  <2> HIDE DEF d, a, q
  <2> QED BY <1>1, <1>2, <2>1, <2>3, KeptPut
<1>9. decCache' = decCache \/ RejectCheap(i) \/ StopPartial(i) \/ Continue(i) \/ Truth(i)
      \/ CutEarly(i)
  BY DEF Materialize, CachedPartial, CachedEarly, CachedTruth, RejectInvalid, ExpectFails,
         cacheVars
<1> QED BY <1>3, <1>4, <1>6, <1>7, <1>8, <1>9

\* What is decided is remembered.
LEMMA KeptNew ==
  ASSUME NEW x, NEW p \in Levels, rev' = rev, NEW d, d.kind = TagOf(p),
         decCache' = Put(decCache, DecisionKey(x, p, TagOf(p)), d)
  PROVE  Kept(x, p)'
<1> DEFINE key == DecisionKey(x, p, TagOf(p))
<1>1. key \in DOMAIN decCache' /\ decCache'[key] = d
  BY DEF Put
<1>2. key' = key /\ TagOf(p)' = TagOf(p)
  BY DEF DecisionKey, TagOf
<1> HIDE DEF key
<1> QED BY <1>1, <1>2 DEF Kept, key

\* A candidate and what it becomes at its turn.
LEMMA ClimbMaterialize ==
  ASSUME EngineInv, SoundMargins, NEW i, Materialize(i), ~ExpectFails(i), ClimbOK(cands[i]),
         Recalled(i)
  PROVE  ClimbOK(cands[i])'
<1> DEFINE a == cands[i]
           b == CheapChecked(a)
           c == cands'[i]
<1>p. PICK p : p = work[i].phi
  OBVIOUS
<1>x. PICK x : x = a.x
  OBVIOUS
<1> USE <1>p, <1>x
<1>1. Turn(i) /\ ev' = ev /\ rev' = rev
  BY DEF Materialize, CachedPartial, CachedEarly, CachedTruth, RejectInvalid, RejectCheap,
         CutEarly, StopPartial, Continue, Truth, MatUnchanged, policyVars, PartialTurn
<1>2. /\ i \in DOMAIN cands /\ a \in Candidate /\ CandidateOK(ev, a) /\ a.status = "flight"
      /\ p \in Levels /\ p = a.next /\ x \in XMesh /\ ev \in Evaluators
      /\ HasCached(i) => ResultOK(ev, work[i].out.cached, x, p)
      /\ HasEst(i) => work[i].out.est = ev.est[x][p] /\ work[i].out.est \in Estimates
  BY <1>1, AtTurn
<1>3. /\ b \in Candidate /\ b.x = x /\ b.audit = a.audit /\ b.status = a.status
      /\ b.next = a.next /\ (b.cheap = "bad" => ~ev.cheap[x])
  <2> HIDE DEF a
  <2> QED BY <1>2, CheckedFacts
<1>4. cands \in Seq(Candidate)
  BY DEF EngineInv, EngineTypes
<1>5. \A d : Settle(i, d) => c = d
  BY <1>2, <1>4 DEF Settle
<1>6. ASSUME Feasible(x)'
      PROVE  /\ Feasible(x) /\ ~a.audit
             /\ \A q \in Levels : q < p => ev.est[x][q] \in Estimates /\ Kept(x, q)'
  <2>1. Feasible(x)
    BY <1>1, <1>6 DEF Feasible, TruthOf, Violation
  <2>2. ~a.audit /\ \A q \in Levels : q < p => ev.est[x][q] \in Estimates /\ Kept(x, q)
    BY <1>2, <2>1 DEF ClimbOK
  <2>3. ASSUME NEW q \in Levels, q < p PROVE Kept(x, q)'
    <3> HIDE DEF a
    <3> QED BY <2>1, <2>2, <2>3, KeptMaterialize
  <2> QED BY <2>1, <2>2, <2>3
<1>7. ASSUME c.x = x,
             Feasible(x) /\ ~a.audit =>
               /\ ~c.audit /\ c.status \notin {"early"}
               /\ \/ c.next = p /\ c.status # "truth"
                  \/ /\ (c.next = p + 1 /\ c.status # "truth") \/ (p = L /\ c.status = "truth")
                     /\ ev.est[x][p] \in Estimates /\ Kept(x, p)'
               /\ c.status = "cheap" => ~ev.cheap[x]
               /\ c.status = "invalid" => \E q \in Levels : ev.est[x][q] \notin Estimates
      PROVE  ClimbOK(cands[i])'
  <2> SUFFICES ASSUME Feasible(x)'
               PROVE  /\ ~c.audit /\ c.status # "early"
                      /\ \A q \in Levels : q < c.next \/ c.status = "truth" =>
                           ev.est[x][q] \in Estimates /\ Kept(x, q)'
                      /\ c.status = "cheap" => ~ev.cheap[x]
                      /\ c.status = "invalid" =>
                           \E q \in Levels : ev.est[x][q] \notin Estimates
    BY <1>1, <1>7 DEF ClimbOK
  <2>1. /\ Feasible(x) /\ ~a.audit
        /\ \A q \in Levels : q < p => ev.est[x][q] \in Estimates /\ Kept(x, q)'
    <3> QED BY <1>6
  <2> HIDE DEF a, c
  <2>2. \A q \in Levels : q < c.next \/ c.status = "truth" =>
          ev.est[x][q] \in Estimates /\ Kept(x, q)'
    <3>1. L \in Nat /\ \A q \in Levels : q \in Nat /\ q <= L
      BY LadderAssumption DEF Levels
    <3> QED BY <1>2, <1>7, <2>1, <3>1
  <2> QED BY <1>7, <2>1, <2>2
<1>8. ASSUME HasCached(i), work[i].out.cached.kind = TagOf(p), Feasible(x)
      PROVE  ev.est[x][p] \in Estimates /\ Kept(x, p)'
  <2>1. ev.est[x][p] \in Estimates
    BY <1>2, <1>8 DEF ResultOK, TagOf
  <2>2. work[i].pc = "done"
    BY <1>1 DEF Turn, EngineInv, Batch
  <2>3. Kept(x, p)
    BY <1>8, <2>2 DEF Recalled, CachedKind
  <2> QED BY <1>2, <1>8, <2>1, <2>3, KeptMaterialize
<1>9. CASE CachedPartial(i)
  <2> DEFINE n == NextLevel(a, p)
             d == [a EXCEPT !.status = "ready", !.next = n]
  <2>1. Settle(i, d) /\ HasCached(i) /\ work[i].out.cached.kind = "partial"
    BY <1>9 DEF CachedPartial, CachedKind
  <2>2. p < L
    BY <1>2, <2>1 DEF ResultOK
  <2>3. TagOf(p) = "partial" /\ n \in Levels
    BY <1>2, <2>2, NextLevelUp, LadderAssumption DEF TagOf, Levels
  <2>4. ~a.audit => n = p + 1
    BY DEF NextLevel
  <2> HIDE DEF n, a
  <2>5. d.x = x /\ d.status = "ready" /\ d.next = n /\ d.audit = a.audit
    BY <1>2, <2>3, Moved
  <2>6. c = d
    BY <1>5, <2>1
  <2> HIDE DEF d, c
  <2> QED BY <1>7, <1>8, <2>1, <2>3, <2>4, <2>5, <2>6
<1>10. CASE CachedEarly(i) \/ CutEarly(i)
  <2>1. /\ p < L /\ ev.est[x][p] \in Estimates
        /\ \E t \in Thresholds : EarlyInfeasible(ev.est[x][p], p, t)
    <3>1. CASE CachedEarly(i)
      BY <1>2, <3>1 DEF CachedEarly, CachedKind, ResultOK
    <3>2. CASE CutEarly(i)
      BY <1>2, <3>2 DEF CutEarly, PartialTurn, Cuts, EngineInv, EngineTypes
    <3> QED BY <1>10, <3>1, <3>2
  <2>2. ~Feasible(x)
    <3> HIDE DEF a
    <3> QED BY <1>2, <2>1, EarlyIsInfeasible
  <2>3. c.x = x
    <3>1. \E d : Effect(i, d)
      BY Effects
    <3> QED BY <1>5, <3>1 DEF Effect
  <2> HIDE DEF a, c
  <2> QED BY <1>7, <2>2, <2>3
<1>11. CASE CachedTruth(i)
  <2> DEFINE d == [a EXCEPT !.status = "truth"]
  <2>1. Settle(i, d) /\ HasCached(i) /\ work[i].out.cached.kind = "truth"
    BY <1>11 DEF CachedTruth, CachedKind
  <2>2. p = L /\ TagOf(p) = "truth"
    BY <1>2, <2>1 DEF ResultOK, TagOf
  <2>3. d.x = x /\ d.status = "truth" /\ d.audit = a.audit
    BY <1>2 DEF Candidate
  <2>4. c = d
    BY <1>5, <2>1
  <2> HIDE DEF d, c, a
  <2> QED BY <1>7, <1>8, <2>1, <2>2, <2>3, <2>4
<1>12. CASE RejectInvalid(i)
  <2> DEFINE d == [a EXCEPT !.status = "invalid"]
  <2>1. Settle(i, d) /\ HasCached(i) /\ work[i].out.cached.kind = "invalid"
    BY <1>12 DEF RejectInvalid, CachedKind
  <2>2. ev.est[x][p] \notin Estimates
    BY <1>2, <2>1, EstimatesDiffer DEF ResultOK
  <2>3. d.x = x /\ d.status = "invalid" /\ d.audit = a.audit /\ d.next = p
    BY <1>2 DEF Candidate
  <2>4. c = d
    BY <1>5, <2>1
  <2> HIDE DEF d, c, a
  <2> QED BY <1>2, <1>7, <2>2, <2>3, <2>4
<1>13. CASE RejectCheap(i)
  <2> DEFINE d == [b EXCEPT !.status = "cheap"]
  <2>1. Settle(i, d) /\ b.cheap = "bad"
    BY <1>13 DEF RejectCheap
  <2> HIDE DEF b
  <2>2. d.x = x /\ d.status = "cheap" /\ d.audit = a.audit /\ d.next = p
    BY <1>2, <1>3 DEF Candidate
  <2>3. c = d
    BY <1>5, <2>1
  <2> HIDE DEF d, c, a
  <2> QED BY <1>3, <1>7, <2>1, <2>2, <2>3
<1>14. ASSUME NEW kind, Record(i, kind, work[i].out.est), kind = TagOf(p)
       PROVE  Kept(x, p)'
  <2> DEFINE d == Decided(kind, work[i].out.est)
  <2>1. decCache' = Put(decCache, DecisionKey(x, p, TagOf(p)), d)
    BY <1>14 DEF Record
  <2>2. d.kind = kind
    BY DEF Decided
  <2> HIDE DEF d
  <2> QED BY <1>1, <1>2, <1>14, <2>1, <2>2, KeptNew
<1>15. CASE StopPartial(i)
  <2> DEFINE d == [b EXCEPT !.status = "stopped"]
  <2>1. Settle(i, d)
    BY <1>15 DEF StopPartial
  <2> HIDE DEF b
  <2>2. d.x = x /\ d.status = "stopped" /\ d.audit = a.audit /\ d.next = p
    BY <1>2, <1>3 DEF Candidate
  <2>3. c = d
    BY <1>5, <2>1
  <2> HIDE DEF d, c, a
  <2> QED BY <1>7, <2>2, <2>3
<1>16. CASE Continue(i)
  <2> DEFINE n == NextLevel(a, p)
             d == [b EXCEPT !.status = "ready", !.next = n]
  <2>1. /\ Settle(i, d) /\ HasEst(i) /\ p < L
        /\ Record(i, "partial", work[i].out.est)
    BY <1>16 DEF Continue, PartialTurn
  <2>2. TagOf(p) = "partial" /\ n \in Levels
    BY <1>2, <2>1, NextLevelUp, LadderAssumption DEF TagOf, Levels
  <2>3. ~a.audit => n = p + 1
    BY DEF NextLevel
  <2> HIDE DEF n, b
  <2>4. d.x = x /\ d.status = "ready" /\ d.next = n /\ d.audit = a.audit
    BY <1>2, <1>3, <2>2 DEF Candidate
  <2>5. c = d
    BY <1>5, <2>1
  <2>6. ev.est[x][p] \in Estimates /\ Kept(x, p)'
    BY <1>2, <1>14, <2>1, <2>2
  <2> HIDE DEF d, c, a
  <2> QED BY <1>7, <2>3, <2>4, <2>5, <2>6
<1>17. CASE Truth(i)
  <2> DEFINE d == [b EXCEPT !.status = "truth"]
  <2>1. /\ Settle(i, d) /\ HasEst(i) /\ p = L
        /\ Record(i, "truth", work[i].out.est)
    BY <1>17 DEF Truth
  <2>2. TagOf(p) = "truth"
    BY <2>1 DEF TagOf
  <2> HIDE DEF b
  <2>3. d.x = x /\ d.status = "truth" /\ d.audit = a.audit
    BY <1>2, <1>3 DEF Candidate
  <2>4. c = d
    BY <1>5, <2>1
  <2>5. ev.est[x][p] \in Estimates /\ Kept(x, p)'
    BY <1>2, <1>14, <2>1, <2>2
  <2> HIDE DEF d, c, a
  <2> QED BY <1>7, <2>1, <2>3, <2>4, <2>5
<1> QED BY <1>9, <1>10, <1>11, <1>12, <1>13, <1>15, <1>16, <1>17 DEF Materialize

-----------------------------------------------------------------------------
(* What the steps do to the store.                                         *)

\* The top of an iteration, as Proposals has it.
Here == [x |-> xBest, m |-> mul, s |-> search]

\* Candidates for the points of A have come into the store, and no others.
Joined(A) ==
  /\ \A i \in DOMAIN cands : i \in DOMAIN cands' /\ cands'[i] = cands[i]
  /\ \A i \in DOMAIN cands' \ DOMAIN cands :
       /\ cands'[i].x \in A /\ cands'[i].epoch = iter /\ cands'[i].next = 1
       /\ cands'[i].status = "ready" /\ ~cands'[i].audit
  /\ \A y \in A : \E i \in DOMAIN cands' : cands'[i].x = y /\ cands'[i].epoch = iter

\* What new candidates for the points of a list are.
LEMMA StoreJoined ==
  ASSUME ScheduledInv, NEW n \in Nat, NEW pts, \A k \in 1 .. n : pts[k] \in XMesh,
         NEW b \in BOOLEAN, cands' = cands \o [k \in 1 .. n |-> NewCandidate(pts[k], b)]
  PROVE  Joined({pts[k] : k \in 1 .. n})
<1> DEFINE new == [k \in 1 .. n |-> NewCandidate(pts[k], b)]
<1>1. EngineInv /\ cands \in Seq(Candidate)
  BY DEF ScheduledInv, EngineInv, EngineTypes
<1>2. ASSUME NEW k \in 1 .. n
      PROVE  /\ new[k] \in Candidate /\ new[k].x = pts[k] /\ new[k].epoch = iter
             /\ new[k].next = 1 /\ new[k].status = "ready" /\ ~new[k].audit
  <2>1. new[k] = NewCandidate(pts[k], b) /\ pts[k] \in XMesh
    OBVIOUS
  <2>2. NewCandidate(pts[k], b) \in Candidate
    BY <1>1, <2>1, Ingested
  <2> QED BY <2>1, <2>2 DEF NewCandidate
<1>3. new \in [1 .. n -> Candidate]
  BY <1>2
<1> HIDE DEF new
<1>4. /\ DOMAIN cands' = 1 .. Len(cands) + n /\ Len(cands) \in Nat
      /\ \A i \in DOMAIN cands : i \in DOMAIN cands' /\ cands'[i] = cands[i]
      /\ \A k \in 1 .. n : cands'[Len(cands) + k] = new[k]
      /\ \A i \in DOMAIN cands' \ DOMAIN cands : \E k \in 1 .. n : cands'[i] = new[k]
  <2>1. cands' = cands \o new
    BY DEF new
  <2> QED BY <1>1, <1>3, <2>1, StoreGrows
<1>5. ASSUME NEW k \in 1 .. n
      PROVE  \E i \in DOMAIN cands' : cands'[i].x = pts[k] /\ cands'[i].epoch = iter
  <2>1. Len(cands) + k \in DOMAIN cands'
    BY <1>4
  <2> QED BY <1>2, <1>4, <2>1
<1> DEFINE A == {pts[k] : k \in 1 .. n}
<1>6. \A k \in 1 .. n : pts[k] \in A
  OBVIOUS
<1>7. ASSUME NEW y \in A
      PROVE  \E i \in DOMAIN cands' : cands'[i].x = y /\ cands'[i].epoch = iter
  <2>1. PICK k \in 1 .. n : y = pts[k]
    OBVIOUS
  <2> QED BY <1>5, <2>1
<1> HIDE DEF A
<1>8. ASSUME NEW i \in DOMAIN cands' \ DOMAIN cands
      PROVE  /\ cands'[i].x \in A /\ cands'[i].epoch = iter /\ cands'[i].next = 1
             /\ cands'[i].status = "ready" /\ ~cands'[i].audit
  <2>1. PICK k \in 1 .. n : cands'[i] = new[k]
    BY <1>4
  <2> QED BY <1>2, <1>6, <2>1
<1>9. Joined(A)
  BY <1>4, <1>7, <1>8 DEF Joined
<1> QED BY <1>9 DEF A

\* The proposals join the store.
LEMMA StoreProposed ==
  ASSUME ScheduledInv, ScheduledPropose
  PROVE  /\ Joined(Proposals(iter, Here)) /\ search' = Proposed(iter, Here)
         /\ Proposals(iter, Here) \subseteq XMesh
<1> DEFINE raw == [k \in 1 .. PerIter |->
                     RawPoint(bundle, SetContext(search, xBest), xBest,
                              seed.draws[iter], mul, k)]
           xs == [k \in 1 .. PerIter |-> Quantize(raw[k], mul)]
<1>1. /\ phase = "propose"
      /\ cands' = cands \o [k \in 1 .. PerIter |-> NewCandidate(xs[k], FALSE)]
      /\ search' = AfterPropose(bundle, SetContext(search, xBest), xBest, seed.draws[iter])
  BY DEF ScheduledPropose, Ingest
<1>2. \A k \in 1 .. PerIter : xs[k] \in XMesh
  <2>1. \A k \in 1 .. PerIter : xs[k] \in SearchBox
    BY <1>1, ProposalsOnMesh
  <2> QED BY <2>1, EngineAssumption
<1>3. Proposals(iter, Here) = {xs[k] : k \in 1 .. PerIter}
  BY DEF Proposals, Here
<1>4. search' = Proposed(iter, Here)
  BY <1>1 DEF Proposed, Here
<1>5. PerIter \in Nat
  BY Facts
<1> HIDE DEF xs
<1>6. Joined({xs[k] : k \in 1 .. PerIter})
  BY <1>1, <1>2, <1>5, StoreJoined
<1> QED BY <1>2, <1>3, <1>4, <1>6

\* The poll points join the store.
LEMMA StorePolled ==
  ASSUME ScheduledInv, ScheduledPoll
  PROVE  Joined(Neighbours(Here)) /\ Neighbours(Here) \subseteq XMesh
<1> DEFINE pts == PollPoints(xBest)
<1>1. /\ xBest # NoX
      /\ cands' = cands \o [d \in 1 .. Len(pts) |-> NewCandidate(pts[d], TRUE)]
  BY DEF ScheduledPoll, InjectPoll, CanPoll
<1>2. Len(pts) = 2 /\ pts[1] = xBest + PollStep /\ pts[2] = xBest - PollStep
  BY DEF PollPoints
<1>3. xBest + PollStep \in XMesh /\ xBest - PollStep \in XMesh
  BY <1>1, PollInMesh DEF ScheduledInv
<1>4. Neighbours(Here) = {xBest + PollStep, xBest - PollStep}
  BY DEF Neighbours, Here, PollStep
<1> HIDE DEF pts
<1>5. 1 .. Len(pts) = {1, 2}
  BY <1>2
<1>6. {pts[k] : k \in 1 .. Len(pts)} = {xBest + PollStep, xBest - PollStep}
  BY <1>2, <1>5
<1>7. Joined({pts[k] : k \in 1 .. Len(pts)})
  <2>1. \A k \in 1 .. Len(pts) : pts[k] \in XMesh
    BY <1>2, <1>3, <1>5
  <2> QED BY <1>1, <1>2, <2>1, StoreJoined
<1> QED BY <1>3, <1>4, <1>6, <1>7

\* Dispatch only takes candidates in flight.
LEMMA StoreDispatched ==
  ASSUME ScheduledInv, ScheduledDispatch
  PROVE  /\ DOMAIN cands' = DOMAIN cands
         /\ \A i \in DOMAIN cands :
              /\ cands'[i].x = cands[i].x /\ cands'[i].epoch = cands[i].epoch
              /\ cands'[i].next = cands[i].next /\ cands'[i].audit = cands[i].audit
              /\ \/ cands'[i].status = cands[i].status
                 \/ cands[i].status = "ready" /\ cands'[i].status = "flight"
         /\ \A i \in DOMAIN work' : work'[i].pc = "decision"
<1>1. PICK picked \in SUBSET Ready : Submit(picked)
  BY DEF ScheduledDispatch
<1>2. /\ cands' = [i \in DOMAIN cands |->
                     IF i \in picked THEN [cands[i] EXCEPT !.status = "flight"]
                                     ELSE cands[i]]
      /\ work' = [i \in picked |-> [pc |-> "decision", phi |-> cands[i].next]]
  BY <1>1 DEF Submit
<1>3. \A j \in DOMAIN cands : cands[j] \in Candidate
  BY Facts
<1>4. ASSUME NEW j \in DOMAIN cands
      PROVE  /\ cands'[j].x = cands[j].x /\ cands'[j].epoch = cands[j].epoch
             /\ cands'[j].next = cands[j].next /\ cands'[j].audit = cands[j].audit
             /\ \/ cands'[j].status = cands[j].status
                \/ cands[j].status = "ready" /\ cands'[j].status = "flight"
  <2> DEFINE c == [cands[j] EXCEPT !.status = "flight"]
  <2>1. /\ c.x = cands[j].x /\ c.audit = cands[j].audit /\ c.epoch = cands[j].epoch
        /\ c.next = cands[j].next /\ c.status = "flight"
    BY <1>3 DEF Candidate
  <2>2. cands'[j] = cands[j] \/ (cands'[j] = c /\ cands[j].status = "ready")
    BY <1>2 DEF Ready
  <2> HIDE DEF c
  <2> QED BY <2>1, <2>2
<1> QED BY <1>2, <1>4

-----------------------------------------------------------------------------
(* Climbing is an invariant.                                               *)

\* A step that keeps what is remembered, and a candidate with what it has
\* behind it.
LEMMA ClimbKept ==
  ASSUME Climbing, UNCHANGED ev,
         SoundMargins => \A x, p :
           p \in Levels /\ Feasible(x) /\ ev.est[x][p] \in Estimates /\ Kept(x, p) => Kept(x, p)',
         SoundMargins => \A i \in DOMAIN cands' :
           \/ cands'[i].next = 1 /\ cands'[i].status = "ready" /\ ~cands'[i].audit
           \/ /\ i \in DOMAIN cands /\ cands'[i].x = cands[i].x
              /\ cands'[i].next = cands[i].next /\ cands'[i].audit = cands[i].audit
              /\ cands'[i].status \in {cands[i].status, "flight"}
           \/ ClimbOK(cands[i])',
         SoundMargins => \A i \in DOMAIN work' : work'[i].pc # "done" \/ Recalled(i)'
  PROVE  Climbing'
<1> SUFFICES ASSUME SoundMargins
             PROVE  /\ \A i \in DOMAIN cands' : ClimbOK(cands[i])'
                    /\ \A i \in DOMAIN work' : Recalled(i)'
  <2>1. SoundMargins' <=> SoundMargins
    BY DEF SoundMargins, TruthOf
  <2> QED BY <2>1 DEF Climbing
<1>1. \A x : Feasible(x)' <=> Feasible(x)
  BY DEF Feasible, TruthOf, Violation
<1>2. ASSUME NEW i \in DOMAIN cands' PROVE ClimbOK(cands[i])'
  <2>1. CASE cands'[i].next = 1 /\ cands'[i].status = "ready" /\ ~cands'[i].audit
    <3>1. \A p \in Levels : ~(p < 1)
      BY LadderAssumption DEF Levels
    <3> QED BY <2>1, <3>1 DEF ClimbOK
  <2>2. CASE /\ i \in DOMAIN cands /\ cands'[i].x = cands[i].x
             /\ cands'[i].next = cands[i].next /\ cands'[i].audit = cands[i].audit
             /\ cands'[i].status \in {cands[i].status, "flight"}
    <3> DEFINE c == cands'[i]
               a == cands[i]
    <3>x. PICK x : x = a.x
      OBVIOUS
    <3> SUFFICES ASSUME Feasible(x)
                 PROVE  /\ ~c.audit /\ c.status # "early"
                        /\ \A p \in Levels : p < c.next \/ c.status = "truth" =>
                             ev.est[x][p] \in Estimates /\ Kept(x, p)'
                        /\ c.status = "cheap" => ~ev.cheap[x]
                        /\ c.status = "invalid" => \E p \in Levels : ev.est[x][p] \notin Estimates
      <4>1. cands'[i].x = x
        BY <2>2, <3>x
      <4> QED BY <1>1, <4>1 DEF ClimbOK
    <3>1. ClimbOK(a)
      BY <2>2 DEF Climbing
    <3>2. /\ ~a.audit /\ a.status # "early"
          /\ \A p \in Levels : p < a.next \/ a.status = "truth" =>
               ev.est[x][p] \in Estimates /\ Kept(x, p)
          /\ a.status = "cheap" => ~ev.cheap[x]
          /\ a.status = "invalid" => \E p \in Levels : ev.est[x][p] \notin Estimates
      BY <3>1, <3>x DEF ClimbOK
    <3>3. c.next = a.next /\ c.audit = a.audit /\ c.status \in {a.status, "flight"}
      BY <2>2
    <3>4. ASSUME NEW p \in Levels, ev.est[x][p] \in Estimates, Kept(x, p) PROVE Kept(x, p)'
      BY <3>4
    <3> HIDE DEF c, a
    <3> QED BY <3>2, <3>3, <3>4
  <2> QED BY <2>1, <2>2
<1>3. ASSUME NEW i \in DOMAIN work' PROVE Recalled(i)'
  BY DEF Recalled
<1> QED BY <1>2, <1>3

\* What the decision cache and the items hold is as good as ever while both
\* are left alone.
LEMMA RecallUntouched ==
  ASSUME EngineInv, Climbing, SoundMargins, UNCHANGED <<ev, decCache, rev, work>>,
         \A i \in DOMAIN work : cands'[i].x = cands[i].x
  PROVE  /\ \A x, p : Kept(x, p)' <=> Kept(x, p)
         /\ \A i \in DOMAIN work' : Recalled(i)'
<1>1. \A x, p : Kept(x, p)' <=> Kept(x, p)
  BY DEF Kept, DecisionKey, TagOf
<1>2. ASSUME NEW i \in DOMAIN work PROVE Recalled(i)'
  <2>p. PICK p : p = work[i].phi
    OBVIOUS
  <2>x. PICK x : x = cands[i].x
    OBVIOUS
  <2>1. Recalled(i)
    BY DEF Climbing
  <2>2. cands'[i].x = x /\ work'[i] = work[i]
    BY <2>x
  <2>3. (Feasible(x)' <=> Feasible(x)) /\ TagOf(p)' = TagOf(p)
    BY DEF Feasible, TruthOf, Violation, TagOf
  <2>4. CachedKind(i, TagOf(p))' <=> CachedKind(i, TagOf(p))
    BY DEF CachedKind, HasCached, TagOf
  <2> QED BY <1>1, <2>p, <2>x, <2>1, <2>2, <2>3, <2>4 DEF Recalled
<1> QED BY <1>1, <1>2

\* An item that has found that its point goes on.
LEMMA RecallFacts ==
  ASSUME EngineInv, NEW i \in DOMAIN work, work[i].pc = "done",
         CachedKind(i, TagOf(work[i].phi))
  PROVE  ev.est[cands[i].x][work[i].phi] \in Estimates
<1>1. ItemOK(i)
  BY DEF EngineInv, Batch
<1>2. work[i].phi = cands[i].next /\ OutcomeOK(ev, work[i].out, cands[i])
  <2>1. ~(work[i] \in [pc : {"decision", "eval", "compute"}, phi : {cands[i].next}])
    OBVIOUS
  <2> QED BY <1>1, <2>1 DEF ItemOK
<1>3. ResultOK(ev, work[i].out.cached, cands[i].x, cands[i].next)
  BY <1>2 DEF OutcomeOK, CachedKind, HasCached
<1> QED BY <1>2, <1>3 DEF ResultOK, CachedKind, TagOf

\* A step of an item: what it finds in the decision cache is there, and it
\* finds what is there.
LEMMA ItemMoves ==
  ASSUME EngineInv, NEW i \in DOMAIN work, LookupDecision(i) \/ LookupEval(i) \/ Compute(i)
  PROVE  LET Finds(w) == /\ w.pc = "done" /\ "cached" \in DOMAIN w.out
                         /\ w.out.cached.kind = TagOf(work[i].phi)
         IN  /\ UNCHANGED <<ev, cands, rev>> /\ work[i].pc # "done"
             /\ \E w : /\ work' = [work EXCEPT ![i] = w] /\ w.phi = work[i].phi
                       /\ Finds(w) => Kept(cands[i].x, work[i].phi)
                       /\ work[i].pc = "decision" /\ Kept(cands[i].x, work[i].phi) => Finds(w)
<1> DEFINE x == cands[i].x
           p == work[i].phi
           e == ev.est[x][p]
           key == DecisionKey(x, p, TagOf(p))
           Finds(w) == /\ w.pc = "done" /\ "cached" \in DOMAIN w.out
                       /\ w.out.cached.kind = TagOf(p)
           Result(w) == /\ work' = [work EXCEPT ![i] = w] /\ w.phi = p
                        /\ Finds(w) => Kept(x, p)
                        /\ work[i].pc = "decision" /\ Kept(x, p) => Finds(w)
<1>1. UNCHANGED <<ev, cands, rev>> /\ work[i].pc # "done"
  BY DEF LookupDecision, LookupEval, Compute, ItemAt, ItemUnchanged, policyVars
<1>2. /\ x \in XMesh /\ p \in Levels /\ p = cands[i].next /\ ev \in Evaluators
      /\ e \in Estimates \cup {Invalid, Panic}
  BY ItemFacts, EstType
<1>3. work[i] \in [pc : {"decision", "eval", "compute"}, phi : {p}]
  BY <1>1, <1>2 DEF EngineInv, Batch, ItemOK
<1>4. Kept(x, p) <=> key \in DOMAIN decCache /\ decCache[key].kind = TagOf(p)
  BY DEF Kept
<1>5. TagOf(p) \in {"truth", "partial"}
  BY DEF TagOf
<1>6. \E w : Result(w)
  <2>1. CASE LookupDecision(i) /\ key \in DOMAIN decCache
    <3> DEFINE d == decCache[key]
               w == [pc |-> "done", phi |-> p, out |-> [cached |-> d]]
    <3>1. work' = [work EXCEPT ![i] = w]
      BY <2>1 DEF LookupDecision, Outcome
    <3> HIDE DEF key, x, d
    <3>2. w.phi = p /\ (Finds(w) <=> d.kind = TagOf(p))
      OBVIOUS
    <3> HIDE DEF w, Finds
    <3>3. Result(w)
      BY <1>4, <2>1, <3>1, <3>2 DEF d
    <3> QED BY <3>3
  <2>2. CASE LookupDecision(i) /\ key \notin DOMAIN decCache
    <3> DEFINE w == [work[i] EXCEPT !.pc = "eval"]
    <3>1. work' = [work EXCEPT ![i] = w]
      BY <2>2 DEF LookupDecision
    <3>2. w.phi = p /\ w.pc = "eval"
      BY <1>3
    <3> HIDE DEF w
    <3>3. Result(w)
      BY <1>4, <2>2, <3>1, <3>2
    <3> QED BY <3>3
  <2>3. ASSUME NEW w, work' = [work EXCEPT ![i] = w], w.phi = p, ~Finds(w),
               work[i].pc # "decision"
        PROVE  \E u : Result(u)
    BY <2>3
  <2>4. CASE LookupEval(i)
    <3> DEFINE slot == EvalKey(x, p)
               w == [pc |-> "done", phi |-> p, out |-> [est |-> evalCache[slot]]]
               u == [work[i] EXCEPT !.pc = "compute"]
    <3>1. work' = [work EXCEPT ![i] = w] \/ work' = [work EXCEPT ![i] = u]
      BY <2>4 DEF LookupEval, Outcome
    <3>2. w.phi = p /\ ~Finds(w)
      OBVIOUS
    <3>3. u.phi = p /\ ~Finds(u)
      BY <1>3
    <3>4. work[i].pc # "decision"
      BY <2>4 DEF LookupEval, ItemAt
    <3> HIDE DEF w, u, Finds, Result
    <3> QED BY <2>3, <3>1, <3>2, <3>3, <3>4
  <2>5. CASE Compute(i)
    <3>1. work[i].pc # "decision"
      BY <2>5 DEF Compute, ItemAt
    <3>2. CASE e = Invalid
      <4> DEFINE w == [pc |-> "done", phi |-> p, out |-> [cached |-> Decided("invalid", e)]]
      <4>1. work' = [work EXCEPT ![i] = w]
        BY <2>5, <3>2, EstimatesDiffer DEF Compute, Outcome
      <4>2. w.phi = p /\ ~Finds(w)
        BY <1>5 DEF Decided
      <4> HIDE DEF w, Finds, Result
      <4> QED BY <2>3, <3>1, <4>1, <4>2
    <3>3. CASE e = Panic
      <4> DEFINE w == [pc |-> "done", phi |-> p, out |-> [none |-> TRUE]]
      <4>1. work' = [work EXCEPT ![i] = w]
        BY <2>5, <3>3, EstimatesDiffer DEF Compute, Outcome
      <4>2. w.phi = p /\ ~Finds(w)
        OBVIOUS
      <4> HIDE DEF w, Finds, Result
      <4> QED BY <2>3, <3>1, <4>1, <4>2
    <3>4. CASE e \in Estimates
      <4> DEFINE w == [pc |-> "done", phi |-> p, out |-> [est |-> e]]
      <4>1. work' = [work EXCEPT ![i] = w]
        BY <2>5, <3>4, EstimatesDiffer DEF Compute, Outcome
      <4>2. w.phi = p /\ ~Finds(w)
        OBVIOUS
      <4> HIDE DEF w, Finds, Result
      <4> QED BY <2>3, <3>1, <4>1, <4>2
    <3> QED BY <1>2, <3>2, <3>3, <3>4
  <2> QED BY <2>1, <2>2, <2>4, <2>5
<1> QED BY <1>1, <1>6

\* The workers.
LEMMA ClimbItem ==
  ASSUME EngineInv, Climbing, NEW i \in DOMAIN work,
         LookupDecision(i) \/ LookupEval(i) \/ Compute(i)
  PROVE  Climbing'
<1>p. PICK p : p = work[i].phi
  OBVIOUS
<1>x. PICK x : x = cands[i].x
  OBVIOUS
<1>1. UNCHANGED <<ev, cands, rev>>
  BY ItemMoves
<1>w. PICK w : /\ work' = [work EXCEPT ![i] = w] /\ w.phi = p
               /\ w.pc = "done" /\ "cached" \in DOMAIN w.out
                  /\ w.out.cached.kind = TagOf(p) => Kept(x, p)
  BY <1>p, <1>x, ItemMoves
<1>2. x \in XMesh /\ p \in Levels /\ ev \in Evaluators
  BY <1>p, <1>x, ItemFacts
<1>3. ASSUME NEW y, NEW q \in Levels, ev.est[y][q] \in Estimates, Kept(y, q)
      PROVE  Kept(y, q)'
  BY <1>3, KeptItem
<1>4. \A y : Feasible(y)' <=> Feasible(y)
  BY <1>1 DEF Feasible, TruthOf, Violation
<1>5. ASSUME SoundMargins, NEW j \in DOMAIN work', j # i, work'[j].pc = "done"
      PROVE  Recalled(j)'
  <2>q. PICK q : q = work[j].phi
    OBVIOUS
  <2>y. PICK y : y = cands[j].x
    OBVIOUS
  <2>1. j \in DOMAIN work /\ work'[j] = work[j] /\ cands'[j].x = y /\ Recalled(j)
    BY <1>1, <1>5, <1>w, <2>y DEF Climbing
  <2>2. TagOf(q)' = TagOf(q) /\ (CachedKind(j, TagOf(q))' <=> CachedKind(j, TagOf(q)))
    BY <2>1 DEF CachedKind, HasCached, TagOf
  <2>3. CASE Feasible(y) /\ CachedKind(j, TagOf(q))
    <3>1. Kept(y, q)
      BY <1>5, <2>1, <2>3, <2>q, <2>y DEF Recalled
    <3>2. ev.est[y][q] \in Estimates /\ q \in Levels
      BY <1>5, <2>1, <2>3, <2>q, <2>y, RecallFacts, ItemFacts
    <3> QED BY <1>3, <2>1, <2>q, <3>1, <3>2 DEF Recalled
  <2>4. CASE ~(Feasible(y) /\ CachedKind(j, TagOf(q)))
    BY <1>4, <2>1, <2>2, <2>4, <2>q DEF Recalled
  <2> QED BY <2>3, <2>4
<1>6. ASSUME work'[i].pc = "done" PROVE Recalled(i)'
  <2>1. cands'[i].x = x /\ work'[i] = w
    BY <1>1, <1>w, <1>x
  <2>2. TagOf(p)' = TagOf(p) /\ TagOf(p) \in {"truth", "partial"}
    BY DEF TagOf
  <2>3. CASE CachedKind(i, TagOf(p))'
    <3>1. Kept(x, p)
      BY <1>6, <1>w, <2>1, <2>2, <2>3 DEF CachedKind, HasCached
    <3>2. work[i].pc # "done"
      BY ItemMoves
    <3>3. ev.est[x][p] \in Estimates
      <4> DEFINE key == DecisionKey(x, p, TagOf(p))
      <4>1. key \in DOMAIN decCache /\ decCache[key].kind = TagOf(p)
        BY <3>1 DEF Kept
      <4>2. key[1] = x /\ key[2] = Ladder[p] /\ key[4] = TagOf(p)
        BY DEF DecisionKey
      <4> HIDE DEF key
      <4>3. ResultOK(ev, decCache[key], x, p)
        BY <1>2, <4>1, <4>2 DEF EngineInv, DecTrue
      <4> QED BY <2>2, <4>1, <4>3 DEF ResultOK
    <3>4. Kept(x, p)'
      BY <1>2, <1>3, <3>1, <3>3
    <3> QED BY <1>w, <2>1, <3>4 DEF Recalled
  <2>4. CASE ~CachedKind(i, TagOf(p))'
    BY <1>w, <2>1, <2>4 DEF Recalled
  <2> QED BY <2>3, <2>4
<1>7. \A j \in DOMAIN cands' : j \in DOMAIN cands /\ cands'[j] = cands[j]
  BY <1>1
<1> QED BY <1>1, <1>3, <1>5, <1>6, <1>7, ClimbKept

\* A step that only adds to the store, or only takes candidates in flight.
LEMMA ClimbUntouched ==
  ASSUME EngineInv, Climbing, UNCHANGED <<ev, rev, decCache>>,
         \A i \in DOMAIN cands' :
           \/ cands'[i].next = 1 /\ cands'[i].status = "ready" /\ ~cands'[i].audit
           \/ /\ i \in DOMAIN cands /\ cands'[i].x = cands[i].x
              /\ cands'[i].next = cands[i].next /\ cands'[i].audit = cands[i].audit
              /\ cands'[i].status \in {cands[i].status, "flight"},
         \/ UNCHANGED work /\ \A i \in DOMAIN work : cands'[i].x = cands[i].x
         \/ \A i \in DOMAIN work' : work'[i].pc # "done"
  PROVE  Climbing'
<1>1. \A x, p : Kept(x, p)' <=> Kept(x, p)
  BY DEF Kept, DecisionKey, TagOf
<1>2. SoundMargins => \A i \in DOMAIN work' : work'[i].pc # "done" \/ Recalled(i)'
  BY RecallUntouched
<1> QED BY <1>1, <1>2, ClimbKept

\* The engine thread at an outcome.
LEMMA ClimbProcessed ==
  ASSUME EngineInv, Climbing, NEW i, Materialize(i)
  PROVE  Climbing'
<1>1. CASE ExpectFails(i)
  <2>1. UNCHANGED <<ev, rev, decCache, cands, work>>
    BY <1>1 DEF ExpectFails, policyVars, cacheVars
  <2> QED BY <2>1, ClimbUntouched
<1>2. CASE ~ExpectFails(i)
  <2>1. PICK c : Effect(i, c)
    BY <1>2, Effects
  <2>2. /\ UNCHANGED <<ev, rev>> /\ cands' = [cands EXCEPT ![i] = c]
        /\ work' = [j \in DOMAIN work \ {i} |-> work[j]] /\ Turn(i)
    BY <2>1 DEF Effect, Settle, Without, MatUnchanged, policyVars
  <2>3. i \in DOMAIN work /\ i \in DOMAIN cands
    BY <2>2, AtTurn
  <2>4. \A y : Feasible(y)' <=> Feasible(y)
    BY <2>2 DEF Feasible, TruthOf, Violation
  <2>5. ASSUME SoundMargins, NEW y, NEW q \in Levels, Feasible(y),
               ev.est[y][q] \in Estimates, Kept(y, q)
        PROVE  Kept(y, q)'
    BY <2>5, KeptMaterialize
  <2>6. SoundMargins => ClimbOK(cands[i])'
    BY <1>2, <2>3, ClimbMaterialize DEF Climbing
  <2>7. ASSUME SoundMargins, NEW j \in DOMAIN work' PROVE Recalled(j)'
    <3>q. PICK q : q = work[j].phi
      OBVIOUS
    <3>y. PICK y : y = cands[j].x
      OBVIOUS
    <3>1. j \in DOMAIN work /\ work'[j] = work[j] /\ cands'[j].x = y /\ Recalled(j)
      BY <2>2, <2>7, <3>y DEF Climbing
    <3>2. TagOf(q)' = TagOf(q) /\ (CachedKind(j, TagOf(q))' <=> CachedKind(j, TagOf(q)))
      BY <3>1 DEF CachedKind, HasCached, TagOf
    <3>3. CASE Feasible(y) /\ work[j].pc = "done" /\ CachedKind(j, TagOf(q))
      <4>1. Kept(y, q)
        BY <3>1, <3>3, <3>q, <3>y DEF Recalled
      <4>2. ev.est[y][q] \in Estimates /\ q \in Levels
        BY <3>1, <3>3, <3>q, <3>y, RecallFacts, ItemFacts
      <4>3. Kept(y, q)'
        BY <2>5, <2>7, <3>3, <4>1, <4>2
      <4> QED BY <3>1, <3>q, <4>3 DEF Recalled
    <3>4. CASE ~(Feasible(y) /\ work[j].pc = "done" /\ CachedKind(j, TagOf(q)))
      BY <2>4, <3>1, <3>2, <3>4, <3>q DEF Recalled
    <3> QED BY <3>3, <3>4
  <2>8. \A j \in DOMAIN cands' : j # i => j \in DOMAIN cands /\ cands'[j] = cands[j]
    BY <2>2
  <2> QED BY <2>2, <2>5, <2>6, <2>7, <2>8, ClimbKept
<1> QED BY <1>1, <1>2

\* Without a revision the margins and the assignment stay what they are.
LEMMA PoliciesStay ==
  ASSUME ScheduledInv, PolicyUpdate, rev' = rev
  PROVE  UNCHANGED policyVars
<1>1. rev \in Nat
  BY DEF ScheduledInv, EngineInv, EngineTypes
<1>2. PICK t \in Thresholds, a \in Levels, learned \in BOOLEAN :
        /\ t # th => learned
        /\ th' = t /\ asg' = a /\ rev' = rev + Bump(learned) + Bump(a # asg)
  BY DEF PolicyUpdate
<1>3. ~learned /\ a = asg
  BY <1>1, <1>2 DEF Bump
<1> QED BY <1>2, <1>3 DEF policyVars

\* A run without a revision had none before.
LEMMA NoneBefore ==
  ASSUME ScheduledInv, [ScheduledNext]_allVars, ~RunAnotherEngine, rev' = 0
  PROVE  rev' = rev
<1>1. CASE ScheduledPropose \/ ScheduledPoll \/ ScheduledDispatch \/ Elsewhere \/ Finished
           \/ UNCHANGED allVars
  BY <1>1
  DEF ScheduledPropose, Ingest, ScheduledPoll, InjectPoll, ScheduledDispatch, Submit, Elsewhere,
      EndSteps, Join, EndIteration, LookupDecision, LookupEval, Compute, ItemUnchanged, Finished,
      allVars, vars, policyVars
<1>2. ASSUME NEW i \in DOMAIN work, ScheduledMaterialize(i)
      PROVE  rev' = rev
  BY <1>2
  DEF ScheduledMaterialize, Materialize, CachedPartial, CachedEarly, CachedTruth, RejectInvalid,
      RejectCheap, ExpectFails, CutEarly, StopPartial, Continue, Truth, MatUnchanged, policyVars
<1>3. CASE ScheduledUpdate
  <2>1. rev \in Nat
    BY DEF ScheduledInv, EngineInv, EngineTypes
  <2>2. PICK a \in {0, 1}, b \in {0, 1} : rev' = rev + a + b
    BY <1>3 DEF ScheduledUpdate, Bump
  <2> QED BY <2>1, <2>2
<1> QED BY <1>1, <1>2, <1>3 DEF ScheduledNext

\* A new engine.
LEMMA ClimbAfresh ==
  ASSUME ScheduledInv, RunAnotherEngine
  PROVE  Climbing'
<1>1. cands' = << >> /\ work' = work /\ phase = "done"
  BY DEF RunAnotherEngine
<1>2. DOMAIN cands' = {}
  BY <1>1
<1>3. DOMAIN work' = {}
  BY <1>1 DEF ScheduledInv, EngineInv, Batch
<1> QED BY <1>2, <1>3 DEF Climbing

\* Every step that revises nothing.
LEMMA ClimbStep ==
  ASSUME ScheduledInv, Climbing, [ScheduledNext]_allVars, ~RunAnotherEngine, rev' = rev
  PROVE  Climbing'
<1>0. EngineInv
  BY DEF ScheduledInv
<1>1. CASE ScheduledPropose \/ ScheduledPoll
  <2>1. PICK A : Joined(A)
    BY <1>1, StoreProposed, StorePolled
  <2>2. UNCHANGED <<ev, rev, decCache, work>> /\ phase \in {"propose", "select"}
    BY <1>1 DEF ScheduledPropose, ScheduledPoll, Ingest, InjectPoll, policyVars, cacheVars
  <2>3. DOMAIN work = {}
    BY <1>0, <2>2 DEF EngineInv, Batch
  <2>4. \A i \in DOMAIN cands' :
          \/ cands'[i].next = 1 /\ cands'[i].status = "ready" /\ ~cands'[i].audit
          \/ i \in DOMAIN cands /\ cands'[i] = cands[i]
    BY <2>1 DEF Joined
  <2> QED BY <1>0, <2>2, <2>3, <2>4, ClimbUntouched
<1>2. CASE ScheduledDispatch
  <2>1. UNCHANGED <<ev, rev, decCache>>
    BY <1>2 DEF ScheduledDispatch, Submit, policyVars, cacheVars
  <2> QED BY <1>0, <1>2, <2>1, StoreDispatched, ClimbUntouched
<1>3. CASE Elsewhere
  <2>1. CASE EndSteps \/ Join \/ EndIteration
    <3>1. UNCHANGED <<ev, rev, decCache, cands, work>>
      BY <2>1 DEF EndSteps, Join, EndIteration, policyVars, cacheVars
    <3> QED BY <1>0, <3>1, ClimbUntouched
  <2>2. ASSUME NEW i \in DOMAIN work, LookupDecision(i) \/ LookupEval(i) \/ Compute(i)
        PROVE  Climbing'
    BY <1>0, <2>2, ClimbItem
  <2> QED BY <1>3, <2>1, <2>2 DEF Elsewhere
<1>4. ASSUME NEW i \in DOMAIN work, ScheduledMaterialize(i)
      PROVE  Climbing'
  BY <1>0, <1>4, ClimbProcessed DEF ScheduledMaterialize
<1>5. CASE ScheduledUpdate
  <2>1. UNCHANGED <<ev, rev, decCache, cands, work>>
    BY <1>5 DEF ScheduledUpdate, PolicyUpdate, cacheVars
  <2> QED BY <1>0, <2>1, ClimbUntouched
<1>6. CASE Finished \/ UNCHANGED allVars
  <2>1. UNCHANGED <<ev, rev, decCache, cands, work>>
    BY <1>6 DEF Finished, allVars, vars, policyVars, cacheVars
  <2> QED BY <1>0, <2>1, ClimbUntouched
<1> QED BY <1>1, <1>2, <1>3, <1>4, <1>5, <1>6 DEF ScheduledNext

-----------------------------------------------------------------------------
(* The incumbent, when nothing is under way.                               *)

\* What the premises say of acceptance.
LEMMA OrderFacts ==
  ASSUME OrderIrrelevant
  PROVE  ExactBarrier /\ FeasibleOnly /\ SoundMargins /\ NoTies /\ PruneEps = 0
         /\ budget = NoBudget
BY DEF OrderIrrelevant, ExactBarrier, FeasibleOnly

\* An incumbent is viable, and every level of it is remembered.
LEMMA IncumbentViable ==
  ASSUME ScheduledInv, Climbing, OrderIrrelevant
  PROVE  /\ xBest # NoX => /\ Viable(xBest) /\ fBest = TruthOf(xBest).f /\ fBest \in Int
                           /\ \A p \in Levels : Kept(xBest, p)
         /\ xBest = NoX <=> fBest = NoF
<1>1. EngineInv /\ (xBest = NoX <=> fBest = NoF) /\ fBest \in Int \cup {NoF}
  BY DEF ScheduledInv, EngineInv, EngineTypes
<1>2. ASSUME xBest # NoX
      PROVE  /\ Viable(xBest) /\ fBest = TruthOf(xBest).f /\ fBest \in Int
             /\ \A p \in Levels : Kept(xBest, p)
  <2>1. PICK j \in DOMAIN cands :
          /\ cands[j].status = "truth" /\ cands[j].x = xBest
          /\ fBest = TruthOf(xBest).f /\ Violation(xBest) = 0
    BY <1>1, <1>2, OrderFacts DEF EngineInv, Best
  <2>2. ev.cheap[xBest] /\ TruthOf(xBest) \in Estimates
    BY <1>1, <2>1 DEF EngineInv, Candidates, CandidateOK, TruthOf
  <2>3. Feasible(xBest)
    BY <1>2, <2>1, <2>2, Facts DEF Feasible
  <2>4. ClimbOK(cands[j])
    BY OrderFacts DEF Climbing
  <2>5. \A p \in Levels : ev.est[xBest][p] \in Estimates /\ Kept(xBest, p)
    BY <2>1, <2>3, <2>4 DEF ClimbOK
  <2> QED BY <1>1, <1>2, <2>1, <2>2, <2>3, <2>5 DEF Viable
<1> QED BY <1>1, <1>2

\* With nothing ready and nothing in flight, nothing viable in the store is
\* below the incumbent.
LEMMA SettledBest ==
  ASSUME ScheduledInv, Climbing, OrderIrrelevant, Ready = {}, DOMAIN work = {}
  PROVE  StoreBest
<1>0. EngineInv /\ Lowest /\ cands \in Seq(Candidate)
  BY DEF ScheduledInv, SearchInv, EngineInv, EngineTypes
<1>1. ASSUME NEW j \in DOMAIN cands, cands[j].status = "truth", Violation(cands[j].x) = 0
      PROVE  fBest # NoF /\ fBest <= TruthOf(cands[j].x).f /\ TruthOf(cands[j].x).f \in Int
             /\ fBest \in Int
  <2>1. fBest # NoF /\ fBest <= TruthOf(cands[j].x).f
    BY <1>0, <1>1, OrderFacts DEF Lowest
  <2>2. TruthOf(cands[j].x) \in Estimates
    BY <1>0, <1>1 DEF EngineInv, Candidates, CandidateOK, TruthOf
  <2>3. fBest \in Int \cup {NoF}
    BY <1>0 DEF EngineInv, EngineTypes
  <2> QED BY <2>1, <2>2, <2>3 DEF Estimates
<1>2. ASSUME NEW i \in DOMAIN cands, Viable(cands[i].x)
      PROVE  fBest # NoF /\ fBest <= TruthOf(cands[i].x).f
  <2>1. cands[i] \in Candidate /\ ClimbOK(cands[i])
    BY <1>0, OrderFacts DEF Climbing
  <2>2. cands[i].status \in DoneStatus
    <3>1. cands[i].status # "ready"
      BY DEF Ready
    <3>2. cands[i].status # "flight"
      BY <1>0 DEF EngineInv, Batch
    <3>3. cands[i].status \in DoneStatus \cup {"ready", "flight"}
      BY <2>1 DEF Candidate
    <3> QED BY <3>1, <3>2, <3>3
  <2>3. cands[i].status \in {"truth", "stopped"}
    BY <1>2, <2>1, <2>2 DEF ClimbOK, Viable, DoneStatus
  <2>4. TruthOf(cands[i].x) \in Estimates /\ Violation(cands[i].x) = 0
    BY <1>2 DEF Viable, Feasible
  <2>5. CASE cands[i].status = "truth"
    BY <1>1, <2>4, <2>5
  <2>6. CASE cands[i].status = "stopped"
    <3>1. PICK j \in DOMAIN cands :
            /\ cands[j].status = "truth"
            /\ TruthOf(cands[j].x).f - PruneEps <= TruthOf(cands[i].x).f
            /\ Violation(cands[j].x) = 0
      BY <1>0, <2>4, <2>6, OrderFacts DEF EngineInv, StoppedIsBeaten, FeasibleOnly
    <3>2. /\ fBest # NoF /\ fBest <= TruthOf(cands[j].x).f
          /\ TruthOf(cands[j].x).f \in Int /\ fBest \in Int
      BY <1>1, <3>1
    <3>3. TruthOf(cands[i].x).f \in Int
      BY <2>4 DEF Estimates
    <3>4. PruneEps = 0
      BY OrderFacts
    <3> QED BY <3>1, <3>2, <3>3, <3>4
  <2> QED BY <2>3, <2>5, <2>6
<1> QED BY <1>2, IncumbentViable DEF StoreBest

-----------------------------------------------------------------------------
(* Iterations.                                                             *)

\* No two points are best.
LEMMA OneBest ==
  ASSUME NoTies, NEW A, NEW x, NEW y, IsBest(A, x), IsBest(A, y)
  PROVE  x = y
<1>1. CASE x = NoX \/ y = NoX
  BY <1>1 DEF IsBest
<1>2. CASE x # NoX /\ y # NoX
  <2>1. /\ Viable(x) /\ Viable(y)
        /\ TruthOf(x).f <= TruthOf(y).f /\ TruthOf(y).f <= TruthOf(x).f
    BY <1>2 DEF IsBest
  <2>2. /\ x \in XMesh /\ y \in XMesh /\ TruthOf(x) \in Estimates /\ TruthOf(y) \in Estimates
        /\ Violation(x) = 0 /\ Violation(y) = 0
    BY <2>1 DEF Viable, Feasible
  <2>3. TruthOf(x).f \in Int /\ TruthOf(y).f \in Int
    BY <2>2 DEF Estimates
  <2>4. TruthOf(x).f = TruthOf(y).f
    BY <2>1, <2>3
  <2> QED BY <2>2, <2>4 DEF NoTies
<1> QED BY <1>1, <1>2

\* An iteration comes to one end.
LEMMA OneIteration ==
  ASSUME NoTies, NEW k, NEW t, NEW u, NEW v, Iterated(k, t, u), Iterated(k, t, v)
  PROVE  u = v
<1>1. CASE Polls(k, t)
  <2> DEFINE A == {t.x} \cup Proposals(k, t) \cup Neighbours(t)
             End(x) == [x |-> x, m |-> IF x = t.x THEN Finer(t.m) ELSE t.m,
                        s |-> Proposed(k, t)]
  <2>1. PICK x : IsBest(A, x) /\ u = End(x)
    BY <1>1 DEF Iterated
  <2>2. PICK y : IsBest(A, y) /\ v = End(y)
    BY <1>1 DEF Iterated
  <2> HIDE DEF A
  <2>3. x = y
    BY <2>1, <2>2, OneBest
  <2> QED BY <2>1, <2>2, <2>3
<1>2. CASE ~Polls(k, t)
  <2> DEFINE A == {t.x} \cup Proposals(k, t)
             End(x) == [x |-> x, m |-> t.m, s |-> Proposed(k, t)]
  <2>1. PICK x : IsBest(A, x) /\ u = End(x)
    BY <1>2 DEF Iterated
  <2>2. PICK y : IsBest(A, y) /\ v = End(y)
    BY <1>2 DEF Iterated
  <2> HIDE DEF A
  <2>3. x = y
    BY <2>1, <2>2, OneBest
  <2> QED BY <2>1, <2>2, <2>3
<1> QED BY <1>1, <1>2

\* The way of n iterations, and where it leads.
Journey(w, n, t) ==
  /\ w[0] = [x |-> NoX, m |-> Larger(MulInit, 1), s |-> Reset(seed.halton)]
  /\ w[n] = t
  /\ \A k \in 0 .. n - 1 : Iterated(k, w[k], w[k + 1])

Arrives(n, t) == \E w : Journey(w, n, t)

\* A run sets out, and goes one iteration further.
LEMMA ArrivesOn ==
  /\ Arrives(0, [x |-> NoX, m |-> Larger(MulInit, 1), s |-> Reset(seed.halton)])
  /\ \A n \in Nat : \A t, u : Arrives(n, t) /\ Iterated(n, t, u) => Arrives(n + 1, u)
<1>1. Arrives(0, [x |-> NoX, m |-> Larger(MulInit, 1), s |-> Reset(seed.halton)])
  <2> DEFINE a == [x |-> NoX, m |-> Larger(MulInit, 1), s |-> Reset(seed.halton)]
             w == [k \in {0} |-> a]
  <2>1. w[0] = a
    OBVIOUS
  <2>2. \A k \in 0 .. 0 - 1 : FALSE
    OBVIOUS
  <2>3. Journey(w, 0, a)
    BY <2>1, <2>2 DEF Journey
  <2> QED BY <2>3 DEF Arrives
<1>2. ASSUME NEW n \in Nat, NEW t, NEW u, Arrives(n, t), Iterated(n, t, u)
      PROVE  Arrives(n + 1, u)
  <2> DEFINE a == [x |-> NoX, m |-> Larger(MulInit, 1), s |-> Reset(seed.halton)]
  <2>1. PICK w : Journey(w, n, t)
    BY <1>2 DEF Arrives
  <2> DEFINE v == [k \in 0 .. n + 1 |-> IF k = n + 1 THEN u ELSE w[k]]
  <2>2. w[0] = a /\ w[n] = t /\ \A k \in 0 .. n - 1 : Iterated(k, w[k], w[k + 1])
    BY <2>1 DEF Journey
  <2> HIDE DEF a
  <2>3. v[0] = a /\ v[n] = t /\ v[n + 1] = u
    BY <2>2
  <2>4. ASSUME NEW k \in 0 .. (n + 1) - 1 PROVE Iterated(k, v[k], v[k + 1])
    <3>1. CASE k = n
      <4> HIDE DEF v
      <4> QED BY <1>2, <2>3, <3>1
    <3>2. CASE k # n
      <4>1. k \in 0 .. n - 1 /\ v[k] = w[k] /\ v[k + 1] = w[k + 1]
        BY <3>2
      <4> HIDE DEF v
      <4> QED BY <2>2, <4>1
    <3> QED BY <3>1, <3>2
  <2> HIDE DEF v
  <2>5. Journey(v, n + 1, u)
    BY <2>3, <2>4 DEF Journey, a
  <2> QED BY <2>5 DEF Arrives
<1> QED BY <1>1, <1>2

\* There is one place to be after n iterations.
LEMMA OneArrival ==
  ASSUME NoTies, NEW n \in Nat, NEW t, NEW u, Arrives(n, t), Arrives(n, u)
  PROVE  t = u
<1>1. PICK w : Journey(w, n, t)
  BY DEF Arrives
<1>2. PICK v : Journey(v, n, u)
  BY DEF Arrives
<1>3. \A k \in 0 .. n : w[k] = v[k]
  <2> SUFFICES ASSUME ~\A k \in 0 .. n : w[k] = v[k] PROVE FALSE
    OBVIOUS
  <2> DEFINE S == {k \in Nat : k <= n /\ w[k] # v[k]}
  <2>1. S \subseteq Nat /\ S # {}
    OBVIOUS
  <2>2. PICK k \in S : \A l \in S : k <= l
    BY <2>1, LeastExists
  <2>3. k \in Nat /\ k <= n /\ w[k] # v[k]
    BY <2>2
  <2>4. k # 0
    BY <1>1, <1>2, <2>3 DEF Journey
  <2>5. k - 1 \in Nat /\ k - 1 \in 0 .. n - 1 /\ (k - 1) + 1 = k
    BY <2>3, <2>4
  <2>6. k - 1 \notin S
    BY <2>2, <2>3
  <2>7. w[k - 1] = v[k - 1]
    BY <2>3, <2>5, <2>6
  <2>8. Iterated(k - 1, w[k - 1], w[k]) /\ Iterated(k - 1, v[k - 1], v[k])
    BY <1>1, <1>2, <2>5 DEF Journey
  <2> QED BY <2>3, <2>7, <2>8, OneIteration
<1>4. n \in 0 .. n
  OBVIOUS
<1> QED BY <1>1, <1>2, <1>3, <1>4 DEF Journey

\* Iterations depend on the problem and the generator alone.
LEMMA SameIterations ==
  ASSUME UNCHANGED <<ev, bundle, seed>>
  PROVE  /\ \A x : Viable(x)' <=> Viable(x)
         /\ \A k, t : /\ Proposals(k, t)' = Proposals(k, t)
                      /\ Neighbours(t)' = Neighbours(t)
                      /\ Proposed(k, t)' = Proposed(k, t)
                      /\ Polls(k, t)' <=> Polls(k, t)
         /\ \A n, t : Arrives(n, t)' <=> Arrives(n, t)
<1>1. \A x : Viable(x)' <=> Viable(x)
  BY DEF Viable, Feasible, TruthOf, Violation
<1>2. \A A, x : IsBest(A, x)' <=> IsBest(A, x)
  BY <1>1 DEF IsBest, TruthOf
<1>3. ASSUME NEW k, NEW t
      PROVE  /\ Proposals(k, t)' = Proposals(k, t) /\ Neighbours(t)' = Neighbours(t)
             /\ Proposed(k, t)' = Proposed(k, t)
  BY DEF Proposals, Neighbours, Proposed
<1>4. ASSUME NEW k, NEW t PROVE Polls(k, t)' <=> Polls(k, t)
  BY <1>2, <1>3 DEF Polls
<1>5. ASSUME NEW k, NEW t, NEW u PROVE Iterated(k, t, u)' <=> Iterated(k, t, u)
  BY <1>2, <1>3, <1>4 DEF Iterated
<1>6. ASSUME NEW w, NEW n, NEW t PROVE Journey(w, n, t)' <=> Journey(w, n, t)
  BY <1>5 DEF Journey
<1>7. ASSUME NEW n, NEW t PROVE Arrives(n, t)' <=> Arrives(n, t)
  BY <1>6 DEF Arrives
<1> QED BY <1>1, <1>3, <1>4, <1>7

-----------------------------------------------------------------------------
(* From the top of an iteration to its end.                                *)

\* The premises do not change.
LEMMA SamePremises ==
  UNCHANGED <<ev, budget>> => (OrderIrrelevant' <=> OrderIrrelevant)
BY DEF OrderIrrelevant, SoundMargins, NoTies, TruthOf, Violation

\* A step within the steps of an iteration, after which t is still remembered.
LEMMA MidwayKept ==
  ASSUME NEW t, Midway(t), UNCHANGED <<ev, bundle, seed, search, iter, mul, polled>>,
         t.x # NoX => \A p \in Levels : Kept(t.x, p)',
         DOMAIN cands' = DOMAIN cands,
         \A i \in DOMAIN cands :
           /\ cands'[i].x = cands[i].x /\ cands'[i].epoch = cands[i].epoch
           /\ cands'[i].status \in {"ready", "flight"} => cands[i].status \in {"ready", "flight"}
           /\ cands[i].x = t.x /\ cands[i].epoch = iter
              /\ cands[i].status \in {"ready", "flight"} =>
                improved' \/ cands'[i].status \in {"ready", "flight"},
         \/ UNCHANGED <<improved, xBest, fBest>>
         \/ /\ improved' /\ xBest' # NoX /\ xBest' \in Reached(t)
            /\ t.x = NoX \/ fBest' <= TruthOf(t.x).f,
         Recalling(t)', phase' = "iterend" => ~CanPoll'
  PROVE  Midway(t)'
<1>k. PICK k : k = iter
  OBVIOUS
<1>1. iter' = k /\ Bearing(t) /\ Covering(t) /\ Improving(t)
  BY <1>k DEF Midway
<1>2. /\ Viable(t.x)' <=> Viable(t.x)
      /\ Proposals(k, t)' = Proposals(k, t) /\ Neighbours(t)' = Neighbours(t)
      /\ Proposed(k, t)' = Proposed(k, t) /\ (Polls(k, t)' <=> Polls(k, t))
  BY SameIterations
<1>3. Reached(t)' = Reached(t)
  BY <1>1, <1>2, <1>k DEF Reached
<1>4. Bearing(t)'
  BY <1>1, <1>2, <1>k DEF Bearing
<1>5. Covering(t)'
  BY <1>1, <1>3 DEF Covering
<1>6. Improving(t)'
  <2>1. TruthOf(t.x)' = TruthOf(t.x)
    BY DEF TruthOf
  <2>2. ~improved' => xBest' = t.x
    BY <1>1 DEF Improving
  <2>3. improved' => /\ xBest' # NoX /\ xBest' \in Reached(t)
                     /\ t.x = NoX \/ fBest' <= TruthOf(t.x).f
    BY <1>1 DEF Improving
  <2>4. \A i \in DOMAIN cands' : cands'[i].x = t.x /\ cands'[i].epoch = iter =>
          improved' \/ cands'[i].status \in {"ready", "flight"}
    BY <1>1 DEF Improving
  <2> QED BY <1>1, <1>3, <1>k, <2>1, <2>2, <2>3, <2>4 DEF Improving
<1> QED BY <1>4, <1>5, <1>6 DEF Midway

\* The engine sets out.
LEMMA MidwayPropose ==
  ASSUME ScheduledInv, Climbing, OrderIrrelevant, ScheduledPropose, Ready = {},
         \A i \in DOMAIN cands : cands[i].epoch < iter, NEW t, t = Here
  PROVE  Midway(t)'
<1>k. PICK k : k = iter
  OBVIOUS
<1>1. /\ phase = "propose" /\ phase' = "select" /\ polled' = FALSE /\ improved' = FALSE
      /\ UNCHANGED <<ev, bundle, seed, iter, mul, xBest, fBest, rev, decCache, work>>
  BY DEF ScheduledPropose, Ingest, bestVars, policyVars, cacheVars
<1>2. EngineInv /\ DOMAIN work = {} /\ iter \in Int
  BY <1>1, Facts DEF ScheduledInv, EngineInv, Batch
<1>3. Joined(Proposals(k, t)) /\ search' = Proposed(k, t)
  BY <1>k, StoreProposed
<1>4. t.x = xBest /\ t.m = mul
  BY DEF Here
<1>5. /\ \A x : Viable(x)' <=> Viable(x)
      /\ Proposals(k, t)' = Proposals(k, t) /\ Proposed(k, t)' = Proposed(k, t)
  BY <1>1, SameIterations
<1>6. Reached(t)' = Proposals(k, t)
  BY <1>1, <1>5, <1>k DEF Reached
<1>7. Bearing(t)'
  <2>1. t.x # NoX => Viable(t.x) /\ \A p \in Levels : Kept(t.x, p)
    BY <1>4, IncumbentViable
  <2>2. \A x, p : Kept(x, p)' <=> Kept(x, p)
    BY <1>1 DEF Kept, DecisionKey, TagOf
  <2> QED BY <1>1, <1>3, <1>4, <1>5, <1>k, <2>1, <2>2 DEF Bearing
<1>8. Covering(t)'
  <2>1. \A i \in DOMAIN cands : cands[i].status \notin {"ready", "flight"}
    BY <1>2 DEF Ready, EngineInv, Batch
  <2>2. \A y \in Proposals(k, t) : \E i \in DOMAIN cands' :
          cands'[i].x = y /\ cands'[i].epoch = iter
    BY <1>3 DEF Joined
  <2>3. \A i \in DOMAIN cands' :
          cands'[i].status \in {"ready", "flight"} => cands'[i].x \in Proposals(k, t)
    BY <1>3, <2>1 DEF Joined
  <2> QED BY <1>1, <1>6, <2>2, <2>3 DEF Covering
<1>9. Improving(t)'
  <2>1. \A i \in DOMAIN cands' : cands'[i].epoch = iter => cands'[i].status = "ready"
    BY <1>2, <1>3 DEF Joined
  <2> QED BY <1>1, <1>4, <2>1 DEF Improving
<1>10. Recalling(t)'
  BY <1>1, <1>2 DEF Recalling
<1> QED BY <1>1, <1>7, <1>8, <1>9, <1>10 DEF Midway

\* The search is exhausted: the points of the poll, of t, join.
LEMMA MidwayPoll ==
  ASSUME ScheduledInv, Climbing, OrderIrrelevant, ScheduledPoll, NEW t, Midway(t)
  PROVE  Midway(t)'
<1>k. PICK k : k = iter
  OBVIOUS
<1>1. /\ phase = "select" /\ phase' = "select" /\ Ready = {} /\ CanPoll /\ polled' = TRUE
      /\ UNCHANGED <<ev, bundle, seed, search, iter, mul, improved, xBest, fBest, rev,
                     decCache, work>>
  BY DEF ScheduledPoll, InjectPoll, bestVars, policyVars, cacheVars
<1>2. EngineInv /\ DOMAIN work = {} /\ polled = FALSE /\ improved = FALSE /\ xBest # NoX
  BY <1>1 DEF ScheduledInv, EngineInv, EngineTypes, Batch, CanPoll
<1>3. Bearing(t) /\ Covering(t) /\ Improving(t)
  BY DEF Midway
<1>4. t.x = xBest /\ t.m = mul /\ Reached(t) = Proposals(k, t)
  BY <1>2, <1>3, <1>k DEF Improving, Bearing, Reached
<1>5. Polls(k, t)
  <2>1. StoreBest
    BY <1>1, <1>2, SettledBest
  <2>2. Viable(t.x) /\ fBest = TruthOf(t.x).f /\ fBest \in Int
    BY <1>2, <1>4, IncumbentViable
  <2>3. t.x \notin Proposals(k, t)
    <3> SUFFICES ASSUME t.x \in Proposals(k, t) PROVE FALSE
      OBVIOUS
    <3>1. PICK i \in DOMAIN cands : cands[i].x = t.x /\ cands[i].epoch = iter
      BY <1>3, <1>4 DEF Covering
    <3>2. cands[i].status \in {"ready", "flight"}
      BY <1>2, <1>3, <3>1 DEF Improving
    <3> QED BY <1>1, <1>2, <3>2 DEF Ready, EngineInv, Batch
  <2>4. ASSUME NEW y \in Proposals(k, t), Viable(y)
        PROVE  TruthOf(t.x).f <= TruthOf(y).f
    <3>1. PICK i \in DOMAIN cands : cands[i].x = y
      BY <1>3, <1>4, <2>4 DEF Covering
    <3> QED BY <2>1, <2>2, <2>4, <3>1 DEF StoreBest
  <2>5. IsBest({t.x} \cup Proposals(k, t), t.x)
    BY <1>2, <1>4, <2>2, <2>4 DEF IsBest
  <2> QED BY <1>2, <1>4, <2>3, <2>5 DEF Polls
<1>6. Joined(Neighbours(t))
  <2>1. Neighbours(Here) = Neighbours(t)
    BY <1>4 DEF Neighbours, Here
  <2> QED BY <2>1, StorePolled
<1>7. /\ \A x : Viable(x)' <=> Viable(x)
      /\ Proposals(k, t)' = Proposals(k, t) /\ Neighbours(t)' = Neighbours(t)
      /\ Proposed(k, t)' = Proposed(k, t) /\ (Polls(k, t)' <=> Polls(k, t))
  BY <1>1, SameIterations
<1>8. Reached(t)' = Proposals(k, t) \cup Neighbours(t)
  BY <1>1, <1>7, <1>k DEF Reached
<1>9. Bearing(t)'
  <2>1. \A x, p : Kept(x, p)' <=> Kept(x, p)
    BY <1>1 DEF Kept, DecisionKey, TagOf
  <2> QED BY <1>1, <1>3, <1>5, <1>7, <1>k, <2>1 DEF Bearing
<1>10. Covering(t)'
  <2>1. \A i \in DOMAIN cands : i \in DOMAIN cands' /\ cands'[i] = cands[i]
    BY <1>6 DEF Joined
  <2>2. \A y \in Proposals(k, t) : \E i \in DOMAIN cands' :
          cands'[i].x = y /\ cands'[i].epoch = iter
    BY <1>3, <1>4, <2>1 DEF Covering
  <2>3. \A y \in Neighbours(t) : \E i \in DOMAIN cands' :
          cands'[i].x = y /\ cands'[i].epoch = iter
    BY <1>6 DEF Joined
  <2>4. \A i \in DOMAIN cands' : cands'[i].status \in {"ready", "flight"} =>
          cands'[i].x \in Proposals(k, t) \cup Neighbours(t)
    BY <1>3, <1>4, <1>6 DEF Covering, Joined
  <2> QED BY <1>1, <1>8, <2>2, <2>3, <2>4 DEF Covering
<1>11. Improving(t)'
  <2>1. \A i \in DOMAIN cands' : cands'[i].x = t.x /\ cands'[i].epoch = iter =>
          cands'[i].status \in {"ready", "flight"}
    BY <1>2, <1>3, <1>6 DEF Improving, Joined
  <2> QED BY <1>1, <1>2, <1>4, <2>1 DEF Improving
<1>12. Recalling(t)'
  BY <1>1, <1>2 DEF Recalling
<1> QED BY <1>1, <1>9, <1>10, <1>11, <1>12 DEF Midway

\* A batch goes out.
LEMMA MidwayDispatch ==
  ASSUME ScheduledInv, ScheduledDispatch, NEW t, Midway(t)
  PROVE  Midway(t)'
<1>1. /\ phase' = "batch"
      /\ UNCHANGED <<ev, bundle, seed, search, iter, mul, polled, improved, xBest, fBest,
                     rev, decCache>>
  BY DEF ScheduledDispatch, Submit, scheduleVars, bestVars, policyVars, cacheVars
<1>2. t.x # NoX => \A p \in Levels : Kept(t.x, p)'
  <2>1. \A x, p : Kept(x, p)' <=> Kept(x, p)
    BY <1>1 DEF Kept, DecisionKey, TagOf
  <2> QED BY <2>1 DEF Midway, Bearing
<1>3. Recalling(t)'
  BY StoreDispatched DEF Recalling
<1> QED BY <1>1, <1>2, <1>3, StoreDispatched, MidwayKept

\* The batch is joined, the policies are asked and stay, the steps end.
LEMMA MidwayQuiet ==
  ASSUME ScheduledInv, OrderIrrelevant, EndSteps \/ Join \/ PolicyUpdate, rev' = rev,
         UNCHANGED <<bundle, seed, search>>, NEW t, Midway(t)
  PROVE  Midway(t)'
<1>1. /\ UNCHANGED <<ev, bundle, seed, search, iter, mul, polled, improved, xBest, fBest,
                     rev, decCache, cands, work>>
      /\ phase' # "iterend" \/ EndSteps
  BY DEF EndSteps, Join, PolicyUpdate, iterVars, bestVars, policyVars, cacheVars
<1>2. t.x # NoX => \A p \in Levels : Kept(t.x, p)'
  <2>1. \A x, p : Kept(x, p)' <=> Kept(x, p)
    BY <1>1 DEF Kept, DecisionKey, TagOf
  <2> QED BY <2>1 DEF Midway, Bearing
<1>3. Recalling(t)'
  BY <1>1 DEF Midway, Recalling, CachedKind, HasCached, TagOf
<1>4. phase' = "iterend" => ~CanPoll'
  <2>1. EndSteps => stepsLeft = NoBudget /\ NoBudget # 0
    <3>1. EndSteps => InSteps
      BY DEF EndSteps, InSteps
    <3>2. NoBudget \notin Nat
      BY EngineAssumption
    <3> QED BY <3>1, <3>2, OrderFacts DEF ScheduledInv, SearchInv, Unlimited
  <2>2. EndSteps => ~CanPoll
    BY <2>1 DEF EndSteps
  <2> QED BY <1>1, <2>2 DEF CanPoll
<1> QED BY <1>1, <1>2, <1>3, <1>4, MidwayKept

\* The workers.
LEMMA MidwayItem ==
  ASSUME ScheduledInv, NEW i \in DOMAIN work, LookupDecision(i) \/ LookupEval(i) \/ Compute(i),
         UNCHANGED scheduleVars, NEW t, Midway(t)
  PROVE  Midway(t)'
<1>0. EngineInv
  BY DEF ScheduledInv
<1>1. /\ phase' = "batch"
      /\ UNCHANGED <<ev, bundle, seed, search, iter, mul, polled, improved, xBest, fBest,
                     rev, cands>>
  BY DEF LookupDecision, LookupEval, Compute, ItemAt, ItemUnchanged, scheduleVars, iterVars,
         bestVars, policyVars
<1>2. t.x # NoX => \A p \in Levels : Kept(t.x, p)'
  <2>1. t.x # NoX => \A p \in Levels : ev.est[t.x][p] \in Estimates /\ Kept(t.x, p)
    BY DEF Midway, Bearing, Viable
  <2> QED BY <1>0, <2>1, KeptItem
<1>3. Recalling(t)'
  <2> SUFFICES ASSUME NEW j \in DOMAIN work', cands'[j].x = t.x
               PROVE  work'[j].pc = "decision" \/
                      (work'[j].pc = "done" /\ CachedKind(j, TagOf(work[j].phi))')
    BY DEF Recalling
  <2>p. PICK p : p = work[i].phi
    OBVIOUS
  <2>x. PICK x : x = cands[i].x
    OBVIOUS
  <2>w. PICK w : /\ work' = [work EXCEPT ![i] = w] /\ w.phi = p
                 /\ work[i].pc = "decision" /\ Kept(x, p) =>
                      /\ w.pc = "done" /\ "cached" \in DOMAIN w.out
                      /\ w.out.cached.kind = TagOf(p)
    BY <1>0, <2>p, <2>x, ItemMoves
  <2>1. j \in DOMAIN work /\ cands[j].x = t.x
    BY <1>1, <2>w
  <2>2. work[j].pc = "decision" \/ (work[j].pc = "done" /\ CachedKind(j, TagOf(work[j].phi)))
    BY <2>1 DEF Midway, Recalling
  <2>3. CASE j # i
    <3>1. work'[j] = work[j]
      BY <2>1, <2>3, <2>w
    <3> QED BY <2>2, <3>1 DEF CachedKind, HasCached, TagOf
  <2>4. CASE j = i
    <3>1. work[i].pc # "done"
      BY <1>0, ItemMoves
    <3>2. p \in Levels /\ x \in XMesh
      BY <1>0, <2>p, <2>x, ItemFacts
    <3>3. Kept(x, p)
      <4>1. t.x # NoX /\ t.x = x
        BY <2>1, <2>4, <2>x, <3>2, Facts
      <4> QED BY <3>2, <4>1 DEF Midway, Bearing
    <3>4. work'[i] = w
      BY <2>w
    <3>5. w.pc = "done" /\ "cached" \in DOMAIN w.out /\ w.out.cached.kind = TagOf(p)
      BY <2>2, <2>4, <2>w, <3>1, <3>3
    <3> QED BY <2>4, <2>w, <3>4, <3>5 DEF CachedKind, HasCached, TagOf
  <2> QED BY <2>3, <2>4
<1> QED BY <1>1, <1>2, <1>3, MidwayKept

\* An outcome with a decision that its point goes on: it does, or is TRUTH.
LEMMA Resumed ==
  ASSUME EngineInv, NEW i, Materialize(i), CachedKind(i, TagOf(work[i].phi))
  PROVE  /\ ~ExpectFails(i)
         /\ CachedPartial(i) \/ CachedTruth(i)
<1>1. Turn(i)
  BY DEF Materialize, CachedPartial, CachedEarly, CachedTruth, RejectInvalid, RejectCheap,
         ExpectFails, CutEarly, StopPartial, Continue, Truth, PartialTurn
<1>2. i \in DOMAIN work /\ work[i].pc = "done" /\ ItemOK(i)
  BY <1>1 DEF Turn, EngineInv, Batch
<1>3. OutcomeOK(ev, work[i].out, cands[i])
  <2>1. ~(work[i] \in [pc : {"decision", "eval", "compute"}, phi : {cands[i].next}])
    BY <1>2
  <2> QED BY <1>2, <2>1 DEF ItemOK
<1>4. DOMAIN work[i].out = {"cached"} /\ work[i].out.cached.kind \in {"truth", "partial"}
  BY <1>3 DEF OutcomeOK, CachedKind, HasCached, TagOf
<1>5. ~HasEst(i) /\ HasCached(i) /\ ~CachedKind(i, "early") /\ ~CachedKind(i, "invalid")
      /\ "none" \notin DOMAIN work[i].out
  BY <1>4 DEF HasEst, HasCached, CachedKind
<1> QED BY <1>5 DEF Materialize, CachedEarly, RejectInvalid, RejectCheap,
       ExpectFails, CutEarly, StopPartial, Continue, Truth, PartialTurn

\* The engine thread at an outcome.
LEMMA MidwayProcessed ==
  ASSUME ScheduledInv, OrderIrrelevant, NEW i, ScheduledMaterialize(i),
         phase' # "panicked", NEW t, Midway(t)
  PROVE  Midway(t)'
<1>0. EngineInv /\ Lowest /\ Materialize(i) /\ ExactBarrier /\ SoundMargins
  BY OrderFacts DEF ScheduledInv, SearchInv, ScheduledMaterialize
<1>1. ~ExpectFails(i)
  BY DEF ExpectFails
<1>2. PICK c : Effect(i, c)
  BY <1>0, <1>1, Effects
<1>3. /\ UNCHANGED <<ev, bundle, seed, search, iter, mul, polled, phase>> /\ Turn(i)
      /\ cands' = [cands EXCEPT ![i] = c]
      /\ work' = [j \in DOMAIN work \ {i} |-> work[j]]
  BY <1>2 DEF Effect, Settle, Without, MatUnchanged, ScheduledMaterialize
<1>4. /\ phase = "join" /\ i \in DOMAIN work /\ i \in DOMAIN cands
      /\ cands[i] \in Candidate /\ cands[i].status = "flight" /\ cands[i].x \in XMesh
  BY <1>0, <1>3, AtTurn
<1>5. c.x = cands[i].x /\ c.epoch = cands[i].epoch /\ cands'[i] = c
  <2>1. cands'[i] = c
    BY <1>3, <1>4
  <2> QED BY <1>0, <1>1, <1>2, <2>1, GoesOnWithEstimates DEF Effect
<1>6. Bearing(t) /\ Covering(t) /\ Improving(t) /\ Recalling(t)
  BY DEF Midway
<1>7. t.x # NoX => \A p \in Levels : Kept(t.x, p)'
  <2>1. t.x # NoX => Feasible(t.x) /\ \A p \in Levels : ev.est[t.x][p] \in Estimates /\ Kept(t.x, p)
    BY <1>6 DEF Bearing, Viable
  <2> QED BY <1>0, <2>1, KeptMaterialize
<1>8. Recalling(t)'
  <2> SUFFICES ASSUME NEW j \in DOMAIN work', cands'[j].x = t.x
               PROVE  work'[j].pc = "decision" \/
                      (work'[j].pc = "done" /\ CachedKind(j, TagOf(work[j].phi))')
    BY DEF Recalling
  <2>1. j \in DOMAIN work /\ work'[j] = work[j] /\ cands[j].x = t.x
    BY <1>3
  <2> QED BY <1>6, <2>1 DEF Recalling, CachedKind, HasCached, TagOf
<1>9. ASSUME t.x # NoX
      PROVE  /\ Feasible(t.x) /\ fBest # NoF /\ fBest \in Int /\ fBest <= TruthOf(t.x).f
             /\ TruthOf(t.x).f \in Int
             /\ ~improved => fBest = TruthOf(t.x).f
  <2>1. Feasible(t.x)
    BY <1>6, <1>9 DEF Bearing, Viable
  <2>2. TruthOf(t.x).f \in Int
    BY <2>1 DEF Feasible, Estimates
  <2>3. xBest # NoX
    BY <1>6, <1>9 DEF Improving
  <2>4. fBest \in Int /\ fBest # NoF
    BY <1>0, <2>3 DEF EngineInv, EngineTypes
  <2>5. fBest = TruthOf(xBest).f
    BY <1>0, <2>3 DEF EngineInv, Best
  <2> QED BY <1>6, <1>9, <2>1, <2>2, <2>4, <2>5 DEF Improving
<1>10. /\ \/ UNCHANGED <<improved, xBest, fBest>>
          \/ /\ improved' /\ xBest' # NoX /\ xBest' \in Reached(t)
             /\ t.x = NoX \/ fBest' <= TruthOf(t.x).f
       /\ c.status = "truth" /\ c.x = t.x => improved'
  <2>1. CASE NoTruth /\ c.status # "truth"
    BY <2>1 DEF NoTruth, bestVars
  <2>2. CASE /\ c.status = "truth" /\ TruthOf(c.x) \in Estimates
             /\ Accept(cands[i], TruthOf(c.x))
    <3> DEFINE f == TruthOf(c.x).f
               v == Violation(c.x)
    <3>1. f \in Int /\ v \in Nat
      BY <2>2 DEF Estimates, Violation, Larger
    <3>2. Accepts(f, v) <=> v = 0 /\ (fBest = NoF \/ f <= fBest)
      <4> HIDE DEF f, v
      <4> QED BY <1>0, <3>1, AcceptsExact
    <3>3. IF Accepts(f, v) THEN improved' = TRUE /\ xBest' = cands[i].x /\ fBest' = f
                           ELSE UNCHANGED <<improved, xBest, fBest>>
      BY <2>2 DEF Accept, Violation, bestVars
    <3>4. cands[i].x \in Reached(t) /\ cands[i].x # NoX
      BY <1>4, <1>6, Facts DEF Covering
    <3>5. CASE Accepts(f, v)
      <4>1. improved' /\ xBest' # NoX /\ xBest' \in Reached(t) /\ fBest' = f
        BY <3>3, <3>4, <3>5
      <4>2. t.x = NoX \/ fBest' <= TruthOf(t.x).f
        <5> HIDE DEF f, v
        <5> QED BY <1>9, <3>1, <3>2, <3>5, <4>1
      <4> QED BY <4>1, <4>2
    <3>6. CASE ~Accepts(f, v)
      <4>1. UNCHANGED <<improved, xBest, fBest>>
        BY <3>3, <3>6
      <4>2. c.x = t.x => improved
        <5> SUFFICES ASSUME c.x = t.x, ~improved PROVE FALSE
          BY <1>0 DEF EngineInv, EngineTypes
        <5>1. t.x # NoX
          BY <1>5, <3>4
        <5>2. fBest = f /\ v = 0 /\ fBest \in Int
          BY <1>9, <5>1 DEF Feasible
        <5> HIDE DEF f, v
        <5> QED BY <3>2, <3>6, <5>2
      <4> QED BY <4>1, <4>2
    <3> QED BY <3>5, <3>6
  <2> QED BY <1>2, <2>1, <2>2 DEF Effect
<1>11. cands[i].x = t.x => c.status \in {"ready", "truth"}
  <2> SUFFICES ASSUME cands[i].x = t.x PROVE c.status \in {"ready", "truth"}
    OBVIOUS
  <2>1. work[i].pc = "done"
    BY <1>0, <1>4 DEF EngineInv, Batch
  <2>2. CachedKind(i, TagOf(work[i].phi))
    BY <1>4, <1>6, <2>1 DEF Recalling
  <2>3. CachedPartial(i) \/ CachedTruth(i)
    BY <1>0, <2>2, Resumed
  <2>4. cands'[i].status \in {"ready", "truth"}
    BY <1>4, <2>3 DEF CachedPartial, CachedTruth, Settle, Candidate
  <2> QED BY <1>5, <2>4
<1>12. ASSUME NEW j \in DOMAIN cands
       PROVE  /\ cands'[j].x = cands[j].x /\ cands'[j].epoch = cands[j].epoch
              /\ cands'[j].status \in {"ready", "flight"} => cands[j].status \in {"ready", "flight"}
              /\ cands[j].x = t.x /\ cands[j].epoch = iter
                 /\ cands[j].status \in {"ready", "flight"} =>
                   improved' \/ cands'[j].status \in {"ready", "flight"}
  <2>1. CASE j = i
    BY <1>4, <1>5, <1>10, <1>11, <2>1
  <2>2. CASE j # i
    BY <1>3, <2>2
  <2> QED BY <2>1, <2>2
<1>13. DOMAIN cands' = DOMAIN cands /\ phase' # "iterend"
  BY <1>3, <1>4
<1> QED BY <1>3, <1>7, <1>8, <1>10, <1>12, <1>13, MidwayKept

\* The iteration ends: it made of t what any order of evaluation makes of it.
LEMMA IterationMakes ==
  ASSUME ScheduledInv, Climbing, OrderIrrelevant, EndIteration, NEW t, Midway(t)
  PROVE  Iterated(iter, t, [x |-> xBest, m |-> mul', s |-> search])
<1>k. PICK k : k = iter
  OBVIOUS
<1>1. /\ phase = "iterend" /\ mul' = IF polled /\ ~improved THEN Refined ELSE mul
  BY DEF EndIteration
<1>2. /\ EngineInv /\ DOMAIN work = {} /\ polled \in BOOLEAN /\ improved \in BOOLEAN
      /\ mul \in Nat \ {0}
  BY <1>1, Facts DEF ScheduledInv, EngineInv, EngineTypes, Batch
<1>3. Ready = {}
  BY <1>1, OrderFacts DEF ScheduledInv, SearchInv, Unlimited
<1>4. StoreBest
  BY <1>2, <1>3, SettledBest
<1>5. Bearing(t) /\ Covering(t) /\ Improving(t) /\ ~CanPoll
  BY <1>1 DEF Midway
<1>6. t.m = mul /\ search = Proposed(k, t)
  BY <1>5, <1>k DEF Bearing
<1>7. /\ xBest # NoX => Viable(xBest) /\ fBest = TruthOf(xBest).f /\ fBest \in Int
      /\ xBest = NoX <=> fBest = NoF
  BY IncumbentViable
<1>8. ~Viable(NoX)
  BY Facts DEF Viable, Feasible
<1>9. IsBest({t.x} \cup Reached(t), xBest)
  <2>1. xBest # NoX => xBest \in {t.x} \cup Reached(t) /\ Viable(xBest)
    BY <1>5, <1>7 DEF Improving
  <2>2. ASSUME NEW y \in Reached(t), Viable(y)
        PROVE  xBest # NoX /\ TruthOf(xBest).f <= TruthOf(y).f
    <3>1. PICK i \in DOMAIN cands : cands[i].x = y
      BY <1>5 DEF Covering
    <3> QED BY <1>4, <1>7, <2>2, <3>1 DEF StoreBest
  <2>3. ASSUME Viable(t.x)
        PROVE  xBest # NoX /\ TruthOf(xBest).f <= TruthOf(t.x).f
    <3>1. t.x # NoX /\ xBest # NoX
      BY <1>5, <1>8, <2>3 DEF Improving
    <3>2. TruthOf(t.x).f \in Int
      BY <2>3 DEF Viable, Feasible, Estimates
    <3>3. fBest = TruthOf(xBest).f /\ fBest \in Int
      BY <1>7, <3>1
    <3>4. CASE improved
      BY <1>5, <3>1, <3>3, <3>4 DEF Improving
    <3>5. CASE ~improved
      BY <1>5, <3>1, <3>2, <3>3, <3>5 DEF Improving
    <3> QED BY <3>1, <3>4, <3>5
  <2> QED BY <2>1, <2>2, <2>3 DEF IsBest
<1>10. CASE polled
  <2>1. Polls(k, t) /\ Reached(t) = Proposals(k, t) \cup Neighbours(t)
    BY <1>5, <1>10, <1>k DEF Bearing, Reached
  <2>2. IsBest({t.x} \cup Proposals(k, t) \cup Neighbours(t), xBest)
    <3>1. {t.x} \cup Proposals(k, t) \cup Neighbours(t) = {t.x} \cup Reached(t)
      BY <2>1
    <3> QED BY <1>9, <3>1
  <2>3. t.x \notin Reached(t)
    <3>1. t.x \notin Proposals(k, t) /\ t.x # NoX
      BY <2>1 DEF Polls
    <3>2. t.x \in Int
      <4>1. t.x \in XMesh
        BY <1>5, <3>1 DEF Bearing, Viable, Feasible
      <4> QED BY <4>1, Facts
    <3>3. t.m * Larger(PollMult, 1) \in Int /\ t.m * Larger(PollMult, 1) > 0
      <4>1. Larger(PollMult, 1) \in Nat \ {0}
        BY EngineAssumption DEF Larger
      <4>2. \A a, b \in Nat \ {0} : a * b \in Int /\ a * b > 0
        OBVIOUS
      <4> QED BY <1>2, <1>6, <4>1, <4>2
    <3>4. t.x \notin Neighbours(t)
      <4> DEFINE d == t.m * Larger(PollMult, 1)
      <4>1. t.x # t.x + d /\ t.x # t.x - d
        <5> HIDE DEF d
        <5>1. d \in Int /\ d > 0
          BY <3>3 DEF d
        <5> QED BY <3>2, <5>1
      <4> QED BY <4>1 DEF Neighbours
    <3> QED BY <2>1, <3>1, <3>4
  <2>4. improved <=> xBest # t.x
    BY <1>2, <1>5, <2>3 DEF Improving
  <2>5. mul' = IF xBest = t.x THEN Finer(t.m) ELSE t.m
    BY <1>1, <1>2, <1>6, <1>10, <2>4 DEF Refined, Finer
  <2> QED BY <1>6, <1>k, <2>1, <2>2, <2>5 DEF Iterated
<1>11. CASE ~polled
  <2>1. Reached(t) = Proposals(k, t) /\ mul' = t.m
    BY <1>1, <1>6, <1>11, <1>k DEF Reached
  <2>2. IsBest({t.x} \cup Proposals(k, t), xBest)
    BY <1>9, <2>1
  <2>3. ~Polls(k, t)
    <3> SUFFICES ASSUME Polls(k, t) PROVE FALSE
      OBVIOUS
    <3>1. t.x # NoX /\ t.x \notin Proposals(k, t) /\ IsBest({t.x} \cup Proposals(k, t), t.x)
      BY DEF Polls
    <3>2. xBest = t.x
      BY <2>2, <3>1, OneBest, OrderFacts
    <3>3. ~improved
      BY <1>5, <2>1, <3>1, <3>2 DEF Improving
    <3> QED BY <1>5, <1>11, <3>1, <3>2, <3>3 DEF CanPoll
  <2> QED BY <1>6, <1>k, <2>1, <2>2, <2>3 DEF Iterated
<1> QED BY <1>2, <1>10, <1>11

-----------------------------------------------------------------------------
(* The journey of a run.                                                   *)

\* At the top of an iteration, within one, and after the run before, if that
\* revised nothing.
AtTop ==
  /\ Ready = {} /\ \A i \in DOMAIN cands : cands[i].epoch < iter
  /\ Arrives(iter, Here)

Between == \E t : Arrives(iter, t) /\ Midway(t)

Remembered ==
  run > 1 /\ ~first.revised =>
    \E t : /\ Arrives(MaxIters, t) /\ first.out.x = t.x
           /\ first.out.f = IF t.x = NoX THEN NoF ELSE TruthOf(t.x).f

OnTheWay ==
  OrderIrrelevant =>
    /\ rev = 0 /\ phase \in {"propose", "done"} => AtTop
    /\ rev = 0 /\ InSteps => Between
    /\ Remembered

JourneyInv ==
  /\ ScheduledInv
  /\ rev = 0 => Climbing
  /\ phase = "done" => iter = MaxIters
  /\ OnTheWay

\* The output of the run before stays what it was.
LEMMA StillRemembered ==
  ASSUME Remembered, UNCHANGED <<ev, bundle, seed, run, first>>
  PROVE  Remembered'
BY SameIterations DEF Remembered, TruthOf

\* A step within an iteration, and one into the next.
LEMMA StillBetween ==
  ASSUME UNCHANGED <<ev, bundle, seed, iter>>, NEW t, Arrives(iter, t), Midway(t)'
  PROVE  Between'
<1>k. PICK k : k = iter
  OBVIOUS
<1>1. Arrives(k, t)' /\ iter' = k
  BY <1>k, SameIterations
<1> QED BY <1>1 DEF Between

\* From the end of an iteration to the top of the next.
LEMMA NextTop ==
  ASSUME ScheduledInv, Climbing, OrderIrrelevant, EndIteration, UNCHANGED scheduleVars,
         NEW t, Arrives(iter, t), Midway(t)
  PROVE  AtTop'
<1>k. PICK k : k = iter
  OBVIOUS
<1>u. PICK u : u = [x |-> xBest, m |-> mul', s |-> search]
  OBVIOUS
<1>1. /\ phase = "iterend" /\ iter' = k + 1 /\ UNCHANGED <<ev, bundle, seed, cands, xBest, search>>
  BY <1>k DEF EndIteration, scheduleVars, bestVars
<1>2. k \in Nat
  BY <1>k, Facts, EngineAssumption
<1>3. Arrives(k + 1, u)
  <2>1. Iterated(k, t, u)
    BY <1>k, <1>u, IterationMakes
  <2> QED BY <1>2, <1>k, <2>1, ArrivesOn
<1>4. Arrives(k + 1, u)' /\ Here' = u
  BY <1>1, <1>3, <1>u, SameIterations DEF Here
<1>5. Ready' = {}
  <2>1. Ready = {}
    BY <1>1, OrderFacts DEF ScheduledInv, SearchInv, Unlimited
  <2> QED BY <1>1, <2>1 DEF Ready
<1>6. \A i \in DOMAIN cands' : cands'[i].epoch < iter'
  <2>1. \A i \in DOMAIN cands : cands[i].epoch <= k /\ cands[i].epoch \in Nat
    <3>1. \A i \in DOMAIN cands : cands[i] \in Candidate
      BY Facts
    <3>2. \A i \in DOMAIN cands : cands[i].epoch <= iter
      BY DEF ScheduledInv, InfoKept, InfoOK
    <3> QED BY <1>k, <3>1, <3>2 DEF Candidate
  <2> QED BY <1>1, <1>2, <2>1
<1> QED BY <1>1, <1>4, <1>5, <1>6 DEF AtTop

\* A new engine sets out.
LEMMA FirstTop ==
  /\ ScheduledInit => AtTop /\ run = 1
  /\ RunAnotherEngine => AtTop'
<1> DEFINE from(s) == [x |-> NoX, m |-> Larger(MulInit, 1), s |-> Reset(s.halton)]
<1>1. ASSUME ScheduledInit PROVE AtTop /\ run = 1
  <2>1. /\ cands = << >> /\ iter = 0 /\ xBest = NoX /\ mul = Larger(MulInit, 1) /\ run = 1
        /\ search = Reset(seed.halton)
    BY <1>1 DEF ScheduledInit, Init
  <2>2. DOMAIN cands = {}
    BY <2>1
  <2>3. Here = from(seed)
    BY <2>1 DEF Here
  <2>4. Arrives(iter, Here)
    BY <2>1, <2>3, ArrivesOn
  <2> QED BY <2>1, <2>2, <2>4 DEF AtTop, Ready
<1>2. ASSUME RunAnotherEngine PROVE AtTop'
  <2>1. /\ cands' = << >> /\ iter' = 0 /\ xBest' = NoX /\ mul' = Larger(MulInit, 1)
        /\ search' = Reset(seed.halton) /\ seed' = seed /\ bundle' = bundle /\ ev' = ev
    BY <1>2 DEF RunAnotherEngine
  <2>2. DOMAIN cands' = {}
    BY <2>1
  <2>u. PICK u : u = from(seed)
    OBVIOUS
  <2>3. Here' = u
    BY <2>1, <2>u DEF Here
  <2>4. Arrives(0, u)'
    <3>1. Arrives(0, u)
      BY <2>u, ArrivesOn
    <3> QED BY <2>1, <3>1, SameIterations
  <2> QED BY <2>1, <2>2, <2>3, <2>4 DEF AtTop, Ready
<1> QED BY <1>1, <1>2

\* Every step keeps to the way.
LEMMA JourneyStep == JourneyInv /\ [ScheduledNext]_allVars => JourneyInv'
<1> SUFFICES ASSUME JourneyInv, [ScheduledNext]_allVars PROVE JourneyInv'
  OBVIOUS
<1>0. ScheduledInv /\ (phase = "done" => iter = MaxIters) /\ OnTheWay
  BY DEF JourneyInv
<1>r. ~RunAnotherEngine /\ rev' = 0 => rev' = rev /\ rev = 0
  BY <1>0, NoneBefore
<1>c. rev = 0 => Climbing
  BY DEF JourneyInv
<1>1. ScheduledInv' /\ (rev' = 0 => Climbing')
  BY <1>0, <1>c, <1>r, ScheduledStep, ClimbStep, ClimbAfresh
<1> SUFFICES (phase' = "done" => iter' = MaxIters) /\ OnTheWay'
  BY <1>1 DEF JourneyInv
<1>3. CASE ScheduledPropose
  <2>1. /\ phase = "propose" /\ phase' = "select"
        /\ UNCHANGED <<ev, budget, bundle, seed, iter, run, first>>
    BY <1>3 DEF ScheduledPropose, Ingest, runVars
  <2>2. ASSUME OrderIrrelevant, rev' = 0 PROVE Between'
    <3>t. PICK t : t = Here
      OBVIOUS
    <3>r. rev = 0
      BY <1>r, <2>1, <2>2 DEF RunAnotherEngine
    <3>1. AtTop
      BY <1>0, <2>1, <2>2, <3>r DEF OnTheWay
    <3>2. Arrives(iter, t) /\ Midway(t)'
      BY <1>0, <1>3, <1>c, <2>2, <3>1, <3>r, <3>t, MidwayPropose DEF AtTop
    <3> QED BY <2>1, <3>2, StillBetween
  <2>3. OrderIrrelevant => Remembered'
    BY <1>0, <2>1, StillRemembered DEF OnTheWay
  <2> QED BY <2>1, <2>2, <2>3, SamePremises DEF OnTheWay
<1>4. ASSUME UNCHANGED <<ev, budget, bundle, seed, iter, run, first>>, InSteps,
             phase' \notin {"propose", "done"},
             phase' # "panicked" /\ OrderIrrelevant /\ rev = 0 /\ rev' = rev =>
               \A t : Midway(t) => Midway(t)'
      PROVE  (phase' = "done" => iter' = MaxIters) /\ OnTheWay'
  <2>1. ASSUME OrderIrrelevant, rev' = 0, InSteps' PROVE Between'
    <3>r. rev = 0 /\ rev' = rev
      BY <1>4, <1>r, <2>1 DEF RunAnotherEngine, InSteps
    <3>1. Between
      BY <1>0, <1>4, <2>1, <3>r DEF OnTheWay
    <3>2. PICK t : Arrives(iter, t) /\ Midway(t)
      BY <3>1 DEF Between
    <3>3. Midway(t)'
      BY <1>4, <2>1, <3>2, <3>r DEF InSteps
    <3> QED BY <1>4, <3>2, <3>3, StillBetween
  <2>2. OrderIrrelevant => Remembered'
    BY <1>0, <1>4, StillRemembered DEF OnTheWay
  <2> QED BY <1>4, <2>1, <2>2, SamePremises DEF OnTheWay
<1>5. CASE ScheduledPoll
  <2>1. /\ phase = "select" /\ phase' = "select"
        /\ UNCHANGED <<ev, budget, bundle, seed, iter, run, first>>
    BY <1>5 DEF ScheduledPoll, InjectPoll, runVars
  <2> QED BY <1>0, <1>4, <1>5, <1>c, <2>1, MidwayPoll DEF InSteps
<1>6. CASE ScheduledDispatch
  <2>1. /\ phase = "select" /\ phase' = "batch"
        /\ UNCHANGED <<ev, budget, bundle, seed, iter, run, first>>
    BY <1>6 DEF ScheduledDispatch, Submit, runVars, scheduleVars
  <2> QED BY <1>0, <1>4, <1>6, <1>c, <2>1, MidwayDispatch DEF InSteps
<1>7. CASE Elsewhere
  <2>0. UNCHANGED scheduleVars /\ UNCHANGED <<bundle, seed, first>>
    BY <1>7 DEF Elsewhere, scheduleVars
  <2>1. CASE EndSteps \/ Join
    <3>1. /\ phase \in {"select", "batch"} /\ phase' \in {"join", "iterend"}
          /\ UNCHANGED <<ev, budget, iter, run>>
      BY <2>1 DEF EndSteps, Join, runVars, iterVars
    <3> QED BY <1>0, <1>4, <2>0, <2>1, <3>1, MidwayQuiet DEF InSteps, scheduleVars
  <2>2. CASE EndIteration
    <3>1. /\ phase = "iterend" /\ phase' = LoopPhase(iter + 1) /\ iter' = iter + 1
          /\ UNCHANGED <<ev, budget, run>>
      BY <2>2 DEF EndIteration, runVars
    <3>2. iter \in 0 .. MaxIters /\ iter < MaxIters /\ MaxIters \in Nat
      BY <1>0, <3>1, Facts, EngineAssumption
    <3>3. phase' \in {"propose", "done"} /\ (phase' = "done" => iter' = MaxIters)
      BY <3>1, <3>2 DEF LoopPhase
    <3>4. ASSUME OrderIrrelevant, rev' = 0 PROVE AtTop'
      <4>r. rev = 0
        BY <1>r, <3>1, <3>4 DEF RunAnotherEngine
      <4>1. Between
        BY <1>0, <3>1, <3>4, <4>r DEF OnTheWay, InSteps
      <4>2. PICK t : Arrives(iter, t) /\ Midway(t)
        BY <4>1 DEF Between
      <4> QED BY <1>0, <1>c, <2>0, <2>2, <3>4, <4>2, <4>r, NextTop
    <3>5. OrderIrrelevant => Remembered'
      BY <1>0, <2>0, <3>1, StillRemembered DEF OnTheWay
    <3> QED BY <3>1, <3>3, <3>4, <3>5, SamePremises DEF OnTheWay, InSteps
  <2>3. ASSUME NEW i \in DOMAIN work, LookupDecision(i) \/ LookupEval(i) \/ Compute(i)
        PROVE  (phase' = "done" => iter' = MaxIters) /\ OnTheWay'
    <3>1. phase = "batch" /\ phase' = "batch" /\ UNCHANGED <<ev, budget, iter, run>>
      BY <2>3 DEF LookupDecision, LookupEval, Compute, ItemAt, ItemUnchanged, runVars, iterVars
    <3> QED BY <1>0, <1>4, <1>c, <2>0, <2>3, <3>1, MidwayItem DEF InSteps
  <2> QED BY <1>7, <2>1, <2>2, <2>3 DEF Elsewhere
<1>8. ASSUME NEW i \in DOMAIN work, ScheduledMaterialize(i)
      PROVE  (phase' = "done" => iter' = MaxIters) /\ OnTheWay'
  <2>1. Materialize(i) /\ UNCHANGED <<bundle, seed, first>>
    BY <1>8 DEF ScheduledMaterialize
  <2>2. UNCHANGED <<ev, budget, run>>
    BY <2>1 DEF Materialize, CachedPartial, CachedEarly, CachedTruth, RejectInvalid, RejectCheap,
                ExpectFails, CutEarly, StopPartial, Continue, Truth, MatUnchanged, runVars
  <2>3. UNCHANGED iter /\ phase = "join" /\ phase' \in {"join", "panicked"}
    BY <1>0, <2>1, Processed
  <2> QED BY <1>0, <1>4, <1>8, <1>c, <2>1, <2>2, <2>3, MidwayProcessed DEF InSteps
<1>9. CASE RunAnotherEngine
  <2>1. /\ phase = "done" /\ UNCHANGED <<ev, budget, bundle, seed>> /\ iter = MaxIters
        /\ iter' = 0 /\ phase' = LoopPhase(0)
        /\ first' = [workers |-> workers, revised |-> rev # 0, out |-> Output]
    BY <1>0, <1>9 DEF RunAnotherEngine
  <2>2. phase' \in {"propose", "done"} /\ (phase' = "done" => iter' = MaxIters)
    BY <2>1, EngineAssumption DEF LoopPhase
  <2>3. ASSUME OrderIrrelevant, ~first'.revised PROVE Remembered'
    <3>t. PICK t : t = Here
      OBVIOUS
    <3>r. rev = 0
      BY <2>1, <2>3
    <3>1. Arrives(MaxIters, t) /\ t.x = xBest
      BY <1>0, <2>1, <2>3, <3>r, <3>t DEF OnTheWay, AtTop, Here
    <3>2. first'.out.x = t.x /\ first'.out.f = IF t.x = NoX THEN NoF ELSE TruthOf(t.x).f
      BY <1>0, <1>c, <2>1, <2>3, <3>1, <3>r, IncumbentViable DEF Output
    <3>3. Arrives(MaxIters, t)' /\ TruthOf(t.x)' = TruthOf(t.x)
      BY <2>1, <3>1, SameIterations DEF TruthOf
    <3> QED BY <3>2, <3>3 DEF Remembered
  <2>4. AtTop'
    BY <1>9, FirstTop
  <2>5. OrderIrrelevant => Remembered'
    BY <2>3 DEF Remembered
  <2> QED BY <2>1, <2>2, <2>4, <2>5, SamePremises DEF OnTheWay, InSteps
<1>10. CASE ScheduledUpdate
  <2>1. /\ phase = "join" /\ phase' = "select" /\ PolicyUpdate
        /\ UNCHANGED <<ev, budget, bundle, seed, search, iter, run, first>>
    BY <1>10 DEF ScheduledUpdate, PolicyUpdate, runVars, iterVars
  <2> QED BY <1>0, <1>4, <2>1, MidwayQuiet DEF InSteps
<1>11. CASE Finished \/ UNCHANGED allVars
  <2>1. UNCHANGED vars /\ UNCHANGED scheduleVars
    BY <1>11 DEF Finished, allVars
  <2>2. UNCHANGED <<ev, budget, bundle, seed, iter, run, first, phase, mul, search, xBest, fBest,
                    cands, work, decCache, rev, polled, improved>>
    BY <2>1 DEF vars, scheduleVars, runVars, iterVars, bestVars, policyVars, cacheVars
  <2>3. OnTheWay'
    <3>1. ASSUME OrderIrrelevant, AtTop PROVE AtTop'
      <4>1. Here' = Here /\ Ready' = Ready
        BY <2>2 DEF Here, Ready
      <4>t. PICK t : t = Here
        OBVIOUS
      <4>k. PICK k : k = iter
        OBVIOUS
      <4>2. Arrives(k, t)' /\ iter' = k /\ Here' = t
        BY <2>2, <3>1, <4>1, <4>t, <4>k, SameIterations DEF AtTop
      <4> QED BY <2>2, <3>1, <4>1, <4>2 DEF AtTop
    <3>2. ASSUME NEW t, Midway(t) PROVE Midway(t)'
      <4>1. \A x, p : Kept(x, p)' <=> Kept(x, p)
        BY <2>2 DEF Kept, DecisionKey, TagOf
      <4>2. t.x # NoX => \A p \in Levels : Kept(t.x, p)'
        BY <3>2, <4>1 DEF Midway, Bearing
      <4>3. Recalling(t)' /\ (phase' = "iterend" => ~CanPoll')
        BY <2>2, <3>2 DEF Midway, Recalling, CachedKind, HasCached, TagOf, CanPoll
      <4> QED BY <2>2, <3>2, <4>2, <4>3, MidwayKept
    <3>3. Between => Between'
      BY <2>2, <3>2, StillBetween DEF Between
    <3> QED BY <1>0, <2>2, <3>1, <3>3, SamePremises, StillRemembered DEF OnTheWay, InSteps
  <2> QED BY <1>0, <2>2, <2>3
<1> QED BY <1>3, <1>5, <1>6, <1>7, <1>8, <1>9, <1>10, <1>11 DEF ScheduledNext

\* Two runs of as many iterations come to the same place.
LEMMA JourneysMeet == JourneyInv => WorkerCountIrrelevant
<1> SUFFICES ASSUME JourneyInv, phase = "done", run > 1, OrderIrrelevant,
                    rev = 0, ~first.revised
             PROVE  xBest = first.out.x /\ fBest = first.out.f
  BY DEF WorkerCountIrrelevant, Rerun
<1>1. ScheduledInv /\ Climbing /\ iter = MaxIters /\ Arrives(iter, Here) /\ Remembered
  BY DEF JourneyInv, OnTheWay, AtTop
<1>2. PICK t : /\ Arrives(MaxIters, t) /\ first.out.x = t.x
               /\ first.out.f = IF t.x = NoX THEN NoF ELSE TruthOf(t.x).f
  BY <1>1 DEF Remembered
<1>3. t = Here
  <2>1. MaxIters \in Nat
    BY EngineAssumption
  <2> QED BY <1>1, <1>2, <2>1, OneArrival, OrderFacts
<1>4. t.x = xBest
  BY <1>3 DEF Here
<1> QED BY <1>1, <1>2, <1>4, IncumbentViable

\* WorkerCountIrrelevant.  However many workers there are, and whatever that
\* makes of the batches, of the order of evaluation and of what is pruned, the
\* incumbent at the top of every iteration, the mesh and the search, and with
\* them the next proposals, are the same while the policy has not been revised:
\* an iteration leaves the best viable point of those it had and those it came
\* to.
THEOREM WorkersDoNotMatter == ScheduledSpec => []WorkerCountIrrelevant
<1>1. ScheduledInit => JourneyInv
  <2> SUFFICES ASSUME ScheduledInit PROVE JourneyInv
    OBVIOUS
  <2>1. ScheduledInv
    BY ScheduledInitInv
  <2>2. /\ cands = << >> /\ DOMAIN work = {} /\ iter = 0 /\ phase = LoopPhase(0)
    BY DEF ScheduledInit, Init, EmptyCache
  <2>3. DOMAIN cands = {}
    BY <2>2
  <2>4. Climbing
    BY <2>2, <2>3 DEF Climbing
  <2>5. phase \in {"propose", "done"} /\ (phase = "done" => iter = MaxIters)
    BY <2>2, EngineAssumption DEF LoopPhase
  <2>6. OnTheWay
    BY <2>5, FirstTop DEF OnTheWay, Remembered, InSteps
  <2> QED BY <2>1, <2>4, <2>5, <2>6 DEF JourneyInv
<1>2. JourneyInv /\ [ScheduledNext]_allVars => JourneyInv'
  BY JourneyStep
<1>3. JourneyInv => WorkerCountIrrelevant
  BY JourneysMeet
<1> QED BY <1>1, <1>2, <1>3, PTL DEF ScheduledSpec
=============================================================================
