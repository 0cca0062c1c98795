---------------------------- MODULE ScheduledCore ----------------------------
(***************************************************************************)
(* The deterministic core of ScheduledEngine: what of its state decides    *)
(* the rest of a run, and the one step that leads on from there.  It       *)
(* leaves out what the workers of a batch may do in any order: how far     *)
(* each item is, the evaluation cache, and which invalid evaluations are   *)
(* in the decision cache.  What an item will come back with is settled     *)
(* when it is dispatched: its verdict.                                     *)
(***************************************************************************)
EXTENDS ScheduledEngine

\* The kinds of the cached decisions, but for invalid evaluations, which are
\* found or made again with the same result.
Known ==
  [k \in {q \in DOMAIN decCache : decCache[q].kind # "invalid"} |-> decCache[k].kind]

\* What execute_one comes back with for point x at level p.
Verdict(known, x, p) ==
  LET key == DecisionKey(x, p, TagOf(p)) IN
  IF ev.est[x][p] = Invalid THEN "invalid"
  ELSE IF key \in DOMAIN known THEN known[key]
  ELSE IF ev.est[x][p] = Panic THEN "none" ELSE "est"

\* What the items of the batch come back with, or came back with.
Verdicts ==
  [i \in DOMAIN work |->
     IF work[i].pc = "done" THEN KindOf(work[i].out)
                            ELSE Verdict(Known, cands[i].x, work[i].phi)]

\* The core, with the decisions known and the verdicts on what is in flight;
\* a batch is as good as joined.
Core(known, verdicts) ==
  [ev |-> ev, budget |-> budget, workers |-> workers, th |-> th, asg |-> asg,
   rev |-> rev, bundle |-> bundle, seed |-> seed, calib |-> calib,
   events |-> events,
   phase |-> IF phase = "batch" THEN "join" ELSE phase,
   iter |-> iter, polled |-> polled, improved |-> improved,
   stepsLeft |-> stepsLeft, mul |-> mul, cands |-> cands,
   xBest |-> xBest, fBest |-> fBest,
   h |-> h, points |-> points, incumbent |-> incumbent,
   search |-> search, info |-> info, known |-> known, verdicts |-> verdicts]

CoreNow == Core(Known, Verdicts)

\* The core from which w workers set out on the problem.
Start(w) ==
  [ev |-> ev, budget |-> budget, workers |-> w, th |-> calib.start, asg |-> 1,
   rev |-> 0, bundle |-> bundle, seed |-> seed, calib |-> calib,
   events |-> << >>, phase |-> LoopPhase(0),
   iter |-> 0, polled |-> FALSE, improved |-> FALSE,
   stepsLeft |-> 0, mul |-> Larger(MulInit, 1), cands |-> << >>,
   xBest |-> NoX, fBest |-> NoF,
   h |-> InitialBarrier, points |-> {}, incumbent |-> NoF,
   search |-> Reset(seed.halton), info |-> << >>,
   known |-> EmptyCache, verdicts |-> EmptyCache]

-----------------------------------------------------------------------------
(* The step from a core c, that of the state.                              *)

CoreProposed(c) ==
  LET draws == seed.draws[iter]
      s == SetContext(search, xBest)
      raw == [k \in 1 .. PerIter |-> RawPoint(bundle, s, xBest, draws, mul, k)]
  IN  [c EXCEPT
         !.cands = cands \o [k \in 1 .. PerIter |->
                               NewCandidate(Quantize(raw[k], mul), FALSE)],
         !.info = info \o [k \in 1 .. PerIter |->
                             [base |-> Distance(raw[k], xBest), last |-> 0]],
         !.search = AfterPropose(bundle, s, xBest, draws),
         !.improved = FALSE, !.polled = FALSE, !.stepsLeft = budget,
         !.phase = "select"]

CorePolled(c) ==
  LET pts == PollPoints(xBest) IN
  [c EXCEPT
     !.cands = cands \o [d \in 1 .. Len(pts) |-> NewCandidate(pts[d], TRUE)],
     !.info = info \o [d \in 1 .. Len(pts) |-> [base |-> PollScore, last |-> 0]],
     !.polled = TRUE]

\* The head of the queue, as many as fit in a batch.
IsHead(picked) ==
  /\ \A i \in picked, j \in Ready \ picked : RanksBefore(i, j)
  /\ Cardinality(picked) = BatchSize

QueueHead == CHOOSE picked \in SUBSET Ready : IsHead(picked)

CoreDispatched(c, known, picked) ==
  [c EXCEPT
     !.cands = [i \in DOMAIN cands |->
                  IF i \in picked THEN [cands[i] EXCEPT !.status = "flight"]
                                  ELSE cands[i]],
     !.verdicts = [i \in picked |-> Verdict(known, cands[i].x, cands[i].next)],
     !.stepsLeft = Spend(Cardinality(picked)),
     !.phase = "join"]

\* The item whose turn it is.
IsFirst(verdicts, i) ==
  /\ i \in DOMAIN verdicts
  /\ \A j \in DOMAIN verdicts : j = i \/ IdLess(i, j)

\* A candidate cut at level p, or audited there.
CutOrAudited(c, p) ==
  AfterEarly(IF ~c.audit /\ p >= asg /\ <<c.x, p>> \in AuditSet
               THEN [c EXCEPT !.audit = TRUE, !.cut = p] ELSE c, p)

CutsAt(e, p) == EarlyInfeasible(e, p, th) /\ p >= asg

\* What becomes of a candidate with estimates, cheap constraints checked.
Judged(b, p, e) ==
  IF p = L THEN [b EXCEPT !.status = "truth"]
  ELSE IF CutsAt(e, p) THEN CutOrAudited(b, p)
  ELSE IF Prunes(e, p, b.audit) THEN [b EXCEPT !.status = "stopped"]
  ELSE [b EXCEPT !.status = "ready", !.next = NextLevel(b, p)]

\* What becomes of candidate a.
Fate(a, verdict) ==
  LET p == a.next
      b == CheapChecked(a)
  IN  IF verdict = "partial" THEN [a EXCEPT !.status = "ready", !.next = NextLevel(a, p)]
      ELSE IF verdict = "early" THEN CutOrAudited(a, p)
      ELSE IF verdict = "truth" THEN [a EXCEPT !.status = "truth"]
      ELSE IF verdict = "invalid" THEN [a EXCEPT !.status = "invalid"]
      ELSE IF b.cheap = "bad" THEN [b EXCEPT !.status = "cheap"]
      ELSE Judged(b, p, ev.est[a.x][p])

\* What is known then.
Learned(known, a, verdict) ==
  LET p == a.next
      kind == IF p = L THEN "truth"
              ELSE IF CutsAt(ev.est[a.x][p], p) THEN "early" ELSE "partial"
  IN  IF verdict \notin {"est", "none"} THEN known
      ELSE IF CheapChecked(a).cheap = "bad"
        THEN Put(known, DecisionKey(a.x, p, "cheap"), "cheap")
      ELSE Put(known, DecisionKey(a.x, p, TagOf(p)), kind)

\* A TRUTH result e for point x, as Accept has it.
CoreAccepted(c, x, e) ==
  LET v == Larger(e.c, 0)
      yes == Accepts(e.f, v)
  IN  [c EXCEPT
         !.incumbent = IF v <= h /\ BetterFeasible(e.f, v) THEN e.f ELSE incumbent,
         !.points = IF yes THEN FilterInsert(e.f, v) ELSE points,
         !.improved = IF yes THEN TRUE ELSE improved,
         !.xBest = IF yes THEN x ELSE xBest,
         !.fBest = IF yes THEN e.f ELSE fBest]

CoreSettled(c, known, verdicts, i) ==
  LET d == Fate(cands[i], verdicts[i])
      s == [c EXCEPT
              !.cands = [cands EXCEPT ![i] = d],
              !.info = [info EXCEPT ![i].last = cands[i].next],
              !.events = Append(events, Event(i, cands[i].next, verdicts[i], d)),
              !.verdicts = [j \in DOMAIN verdicts \ {i} |-> verdicts[j]],
              !.known = Learned(known, cands[i], verdicts[i])]
  IN  IF d.status = "truth" THEN CoreAccepted(s, cands[i].x, ev.est[cands[i].x][L]) ELSE s

\* The evaluation unwound and the engine thread with it.
Unwinds(verdict, a) == verdict = "none" /\ CheapChecked(a).cheap # "bad"

CoreProcessed(c, known, verdicts, i) ==
  IF Unwinds(verdicts[i], cands[i])
    THEN [c EXCEPT !.phase = "panicked",
                   !.info = [info EXCEPT ![i].last = cands[i].next],
                   !.events = Append(events, Event(i, cands[i].next, verdicts[i], cands[i]))]
    ELSE CoreSettled(c, known, verdicts, i)

CoreSelected(c, known) ==
  IF stepsLeft = 0 \/ (Ready = {} /\ ~CanPoll) THEN [c EXCEPT !.phase = "iterend"]
  ELSE IF Ready = {} THEN CorePolled(c)
  ELSE CoreDispatched(c, known, QueueHead)

CoreRevised(c) ==
  [c EXCEPT
     !.th = Revised.th, !.asg = Revised.asg,
     !.rev = rev + Bump(Learning(Revised)) + Bump(Revised.asg # asg),
     !.events = Append(events, BatchEnd),
     !.phase = "select"]

CoreJoined(c, known, verdicts) ==
  IF DOMAIN verdicts = {} THEN CoreRevised(c)
  ELSE CoreProcessed(c, known, verdicts, CHOOSE i \in DOMAIN verdicts : IsFirst(verdicts, i))

CoreEnded(c) ==
  [c EXCEPT
     !.h = IF polled /\ ~improved THEN Tightened ELSE h,
     !.mul = IF polled /\ ~improved THEN Refined ELSE mul,
     !.iter = iter + 1,
     !.phase = LoopPhase(iter + 1)]

NextCore(known, verdicts) ==
  LET c == Core(known, verdicts) IN
  IF phase = "propose" THEN CoreProposed(c)
  ELSE IF phase = "select" THEN CoreSelected(c, known)
  ELSE IF phase = "join" THEN CoreJoined(c, known, verdicts)
  ELSE IF phase = "iterend" THEN CoreEnded(c)
  ELSE c
=============================================================================
