----------------------------- MODULE AuditPath ------------------------------
(***************************************************************************)
(* The fidelity ladder and the way an audited candidate takes through it   *)
(* (collect_paired_phi_indices and next_audit_target_idx of                *)
(* imads-core/src/core/engine.rs).  Levels are counted from 1 (phi_idx+1); *)
(* level L is TRUTH.                                                       *)
(***************************************************************************)
EXTENDS Integers, Sequences

CONSTANT Ladder   \* the fidelity ladder, a sequence of [tau, smc]

L == Len(Ladder)
Levels == 1 .. L

ASSUME LadderAssumption ==
  /\ L \in Nat \ {0}
  /\ \A p \in Levels : Ladder[p].tau \in Nat \ {0} /\ Ladder[p].smc \in Nat

\* collect_paired_phi_indices: later levels with the same sample count and a
\* tighter tolerance.
Paired(cut) ==
  {p \in cut + 1 .. L : /\ Ladder[p].smc = Ladder[cut].smc
                        /\ Ladder[p].tau < Ladder[cut].tau}

\* Mutant of NextAuditTarget: a checkpoint just visited is offered again.
NextAuditTargetStuck(cut, p) ==
  LET ahead == {q \in Paired(cut) : q >= p}
  IN  IF ahead = {} THEN L ELSE CHOOSE q \in ahead : \A r \in ahead : q <= r

\* next_audit_target_idx: the next paired checkpoint, then TRUTH.
NextAuditTarget(cut, p) ==
  LET ahead == {q \in Paired(cut) : q > p}
  IN  IF ahead = {} THEN L ELSE CHOOSE q \in ahead : \A r \in ahead : q <= r

=============================================================================
