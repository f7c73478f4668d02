--------------------------- MODULE MCInterrupts ---------------------------
(* Small instances of the event queue for TLC: a Count that turns after 10 *)
(* or 20 ticks, blocks of at most 2, one or two values for each register.  *)
EXTENDS Interrupts

(* Bound: MTC0 finds that no count has passed only right after a jump.     *)
NoCountOnlyAfterJump ==
    block' = block /\ block # 0 => PiReset \/ Signal \/ Clear \/ Fault

(* Bound: the events that pile up, of DMAs reset by a program that keeps   *)
(* no rule, are those of short DMAs.                                       *)
ShortDmas ==
    m.disciplined \/ \A i \in 1 .. Len(m.q) : m.q[i].type = "PI" => m.q[i].left <= 0
=============================================================================
