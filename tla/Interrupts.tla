---------------------------- MODULE Interrupts ----------------------------
(***************************************************************************)
(* The clock of the emulated machine: the event queue of                   *)
(* device/r4300/interrupt.c, the COP0 registers that drive it (Count,      *)
(* Compare, Status, Cause), the MIPS interface and two devices, the video  *)
(* interface (VI) and the cartridge DMA of the parallel interface (PI).    *)
(*                                                                         *)
(* Count is a 32-bit counter that wraps; an event is an entry with the     *)
(* Count value it is due at.  cycle_count, a negative number of counts up  *)
(* to the first event, is what the CPU tests after every jump.             *)
(*                                                                         *)
(* As the interpreters execute it (emumode < 2).  Left out: register       *)
(* writes in delay slots, next_interrupt, which only the dynamic           *)
(* recompiler reads, soft and hard reset, and the software interrupts.     *)
(* The mask bits of Status are part of "enabled", and MI_INTR_REG with its *)
(* mask is one bit, "line": whether some unmasked interrupt is pending.    *)
(***************************************************************************)
EXTENDS Integers, Sequences, FiniteSets, SequencesExt

CONSTANTS
    Modulus,       \* 2^32: the range of Count
    Capacity,      \* INTERRUPT_NODES_POOL_CAPACITY, 16 in the code
    CountPerOp,    \* count_per_op, with count_per_op_denom_pot = 0
    FirstCount,    \* Count at power-on, 0x5000 in the code
    ViDelay,       \* vi->delay
    PiDelays,      \* what dma_read and dma_write return
    CountValues,   \* values programs write to Count
    CompareValues, \* values programs write to Compare
    MaxBlock,      \* bound: counts between two jumps
    MaxLate,       \* bound: counts an event waits after it is due
    Disciplines    \* whether programs keep the rules of Passes, Access and
                   \* PiReset: TRUE, FALSE or both

Half == Modulus \div 2
Counts == 0 .. Modulus - 1

(* The bounds are short beside half a turn of Count, as a block and a delay *)
(* are beside 2^31, no event waits as long as a frame, and the pool holds  *)
(* one event of every type.                                                *)
ASSUME InterruptsAssumption ==
    /\ Half \in Nat \ {0} /\ Modulus = 2 * Half
    /\ Capacity \in Nat /\ Capacity >= 5
    /\ CountPerOp \in 1 .. Half - 1 /\ FirstCount \in 0 .. Half - 1
    /\ ViDelay \in 1 .. Half - 1 /\ PiDelays \subseteq 0 .. Half - 1
    /\ CountValues \subseteq Counts /\ CompareValues \subseteq Counts
    /\ MaxBlock \in 1 .. Half - 1 /\ MaxLate \in 0 .. ViDelay - 1
    /\ 2 * MaxLate + CountPerOp < Half /\ Disciplines \subseteq BOOLEAN

Types == {"VI", "COMPARE", "CHECK", "PI", "SPECIAL"}
Lines == {"rcp", "timer"}   \* CP0_CAUSE_IP2 and CP0_CAUSE_IP7

VARIABLES
    m,       \* the machine: a record of
             \*   count, compare, cycle: Count, Compare, cycle_count
             \*   q: the event queue; an entry's "left" is a history of the
             \*      counts there really are before it is due, never wrapped
             \*   enabled, exl: Status; ip: Cause; line: MI; busy: PI_STATUS
             \*   disciplined: whether this program keeps the rules, never changed
    block    \* counts since the last jump

vars == <<m, block>>

Signed(n) == IF n % Modulus < Half THEN n % Modulus ELSE (n % Modulus) - Modulus

Ahead(c, base) == (c - base) % Modulus

TypeOK ==
    /\ m.count \in Counts /\ m.compare \in Counts
    /\ m.cycle \in -Half .. Half - 1
    /\ m.q \in Seq([type : Types, count : Counts, left : Int])
    /\ Len(m.q) <= Capacity
    /\ m.enabled \in SUBSET Lines /\ m.exl \in BOOLEAN /\ m.ip \in SUBSET Lines
    /\ m.line \in BOOLEAN /\ m.busy \in BOOLEAN /\ m.disciplined \in Disciplines
    /\ block \in 0 .. MaxBlock

-----------------------------------------------------------------------------
(* The event queue.                                                        *)

Event(type, c, left) == [type |-> type, count |-> c, left |-> left]

Queued(r, type) == \E i \in 1 .. Len(r.q) : r.q[i].type = type

(* Mutant: events are compared from Count also when one is overdue. *)
BaseNow(r) == r.count

(* Times are compared from Count, or from the first event when that is     *)
(* overdue.                                                                *)
Base(r) == (r.count - (IF r.cycle > 0 THEN r.cycle ELSE 0)) % Modulus

before_event(r, c1, c2) == Ahead(c1, Base(r)) < Ahead(c2, Base(r))

(* cycle_count with this queue *)
CycleOf(r, queue) == IF queue = << >> THEN 0 ELSE Signed(r.count - queue[1].count)

(* add_interrupt_event_count: without a free node nothing happens. *)
Add(r, e) ==
    LET later == {i \in 1 .. Len(r.q) : before_event(r, e.count, r.q[i].count)}
        place == IF later = {} THEN Len(r.q) + 1
                 ELSE CHOOSE i \in later : \A j \in later : i <= j
        queue == InsertAt(r.q, place, e)
    IN IF Len(r.q) >= Capacity THEN r
       ELSE [r EXCEPT !.q = queue, !.cycle = CycleOf(r, queue)]

(* add_interrupt_event *)
AddIn(r, type, delay) == Add(r, Event(type, (r.count + delay) % Modulus, delay))

remove_interrupt_event(r) ==
    [r EXCEPT !.q = Tail(r.q), !.cycle = CycleOf(r, Tail(r.q))]

(* cycle_count stays as it is. *)
remove_event(r, type) ==
    LET ofType == {i \in 1 .. Len(r.q) : r.q[i].type = type}
        first == CHOOSE i \in ofType : \A j \in ofType : i <= j
    IN IF ofType = {} THEN r ELSE [r EXCEPT !.q = RemoveAt(r.q, first)]

(* The next time Count is c, a match with the present instruction missed.  *)
Match(r, c) == ((c - r.count - CountPerOp) % Modulus) + CountPerOp

(* Mutant: cycle_count is left as it is one instruction on. *)
AddCompareAhead(r, c) ==
    LET next == [r EXCEPT !.count = (r.count + CountPerOp) % Modulus,
                          !.cycle = Signed(r.cycle + CountPerOp)]
        added == Add(next, Event("COMPARE", c, Match(r, c)))
    IN [added EXCEPT !.count = r.count]

(* Count is one instruction ahead while the event is added. *)
AddCompare(r, c) ==
    LET next == [r EXCEPT !.count = (r.count + CountPerOp) % Modulus,
                          !.cycle = Signed(r.cycle + CountPerOp)]
        added == Add(next, Event("COMPARE", c, Match(r, c)))
    IN [added EXCEPT !.count = r.count, !.cycle = CycleOf(r, added.q)]

(* The fake event where the top bit of Count flips. *)
AddSpecial(r) ==
    LET c == IF r.count < Half THEN Half ELSE 0
    IN Add(r, Event("SPECIAL", c, Ahead(c, r.count)))

(* save_eventqueue_infos, then load_eventqueue_infos: the entries are      *)
(* added one by one to an empty queue.                                     *)
Loaded(r) ==
    LET loaded[n \in 0 .. Len(r.q)] ==
            IF n = 0 THEN [r EXCEPT !.q = << >>] ELSE Add(loaded[n - 1], r.q[n])
    IN loaded[Len(r.q)]

Reloaded(r) == AddSpecial(remove_event(Loaded(r), "SPECIAL"))

(* translate_event_queue, of a write to Count *)
Translated(r, c) ==
    LET kept == remove_event(remove_event(r, "COMPARE"), "SPECIAL")
        moved == [kept EXCEPT !.count = c,
                    !.q = [i \in 1 .. Len(kept.q) |->
                             [kept.q[i] EXCEPT !.count = (@ - r.count + c) % Modulus]]]
    IN AddCompare(AddSpecial(moved), r.compare)

-----------------------------------------------------------------------------
(* Exceptions.                                                             *)

Pending(r) == r.enabled \cap r.ip # {} /\ ~r.exl

(* Mutant: nothing is queued when the CPU becomes able to take the         *)
(* interrupt.                                                              *)
CheckOnlyCause(r) == [r EXCEPT !.ip = IF r.line THEN @ \cup {"rcp"} ELSE @ \ {"rcp"}]

(* r4300_check_interrupt for CP0_CAUSE_IP2 *)
Check(r) ==
    LET caused == [r EXCEPT !.ip = IF r.line THEN @ \cup {"rcp"} ELSE @ \ {"rcp"}]
    IN IF Pending(caused) /\ Len(r.q) < Capacity
       THEN [caused EXCEPT !.q = << Event("CHECK", r.count, 0) >> \o @, !.cycle = 0]
       ELSE caused

(* raise_maskable_interrupt; exception_general sets EXL. *)
Raise(r, ip) ==
    LET raised == [r EXCEPT !.ip = @ \cup {ip}]
    IN IF Pending(raised) THEN [raised EXCEPT !.exl = TRUE] ELSE raised

(* raise_rcp_interrupt, of a device the MI may mask *)
RaiseRcp(r) == {IF l THEN Raise([r EXCEPT !.line = TRUE], "rcp") ELSE r : l \in {r.line, TRUE}}

-----------------------------------------------------------------------------
(* The handlers of gen_interrupt, each the set of its outcomes.            *)

First(r) == r.q[1]

(* vi_vertical_interrupt_event *)
TakeVi(r) ==
    RaiseRcp(Add(remove_interrupt_event(r),
                 Event("VI", (First(r).count + ViDelay) % Modulus, First(r).left + ViDelay)))

(* compare_int_handler *)
TakeCompare(r) == {Raise(AddCompare(remove_interrupt_event(r), r.compare), "timer")}

(* check_int_handler *)
TakeCheck(r) == {[remove_interrupt_event(r) EXCEPT !.exl = TRUE]}

(* special_int_handler *)
TakeSpecial(r) == {AddSpecial(remove_interrupt_event(r))}

(* Mutant: the DMA stays busy. *)
TakePiBusy(r) == RaiseRcp(remove_interrupt_event(r))

(* pi_end_of_dma_event *)
TakePi(r) == RaiseRcp([remove_interrupt_event(r) EXCEPT !.busy = FALSE])

gen_interrupt(r) ==
    CASE First(r).type = "VI" -> TakeVi(r)
      [] First(r).type = "COMPARE" -> TakeCompare(r)
      [] First(r).type = "CHECK" -> TakeCheck(r)
      [] First(r).type = "SPECIAL" -> TakeSpecial(r)
      [] First(r).type = "PI" -> TakePi(r)

GenIfDue(r) == IF r.cycle >= 0 THEN gen_interrupt(r) ELSE {r}

(* Where it is not in interrupt_unsafe_state, gen_interrupt saves a state  *)
(* once the event has been taken; loading it brings the machine back with  *)
(* its queue rebuilt.                                                      *)
GenOrReload(r) ==
    IF r.cycle >= 0 THEN gen_interrupt(r) \cup {Reloaded(s) : s \in gen_interrupt(r)} ELSE {r}

-----------------------------------------------------------------------------
(* Power-on: poweron_cp0 and init_interrupt. *)
PowerOn(disciplined) ==
    LET cleared == [count |-> FirstCount, compare |-> 0, cycle |-> 0, q |-> << >>,
                    enabled |-> {}, exl |-> FALSE, ip |-> {},
                    line |-> FALSE, busy |-> FALSE, disciplined |-> disciplined]
    IN Add(AddSpecial(cleared), Event("COMPARE", 0, Match(cleared, 0)))

Init == block = 0 /\ \E disciplined \in Disciplines : m = PowerOn(disciplined)

(* cp0_update_count: n counts have passed, of one instruction at least.    *)
(* MTC0 to Count and Compare and ERET call it before they move the PC on:  *)
(* then none need have passed, after a jump or a store (cp0.c:160).        *)
Lapses == CountPerOp .. MaxBlock
EarlyLapses == {0} \cup Lapses

Lapsed(r, n) ==
    [r EXCEPT !.count = (@ + n) % Modulus, !.cycle = Signed(@ + n),
              !.q = [i \in 1 .. Len(r.q) |-> [r.q[i] EXCEPT !.left = @ - n]]]

Later(n) == Lapsed(m, n)

(* A disciplined program has the VI started before half a turn of Count    *)
(* has passed, and leaves a signalled interrupt to be taken before it      *)
(* writes another register.                                                *)
Passes(n) ==
    /\ block + n <= MaxBlock
    /\ m.cycle + n <= MaxLate /\ \A i \in 1 .. Len(m.q) : n - m.q[i].left <= MaxLate
    /\ m.disciplined => Queued(m, "VI") \/ m.count + n < Half

Access(n) ==
    /\ Passes(n)
    /\ m.disciplined => ~ Queued(m, "CHECK")
    /\ block' = block + n

(* A jump is where interrupts are taken. *)
Jump(n) ==
    /\ Passes(n)
    /\ m' \in GenOrReload(Later(n))
    /\ block' = 0

(* VI_V_SYNC_REG and VI_V_INTR_REG, set_vi_vertical_interrupt *)
StartVi(n) ==
    /\ Access(n)
    /\ ~ Queued(m, "VI")
    /\ m' = AddIn(Later(n), "VI", ViDelay)

(* PI_RD_LEN_REG and PI_WR_LEN_REG; a DMA while one is busy is refused.    *)
PiDma(n, cycles) ==
    /\ Access(n)
    /\ ~m.busy
    /\ m' = AddIn([Later(n) EXCEPT !.busy = TRUE], "PI", cycles)

(* PI_STATUS_RESET: the event of a DMA under way stays in the queue. *)
PiReset ==
    /\ m.disciplined => ~m.busy
    /\ m' = [m EXCEPT !.busy = FALSE]
    /\ UNCHANGED block

(* signal_rcp_interrupt, for a bit in SP_STATUS_REG, and                   *)
(* clear_rcp_interrupt, of one of those that may be pending; Count is not  *)
(* brought up to date.                                                     *)
Signal == Access(0) /\ \E l \in {m.line, TRUE} : m' = Check([m EXCEPT !.line = l])

Clear == Access(0) /\ \E l \in {m.line, FALSE} : m' = Check([m EXCEPT !.line = l])

(* MI_INTR_MASK_REG: Count is brought up to date after the check. *)
WriteMask(n) ==
    /\ Access(n)
    /\ \E l \in BOOLEAN : m' \in GenOrReload(Lapsed(Check([m EXCEPT !.line = l]), n))

(* Mutant: the event for the old value stays in the queue. *)
MTC0_COMPAREAgain(n, c) ==
    /\ Access(n)
    /\ m' = [AddCompare(Later(n), c) EXCEPT !.compare = c, !.ip = @ \ {"timer"}]

(* MTC0 to Compare, Count and Status.  The last two set                    *)
(* interrupt_unsafe_state, so no state is saved or loaded.                 *)
MTC0_COMPARE(n, c) ==
    /\ Access(n)
    /\ m' = [AddCompare(remove_event(Later(n), "COMPARE"), c) EXCEPT
               !.compare = c, !.ip = @ \ {"timer"}]

MTC0_COUNT(n, c) ==
    /\ Access(n)
    /\ \E r \in GenIfDue(Later(n)) : m' = Translated(r, c)

MTC0_STATUS(n, enabled, exl) ==
    /\ Access(n)
    /\ m' \in GenIfDue(Check([Later(n) EXCEPT !.enabled = enabled, !.exl = exl]))

ERET(n) ==
    /\ Passes(n)
    /\ m.disciplined => ~ Queued(m, "CHECK")
    /\ m' \in GenOrReload(Check([Later(n) EXCEPT !.exl = FALSE]))
    /\ block' = 0

(* check_cop1_unusable and TLB_refill_exception assign to Cause. *)
Fault ==
    /\ m' = [m EXCEPT !.ip = {}, !.exl = TRUE]
    /\ UNCHANGED block

(* The same in the delay slot of a jump.  exception_epilog zeroes          *)
(* cycle_count so that the jump calls gen_interrupt, which finds skip_jump *)
(* set: it takes no event and works cycle_count out again.                 *)
SkipJump(r) == [r EXCEPT !.cycle = CycleOf(r, r.q)]

FaultInSlot(n) ==
    /\ Passes(n)
    /\ m' = SkipJump([Later(n) EXCEPT !.ip = {}, !.exl = TRUE, !.cycle = 0])
    /\ block' = 0

Next ==
    \/ PiReset \/ Signal \/ Clear \/ Fault
    \/ \E n \in Lapses :
        \/ Jump(n) \/ FaultInSlot(n)
        \/ StartVi(n) \/ (\E cycles \in PiDelays : PiDma(n, cycles))
        \/ WriteMask(n)
        \/ \E enabled \in SUBSET Lines, exl \in BOOLEAN : MTC0_STATUS(n, enabled, exl)
    \/ \E n \in EarlyLapses :
        \/ ERET(n)
        \/ \E c \in CompareValues : MTC0_COMPARE(n, c)
        \/ \E c \in CountValues : MTC0_COUNT(n, c)

Spec == Init /\ [][Next]_vars

-----------------------------------------------------------------------------
(* cycle_count, kept by a dozen separate assignments, is always the        *)
(* distance of Count from the first event.                                 *)
CycleIsCurrent == m.q # << >> /\ m.cycle = CycleOf(m, m.q)

(* The events that queue themselves again are never lost and never queued  *)
(* twice, not when the pool of nodes is exhausted either.                  *)
Copies(type) == Cardinality({i \in 1 .. Len(m.q) : m.q[i].type = type})

SelfQueuing == Copies("SPECIAL") = 1 /\ Copies("COMPARE") = 1 /\ Copies("VI") <= 1

(* No interrupt is lost: one the CPU could take has an event that makes it *)
(* take it, whatever the order in which it was raised, masked and enabled. *)
(* For programs that keep the rules: others can fill the pool with the     *)
(* events of DMAs they have reset, and the CHECK is dropped (354-360).     *)
PendingIsQueued == m.disciplined /\ Pending(m) => Queued(m, "CHECK")

(* A DMA that is under way ends, for programs that keep the rules. *)
BusyHasEvent == m.disciplined /\ m.busy => Queued(m, "PI")

(* An event that is due makes the CPU stop at its next jump, whatever has  *)
(* become of Count since it was queued, for programs that keep the rules.  *)
(* (With an event added behind a CHECK that has not been taken, what is    *)
(* overdue sorts as a turn away.)                                          *)
DueIsSeen ==
    (m.disciplined /\ \E i \in 1 .. Len(m.q) : m.q[i].left <= 0) => m.cycle >= 0

(* What the CPU takes is due, but for the timer. *)
TakenIsDue == m.cycle >= 0 => (First(m).type = "COMPARE" \/ First(m).left <= 0)

(* "Add count_per_op to avoid wrong event order in case CP0_COUNT_REG ==   *)
(* CP0_COMPARE_REG" (line 402): the timer is not taken before its time.    *)
(* Queueing a loaded state's events, and an event due at the same time as  *)
(* the timer, bring the wrong order back.                                  *)
TimerIsDue == (m.cycle >= 0 /\ First(m).type = "COMPARE") => First(m).left <= 0
=============================================================================
