-------------------------------- MODULE Tlb --------------------------------
(***************************************************************************)
(* The translation of mapped addresses, device/r4300/tlb.c and the         *)
(* instructions TLBWI and TLBWR.  A TLB entry maps two neighbouring pages, *)
(* the even and the odd one, to page frames.  The emulator does not search *)
(* the entries: it keeps two tables by page, LUT_r for reading and LUT_w   *)
(* for writing, and brings them up to date with each entry that is         *)
(* written.                                                                *)
(*                                                                         *)
(* Pages are of the smallest size, frames are within the physical memory,  *)
(* and address spaces (ASID) are left out: the tables do not know them.    *)
(***************************************************************************)
EXTENDS Integers, FiniteSets

CONSTANTS
    Entries,   \* the TLB's entries, 0 to 31 in the code
    Vpns,      \* values of vpn2, each an even and an odd page
    Frames,    \* page frames
    NoFrame,   \* a 0 in the tables
    NewEntries \* bound: the entries that programs write

Halves == {"even", "odd"}

MappedPages == Vpns \X Halves

(* What a half maps to; v and d are its valid and dirty (writable) bits.   *)
Half == [v : BOOLEAN, d : BOOLEAN, pfn : Frames]

Entry == [vpn2 : Vpns, half : [Halves -> Half]]

ASSUME TlbAssumption ==
    /\ NewEntries \subseteq Entry
    /\ NoFrame \notin Frames
    /\ Frames # {} /\ Vpns # {}

VARIABLES
    entries, \* tlb->entries
    LUT_r,   \* tlb->LUT_r, tlb->LUT_w
    LUT_w

tlbVars == <<entries, LUT_r, LUT_w>>

TlbTypeOK ==
    /\ entries \in [Entries -> Entry]
    /\ LUT_r \in [MappedPages -> Frames \cup {NoFrame}]
    /\ LUT_w \in [MappedPages -> Frames \cup {NoFrame}]

(* The pages an entry lets be read, and be written. *)
Reads(e) == {p \in MappedPages : p[1] = e.vpn2 /\ e.half[p[2]].v}

Writes(e) == {p \in Reads(e) : e.half[p[2]].d}

(* Programs do not let two entries translate the same page, which stops    *)
(* the CPU of the console.                                                 *)
Disjoint(es) == \A i, j \in Entries : i # j => Reads(es[i]) \cap Reads(es[j]) = {}

(* Mutant: the odd page stays in the table. *)
tlb_unmapEven(table, pages) ==
    [p \in MappedPages |-> IF p \in pages /\ p[2] = "even" THEN NoFrame ELSE table[p]]

(* tlb_unmap and tlb_map, of one of the tables *)
tlb_unmap(table, pages) ==
    [p \in MappedPages |-> IF p \in pages THEN NoFrame ELSE table[p]]

tlb_map(table, pages, e) ==
    [p \in MappedPages |-> IF p \in pages THEN e.half[p[2]].pfn ELSE table[p]]

(* poweron_tlb, and whatever vpn2 an entry of zeros has *)
TlbInit ==
    /\ \E vpn \in Vpns, f \in Frames :
          entries = [i \in Entries |->
                       [vpn2 |-> vpn, half |-> [h \in Halves |->
                                                 [v |-> FALSE, d |-> FALSE, pfn |-> f]]]]
    /\ LUT_r = [p \in MappedPages |-> NoFrame]
    /\ LUT_w = LUT_r

(* The tables as the entries es have them, which do not overlap. *)
ReadTable(es) ==
    [p \in MappedPages |->
        IF \E i \in Entries : p \in Reads(es[i])
        THEN es[CHOOSE i \in Entries : p \in Reads(es[i])].half[p[2]].pfn
        ELSE NoFrame]

WriteTable(es) ==
    [p \in MappedPages |->
        IF \E i \in Entries : p \in Writes(es[i]) THEN ReadTable(es)[p] ELSE NoFrame]

(* TLBWrite, as far as it is about the tables. *)
TLBWrite(idx, new) ==
    /\ entries' = [entries EXCEPT ![idx] = new]
    /\ Disjoint(entries')
    /\ LUT_r' = tlb_map(tlb_unmap(LUT_r, Reads(entries[idx])), Reads(new), new)
    /\ LUT_w' = tlb_map(tlb_unmap(LUT_w, Writes(entries[idx])), Writes(new), new)

-----------------------------------------------------------------------------
(* The tables say what the entries say: whatever is overwritten in         *)
(* whatever order, no translation is left behind and none is dropped.      *)
TablesMatchEntries ==
    \A p \in MappedPages :
        /\ \A i \in Entries : p \in Reads(entries[i]) =>
              /\ LUT_r[p] = entries[i].half[p[2]].pfn
              /\ LUT_w[p] = IF p \in Writes(entries[i]) THEN LUT_r[p] ELSE NoFrame
        /\ (\A i \in Entries : p \notin Reads(entries[i])) =>
              LUT_r[p] = NoFrame /\ LUT_w[p] = NoFrame
=============================================================================
