----------------------------- MODULE CodeCache -----------------------------
(***************************************************************************)
(* The cached interpreter (device/r4300/cached_interp.c): every page of    *)
(* code is translated into a block of decoded instructions, word by word   *)
(* when it is first run, and the block is run instead of the memory.       *)
(* Memory is reached through three kinds of address: directly through      *)
(* KSEG0 and KSEG1, and through pages the TLB maps.  Each has its block    *)
(* and its byte of invalid_code, and whoever writes to memory must see to  *)
(* it that no block of the old code is entered again.                      *)
(*                                                                         *)
(* A block is entered by a jump from another page; a program that writes   *)
(* to the page it runs on goes on with the old code until it leaves it.    *)
(* A DMA that begins in the middle of a word ends in one, which the code   *)
(* may overlook: overlooked and aligned keep track of it.                  *)
(* A hash of a page is its contents.  Left out: the quarter of the next    *)
(* page that a block may run on into, and delay slots across pages.        *)
(***************************************************************************)
EXTENDS Tlb

CONSTANTS
    Words,    \* 1 .. n, the instructions of a page
    Values,   \* what a word can hold
    Holds,    \* bound: the contents that a frame comes to have, also from files
    Vectors,  \* the frame of the exception vectors
    NoBlock,  \* NULL in blocks
    Nowhere,  \* no page
    NoHash,   \* xxhash = 0
    Files     \* bound: the state files: memory, entries of the TLB and pc

Segments == {"KSEG0", "KSEG1"}

DirectPages == Frames \X Segments

Pages == DirectPages \cup MappedPages

NotCompiled == "NOTCOMPILED"
NotCompiled2 == "NOTCOMPILED2"  \* not compiled here, but for a mapped page
Waiting == {NotCompiled, NotCompiled2}

Contents == [Words -> Values]

ASSUME CodeCacheAssumption ==
    /\ Vectors \in Frames
    /\ Frames \cap Vpns = {}
    /\ Values \cap Waiting = {} /\ NoBlock \notin [Words -> Values \cup Waiting]
    /\ Files \subseteq [mem : [Frames -> Contents], entries : [Entries -> Entry], pc : Pages]
    /\ \A file \in Files : /\ Disjoint(file.entries)
                           /\ \A f \in Frames : file.mem[f] \in Holds[f]
    /\ NoHash \notin Contents /\ Nowhere \notin Pages
    /\ Holds \in [Frames -> SUBSET Contents]
    /\ Words \subseteq Nat

VARIABLES
    mem,   \* contents of each frame
    c,     \* the cache: by page, invalid (invalid_code), block (blocks), xxhash
    pc,    \* the page the CPU runs on
    ranAs, \* history: the page as which each frame was run, or Nowhere
    tidy,  \* history: each frame was run as one page only, KSEG0 and KSEG1
           \* taken together
    overlooked, \* history: <<frame, word>> that the last write to it overlooked
    aligned     \* history: no write has overlooked a word

histories == <<ranAs, tidy, overlooked, aligned>>

vars == <<entries, LUT_r, LUT_w, mem, c, pc, ranAs, tidy, overlooked, aligned>>

Cache == [invalid : [Pages -> BOOLEAN],
          block : [Pages -> [Words -> Values \cup Waiting] \cup {NoBlock}],
          xxhash : [Pages -> Contents \cup {NoHash}]]

TypeOK ==
    /\ TlbTypeOK
    /\ mem \in [Frames -> Contents]
    /\ c \in Cache
    /\ pc \in Pages \cup {Nowhere}
    /\ ranAs \in [Frames -> Pages \cup {Nowhere}]
    /\ overlooked \in SUBSET (Frames \X Words)
    /\ tidy \in BOOLEAN /\ aligned \in BOOLEAN

Direct(p) == p \in DirectPages

Twin(p) == IF p[2] = "KSEG0" THEN <<p[1], "KSEG1">> ELSE <<p[1], "KSEG0">>

Kseg0(f) == <<f, "KSEG0">>

(* virtual_to_physical_address, for reading, by the table lut *)
FrameOf(lut, p) == IF Direct(p) THEN p[1] ELSE lut[p]

-----------------------------------------------------------------------------
(* Entering a page.                                                        *)

(* update_invalid_addr: pages of one frame are invalid together. *)
Paired(r, p, q) ==
    LET either == r.invalid[p] \/ r.invalid[q]
    IN [r EXCEPT !.invalid[p] = either, !.invalid[q] = either]

update_invalid_addr(lut, r, p) ==
    IF Direct(p) THEN Paired(r, p, Twin(p))
    ELSE LET k == Kseg0(lut[p]) IN Paired(Paired(r, k, Twin(k)), k, p)

(* Mutant: a block that is there already is kept. *)
ResetOnce(r, p) ==
    [r EXCEPT !.block[p] = IF @ = NoBlock THEN [w \in Words |-> NotCompiled] ELSE @,
              !.invalid[p] = FALSE]

Reset(r, p) ==
    [r EXCEPT !.block[p] = [w \in Words |-> NotCompiled], !.invalid[p] = FALSE]

(* cached_interp_init_block *)
InitDirect(r, p) ==
    LET reset == Reset(r, p)
    IN IF r.invalid[Twin(p)] THEN Reset(reset, Twin(p)) ELSE reset

(* Mutant: the frame of a mapped page gets no block. *)
init_blockAlone(lut, r, p) ==
    IF Direct(p) THEN InitDirect(r, p) ELSE Reset(r, p)

init_block(lut, r, p) ==
    IF Direct(p) THEN InitDirect(r, p) ELSE InitDirect(Reset(r, p), Kseg0(lut[p]))

Entered(lut, r, p) ==
    LET updated == update_invalid_addr(lut, r, p)
    IN IF updated.invalid[p] THEN init_block(lut, updated, p) ELSE updated

(* What a page of code is run as: KSEG0 stands for both segments. *)
Way(p) == IF Direct(p) THEN Kseg0(p[1]) ELSE p

(* A page without a translation raises a TLB refill, and                   *)
(* TLB_refill_exception jumps to the vectors.                              *)
Landing(lut, p) == IF FrameOf(lut, p) = NoFrame THEN Kseg0(Vectors) ELSE p

Arrive(lut, p) ==
    LET f == FrameOf(lut, p)
    IN /\ pc' = p
       /\ ranAs' = [ranAs EXCEPT ![f] = IF @ = Nowhere THEN Way(p) ELSE @]
       /\ tidy' = (tidy /\ ranAs[f] \in {Nowhere, Way(p)})

(* cached_interpreter_jump_to, from the cache r *)
Enter(r, p) ==
    LET at == Landing(LUT_r, p)
    IN /\ c' = Entered(LUT_r, r, at)
       /\ Arrive(LUT_r, at)
       /\ UNCHANGED <<overlooked, aligned>>

JumpTo(p) ==
    /\ Enter(c, p)
    /\ UNCHANGED <<entries, LUT_r, LUT_w, mem>>

(* Mutant: the KSEG0 page is not marked. *)
CompileUnmarked(w, last) ==
    LET f == FrameOf(LUT_r, pc)
        run == w .. last
    IN /\ pc # Nowhere /\ c.block[pc][w] \in Waiting
       /\ c' = [c EXCEPT
                  !.block[pc] = [i \in Words |-> IF i \in run THEN mem[f][i] ELSE @[i]],
                  !.xxhash[pc] = NoHash]
       /\ UNCHANGED <<entries, LUT_r, LUT_w, mem, pc, histories>>

(* cached_interp_NOTCOMPILED: the words from w to the next unconditional   *)
(* jump are decoded.  For a mapped page the same words of the KSEG0 page   *)
(* are marked, so that a write to them invalidates it.                     *)
Compile(w, last) ==
    LET f == FrameOf(LUT_r, pc)
        k == Kseg0(f)
        run == w .. last
        decoded == [c EXCEPT
            !.block[pc] = [i \in Words |-> IF i \in run THEN mem[f][i] ELSE @[i]],
            !.xxhash[pc] = NoHash]
        Mark(i, op) == IF i \in run /\ op = NotCompiled THEN NotCompiled2 ELSE op
    IN /\ pc # Nowhere /\ c.block[pc][w] \in Waiting
       /\ c' = IF Direct(pc) THEN decoded
               ELSE [decoded EXCEPT !.block[k] = [i \in Words |-> Mark(i, @[i])]]
       /\ UNCHANGED <<entries, LUT_r, LUT_w, mem, pc, histories>>

-----------------------------------------------------------------------------
(* Writing to memory.                                                      *)

(* invalidate_cached_code_hacktarux: words that have not been compiled do  *)
(* not count.                                                              *)
Compiled(r, p, words) ==
    r.block[p] = NoBlock \/ \E w \in words : r.block[p][w] # NotCompiled

Invalidated(r, p, words) == [r EXCEPT !.invalid[p] = @ \/ Compiled(r, p, words)]

(* looked: for each segment the words that are looked at. *)
InvalidatedBoth(r, f, looked) ==
    Invalidated(Invalidated(r, <<f, "KSEG0">>, looked["KSEG0"]), <<f, "KSEG1">>, looked["KSEG1"])

Write(f, new, r) ==
    /\ new \in Holds[f]
    /\ mem' = [mem EXCEPT ![f] = new]
    /\ c' = r
    /\ UNCHANGED <<entries, LUT_r, LUT_w, pc, ranAs, tidy>>

(* r4300_write_aligned_word *)
Store(p, w, x) ==
    LET r == IF Direct(p) THEN c ELSE Invalidated(c, p, {w})
        f == IF Direct(p) THEN p[1] ELSE LUT_w[p]
    IN IF f = NoFrame
       THEN Enter(r, Kseg0(Vectors)) /\ UNCHANGED <<entries, LUT_r, LUT_w, mem>>
       ELSE /\ Write(f, [mem[f] EXCEPT ![w] = x], InvalidatedBoth(r, f, [s \in Segments |-> {w}]))
            /\ overlooked' = overlooked \ {<<f, w>>}
            /\ UNCHANGED aligned

(* cart_rom_dma_write, on one page.  The loop that invalidates goes by     *)
(* four from where the DMA begins.  When that is the middle of a word, it  *)
(* may stop before the last word, of which half is written: missed are the *)
(* segments for which it does, those in which no page before this one has  *)
(* brought it back to whole words.                                         *)
Dma(f, first, last, missed, new) ==
    LET looked == [s \in Segments |-> first .. (IF s \in missed THEN last - 1 ELSE last)]
    IN /\ \A w \in Words \ (first .. last) : new[w] = mem[f][w]
       /\ Write(f, new, InvalidatedBoth(c, f, looked))
       /\ overlooked' = (overlooked \ ({f} \X (first .. last)))
                           \cup (IF missed = {} THEN {} ELSE {<<f, last>>})
       /\ aligned' = (aligned /\ missed = {})

-----------------------------------------------------------------------------
(* TLBWrite: before the entry is replaced, the hash of each valid page it  *)
(* maps is kept, and what it comes to map is valid again if the hash fits. *)
HashKept(r, p) ==
    LET k == Kseg0(LUT_r[p])
        valid == ~ (r.invalid[p] \/ r.invalid[k] \/ r.invalid[Twin(k)])
    IN [r EXCEPT !.invalid[p] = TRUE,
                 !.xxhash[p] = IF valid THEN mem[LUT_r[p]]
                               ELSE IF r.block[p] # NoBlock THEN NoHash ELSE @]

(* Mutant: what was compiled under another translation is taken as it is. *)
RevivedAlways(r, p, f) ==
    [r EXCEPT !.invalid[p] = @ /\ ~ (r.block[p] # NoBlock)]

Revived(r, p, f) ==
    LET fits == r.block[p] # NoBlock /\ r.xxhash[p] = mem[f]
    IN [r EXCEPT !.invalid[p] = @ /\ ~fits]

(* An entry that maps the running page is not replaced. *)
WriteEntry(idx, new) ==
    LET old == entries[idx]
        even(e) == <<e.vpn2, "even">>
        odd(e) == <<e.vpn2, "odd">>
        Old(r, p) == IF p \in Reads(old) THEN HashKept(r, p) ELSE r
        New(r, p) == IF p \in Reads(new) THEN Revived(r, p, new.half[p[2]].pfn) ELSE r
    IN /\ pc \notin Reads(old)
       /\ TLBWrite(idx, new)
       /\ c' = New(New(Old(Old(c, even(old)), odd(old)), even(new)), odd(new))
       /\ UNCHANGED <<mem, pc, histories>>

-----------------------------------------------------------------------------
(* What replaces everything.                                               *)

(* invalidate_cached_code_hacktarux, for a size of 0 *)
AllInvalid(r) == [r EXCEPT !.invalid = [p \in Pages |-> TRUE]]

(* cart_rom_dma_write, when dma_pi_write has brought the length down to 0 *)
EmptyDma ==
    /\ c' = AllInvalid(c)
    /\ UNCHANGED <<entries, LUT_r, LUT_w, mem, pc, histories>>

(* nmi_int_handler: the machine goes on in KSEG1.  The few words that      *)
(* pif_bootrom_hle_execute leaves in the memory of the SP are left out.    *)
SoftReset ==
    /\ Enter(AllInvalid(c), <<Vectors, "KSEG1">>)
    /\ UNCHANGED <<entries, LUT_r, LUT_w, mem>>

(* savestates_load_m64p: the memory and the TLB of the file, and then      *)
(* savestates_load_set_pc, which jumps before it invalidates.              *)
LoadState(file) ==
    LET es == file.entries
        lut == ReadTable(es)
        at == Landing(lut, file.pc)
    IN /\ mem' = file.mem
       /\ entries' = es
       /\ LUT_r' = lut
       /\ LUT_w' = WriteTable(es)
       /\ c' = AllInvalid(Entered(lut, c, at))
       /\ Arrive(lut, at)
       /\ UNCHANGED <<overlooked, aligned>>

(* Before the first jump: init_blocks *)
Init ==
    /\ TlbInit
    /\ mem \in [Frames -> Contents] /\ \A f \in Frames : mem[f] \in Holds[f]
    /\ c = [invalid |-> [p \in Pages |-> TRUE],
            block |-> [p \in Pages |-> NoBlock],
            xxhash |-> [p \in Pages |-> NoHash]]
    /\ pc = Nowhere
    /\ ranAs = [f \in Frames |-> Nowhere]
    /\ tidy = TRUE /\ overlooked = {} /\ aligned = TRUE

Next ==
    \/ \E p \in Pages : JumpTo(p)
    \/ \E w, last \in Words : w <= last /\ Compile(w, last)
    \/ \E p \in Pages, w \in Words, x \in Values : Store(p, w, x)
    \/ \E f \in Frames, first, last \in Words, missed \in SUBSET Segments :
          first <= last /\ \E new \in Holds[f] : Dma(f, first, last, missed, new)
    \/ EmptyDma
    \/ \E idx \in Entries, new \in NewEntries : WriteEntry(idx, new)
    \/ SoftReset
    \/ \E file \in Files : LoadState(file)

Spec == Init /\ [][Next]_vars

-----------------------------------------------------------------------------
Fresh(p, f, words) ==
    c.block[p] # NoBlock => \A w \in words : c.block[p][w] \in Waiting \cup {mem[f][w]}

(* A page that a jump would enter as it is holds the code that is in       *)
(* memory: through the direct segments, for any program, but for the words *)
(* at the end of a DMA that the loop of cached_interp.c:962 overlooks.     *)
DirectCodeIsCurrent ==
    \A p \in DirectPages :
        ~ (c.invalid[p] \/ c.invalid[Twin(p)]) =>
            Fresh(p, p[1], {w \in Words : <<p[1], w>> \notin overlooked})

(* Through the TLB, for programs that run each frame as one page, never    *)
(* have the same code in two frames and have no word overlooked.           *)
MappedCodeIsCurrent ==
    (tidy /\ aligned /\ \A f, g \in Frames : f # g => Holds[f] \cap Holds[g] = {}) =>
        \A p \in MappedPages :
            (/\ LUT_r[p] # NoFrame /\ ranAs[LUT_r[p]] \in {Nowhere, p}
             /\ ~ update_invalid_addr(LUT_r, c, p).invalid[p]) => Fresh(p, LUT_r[p], Words)

(* Blocks are there when they are used: those that are valid, and for a    *)
(* mapped page the one of its frame, which compiling writes to.            *)
ValidHasBlock ==
    /\ \A p \in Pages : ~ c.invalid[p] => c.block[p] # NoBlock
    /\ pc # Nowhere =>
          /\ FrameOf(LUT_r, pc) # NoFrame
          /\ c.block[pc] # NoBlock
          /\ c.block[Kseg0(FrameOf(LUT_r, pc))] # NoBlock

(* A state that is loaded runs the code of its memory (r4300_core.h:242:   *)
(* with a size of 0 all cached code is to be invalidated).                 *)
LoadedCodeRuns ==
    [][\A file \in Files : LoadState(file) => Fresh(pc, FrameOf(LUT_r, pc), Words)']_vars
=============================================================================
