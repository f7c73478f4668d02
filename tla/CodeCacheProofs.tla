-------------------------- MODULE CodeCacheProofs --------------------------
(***************************************************************************)
(* Proofs about the TLB's tables and the code cache, for every number of   *)
(* pages, frames, entries and words.                                       *)
(***************************************************************************)
EXTENDS CodeCache, TLAPS

(* The two tables of entries that do not overlap have what they say. *)
LEMMA TableEntries ==
    ASSUME NEW es \in [Entries -> Entry], Disjoint(es), NEW p \in MappedPages
    PROVE  /\ ReadTable(es)[p] \in Frames \cup {NoFrame}
           /\ WriteTable(es)[p] \in Frames \cup {NoFrame}
           /\ \A i \in Entries : p \in Reads(es[i]) =>
                 /\ ReadTable(es)[p] = es[i].half[p[2]].pfn
                 /\ WriteTable(es)[p] =
                       IF p \in Writes(es[i]) THEN ReadTable(es)[p] ELSE NoFrame
           /\ (\A i \in Entries : p \notin Reads(es[i])) =>
                 ReadTable(es)[p] = NoFrame /\ WriteTable(es)[p] = NoFrame
<1>1. \A e \in Entry : Writes(e) \subseteq Reads(e) /\ e.half[p[2]].pfn \in Frames
    BY DEF Writes, Reads, Entry, Half, MappedPages
<1>2. CASE \A i \in Entries : p \notin Reads(es[i])
    <2>1. \A i \in Entries : p \notin Writes(es[i])
        BY <1>1, <1>2
    <2> QED BY <1>2, <2>1 DEF ReadTable, WriteTable
<1>3. ASSUME NEW i \in Entries, p \in Reads(es[i])
      PROVE  /\ \A j \in Entries : p \in Reads(es[j]) => j = i
             /\ ReadTable(es)[p] = es[i].half[p[2]].pfn
             /\ WriteTable(es)[p] =
                   IF p \in Writes(es[i]) THEN ReadTable(es)[p] ELSE NoFrame
    <2>1. \A j \in Entries : p \in Reads(es[j]) => j = i
        BY <1>3 DEF Disjoint
    <2>2. (CHOOSE j \in Entries : p \in Reads(es[j])) = i
        BY <1>3, <2>1
    <2>3. ReadTable(es)[p] = es[i].half[p[2]].pfn
        BY <1>3, <2>2 DEF ReadTable
    <2>4. (\E j \in Entries : p \in Writes(es[j])) <=> p \in Writes(es[i])
        BY <1>1, <2>1
    <2> QED BY <2>1, <2>3, <2>4 DEF WriteTable
<1> QED BY <1>1, <1>2, <1>3

(* The tables follow the entries that are written. *)
LEMMA TablesFollow ==
    ASSUME TlbTypeOK, TablesMatchEntries, Disjoint(entries), TlbAssumption,
           NEW idx \in Entries, NEW new \in NewEntries, TLBWrite(idx, new)
    PROVE  TlbTypeOK' /\ TablesMatchEntries' /\ Disjoint(entries')
<1> DEFINE old == entries[idx]
<1>1. /\ new \in Entry /\ old \in Entry
      /\ entries' \in [Entries -> Entry]
      /\ entries'[idx] = new /\ \A i \in Entries : i # idx => entries'[i] = entries[i]
      /\ Disjoint(entries')
    BY DEF TLBWrite, TlbTypeOK, TlbAssumption
<1>2. \A e \in Entry, p \in MappedPages :
          e.half[p[2]].pfn \in Frames /\ (p \in Writes(e) => p \in Reads(e))
    BY DEF Writes, Entry, Half, MappedPages
<1>3. TlbTypeOK'
    BY <1>1, <1>2 DEF TLBWrite, TlbTypeOK, tlb_map, tlb_unmap
<1>4. \A p \in MappedPages :
          /\ LUT_r'[p] = IF p \in Reads(new) THEN new.half[p[2]].pfn
                         ELSE IF p \in Reads(old) THEN NoFrame ELSE LUT_r[p]
          /\ LUT_w'[p] = IF p \in Writes(new) THEN new.half[p[2]].pfn
                         ELSE IF p \in Writes(old) THEN NoFrame ELSE LUT_w[p]
    BY DEF TLBWrite, tlb_map, tlb_unmap
<1>5. ASSUME NEW p \in MappedPages, NEW i \in Entries, p \in Reads(entries'[i])
      PROVE  /\ LUT_r'[p] = entries'[i].half[p[2]].pfn
             /\ LUT_w'[p] = IF p \in Writes(entries'[i]) THEN LUT_r'[p] ELSE NoFrame
    <2>1. CASE i = idx
        <3>1. \A j \in Entries : j # idx => p \notin Reads(entries[j])
            BY <1>1, <1>5, <2>1 DEF Disjoint
        <3>2. CASE p \in Reads(old)
            BY <1>1, <1>2, <1>4, <1>5, <2>1, <3>2 DEF TablesMatchEntries
        <3>3. CASE p \notin Reads(old)
            <4>1. LUT_w[p] = NoFrame
                BY <3>1, <3>3 DEF TablesMatchEntries
            <4> QED BY <1>1, <1>2, <1>4, <1>5, <2>1, <4>1
        <3> QED BY <3>2, <3>3
    <2>2. CASE i # idx
        <3>1. p \notin Reads(new) /\ p \notin Reads(old)
            BY <1>1, <1>5, <2>2 DEF Disjoint
        <3>2. p \notin Writes(new) /\ p \notin Writes(old)
            BY <1>1, <1>2, <3>1
        <3> QED BY <1>1, <1>4, <1>5, <2>2, <3>1, <3>2 DEF TablesMatchEntries
    <2> QED BY <2>1, <2>2
<1>6. ASSUME NEW p \in MappedPages, \A i \in Entries : p \notin Reads(entries'[i])
      PROVE  LUT_r'[p] = NoFrame /\ LUT_w'[p] = NoFrame
    <2>1. p \notin Reads(new) /\ p \notin Writes(new)
          /\ \A i \in Entries : i # idx => p \notin Reads(entries[i])
        BY <1>1, <1>2, <1>6
    <2>2. CASE p \in Reads(old)
        BY <1>4, <2>1, <2>2 DEF TablesMatchEntries
    <2>3. CASE p \notin Reads(old)
        <3>1. LUT_r[p] = NoFrame /\ LUT_w[p] = NoFrame
            BY <2>1, <2>3 DEF TablesMatchEntries
        <3> QED BY <1>4, <2>1, <2>3, <3>1
    <2> QED BY <2>2, <2>3
<1> QED BY <1>1, <1>3, <1>5, <1>6 DEF TablesMatchEntries

-----------------------------------------------------------------------------
(* What is said of a cache r, a memory m and the words out that a DMA      *)
(* overlooked, to follow the cache through the calls of one handler.       *)
FreshIn(r, m, out, p) ==
    r.block[p] # NoBlock =>
        \A w \in Words :
            <<p[1], w>> \notin out => r.block[p][w] \in Waiting \cup {m[p[1]][w]}

DirectOk(r, m, out) ==
    \A p \in DirectPages : ~ (r.invalid[p] \/ r.invalid[Twin(p)]) => FreshIn(r, m, out, p)

BlocksThere(r) == \A p \in Pages : ~ r.invalid[p] => r.block[p] # NoBlock

Good(r, m, out) == r \in Cache /\ DirectOk(r, m, out) /\ BlocksThere(r)

Kept(r, s) == \A p \in Pages : r.block[p] # NoBlock => s.block[p] # NoBlock

Uncompiled == [w \in Words |-> NotCompiled]

LEMMA PageFacts ==
    ASSUME CodeCacheAssumption
    PROVE  /\ \A p \in DirectPages :
                 /\ p \in Pages /\ Direct(p) /\ p \notin MappedPages /\ p[1] \in Frames
                 /\ Twin(p) \in DirectPages /\ Twin(p)[1] = p[1]
                 /\ Twin(Twin(p)) = p /\ Twin(p) # p
           /\ \A p \in MappedPages : p \in Pages /\ ~ Direct(p) /\ p \notin DirectPages
           /\ \A p \in Pages : Direct(p) => p \in DirectPages
           /\ \A p \in Pages : ~ Direct(p) => p \in MappedPages
           /\ \A f \in Frames : Kseg0(f) \in DirectPages /\ Kseg0(f)[1] = f
BY DEF CodeCacheAssumption, DirectPages, MappedPages, Pages, Segments, Direct, Twin, Kseg0

LEMMA PairedGood ==
    ASSUME CodeCacheAssumption, NEW m, NEW out, NEW r, Good(r, m, out), NEW p \in Pages, NEW q \in Pages
    PROVE  /\ Good(Paired(r, p, q), m, out)
           /\ Paired(r, p, q).block = r.block /\ Paired(r, p, q).xxhash = r.xxhash
           /\ Paired(r, p, q).invalid[p] <=> r.invalid[p] \/ r.invalid[q]
           /\ Paired(r, p, q).invalid[q] <=> r.invalid[p] \/ r.invalid[q]
           /\ \A o \in Pages : o # p /\ o # q => Paired(r, p, q).invalid[o] = r.invalid[o]
<1> DEFINE s == Paired(r, p, q)
<1>1. /\ s \in Cache /\ s.block = r.block /\ s.xxhash = r.xxhash
      /\ s.invalid[p] <=> r.invalid[p] \/ r.invalid[q]
      /\ s.invalid[q] <=> r.invalid[p] \/ r.invalid[q]
      /\ \A o \in Pages : o \notin {p, q} => s.invalid[o] = r.invalid[o]
    BY DEF Paired, Good, Cache
<1>2. \A o \in Pages : r.invalid[o] => s.invalid[o]
    BY <1>1
<1> HIDE DEF s
<1>3. DirectOk(s, m, out)
    BY <1>1, <1>2, PageFacts DEF DirectOk, FreshIn, Good
<1>4. BlocksThere(s)
    BY <1>1, <1>2 DEF BlocksThere, Good
<1> QED BY <1>1, <1>2, <1>3, <1>4 DEF Good, s

LEMMA ResetFacts ==
    ASSUME CodeCacheAssumption, NEW r \in Cache, NEW p \in Pages
    PROVE  /\ Reset(r, p) \in Cache /\ Reset(r, p).xxhash = r.xxhash
           /\ Reset(r, p).block[p] = Uncompiled /\ ~ Reset(r, p).invalid[p]
           /\ Uncompiled # NoBlock
           /\ \A o \in Pages : o # p => /\ Reset(r, p).block[o] = r.block[o]
                                      /\ Reset(r, p).invalid[o] = r.invalid[o]
<1>1. /\ NotCompiled \in Waiting /\ Uncompiled \in [Words -> Values \cup Waiting]
      /\ Uncompiled # NoBlock
    BY DEF CodeCacheAssumption, Waiting, Uncompiled
<1> QED BY <1>1 DEF Reset, Cache, Uncompiled

(* A page is reset together with its twin when that is invalid too; when   *)
(* it is not, it has to be right already.                                  *)
LEMMA InitDirectGood ==
    ASSUME CodeCacheAssumption, NEW m, NEW out, NEW r \in Cache, BlocksThere(r), NEW p \in DirectPages,
           \A o \in DirectPages \ {p, Twin(p)} :
               ~ (r.invalid[o] \/ r.invalid[Twin(o)]) => FreshIn(r, m, out, o),
           ~ r.invalid[Twin(p)] => FreshIn(r, m, out, Twin(p))
    PROVE  /\ Good(InitDirect(r, p), m, out) /\ Kept(r, InitDirect(r, p))
           /\ InitDirect(r, p).xxhash = r.xxhash /\ InitDirect(r, p).block[p] # NoBlock
<1> DEFINE q == Twin(p)
           t == Reset(r, p)
           s == InitDirect(r, p)
<1>1. p \in Pages /\ q \in Pages /\ q \in DirectPages /\ q # p /\ Twin(q) = p
    BY PageFacts
<1>2. /\ s \in Cache /\ s.xxhash = r.xxhash /\ Uncompiled # NoBlock
      /\ s.block[p] = Uncompiled /\ ~ s.invalid[p]
      /\ \/ s.block[q] = Uncompiled /\ ~ s.invalid[q]
         \/ s.block[q] = r.block[q] /\ ~ r.invalid[q]
      /\ ~ s.invalid[q]
      /\ \A o \in Pages \ {p, q} : s.block[o] = r.block[o] /\ s.invalid[o] = r.invalid[o]
    <2>1. /\ t \in Cache /\ t.xxhash = r.xxhash /\ t.block[p] = Uncompiled /\ ~ t.invalid[p]
          /\ Uncompiled # NoBlock
          /\ \A o \in Pages : o # p => t.block[o] = r.block[o] /\ t.invalid[o] = r.invalid[o]
        BY <1>1, ResetFacts
    <2> HIDE DEF t
    <2>2. CASE r.invalid[q]
        <3>1. s = Reset(t, q)
            BY <2>2 DEF InitDirect, t
        <3>2. /\ Reset(t, q) \in Cache /\ Reset(t, q).xxhash = t.xxhash
              /\ Reset(t, q).block[q] = Uncompiled /\ ~ Reset(t, q).invalid[q]
              /\ \A o \in Pages : o # q => /\ Reset(t, q).block[o] = t.block[o]
                                         /\ Reset(t, q).invalid[o] = t.invalid[o]
            BY <1>1, <2>1, ResetFacts
        <3> HIDE DEF q, s
        <3> QED BY <1>1, <2>1, <3>1, <3>2
    <2>3. CASE ~ r.invalid[q]
        <3>1. s = t
            BY <2>3 DEF InitDirect, t
        <3> QED BY <1>1, <2>1, <2>3, <3>1
    <2> QED BY <2>2, <2>3
<1> HIDE DEF s, t
<1>3. \A w \in Words : Uncompiled[w] \in Waiting
    BY DEF Uncompiled, Waiting
<1>4. DirectOk(s, m, out)
    <2> SUFFICES ASSUME NEW o \in DirectPages, ~ (s.invalid[o] \/ s.invalid[Twin(o)])
                 PROVE  FreshIn(s, m, out, o)
        BY DEF DirectOk
    <2>1. CASE o = p
        BY <1>2, <1>3, <2>1 DEF FreshIn
    <2>2. CASE o = q
        BY <1>2, <1>3, <2>2 DEF FreshIn
    <2>3. CASE o \notin {p, q}
        <3>1. o \in Pages /\ Twin(o) \in Pages /\ Twin(o) \notin {p, q}
            BY <1>1, <2>3, PageFacts
        <3> QED BY <1>2, <2>3, <3>1 DEF FreshIn
    <2> QED BY <2>1, <2>2, <2>3
<1>5. BlocksThere(s)
    BY <1>1, <1>2 DEF BlocksThere
<1>6. Kept(r, s)
    BY <1>2 DEF Kept
<1> QED BY <1>1, <1>2, <1>4, <1>5, <1>6 DEF Good, s

(* A page that has been entered has its block, and so has its frame. *)
LEMMA EnteredGood ==
    ASSUME CodeCacheAssumption, NEW m, NEW out, NEW r, Good(r, m, out), NEW lut, NEW p \in Pages,
           FrameOf(lut, p) \in Frames
    PROVE  /\ Good(Entered(lut, r, p), m, out) /\ Kept(r, Entered(lut, r, p))
           /\ Entered(lut, r, p).block[p] # NoBlock
           /\ Entered(lut, r, p).block[Kseg0(FrameOf(lut, p))] # NoBlock
<1> DEFINE k == Kseg0(FrameOf(lut, p))
           u == update_invalid_addr(lut, r, p)
           s == Entered(lut, r, p)
<1>1. k \in DirectPages /\ Twin(k) \in DirectPages /\ Twin(Twin(k)) = k
    BY PageFacts
<1>2. CASE Direct(p)
    <2>1. /\ p \in DirectPages /\ Twin(p) \in DirectPages /\ p \in Pages /\ Twin(p) \in Pages
          /\ k \in {p, Twin(p)} /\ Twin(p) # p
        BY <1>2, PageFacts DEF FrameOf, Kseg0, Twin, DirectPages, Segments
    <2>2. u = Paired(r, p, Twin(p))
        BY <1>2 DEF update_invalid_addr
    <2>3. Good(u, m, out) /\ u.block = r.block /\ (u.invalid[Twin(p)] <=> u.invalid[p])
        BY <2>1, <2>2, PairedGood
    <2>4. CASE ~ u.invalid[p]
        <3>1. s = u
            BY <2>4 DEF Entered
        <3> QED BY <2>1, <2>3, <2>4, <3>1 DEF Good, BlocksThere, Kept
    <2>5. CASE u.invalid[p]
        <3>1. s = InitDirect(u, p)
            BY <1>2, <2>5 DEF Entered, init_block
        <3>2. Good(s, m, out) /\ Kept(u, s) /\ s.block[p] # NoBlock
            <4> HIDE DEF u, s, k
            <4>1. /\ u \in Cache /\ BlocksThere(u) /\ u.invalid[Twin(p)]
                  /\ \A o \in DirectPages : ~ (u.invalid[o] \/ u.invalid[Twin(o)]) => FreshIn(u, m, out, o)
                BY <2>3, <2>5 DEF Good, DirectOk
            <4>2. /\ Good(InitDirect(u, p), m, out) /\ Kept(u, InitDirect(u, p))
                  /\ InitDirect(u, p).block[p] # NoBlock
                BY <2>1, <4>1, InitDirectGood
            <4> QED BY <3>1, <4>2
        <3>3. ~ s.invalid[Twin(p)]
            <4> HIDE DEF u, k
            <4>1. u \in Cache
                BY <2>3 DEF Good
            <4>2. s = Reset(Reset(u, p), Twin(p))
                BY <2>3, <2>5, <3>1 DEF InitDirect
            <4>3. Reset(u, p) \in Cache
                BY <2>1, <4>1, ResetFacts
            <4>4. ~ Reset(Reset(u, p), Twin(p)).invalid[Twin(p)]
                BY <2>1, <4>3, ResetFacts
            <4> QED BY <4>2, <4>4
        <3>4. s.block[k] # NoBlock
            <4> HIDE DEF s, k
            <4> QED BY <2>1, <3>2, <3>3 DEF Good, BlocksThere
        <3>5. Kept(r, s)
            <4> HIDE DEF s, u
            <4> QED BY <2>3, <3>2 DEF Kept
        <3> QED BY <3>2, <3>4, <3>5
    <2> QED BY <2>4, <2>5
<1>3. CASE ~ Direct(p)
    <2> DEFINE v == Paired(r, k, Twin(k))
    <2>1. p \in MappedPages /\ p \in Pages /\ k \in Pages /\ Twin(k) \in Pages
          /\ p \notin {k, Twin(k)} /\ Twin(k) # k /\ k = Kseg0(lut[p])
        BY <1>1, <1>3, PageFacts DEF FrameOf
    <2>2. u = Paired(v, k, p)
        BY <1>3, <2>1 DEF update_invalid_addr
    <2>3. Good(v, m, out) /\ v.block = r.block /\ (v.invalid[Twin(k)] <=> v.invalid[k])
        <3>1. /\ Good(Paired(r, k, Twin(k)), m, out) /\ Paired(r, k, Twin(k)).block = r.block
              /\ Paired(r, k, Twin(k)).invalid[k] <=> r.invalid[k] \/ r.invalid[Twin(k)]
              /\ Paired(r, k, Twin(k)).invalid[Twin(k)] <=> r.invalid[k] \/ r.invalid[Twin(k)]
            <4> HIDE DEF k
            <4>1. k \in Pages /\ Twin(k) \in Pages
                BY <2>1
            <4> DEFINE q == Twin(k)
            <4>2. q \in Pages
                BY <4>1
            <4> HIDE DEF q
            <4>3. /\ Good(Paired(r, k, q), m, out) /\ Paired(r, k, q).block = r.block
                  /\ Paired(r, k, q).invalid[k] <=> r.invalid[k] \/ r.invalid[q]
                  /\ Paired(r, k, q).invalid[q] <=> r.invalid[k] \/ r.invalid[q]
                BY <4>1, <4>2, PairedGood
            <4> QED BY <4>3 DEF q
        <3> QED BY <3>1
    <2> HIDE DEF v
    <2>4. /\ Good(u, m, out) /\ u.block = v.block /\ (u.invalid[k] <=> u.invalid[p])
          /\ u.invalid[Twin(k)] = v.invalid[Twin(k)]
        <3> HIDE DEF k, u
        <3>1. /\ Good(Paired(v, k, p), m, out) /\ Paired(v, k, p).block = v.block
              /\ Paired(v, k, p).invalid[k] <=> v.invalid[k] \/ v.invalid[p]
              /\ Paired(v, k, p).invalid[p] <=> v.invalid[k] \/ v.invalid[p]
              /\ \A o \in Pages : o # k /\ o # p => Paired(v, k, p).invalid[o] = v.invalid[o]
            <4>1. k \in Pages /\ p \in Pages /\ Good(v, m, out)
                BY <2>1, <2>3
            <4> QED BY <4>1, PairedGood
        <3>2. Twin(k) \in Pages /\ Twin(k) # k /\ Twin(k) # p
            BY <2>1
        <3>3. Paired(v, k, p).invalid[Twin(k)] = v.invalid[Twin(k)]
            BY <3>1, <3>2
        <3> QED BY <2>2, <3>1, <3>3
    <2>5. CASE ~ u.invalid[p]
        <3>1. s = u
            BY <2>5 DEF Entered
        <3> QED BY <2>1, <2>3, <2>4, <2>5, <3>1 DEF Good, BlocksThere, Kept
    <2>6. CASE u.invalid[p]
        <3> DEFINE t == Reset(u, p)
        <3>1. s = InitDirect(t, k)
            BY <1>3, <2>1, <2>6 DEF Entered, init_block
        <3>2. /\ t \in Cache /\ t.block[p] # NoBlock
              /\ \A o \in Pages : o # p => t.block[o] = u.block[o] /\ t.invalid[o] = u.invalid[o]
            <4> HIDE DEF u
            <4>1. u \in Cache /\ p \in Pages
                BY <2>1, <2>4 DEF Good
            <4>2. /\ Reset(u, p) \in Cache /\ Reset(u, p).block[p] = Uncompiled
                  /\ Uncompiled # NoBlock
                  /\ \A o \in Pages : o # p => /\ Reset(u, p).block[o] = u.block[o]
                                             /\ Reset(u, p).invalid[o] = u.invalid[o]
                BY <4>1, ResetFacts
            <4> QED BY <4>2
        <3> HIDE DEF t
        <3>3. BlocksThere(t) /\ Kept(u, t)
            BY <2>4, <3>2 DEF BlocksThere, Good, Kept
        <3>4. ASSUME NEW o \in DirectPages PROVE o # p /\ Twin(o) # p /\ o \in Pages /\ Twin(o) \in Pages
            BY <2>1, PageFacts
        <3>5. \A o \in DirectPages \ {k, Twin(k)} :
                  ~ (t.invalid[o] \/ t.invalid[Twin(o)]) => FreshIn(t, m, out, o)
            BY <2>4, <3>2, <3>4 DEF Good, DirectOk, FreshIn
        <3>6. ~ t.invalid[Twin(k)] => FreshIn(t, m, out, Twin(k))
            <4> SUFFICES ASSUME ~ t.invalid[Twin(k)] PROVE FreshIn(t, m, out, Twin(k))
                OBVIOUS
            <4>1. ~ v.invalid[Twin(k)] /\ ~ v.invalid[k]
                BY <1>1, <2>3, <2>4, <3>2, <3>4
            <4>2. FreshIn(v, m, out, Twin(k))
                BY <1>1, <2>3, <4>1 DEF Good, DirectOk
            <4> QED BY <1>1, <2>4, <3>2, <3>4, <4>2 DEF FreshIn
        <3>7. Good(s, m, out) /\ Kept(t, s) /\ s.block[k] # NoBlock
            BY <1>1, <3>1, <3>2, <3>3, <3>5, <3>6, InitDirectGood
        <3> QED BY <2>1, <2>3, <2>4, <3>2, <3>3, <3>7 DEF Kept
    <2> QED BY <2>5, <2>6
<1> QED BY <1>2, <1>3

-----------------------------------------------------------------------------
(* Invalidating a page only makes it invalid. *)
LEMMA InvalidatedFacts ==
    ASSUME CodeCacheAssumption, NEW m, NEW out, NEW r, Good(r, m, out), NEW p \in Pages, NEW words
    PROVE  /\ Good(Invalidated(r, p, words), m, out)
           /\ Invalidated(r, p, words).block = r.block
           /\ Invalidated(r, p, words).invalid[p] <=> r.invalid[p] \/ Compiled(r, p, words)
           /\ \A o \in Pages : o # p => Invalidated(r, p, words).invalid[o] = r.invalid[o]
<1> DEFINE s == Invalidated(r, p, words)
<1>1. /\ s \in Cache /\ s.block = r.block
      /\ s.invalid[p] <=> r.invalid[p] \/ Compiled(r, p, words)
      /\ \A o \in Pages : o # p => s.invalid[o] = r.invalid[o]
    BY DEF Invalidated, Good, Cache
<1>2. \A o \in Pages : r.invalid[o] => s.invalid[o]
    BY <1>1
<1> HIDE DEF s
<1>3. DirectOk(s, m, out)
    BY <1>1, <1>2, PageFacts DEF DirectOk, FreshIn, Good
<1>4. BlocksThere(s)
    BY <1>1, <1>2 DEF BlocksThere, Good
<1> QED BY <1>1, <1>3, <1>4 DEF Good, s

(* Words of a frame are written.  Those that are looked at in both direct  *)
(* pages need not be overlooked any more.                                  *)
LEMMA WrittenGood ==
    ASSUME CodeCacheAssumption, TypeOK, NEW r, Good(r, mem, overlooked),
           NEW f \in Frames, NEW new \in Contents, NEW looked, NEW out,
           \A g \in Frames \ {f}, w \in Words : <<g, w>> \in overlooked => <<g, w>> \in out,
           \A w \in Words :
               (new[w] # mem[f][w] \/ <<f, w>> \in overlooked) /\ <<f, w>> \notin out =>
                   w \in looked["KSEG0"] /\ w \in looked["KSEG1"]
    PROVE  /\ Good(InvalidatedBoth(r, f, looked), [mem EXCEPT ![f] = new], out)
           /\ InvalidatedBoth(r, f, looked).block = r.block
           /\ [mem EXCEPT ![f] = new] \in [Frames -> Contents]
<1> DEFINE k == <<f, "KSEG0">>
           q == <<f, "KSEG1">>
           t == Invalidated(r, k, looked["KSEG0"])
           s == Invalidated(t, q, looked["KSEG1"])
           m == [mem EXCEPT ![f] = new]
<1>1. /\ k \in DirectPages /\ q \in DirectPages /\ k \in Pages /\ q \in Pages /\ q # k
      /\ k[1] = f /\ q[1] = f /\ Twin(k) = q /\ Twin(q) = k
      /\ \A p \in DirectPages : p \notin {k, q} => p[1] # f
    BY PageFacts DEF Twin, DirectPages, Segments
<1>2. /\ m \in [Frames -> Contents]
      /\ m[f] = new
      /\ \A g \in Frames \ {f} : m[g] = mem[g]
    BY DEF TypeOK
<1>3. /\ Good(t, mem, overlooked) /\ t.block = r.block
      /\ t.invalid[k] <=> r.invalid[k] \/ Compiled(r, k, looked["KSEG0"])
    <2>1. k \in Pages
        BY <1>1
    <2> HIDE DEF k
    <2> QED BY <2>1, InvalidatedFacts
<1>4. /\ Good(s, mem, overlooked) /\ s.block = t.block
      /\ s.invalid[q] <=> t.invalid[q] \/ Compiled(t, q, looked["KSEG1"])
      /\ s.invalid[k] = t.invalid[k]
    <2>1. q \in Pages /\ k \in Pages /\ k # q /\ Good(t, mem, overlooked)
        BY <1>1, <1>3
    <2> HIDE DEF k, q, t
    <2> QED BY <2>1, InvalidatedFacts
<1>5. InvalidatedBoth(r, f, looked) = s
    BY DEF InvalidatedBoth
<1> HIDE DEF k, q, t, s, m
<1>6. DirectOk(s, m, out)
    <2> SUFFICES ASSUME NEW p \in DirectPages, ~ (s.invalid[p] \/ s.invalid[Twin(p)])
                 PROVE  FreshIn(s, m, out, p)
        BY DEF DirectOk
    <2>1. FreshIn(s, mem, overlooked, p)
        BY <1>4 DEF Good, DirectOk
    <2>2. CASE p \in {k, q}
        <3>1. ~ s.invalid[k] /\ ~ s.invalid[q]
            BY <1>1, <2>2
        <3>2. \A w \in looked["KSEG0"] : w \in looked["KSEG1"] => s.block[p][w] \in Waiting
            BY <1>3, <1>4, <2>2, <3>1 DEF Waiting, Compiled
        <3> SUFFICES ASSUME s.block[p] # NoBlock, NEW w \in Words, <<f, w>> \notin out
                     PROVE  s.block[p][w] \in Waiting \cup {m[f][w]}
            BY <1>1, <2>2 DEF FreshIn
        <3>3. CASE w \in looked["KSEG0"] /\ w \in looked["KSEG1"]
            BY <3>2, <3>3
        <3>4. CASE new[w] = mem[f][w] /\ <<f, w>> \notin overlooked
            BY <1>1, <1>2, <2>1, <2>2, <3>4 DEF FreshIn
        <3> QED BY <3>3, <3>4
    <2>3. CASE p \notin {k, q}
        <3>1. p[1] \in Frames \ {f}
            BY <1>1, <2>3, PageFacts
        <3> QED BY <1>2, <2>1, <3>1 DEF FreshIn
    <2> QED BY <2>2, <2>3
<1>7. Good(s, m, out)
    BY <1>4, <1>6 DEF Good
<1> QED BY <1>2, <1>3, <1>4, <1>5, <1>7 DEF m

(* What a TLB write does to a mapped page leaves the direct pages alone. *)
LEMMA MappedGood ==
    ASSUME CodeCacheAssumption, NEW m, NEW out, NEW r, Good(r, m, out), NEW s \in Cache, NEW p \in MappedPages,
           s.block = r.block, ~ s.invalid[p] => r.block[p] # NoBlock,
           \A o \in Pages : o # p => s.invalid[o] = r.invalid[o]
    PROVE  Good(s, m, out)
<1>1. \A o \in DirectPages : o \in Pages /\ o # p /\ Twin(o) \in Pages /\ Twin(o) # p
    BY PageFacts
<1>2. DirectOk(s, m, out)
    BY <1>1 DEF DirectOk, FreshIn, Good
<1>3. BlocksThere(s)
    BY DEF BlocksThere, Good
<1> QED BY <1>2, <1>3 DEF Good

LEMMA HashKeptGood ==
    ASSUME CodeCacheAssumption, TypeOK, NEW m, NEW out, NEW r, Good(r, m, out), NEW p \in MappedPages,
           LUT_r[p] \in Frames
    PROVE  Good(HashKept(r, p), m, out) /\ HashKept(r, p).block = r.block
<1> DEFINE s == HashKept(r, p)
<1>1. p \in Pages /\ mem[LUT_r[p]] \in Contents
    BY PageFacts DEF TypeOK
<1>2. /\ s \in Cache /\ s.block = r.block /\ s.invalid[p]
      /\ \A o \in Pages : o # p => s.invalid[o] = r.invalid[o]
    BY <1>1 DEF HashKept, Good, Cache
<1> HIDE DEF s
<1>3. Good(s, m, out)
    BY <1>2, MappedGood
<1> QED BY <1>2, <1>3 DEF s

LEMMA RevivedGood ==
    ASSUME CodeCacheAssumption, NEW m, NEW out, NEW r, Good(r, m, out), NEW p \in MappedPages, NEW f
    PROVE  Good(Revived(r, p, f), m, out) /\ Revived(r, p, f).block = r.block
<1> DEFINE s == Revived(r, p, f)
<1>1. p \in Pages
    BY PageFacts
<1>2. /\ s \in Cache /\ s.block = r.block
      /\ ~ s.invalid[p] => ~ r.invalid[p] \/ r.block[p] # NoBlock
      /\ \A o \in Pages : o # p => s.invalid[o] = r.invalid[o]
    BY <1>1 DEF Revived, Good, Cache
<1> HIDE DEF s
<1>3. ~ s.invalid[p] => r.block[p] # NoBlock
    BY <1>1, <1>2 DEF Good, BlocksThere
<1>4. Good(s, m, out)
    BY <1>2, <1>3, MappedGood
<1> QED BY <1>2, <1>4 DEF s

-----------------------------------------------------------------------------
(* The inductive invariant: the tables are those of entries that do not    *)
(* overlap, the direct pages are right and the running page has its block. *)
PcHasBlock ==
    pc # Nowhere =>
        /\ FrameOf(LUT_r, pc) # NoFrame
        /\ c.block[pc] # NoBlock
        /\ c.block[Kseg0(FrameOf(LUT_r, pc))] # NoBlock

IInv ==
    /\ TypeOK
    /\ Disjoint(entries)
    /\ TablesMatchEntries
    /\ Good(c, mem, overlooked)
    /\ PcHasBlock

LEMMA FrameFacts ==
    ASSUME CodeCacheAssumption, TlbAssumption, NEW lut \in [MappedPages -> Frames \cup {NoFrame}],
           NEW p \in Pages
    PROVE  /\ FrameOf(lut, p) \in Frames \cup {NoFrame}
           /\ Landing(lut, p) \in Pages /\ FrameOf(lut, Landing(lut, p)) \in Frames
           /\ Way(p) \in Pages
<1>1. FrameOf(lut, p) \in Frames \cup {NoFrame}
    BY PageFacts DEF FrameOf
<1>2. Kseg0(Vectors) \in Pages /\ FrameOf(lut, Kseg0(Vectors)) \in Frames
    <2>1. Kseg0(Vectors) \in DirectPages /\ Kseg0(Vectors)[1] = Vectors /\ Vectors \in Frames
        BY PageFacts DEF CodeCacheAssumption
    <2> QED BY <2>1, PageFacts DEF FrameOf
<1>3. Landing(lut, p) \in Pages /\ FrameOf(lut, Landing(lut, p)) \in Frames
    BY <1>1, <1>2 DEF Landing
<1>4. Way(p) \in Pages
    BY PageFacts DEF Way
<1> QED BY <1>1, <1>3, <1>4

(* The histories and pc, wherever the CPU arrives. *)
LEMMA ArriveType ==
    ASSUME CodeCacheAssumption, TlbAssumption, TypeOK, NEW lut, NEW p \in Pages, Arrive(lut, p)
    PROVE  /\ pc' = p
           /\ pc' \in Pages \cup {Nowhere}
           /\ ranAs' \in [Frames -> Pages \cup {Nowhere}]
           /\ tidy' \in BOOLEAN
<1>1. Way(p) \in Pages
    BY PageFacts DEF Way
<1> QED BY <1>1 DEF Arrive, TypeOK

LEMMA EnterStep ==
    ASSUME CodeCacheAssumption, TlbAssumption, IInv, NEW r, Good(r, mem, overlooked), NEW p \in Pages,
           Enter(r, p), UNCHANGED <<entries, LUT_r, LUT_w, mem>>
    PROVE  IInv'
<1> DEFINE at == Landing(LUT_r, p)
<1>1. /\ LUT_r \in [MappedPages -> Frames \cup {NoFrame}]
      /\ TypeOK /\ Disjoint(entries) /\ TablesMatchEntries
    BY DEF IInv, TypeOK, TlbTypeOK
<1>2. at \in Pages /\ FrameOf(LUT_r, at) \in Frames
    BY <1>1, FrameFacts
<1>3. /\ c' = Entered(LUT_r, r, at) /\ Arrive(LUT_r, at)
      /\ UNCHANGED <<overlooked, aligned>>
    BY DEF Enter
<1> HIDE DEF at
<1>4. /\ Good(Entered(LUT_r, r, at), mem, overlooked)
      /\ Entered(LUT_r, r, at).block[at] # NoBlock
      /\ Entered(LUT_r, r, at).block[Kseg0(FrameOf(LUT_r, at))] # NoBlock
    BY <1>2, EnteredGood
<1>5. Good(c', mem', overlooked')
    BY <1>3, <1>4
<1>6. c' \in Cache
    BY <1>5 DEF Good
<1>7. /\ pc' = at /\ pc' \in Pages \cup {Nowhere}
      /\ ranAs' \in [Frames -> Pages \cup {Nowhere}] /\ tidy' \in BOOLEAN
    BY <1>1, <1>2, <1>3, ArriveType
<1>8. TypeOK'
    BY <1>1, <1>3, <1>6, <1>7 DEF TypeOK, TlbTypeOK
<1>9. TablesMatchEntries' /\ Disjoint(entries')
    BY <1>1 DEF TablesMatchEntries
<1>10. PcHasBlock'
    <2>1. FrameOf(LUT_r', pc') \in Frames /\ FrameOf(LUT_r', pc') = FrameOf(LUT_r, at)
        BY <1>2, <1>7
    <2>2. c'.block[pc'] # NoBlock /\ c'.block[Kseg0(FrameOf(LUT_r', pc'))] # NoBlock
        BY <1>3, <1>4, <1>7, <2>1
    <2> QED BY <2>1, <2>2 DEF PcHasBlock, TlbAssumption
<1> QED BY <1>5, <1>8, <1>9, <1>10 DEF IInv

LEMMA WriteStep ==
    ASSUME CodeCacheAssumption, TlbAssumption, IInv, NEW r, Good(r, mem, overlooked), r.block = c.block,
           NEW f \in Frames, NEW new, NEW looked, Write(f, new, InvalidatedBoth(r, f, looked)),
           overlooked' \in SUBSET (Frames \X Words), aligned' \in BOOLEAN,
           \A g \in Frames \ {f}, w \in Words :
               <<g, w>> \in overlooked => <<g, w>> \in overlooked',
           \A w \in Words :
               (new[w] # mem[f][w] \/ <<f, w>> \in overlooked) /\ <<f, w>> \notin overlooked' =>
                   w \in looked["KSEG0"] /\ w \in looked["KSEG1"]
    PROVE  IInv'
<1>1. TypeOK /\ Disjoint(entries) /\ TablesMatchEntries /\ PcHasBlock
    BY DEF IInv
<1>2. /\ mem' = [mem EXCEPT ![f] = new] /\ c' = InvalidatedBoth(r, f, looked)
      /\ UNCHANGED <<entries, LUT_r, LUT_w, pc, ranAs, tidy>>
      /\ new \in Contents
    BY DEF Write, CodeCacheAssumption
<1>3. /\ Good(InvalidatedBoth(r, f, looked), [mem EXCEPT ![f] = new], overlooked')
      /\ InvalidatedBoth(r, f, looked).block = r.block
      /\ [mem EXCEPT ![f] = new] \in [Frames -> Contents]
    BY <1>1, <1>2, WrittenGood
<1>4. Good(c', mem', overlooked') /\ c'.block = c.block /\ mem' \in [Frames -> Contents] /\ c' \in Cache
    BY <1>2, <1>3 DEF Good
<1>5. TypeOK'
    BY <1>1, <1>2, <1>4 DEF TypeOK, TlbTypeOK
<1>6. TablesMatchEntries' /\ Disjoint(entries')
    BY <1>1, <1>2 DEF TablesMatchEntries
<1>7. PcHasBlock'
    BY <1>1, <1>2, <1>4 DEF PcHasBlock
<1> QED BY <1>4, <1>5, <1>6, <1>7 DEF IInv

(* What a DMA writes and does not look at is overlooked. *)
LEMMA DmaFacts ==
    ASSUME CodeCacheAssumption, TypeOK, NEW f \in Frames, NEW first \in Words, NEW last \in Words,
           NEW missed \in SUBSET Segments, NEW new, Dma(f, first, last, missed, new)
    PROVE  \E looked :
              /\ Write(f, new, InvalidatedBoth(c, f, looked))
              /\ overlooked' \in SUBSET (Frames \X Words) /\ aligned' \in BOOLEAN
              /\ \A g \in Frames \ {f}, w \in Words :
                    <<g, w>> \in overlooked => <<g, w>> \in overlooked'
              /\ \A w \in Words :
                    (new[w] # mem[f][w] \/ <<f, w>> \in overlooked) /\ <<f, w>> \notin overlooked' =>
                        w \in looked["KSEG0"] /\ w \in looked["KSEG1"]
              /\ aligned' => /\ aligned
                             /\ \A w \in Words : new[w] # mem[f][w] => w \in looked["KSEG0"]
<1> DEFINE looked == [s \in Segments |-> first .. (IF s \in missed THEN last - 1 ELSE last)]
<1>1. /\ \A w \in Words \ (first .. last) : new[w] = mem[f][w]
      /\ Write(f, new, InvalidatedBoth(c, f, looked))
      /\ overlooked' = (overlooked \ ({f} \X (first .. last)))
                          \cup (IF missed = {} THEN {} ELSE {<<f, last>>})
      /\ aligned' = (aligned /\ missed = {})
    BY DEF Dma
<1>2. Words \subseteq Nat /\ overlooked \in SUBSET (Frames \X Words) /\ aligned \in BOOLEAN
    BY DEF CodeCacheAssumption, TypeOK
<1>3. \A w \in first .. last : missed = {} \/ w # last =>
          w \in looked["KSEG0"] /\ w \in looked["KSEG1"]
    BY <1>2 DEF Segments
<1> HIDE DEF looked
<1>4. overlooked' \in SUBSET (Frames \X Words) /\ aligned' \in BOOLEAN
    BY <1>1, <1>2
<1>5. \A g \in Frames \ {f}, w \in Words : <<g, w>> \in overlooked => <<g, w>> \in overlooked'
    BY <1>1
<1>6. ASSUME NEW w \in Words, new[w] # mem[f][w] \/ <<f, w>> \in overlooked,
             <<f, w>> \notin overlooked'
      PROVE  w \in looked["KSEG0"] /\ w \in looked["KSEG1"]
    <2>1. w \in first .. last
        BY <1>1, <1>6
    <2>2. missed = {} \/ w # last
        BY <1>1, <1>6
    <2> QED BY <1>3, <2>1, <2>2
<1>7. ASSUME aligned' PROVE aligned /\ \A w \in Words : new[w] # mem[f][w] => w \in looked["KSEG0"]
    BY <1>1, <1>3, <1>7
<1> QED BY <1>1, <1>4, <1>5, <1>6, <1>7

(* What compiling does to the block of the running page and to that of its *)
(* frame.                                                                  *)
LEMMA CompiledFacts ==
    ASSUME CodeCacheAssumption, TlbAssumption, IInv, NEW w \in Words, NEW last \in Words,
           Compile(w, last)
    PROVE  LET f == FrameOf(LUT_r, pc)
               k == Kseg0(f)
               new == [i \in Words |-> IF i \in w .. last THEN mem[f][i] ELSE c.block[pc][i]]
               marked == [i \in Words |-> IF i \in w .. last /\ c.block[k][i] = NotCompiled
                                          THEN NotCompiled2 ELSE c.block[k][i]]
           IN /\ new \in [Words -> Values \cup Waiting] /\ marked \in [Words -> Values \cup Waiting]
              /\ c' \in Cache /\ c'.invalid = c.invalid
              /\ c'.xxhash = [c.xxhash EXCEPT ![pc] = NoHash]
              /\ c'.block[pc] = new
              /\ ~ Direct(pc) => c'.block[k] = marked
              /\ \A p \in Pages : p # pc /\ (Direct(pc) \/ p # k) => c'.block[p] = c.block[p]
<1> DEFINE f == FrameOf(LUT_r, pc)
           k == Kseg0(f)
<1>1. TypeOK /\ Disjoint(entries) /\ TablesMatchEntries /\ PcHasBlock /\ Good(c, mem, overlooked)
    BY DEF IInv
<1>2. /\ pc # Nowhere /\ pc \in Pages
      /\ UNCHANGED <<entries, LUT_r, LUT_w, mem, pc, ranAs, tidy, overlooked, aligned>>
    BY <1>1 DEF Compile, TypeOK, histories
<1>3. f \in Frames
    BY <1>1, <1>2, FrameFacts DEF PcHasBlock, TypeOK, TlbTypeOK
<1>4. k \in DirectPages /\ k \in Pages /\ k[1] = f
    BY <1>3, PageFacts
<1>5. c.block[pc] \in [Words -> Values \cup Waiting] /\ c.block[k] \in [Words -> Values \cup Waiting]
    BY <1>1, <1>2, <1>4 DEF PcHasBlock, Good, Cache
<1>6. /\ mem[f] \in [Words -> Values] /\ NotCompiled2 \in Waiting
      /\ NoBlock \notin [Words -> Values \cup Waiting]
    BY <1>1, <1>3 DEF TypeOK, Contents, Waiting, CodeCacheAssumption
<1> DEFINE new == [i \in Words |-> IF i \in w .. last THEN mem[f][i] ELSE c.block[pc][i]]
           marked == [i \in Words |-> IF i \in w .. last /\ c.block[k][i] = NotCompiled
                                      THEN NotCompiled2 ELSE c.block[k][i]]
<1>7. new \in [Words -> Values \cup Waiting] /\ marked \in [Words -> Values \cup Waiting]
    BY <1>5, <1>6
<1>8. /\ c' \in Cache /\ c'.invalid = c.invalid
      /\ c'.xxhash = [c.xxhash EXCEPT ![pc] = NoHash]
      /\ c'.block[pc] = new
      /\ ~ Direct(pc) => c'.block[k] = marked
      /\ \A p \in Pages : p # pc /\ (Direct(pc) \/ p # k) => c'.block[p] = c.block[p]
    <2>1. CASE Direct(pc)
        <3> HIDE DEF f, k
        <3>1. c' = [c EXCEPT !.block[pc] = [i \in Words |-> IF i \in w .. last THEN mem[f][i] ELSE @[i]],
                             !.xxhash[pc] = NoHash]
            BY <2>1 DEF Compile, f
        <3> QED BY <1>1, <1>2, <1>7, <2>1, <3>1 DEF Good, Cache
    <2>2. CASE ~ Direct(pc)
        <3>1. pc # k
            BY <1>4, <2>2, PageFacts
        <3> DEFINE decoded == [c EXCEPT !.block[pc] = new, !.xxhash[pc] = NoHash]
        <3>2. c' = [decoded EXCEPT !.block[k] =
                      [i \in Words |-> IF i \in w .. last /\ decoded.block[k][i] = NotCompiled
                                       THEN NotCompiled2 ELSE decoded.block[k][i]]]
            BY <2>2 DEF Compile
        <3> HIDE DEF f, k
        <3>3. decoded.block[k] = c.block[k] /\ decoded \in Cache
            BY <1>1, <1>2, <1>4, <1>7, <3>1 DEF Good, Cache
        <3>4. c' = [decoded EXCEPT !.block[k] = marked]
            BY <3>2, <3>3
        <3> QED BY <1>1, <1>2, <1>4, <1>7, <2>2, <3>1, <3>4 DEF Good, Cache
    <2> QED BY <2>1, <2>2
<1> QED BY <1>7, <1>8

LEMMA CompileStep ==
    ASSUME CodeCacheAssumption, TlbAssumption, IInv, NEW w \in Words, NEW last \in Words,
           Compile(w, last)
    PROVE  IInv'
<1> DEFINE f == FrameOf(LUT_r, pc)
           k == Kseg0(f)
<1>1. TypeOK /\ Disjoint(entries) /\ TablesMatchEntries /\ PcHasBlock /\ Good(c, mem, overlooked)
    BY DEF IInv
<1>2. /\ pc # Nowhere /\ pc \in Pages
      /\ UNCHANGED <<entries, LUT_r, LUT_w, mem, pc, ranAs, tidy, overlooked, aligned>>
    BY <1>1 DEF Compile, TypeOK, histories
<1>3. f \in Frames
    BY <1>1, <1>2, FrameFacts DEF PcHasBlock, TypeOK, TlbTypeOK
<1>4. k \in DirectPages /\ k \in Pages /\ k[1] = f
    BY <1>3, PageFacts
<1>5. c.block[pc] \in [Words -> Values \cup Waiting] /\ c.block[k] \in [Words -> Values \cup Waiting]
    BY <1>1, <1>2, <1>4 DEF PcHasBlock, Good, Cache
<1>6. /\ mem[f] \in [Words -> Values] /\ NotCompiled2 \in Waiting
      /\ NoBlock \notin [Words -> Values \cup Waiting]
    BY <1>1, <1>3 DEF TypeOK, Contents, Waiting, CodeCacheAssumption
<1> DEFINE new == [i \in Words |-> IF i \in w .. last THEN mem[f][i] ELSE c.block[pc][i]]
           marked == [i \in Words |-> IF i \in w .. last /\ c.block[k][i] = NotCompiled
                                      THEN NotCompiled2 ELSE c.block[k][i]]
<1>7. new \in [Words -> Values \cup Waiting] /\ marked \in [Words -> Values \cup Waiting]
    BY <1>5, <1>6
<1>8. /\ c' \in Cache /\ c'.invalid = c.invalid
      /\ c'.block[pc] = new
      /\ ~ Direct(pc) => c'.block[k] = marked
      /\ \A p \in Pages : p # pc /\ (Direct(pc) \/ p # k) => c'.block[p] = c.block[p]
    BY CompiledFacts
<1>9. DirectOk(c', mem', overlooked')
    <2> SUFFICES ASSUME NEW p \in DirectPages, ~ (c'.invalid[p] \/ c'.invalid[Twin(p)])
                 PROVE  FreshIn(c', mem', overlooked', p)
        BY DEF DirectOk
    <2>1. p \in Pages /\ FreshIn(c, mem, overlooked, p)
        BY <1>1, <1>8, PageFacts DEF Good, DirectOk
    <2>2. CASE p = pc
        <3>1. f = p[1]
            BY <2>2, PageFacts DEF FrameOf
        <3> HIDE DEF f
        <3> QED BY <1>2, <1>5, <1>6, <1>7, <1>8, <2>1, <2>2, <3>1 DEF FreshIn
    <2>3. CASE p # pc /\ ~ Direct(pc) /\ p = k
        <3> HIDE DEF f, k
        <3>1. c'.block[p] = marked /\ c.block[p] # NoBlock
            BY <1>5, <1>6, <1>8, <2>3
        <3>2. \A i \in Words : marked[i] \in Waiting \cup {c.block[p][i]}
            BY <1>6, <2>3
        <3>3. \A i \in Words : <<p[1], i>> \notin overlooked =>
                  c.block[p][i] \in Waiting \cup {mem[p[1]][i]}
            BY <2>1, <3>1 DEF FreshIn
        <3> HIDE DEF marked
        <3> QED BY <1>2, <3>1, <3>2, <3>3 DEF FreshIn
    <2>4. CASE p # pc /\ (Direct(pc) \/ p # k)
        <3> HIDE DEF k
        <3> QED BY <1>2, <1>8, <2>1, <2>4 DEF FreshIn
    <2> QED BY <2>2, <2>3, <2>4
<1>10. \A p \in Pages : c.block[p] # NoBlock => c'.block[p] # NoBlock
    <2> HIDE DEF new, marked, f, k
    <2> QED BY <1>6, <1>7, <1>8
<1>11. Good(c', mem', overlooked')
    <2>1. BlocksThere(c')
        BY <1>1, <1>8, <1>10 DEF Good, BlocksThere
    <2> QED BY <1>8, <1>9, <2>1 DEF Good
<1>12. TypeOK'
    BY <1>1, <1>2, <1>8 DEF TypeOK, TlbTypeOK
<1>13. TablesMatchEntries' /\ Disjoint(entries')
    BY <1>1, <1>2 DEF TablesMatchEntries
<1>14. PcHasBlock'
    BY <1>1, <1>2, <1>4, <1>10 DEF PcHasBlock
<1> QED BY <1>11, <1>12, <1>13, <1>14 DEF IInv

LEMMA WriteEntryStep ==
    ASSUME CodeCacheAssumption, TlbAssumption, IInv, NEW idx \in Entries, NEW new \in NewEntries,
           WriteEntry(idx, new)
    PROVE  IInv'
<1> DEFINE old == entries[idx]
           Old(r, p) == IF p \in Reads(old) THEN HashKept(r, p) ELSE r
           New(r, p) == IF p \in Reads(new) THEN Revived(r, p, new.half[p[2]].pfn) ELSE r
           p1 == <<old.vpn2, "even">>
           p2 == <<old.vpn2, "odd">>
           q1 == <<new.vpn2, "even">>
           q2 == <<new.vpn2, "odd">>
           s1 == Old(c, p1)
           s2 == Old(s1, p2)
           s3 == New(s2, q1)
           s4 == New(s3, q2)
<1>1. /\ TypeOK /\ Disjoint(entries) /\ TablesMatchEntries /\ PcHasBlock /\ Good(c, mem, overlooked)
      /\ TLBWrite(idx, new) /\ pc \notin Reads(old) /\ c' = s4
      /\ UNCHANGED <<mem, pc, ranAs, tidy, overlooked, aligned>>
    BY DEF IInv, WriteEntry, histories
<1>2. TlbTypeOK' /\ TablesMatchEntries' /\ Disjoint(entries')
    BY <1>1, TablesFollow DEF TypeOK
<1>3. ASSUME NEW r, Good(r, mem, overlooked), NEW p, NEW t, t = Old(r, p)
      PROVE  Good(t, mem, overlooked) /\ t.block = r.block
    <2>1. CASE p \in Reads(old)
        <3>1. p \in MappedPages /\ LUT_r[p] = old.half[p[2]].pfn
            BY <1>1, <2>1 DEF TablesMatchEntries, Reads
        <3>2. LUT_r[p] \in Frames
            BY <1>1, <3>1 DEF TypeOK, TlbTypeOK, Entry, Half, MappedPages
        <3> QED BY <1>1, <1>3, <2>1, <3>1, <3>2, HashKeptGood
    <2>2. CASE p \notin Reads(old)
        BY <1>3, <2>2
    <2> QED BY <2>1, <2>2
<1>4. ASSUME NEW r, Good(r, mem, overlooked), NEW p, NEW t, t = New(r, p)
      PROVE  Good(t, mem, overlooked) /\ t.block = r.block
    <2>1. CASE p \in Reads(new)
        <3>1. p \in MappedPages
            BY <2>1 DEF Reads
        <3> QED BY <1>4, <2>1, <3>1, RevivedGood
    <2>2. CASE p \notin Reads(new)
        BY <1>4, <2>2
    <2> QED BY <2>1, <2>2
<1>5. Good(s1, mem, overlooked) /\ s1.block = c.block
    <2> HIDE DEF Old, p1
    <2> QED BY <1>1, <1>3
<1>6. Good(s2, mem, overlooked) /\ s2.block = c.block
    <2> HIDE DEF Old, p2, s1
    <2> QED BY <1>3, <1>5
<1>7. Good(s3, mem, overlooked) /\ s3.block = c.block
    <2> HIDE DEF New, q1, s2
    <2> QED BY <1>4, <1>6
<1>8. Good(s4, mem, overlooked) /\ s4.block = c.block
    <2> HIDE DEF New, q2, s3
    <2> QED BY <1>4, <1>7
<1> HIDE DEF s4
<1>9. Good(c', mem', overlooked') /\ c'.block = c.block /\ c' \in Cache
    BY <1>1, <1>8 DEF Good
<1>10. TypeOK'
    BY <1>1, <1>2, <1>9 DEF TypeOK
(* The running page keeps its translation: the entry that maps it is not   *)
(* replaced, and no other may map it.                                      *)
<1>11. ASSUME pc # Nowhere PROVE FrameOf(LUT_r', pc) = FrameOf(LUT_r, pc)
    <2>1. CASE Direct(pc)
        BY <2>1 DEF FrameOf
    <2>2. CASE ~ Direct(pc)
        <3>1. pc \in MappedPages /\ LUT_r[pc] # NoFrame
            BY <1>1, <1>11, <2>2, PageFacts DEF TypeOK, PcHasBlock, FrameOf
        <3>2. PICK i \in Entries : pc \in Reads(entries[i])
            BY <1>1, <3>1 DEF TablesMatchEntries
        <3>3. i # idx /\ entries'[i] = entries[i]
            BY <1>1, <3>2 DEF TLBWrite, TypeOK, TlbTypeOK
        <3>4. LUT_r'[pc] = entries'[i].half[pc[2]].pfn /\ LUT_r[pc] = entries[i].half[pc[2]].pfn
            BY <1>1, <1>2, <3>1, <3>2, <3>3 DEF TablesMatchEntries
        <3> QED BY <2>2, <3>3, <3>4 DEF FrameOf
    <2> QED BY <2>1, <2>2
<1>12. PcHasBlock'
    BY <1>1, <1>9, <1>11 DEF PcHasBlock
<1> QED BY <1>2, <1>9, <1>10, <1>12 DEF IInv

LEMMA AllInvalidGood ==
    ASSUME NEW m, NEW out, NEW r \in Cache
    PROVE  Good(AllInvalid(r), m, out) /\ AllInvalid(r).block = r.block
<1>1. /\ AllInvalid(r) \in Cache /\ AllInvalid(r).block = r.block
      /\ \A p \in Pages : AllInvalid(r).invalid[p] = TRUE
    BY DEF AllInvalid, Cache
<1>2. \A p \in DirectPages : p \in Pages
    BY DEF Pages
<1> QED BY <1>1, <1>2 DEF Good, DirectOk, BlocksThere

LEMMA LoadStep ==
    ASSUME CodeCacheAssumption, TlbAssumption, IInv, NEW file \in Files, LoadState(file)
    PROVE  IInv'
<1> DEFINE es == file.entries
           lut == ReadTable(es)
           at == Landing(lut, file.pc)
           r == Entered(lut, c, at)
<1>1. /\ file.mem \in [Frames -> Contents] /\ es \in [Entries -> Entry] /\ file.pc \in Pages
      /\ Disjoint(es)
    BY DEF CodeCacheAssumption
<1>2. /\ mem' = file.mem /\ entries' = es /\ LUT_r' = lut
      /\ LUT_w' = WriteTable(es)
      /\ c' = AllInvalid(r) /\ Arrive(lut, at)
      /\ UNCHANGED <<overlooked, aligned>>
    BY DEF LoadState
<1>3. TypeOK /\ Good(c, mem, overlooked)
    BY DEF IInv
<1> HIDE DEF es
<1>4. TlbTypeOK' /\ TablesMatchEntries' /\ Disjoint(entries')
    <2>1. \A p \in MappedPages :
              ReadTable(es)[p] \in Frames \cup {NoFrame}
              /\ WriteTable(es)[p] \in Frames \cup {NoFrame}
        BY <1>1, TableEntries
    <2>2. /\ ReadTable(es) \in [MappedPages -> Frames \cup {NoFrame}]
          /\ WriteTable(es) \in [MappedPages -> Frames \cup {NoFrame}]
        BY <2>1 DEF ReadTable, WriteTable
    <2>3. TablesMatchEntries'
        BY <1>1, <1>2, TableEntries DEF TablesMatchEntries
    <2> QED BY <1>1, <1>2, <2>2, <2>3 DEF TlbTypeOK
<1>5. lut \in [MappedPages -> Frames \cup {NoFrame}]
    BY <1>2, <1>4 DEF TlbTypeOK
<1> HIDE DEF lut
<1>6. at \in Pages /\ FrameOf(lut, at) \in Frames
    BY <1>1, <1>5, FrameFacts
<1> HIDE DEF at
<1>7. Good(r, mem, overlooked) /\ r.block[at] # NoBlock /\ r.block[Kseg0(FrameOf(lut, at))] # NoBlock
    BY <1>3, <1>6, EnteredGood
<1>8. Good(c', mem', overlooked') /\ c'.block = r.block /\ c' \in Cache
    <2> HIDE DEF r
    <2>1. r \in Cache
        BY <1>7 DEF Good
    <2>2. Good(AllInvalid(r), mem', overlooked') /\ AllInvalid(r).block = r.block
        BY <2>1, AllInvalidGood
    <2> QED BY <1>2, <2>2 DEF Good
<1>9. /\ pc' = at /\ pc' \in Pages \cup {Nowhere}
      /\ ranAs' \in [Frames -> Pages \cup {Nowhere}] /\ tidy' \in BOOLEAN
    BY <1>2, <1>3, <1>6, ArriveType
<1>10. TypeOK'
    BY <1>1, <1>2, <1>3, <1>4, <1>8, <1>9 DEF TypeOK
<1>11. PcHasBlock'
    BY <1>2, <1>6, <1>7, <1>8, <1>9 DEF PcHasBlock, TlbAssumption
<1> QED BY <1>4, <1>8, <1>10, <1>11 DEF IInv

LEMMA StoreStep ==
    ASSUME CodeCacheAssumption, TlbAssumption, IInv,
           NEW p \in Pages, NEW w \in Words, NEW x \in Values, Store(p, w, x)
    PROVE  IInv'
<1> DEFINE r == IF Direct(p) THEN c ELSE Invalidated(c, p, {w})
           f == IF Direct(p) THEN p[1] ELSE LUT_w[p]
<1>1. Good(c, mem, overlooked) /\ LUT_w \in [MappedPages -> Frames \cup {NoFrame}]
    BY DEF IInv, TypeOK, TlbTypeOK
<1>2. Good(r, mem, overlooked) /\ r.block = c.block
    BY <1>1, InvalidatedFacts
<1>3. f \in Frames \cup {NoFrame}
    BY <1>1, PageFacts
<1>4. IF f = NoFrame
      THEN Enter(r, Kseg0(Vectors)) /\ UNCHANGED <<entries, LUT_r, LUT_w, mem>>
      ELSE /\ Write(f, [mem[f] EXCEPT ![w] = x], InvalidatedBoth(r, f, [s \in Segments |-> {w}]))
           /\ overlooked' = overlooked \ {<<f, w>>}
           /\ UNCHANGED aligned
    BY DEF Store
<1> HIDE DEF r, f
<1>5. CASE f = NoFrame
    <2>1. Kseg0(Vectors) \in Pages
        BY DEF CodeCacheAssumption, Kseg0, Pages, DirectPages, Segments
    <2> QED BY <1>2, <1>4, <1>5, <2>1, EnterStep
<1>6. CASE f # NoFrame
    <2> DEFINE new == [mem[f] EXCEPT ![w] = x]
               looked == [s \in Segments |-> {w}]
    <2>1. f \in Frames /\ Write(f, new, InvalidatedBoth(r, f, looked))
        BY <1>3, <1>4, <1>6
    <2>2. /\ \A i \in Words : i # w => new[i] = mem[f][i]
          /\ w \in looked["KSEG0"] /\ w \in looked["KSEG1"]
        BY <2>1 DEF IInv, TypeOK, Contents, Segments
    <2>3. /\ overlooked' = overlooked \ {<<f, w>>} /\ overlooked' \in SUBSET (Frames \X Words)
          /\ aligned' \in BOOLEAN
        BY <1>4, <1>6 DEF IInv, TypeOK
    <2> HIDE DEF new, looked
    <2>4. \A i \in Words :
              (new[i] # mem[f][i] \/ <<f, i>> \in overlooked) /\ <<f, i>> \notin overlooked' =>
                  i \in looked["KSEG0"] /\ i \in looked["KSEG1"]
        BY <2>2, <2>3
    <2>5. \A g \in Frames \ {f}, i \in Words :
              <<g, i>> \in overlooked => <<g, i>> \in overlooked'
        BY <2>3
    <2> QED BY <1>2, <2>1, <2>3, <2>4, <2>5, WriteStep
<1> QED BY <1>5, <1>6

(* Before the first jump no block is there and every page is invalid. *)
THEOREM InitGood ==
    ASSUME CodeCacheAssumption, TlbAssumption, Init
    PROVE  IInv
<1>1. TlbTypeOK /\ Disjoint(entries) /\ TablesMatchEntries
    <2>1. PICK vpn \in Vpns, f \in Frames :
            entries = [i \in Entries |->
                         [vpn2 |-> vpn, half |-> [h \in Halves |->
                                                   [v |-> FALSE, d |-> FALSE, pfn |-> f]]]]
        BY DEF Init, TlbInit
    <2> DEFINE half == [h \in Halves |-> [v |-> FALSE, d |-> FALSE, pfn |-> f]]
    <2>2. half \in [Halves -> Half] /\ \A h \in Halves : half[h].v = FALSE
        BY DEF Half
    <2>3. \A i \in Entries : entries[i] = [vpn2 |-> vpn, half |-> half]
        BY <2>1
    <2>4. entries \in [Entries -> Entry]
        BY <2>1, <2>2 DEF Entry
    <2> HIDE DEF half
    <2>5. \A i \in Entries : Reads(entries[i]) = {}
        BY <2>2, <2>3 DEF Reads, MappedPages
    <2>6. LUT_r = [p \in MappedPages |-> NoFrame] /\ LUT_w = [p \in MappedPages |-> NoFrame]
        BY DEF Init, TlbInit
    <2> QED BY <2>4, <2>5, <2>6 DEF TlbTypeOK, Disjoint, TablesMatchEntries
<1>2. /\ c = [invalid |-> [p \in Pages |-> TRUE], block |-> [p \in Pages |-> NoBlock],
              xxhash |-> [p \in Pages |-> NoHash]]
      /\ pc = Nowhere /\ mem \in [Frames -> Contents]
      /\ ranAs = [f \in Frames |-> Nowhere] /\ tidy = TRUE
      /\ overlooked = {} /\ aligned = TRUE
    BY DEF Init
<1>3. c \in Cache /\ \A p \in Pages : c.invalid[p] = TRUE /\ c.block[p] = NoBlock
    BY <1>2 DEF Cache
<1>4. \A p \in DirectPages : p \in Pages
    BY DEF Pages
<1>5. Good(c, mem, overlooked)
    BY <1>3, <1>4 DEF Good, DirectOk, BlocksThere
<1>6. TypeOK /\ PcHasBlock
    BY <1>1, <1>2, <1>3 DEF TypeOK, PcHasBlock
<1> QED BY <1>1, <1>5, <1>6 DEF IInv

(* Every way to run code, to write to memory, to change the translation    *)
(* and to replace the machine's state keeps the invariant.                 *)
THEOREM StepGood ==
    ASSUME CodeCacheAssumption, TlbAssumption, IInv, [Next]_vars
    PROVE  IInv'
<1>1. Good(c, mem, overlooked)
    BY DEF IInv
<1>2. CASE \E p \in Pages : JumpTo(p)
    BY <1>1, <1>2, EnterStep DEF JumpTo
<1>3. CASE \E w, last \in Words : w <= last /\ Compile(w, last)
    BY <1>3, CompileStep
<1>4. CASE \E p \in Pages, w \in Words, x \in Values : Store(p, w, x)
    BY <1>4, StoreStep
<1>5. CASE \E f \in Frames, first, last \in Words, missed \in SUBSET Segments :
              first <= last /\ \E new \in Holds[f] : Dma(f, first, last, missed, new)
    <2> PICK f \in Frames, first \in Words, last \in Words, missed \in SUBSET Segments :
            \E new \in Holds[f] : Dma(f, first, last, missed, new)
        BY <1>5
    <2>1. PICK new \in Holds[f] : Dma(f, first, last, missed, new)
        OBVIOUS
    <2>2. TypeOK
        BY DEF IInv
    <2>3. PICK looked :
              /\ Write(f, new, InvalidatedBoth(c, f, looked))
              /\ overlooked' \in SUBSET (Frames \X Words) /\ aligned' \in BOOLEAN
              /\ \A g \in Frames \ {f}, w \in Words :
                    <<g, w>> \in overlooked => <<g, w>> \in overlooked'
              /\ \A w \in Words :
                    (new[w] # mem[f][w] \/ <<f, w>> \in overlooked) /\ <<f, w>> \notin overlooked' =>
                        w \in looked["KSEG0"] /\ w \in looked["KSEG1"]
        BY <2>1, <2>2, DmaFacts
    <2> QED BY <1>1, <2>3, WriteStep
<1>6. CASE \E idx \in Entries, new \in NewEntries : WriteEntry(idx, new)
    BY <1>6, WriteEntryStep
<1>7. CASE SoftReset
    <2>1. <<Vectors, "KSEG1">> \in Pages
        BY DEF CodeCacheAssumption, Pages, DirectPages, Segments
    <2>2. Good(AllInvalid(c), mem, overlooked)
        BY <1>1, AllInvalidGood DEF Good
    <2> QED BY <1>7, <2>1, <2>2, EnterStep DEF SoftReset
<1>8. CASE \E file \in Files : LoadState(file)
    BY <1>8, LoadStep
<1>9. CASE UNCHANGED vars
    BY <1>9 DEF vars, IInv, TypeOK, TlbTypeOK, Disjoint, TablesMatchEntries, Good, DirectOk,
                BlocksThere, FreshIn, PcHasBlock
<1>10. CASE EmptyDma
    <2>1. Good(AllInvalid(c), mem, overlooked) /\ AllInvalid(c).block = c.block
        BY <1>1, AllInvalidGood DEF Good
    <2>2. /\ c' = AllInvalid(c)
          /\ UNCHANGED <<entries, LUT_r, LUT_w, mem, pc, ranAs, tidy, overlooked, aligned>>
        BY <1>10 DEF EmptyDma, histories
    <2>3. Good(c', mem', overlooked') /\ c'.block = c.block
        BY <2>1, <2>2
    <2> QED BY <2>2, <2>3 DEF IInv, TypeOK, TlbTypeOK, Disjoint, TablesMatchEntries, Good, PcHasBlock
<1> QED BY <1>2, <1>3, <1>4, <1>5, <1>6, <1>7, <1>8, <1>9, <1>10 DEF Next

(* Every step keeps every part of the state in its range. *)
THEOREM TypesHold ==
    ASSUME CodeCacheAssumption, TlbAssumption
    PROVE  Spec => []TypeOK
<1>1. Init => IInv
    BY InitGood
<1>2. IInv /\ [Next]_vars => IInv'
    BY StepGood
<1>3. IInv => TypeOK
    BY DEF IInv
<1> QED BY <1>1, <1>2, <1>3, PTL DEF Spec

(* The two tables of the TLB say what its entries say, whatever entries    *)
(* are overwritten and in whatever order (tlb_map, tlb_unmap).             *)
THEOREM TablesFollowEntries ==
    ASSUME CodeCacheAssumption, TlbAssumption
    PROVE  Spec => []TablesMatchEntries
<1>1. Init => IInv
    BY InitGood
<1>2. IInv /\ [Next]_vars => IInv'
    BY StepGood
<1>3. IInv => TablesMatchEntries
    BY DEF IInv
<1> QED BY <1>1, <1>2, <1>3, PTL DEF Spec

(* Code reached through KSEG0 or KSEG1 is never run from a block of what   *)
(* was in memory before: with any stores, DMA, writes to the TLB and       *)
(* loaded states between the jumps, also DMA that begins inside a word,    *)
(* but for the words that the loop of cached_interp.c:962 then overlooks,  *)
(* until they are written again.                                           *)
THEOREM DirectCodeHolds ==
    ASSUME CodeCacheAssumption, TlbAssumption
    PROVE  Spec => []DirectCodeIsCurrent
<1>1. Init => IInv
    BY InitGood
<1>2. IInv /\ [Next]_vars => IInv'
    BY StepGood
<1>3. IInv => DirectCodeIsCurrent
    BY DEF IInv, Good, DirectOk, FreshIn, DirectCodeIsCurrent, Fresh
<1> QED BY <1>1, <1>2, <1>3, PTL DEF Spec

(* No page is valid without a block, and the running page has its block    *)
(* and that of its frame, so neither a jump nor compiling reaches a block  *)
(* that is not there.                                                      *)
THEOREM BlocksHold ==
    ASSUME CodeCacheAssumption, TlbAssumption
    PROVE  Spec => []ValidHasBlock
<1>1. Init => IInv
    BY InitGood
<1>2. IInv /\ [Next]_vars => IInv'
    BY StepGood
<1>3. IInv => ValidHasBlock
    BY DEF IInv, Good, BlocksThere, PcHasBlock, ValidHasBlock
<1> QED BY <1>1, <1>2, <1>3, PTL DEF Spec

-----------------------------------------------------------------------------
(* What the mapped pages need.  r is a cache, lut the table for reading, m *)
(* the memory and ran the history ranAs.                                   *)
Separate == \A f, g \in Frames : f # g => Holds[f] \cap Holds[g] = {}

(* A write to a compiled word of p, as a page of f, would be noticed. *)
Marked(r, p, f) ==
    r.block[p] # NoBlock =>
        \A w \in Words :
            \/ r.block[p][w] \in Waiting
            \/ /\ r.block[Kseg0(f)] # NoBlock
               /\ r.block[Kseg0(f)][w] # NotCompiled

(* The words of p that are compiled are those of x. *)
Translates(r, p, x) ==
    r.block[p] # NoBlock => \A w \in Words : r.block[p][w] \in Waiting \cup {x[w]}

RunsCurrent(r, lut, m, ran, p) ==
    LET f == lut[p]
        k == Kseg0(f)
    IN ~ r.invalid[p] =>
          /\ f \in Frames /\ ran[f] = p
          /\ Marked(r, p, f)
          /\ ~ (r.invalid[k] \/ r.invalid[Twin(k)]) => Translates(r, p, m[f])

HashCurrent(r, ran, p) ==
    r.xxhash[p] # NoHash =>
        /\ Translates(r, p, r.xxhash[p])
        /\ \E f \in Frames : ran[f] = p /\ r.xxhash[p] \in Holds[f] /\ Marked(r, p, f)

MappedOk(r, lut, m, ran) ==
    \A p \in MappedPages : RunsCurrent(r, lut, m, ran, p) /\ HashCurrent(r, ran, p)

(* The strengthening of MappedCodeIsCurrent. *)
MappedInv ==
    /\ \A f \in Frames : mem[f] \in Holds[f]
    /\ tidy /\ aligned /\ Separate => MappedOk(c, LUT_r, mem, ranAs)

(* More pages are invalid, or the tables change for those only. *)
LEMMA MappedStays ==
    ASSUME CodeCacheAssumption, NEW r, NEW s, NEW lut, NEW lut2, NEW m, NEW ran, NEW ran2,
           MappedOk(r, lut, m, ran), s.block = r.block,
           \A p \in Pages : s.xxhash[p] = r.xxhash[p] /\ (r.invalid[p] => s.invalid[p]),
           \A p \in MappedPages : ~ s.invalid[p] => lut2[p] = lut[p],
           \A p \in MappedPages, f \in Frames : ran[f] = p => ran2[f] = p
    PROVE  MappedOk(s, lut2, m, ran2)
<1> SUFFICES ASSUME NEW p \in MappedPages
             PROVE  RunsCurrent(s, lut2, m, ran2, p) /\ HashCurrent(s, ran2, p)
    BY DEF MappedOk
<1>1. RunsCurrent(r, lut, m, ran, p) /\ HashCurrent(r, ran, p) /\ p \in Pages
    BY PageFacts DEF MappedOk
<1>2. RunsCurrent(s, lut2, m, ran2, p)
    <2> SUFFICES ASSUME ~ s.invalid[p]
                 PROVE  /\ lut2[p] \in Frames /\ ran2[lut2[p]] = p
                        /\ Marked(s, p, lut2[p])
                        /\ ~ (s.invalid[Kseg0(lut2[p])] \/ s.invalid[Twin(Kseg0(lut2[p]))])
                              => Translates(s, p, m[lut2[p]])
        BY DEF RunsCurrent
    <2>1. lut2[p] = lut[p] /\ ~ r.invalid[p]
        BY <1>1
    <2> DEFINE f == lut[p]
    <2>2. /\ f \in Frames /\ ran[f] = p /\ Marked(r, p, f)
          /\ ~ (r.invalid[Kseg0(f)] \/ r.invalid[Twin(Kseg0(f))]) => Translates(r, p, m[f])
        BY <1>1, <2>1 DEF RunsCurrent
    <2> HIDE DEF f
    <2>3. Kseg0(f) \in Pages /\ Twin(Kseg0(f)) \in Pages
        BY <2>2, PageFacts
    <2>4. Marked(s, p, f)
        BY <2>2 DEF Marked
    <2>5. Translates(r, p, m[f]) => Translates(s, p, m[f])
        BY DEF Translates
    <2> QED BY <2>1, <2>2, <2>3, <2>4, <2>5 DEF f
<1>3. HashCurrent(s, ran2, p)
    BY <1>1 DEF HashCurrent, Translates, Marked
<1> QED BY <1>2, <1>3

LEMMA InitDirectFacts ==
    ASSUME CodeCacheAssumption, NEW r \in Cache, NEW p \in DirectPages
    PROVE  /\ InitDirect(r, p) \in Cache /\ InitDirect(r, p).xxhash = r.xxhash
           /\ InitDirect(r, p).block[p] = Uncompiled
           /\ \A o \in Pages : o \notin {p, Twin(p)} =>
                /\ InitDirect(r, p).block[o] = r.block[o]
                /\ InitDirect(r, p).invalid[o] = r.invalid[o]
<1> DEFINE q == Twin(p)
           t == Reset(r, p)
<1>1. p \in Pages /\ q \in Pages /\ q # p
    BY PageFacts
<1>2. /\ t \in Cache /\ t.xxhash = r.xxhash /\ t.block[p] = Uncompiled
      /\ \A o \in Pages : o # p => t.block[o] = r.block[o] /\ t.invalid[o] = r.invalid[o]
    BY <1>1, ResetFacts
<1> HIDE DEF t
<1>3. CASE r.invalid[q]
    <2>1. InitDirect(r, p) = Reset(t, q)
        BY <1>3 DEF InitDirect, t
    <2>2. /\ Reset(t, q) \in Cache /\ Reset(t, q).xxhash = t.xxhash
          /\ \A o \in Pages : o # q => /\ Reset(t, q).block[o] = t.block[o]
                                     /\ Reset(t, q).invalid[o] = t.invalid[o]
        BY <1>1, <1>2, ResetFacts
    <2> HIDE DEF q
    <2> QED BY <1>1, <1>2, <2>1, <2>2 DEF q
<1>4. CASE ~ r.invalid[q]
    <2>1. InitDirect(r, p) = t
        BY <1>4 DEF InitDirect, t
    <2> QED BY <1>1, <1>2, <2>1
<1> QED BY <1>3, <1>4

LEMMA UpdatedFacts ==
    ASSUME CodeCacheAssumption, NEW m, NEW out, NEW r, Good(r, m, out), NEW lut, NEW p \in Pages,
           FrameOf(lut, p) \in Frames
    PROVE  LET u == update_invalid_addr(lut, r, p)
               k == Kseg0(FrameOf(lut, p))
           IN /\ Good(u, m, out) /\ u.block = r.block /\ u.xxhash = r.xxhash
              /\ \A o \in Pages : r.invalid[o] => u.invalid[o]
              /\ \A o \in Pages : o \notin {p, k, Twin(k)} => u.invalid[o] = r.invalid[o]
<1> DEFINE u == update_invalid_addr(lut, r, p)
           k == Kseg0(FrameOf(lut, p))
           t == Twin(k)
<1>1. k \in Pages /\ t \in Pages /\ k \in DirectPages
    BY PageFacts
<1>2. CASE Direct(p)
    <2>1. /\ p \in Pages /\ Twin(p) \in Pages /\ Twin(p) # p
          /\ {p, k, t} = {p, Twin(p)}
        BY <1>2, PageFacts DEF FrameOf, Kseg0, Twin, DirectPages, Segments
    <2>2. u = Paired(r, p, Twin(p))
        BY <1>2 DEF update_invalid_addr
    <2> DEFINE q == Twin(p)
    <2> HIDE DEF q
    <2>3. q \in Pages /\ u = Paired(r, p, q) /\ {p, k, t} = {p, q}
        BY <2>1, <2>2 DEF q
    <2> HIDE DEF u, k, t
    <2>4. /\ Good(u, m, out) /\ u.block = r.block /\ u.xxhash = r.xxhash
          /\ u.invalid[p] <=> r.invalid[p] \/ r.invalid[q]
          /\ u.invalid[q] <=> r.invalid[p] \/ r.invalid[q]
          /\ \A o \in Pages : o # p /\ o # q => u.invalid[o] = r.invalid[o]
        <3> DEFINE v == Paired(r, p, q)
        <3>0. q \in Pages
            BY <2>3
        <3>1. /\ Good(v, m, out) /\ v.block = r.block /\ v.xxhash = r.xxhash
              /\ v.invalid[p] <=> r.invalid[p] \/ r.invalid[q]
              /\ v.invalid[q] <=> r.invalid[p] \/ r.invalid[q]
              /\ \A o \in Pages : o # p /\ o # q => v.invalid[o] = r.invalid[o]
            BY <3>0, PairedGood
        <3>2. u = v
            BY <2>3
        <3> HIDE DEF v
        <3> QED BY <3>1, <3>2
    <2>5. \A o \in Pages : o \notin {p, k, t} => u.invalid[o] = r.invalid[o]
        BY <2>3, <2>4
    <2>6. \A o \in Pages : r.invalid[o] => u.invalid[o]
        BY <2>4
    <2> QED BY <2>4, <2>5, <2>6 DEF u, k, t
<1>3. CASE ~ Direct(p)
    <2> DEFINE v == Paired(r, k, t)
    <2>1. k = Kseg0(lut[p])
        BY <1>3 DEF FrameOf
    <2>2. u = Paired(v, k, p)
        BY <1>3, <2>1 DEF update_invalid_addr
    <2> HIDE DEF u, k, t
    <2>3. /\ Good(v, m, out) /\ v.block = r.block /\ v.xxhash = r.xxhash
          /\ v.invalid[k] <=> r.invalid[k] \/ r.invalid[t]
          /\ v.invalid[t] <=> r.invalid[k] \/ r.invalid[t]
          /\ \A o \in Pages : o # k /\ o # t => v.invalid[o] = r.invalid[o]
        BY <1>1, PairedGood
    <2> HIDE DEF v
    <2>4. /\ Good(u, m, out) /\ u.block = v.block /\ u.xxhash = v.xxhash
          /\ u.invalid[k] <=> v.invalid[k] \/ v.invalid[p]
          /\ u.invalid[p] <=> v.invalid[k] \/ v.invalid[p]
          /\ \A o \in Pages : o # k /\ o # p => u.invalid[o] = v.invalid[o]
        <3> DEFINE x == Paired(v, k, p)
        <3>1. /\ Good(x, m, out) /\ x.block = v.block /\ x.xxhash = v.xxhash
              /\ x.invalid[k] <=> v.invalid[k] \/ v.invalid[p]
              /\ x.invalid[p] <=> v.invalid[k] \/ v.invalid[p]
              /\ \A o \in Pages : o # k /\ o # p => x.invalid[o] = v.invalid[o]
            BY <1>1, <2>3, PairedGood
        <3>2. u = x
            BY <2>2
        <3> HIDE DEF x
        <3> QED BY <3>1, <3>2
    <2>5. \A o \in Pages : o \notin {p, k, t} => u.invalid[o] = r.invalid[o]
        BY <2>3, <2>4
    <2>6. \A o \in Pages : r.invalid[o] => v.invalid[o]
        BY <2>3
    <2>7. \A o \in Pages : v.invalid[o] => u.invalid[o]
        BY <2>4
    <2> QED BY <2>3, <2>4, <2>5, <2>6, <2>7 DEF u, k, t
<1> QED BY <1>2, <1>3

(* A page is entered as it is, or it and its frame's pages are reset. *)
LEMMA EnteredFacts ==
    ASSUME CodeCacheAssumption, NEW m, NEW out, NEW r, Good(r, m, out), NEW lut, NEW p \in Pages,
           FrameOf(lut, p) \in Frames
    PROVE  LET s == Entered(lut, r, p)
               k == Kseg0(FrameOf(lut, p))
           IN /\ s.xxhash = r.xxhash
              /\ \/ /\ s.block = r.block
                    /\ \A o \in Pages : r.invalid[o] => s.invalid[o]
                 \/ /\ s.block[p] = Uncompiled
                    /\ \A o \in Pages : o \notin {p, k, Twin(k)} =>
                          s.block[o] = r.block[o] /\ s.invalid[o] = r.invalid[o]
<1> DEFINE u == update_invalid_addr(lut, r, p)
           k == Kseg0(FrameOf(lut, p))
           t == Twin(k)
           s == Entered(lut, r, p)
<1>1. /\ Good(u, m, out) /\ u.block = r.block /\ u.xxhash = r.xxhash
      /\ \A o \in Pages : r.invalid[o] => u.invalid[o]
      /\ \A o \in Pages : o \notin {p, k, t} => u.invalid[o] = r.invalid[o]
    BY UpdatedFacts
<1>2. CASE ~ u.invalid[p]
    <2>1. s = u
        BY <1>2 DEF Entered
    <2> HIDE DEF s, u, k, t
    <2>2. s.xxhash = r.xxhash /\ s.block = r.block /\ \A o \in Pages : r.invalid[o] => s.invalid[o]
        BY <1>1, <2>1
    <2> QED BY <2>2 DEF s, k, t
<1>3. CASE u.invalid[p]
    <2>1. u \in Cache /\ s = init_block(lut, u, p) /\ k \in DirectPages
        BY <1>1, <1>3, PageFacts DEF Good, Entered
    <2>2. CASE Direct(p)
        <3>1. /\ s = InitDirect(u, p) /\ p \in DirectPages
              /\ {p, k, t} = {p, Twin(p)}
            BY <2>1, <2>2, PageFacts DEF init_block, FrameOf, Kseg0, Twin, DirectPages, Segments
        <3> HIDE DEF u, s, k, t
        <3>2. /\ s.xxhash = u.xxhash /\ s.block[p] = Uncompiled
              /\ \A o \in Pages : o \notin {p, Twin(p)} =>
                    s.block[o] = u.block[o] /\ s.invalid[o] = u.invalid[o]
            BY <2>1, <3>1, InitDirectFacts
        <3>3. \A o \in Pages : o \notin {p, k, t} =>
                    s.block[o] = r.block[o] /\ s.invalid[o] = r.invalid[o]
            BY <1>1, <3>1, <3>2
        <3> QED BY <1>1, <3>2, <3>3 DEF s, k, t
    <2>3. CASE ~ Direct(p)
        <3> DEFINE v == Reset(u, p)
        <3>1. s = InitDirect(v, k) /\ p \notin DirectPages
            BY <2>1, <2>3, PageFacts DEF init_block, FrameOf, Direct
        <3> HIDE DEF u, s, k, t
        <3>2. /\ v \in Cache /\ v.xxhash = u.xxhash /\ v.block[p] = Uncompiled
              /\ \A o \in Pages : o # p => v.block[o] = u.block[o] /\ v.invalid[o] = u.invalid[o]
            BY <2>1, ResetFacts
        <3> HIDE DEF v
        <3>3. /\ s.xxhash = v.xxhash
              /\ \A o \in Pages : o \notin {k, Twin(k)} =>
                    s.block[o] = v.block[o] /\ s.invalid[o] = v.invalid[o]
            BY <2>1, <3>1, <3>2, InitDirectFacts
        <3>4. p \notin {k, t} /\ t = Twin(k)
            BY <2>1, <3>1, PageFacts DEF t
        <3>5. s.block[p] = Uncompiled
            BY <3>2, <3>3, <3>4
        <3>6. \A o \in Pages : o \notin {p, k, t} =>
                    s.block[o] = r.block[o] /\ s.invalid[o] = r.invalid[o]
            BY <1>1, <3>2, <3>3, <3>4
        <3> QED BY <1>1, <3>2, <3>3, <3>5, <3>6 DEF s, k, t
    <2> QED BY <2>2, <2>3
<1> QED BY <1>2, <1>3

(* A page that has kept its block and its state belongs to another frame   *)
(* than the one that is entered.                                           *)
LEMMA OtherFrame ==
    ASSUME CodeCacheAssumption, NEW at \in Pages, NEW lut, NEW p \in MappedPages, p # at,
           NEW f \in Frames, NEW ran, ran[f] = p, ran[FrameOf(lut, at)] = Way(at)
    PROVE  /\ f # FrameOf(lut, at)
           /\ FrameOf(lut, at) \in Frames =>
                LET k == Kseg0(FrameOf(lut, at))
                IN /\ Kseg0(f) \in Pages /\ Twin(Kseg0(f)) \in Pages
                   /\ Kseg0(f) \notin {at, k, Twin(k)}
                   /\ Twin(Kseg0(f)) \notin {at, k, Twin(k)}
<1> DEFINE g == FrameOf(lut, at)
           k == Kseg0(g)
<1>1. f # g
    <2>1. CASE Direct(at)
        <3>1. at \in DirectPages /\ at[1] \in Frames /\ Way(at) = Kseg0(at[1])
            BY <2>1, PageFacts DEF Way
        <3>2. Way(at) \in DirectPages
            BY <3>1, PageFacts
        <3> QED BY <3>2, PageFacts
    <2>2. CASE ~ Direct(at)
        BY <2>2 DEF Way
    <2> QED BY <2>1, <2>2
<1>2. ASSUME g \in Frames
      PROVE  /\ Kseg0(f) \in Pages /\ Twin(Kseg0(f)) \in Pages
             /\ Kseg0(f) \notin {at, k, Twin(k)}
             /\ Twin(Kseg0(f)) \notin {at, k, Twin(k)}
    <2>1. /\ Kseg0(f) \in DirectPages /\ Twin(Kseg0(f)) \in DirectPages
          /\ Kseg0(f)[1] = f /\ Twin(Kseg0(f))[1] = f
          /\ k[1] = g /\ Twin(k)[1] = g
        BY <1>2, PageFacts
    <2>2. at \in DirectPages => at[1] = g
        BY PageFacts DEF FrameOf
    <2> HIDE DEF k, g
    <2> QED BY <1>1, <2>1, <2>2, PageFacts
<1> QED BY <1>1, <1>2

LEMMA EnteredHash ==
    ASSUME CodeCacheAssumption, NEW m, NEW out, NEW r, Good(r, m, out), NEW lut, NEW at \in Pages,
           FrameOf(lut, at) \in Frames, NEW ran, NEW ran2,
           \A p \in MappedPages : HashCurrent(r, ran, p),
           ran2[FrameOf(lut, at)] = Way(at),
           \A f \in Frames, p \in MappedPages : ran[f] = p => ran2[f] = p,
           NEW p \in MappedPages
    PROVE  HashCurrent(Entered(lut, r, at), ran2, p)
<1> DEFINE s == Entered(lut, r, at)
           k == Kseg0(FrameOf(lut, at))
<1>1. /\ s.xxhash = r.xxhash
      /\ \/ /\ s.block = r.block
            /\ \A o \in Pages : r.invalid[o] => s.invalid[o]
         \/ /\ s.block[at] = Uncompiled
            /\ \A o \in Pages : o \notin {at, k, Twin(k)} =>
                  s.block[o] = r.block[o] /\ s.invalid[o] = r.invalid[o]
    BY EnteredFacts
<1> HIDE DEF s
<1> SUFFICES ASSUME s.xxhash[p] # NoHash
             PROVE  /\ Translates(s, p, s.xxhash[p])
                    /\ \E f \in Frames : ran2[f] = p /\ s.xxhash[p] \in Holds[f] /\ Marked(s, p, f)
    BY DEF HashCurrent, s
<1>2. Translates(r, p, r.xxhash[p])
    BY <1>1 DEF HashCurrent
<1>3. PICK f \in Frames : ran[f] = p /\ r.xxhash[p] \in Holds[f] /\ Marked(r, p, f)
    BY <1>1 DEF HashCurrent
<1>4. ran2[f] = p /\ s.xxhash[p] \in Holds[f] /\ p \in Pages
    BY <1>1, <1>3, PageFacts
<1>5. CASE s.block = r.block
    BY <1>1, <1>2, <1>3, <1>4, <1>5 DEF Translates, Marked
<1>6. CASE /\ s.block[at] = Uncompiled
           /\ \A o \in Pages : o \notin {at, k, Twin(k)} =>
                  s.block[o] = r.block[o] /\ s.invalid[o] = r.invalid[o]
    <2>1. CASE p = at
        <3>1. \A w \in Words : s.block[p][w] \in Waiting
            BY <1>6, <2>1 DEF Uncompiled, Waiting
        <3> QED BY <1>4, <3>1 DEF Translates, Marked
    <2>2. CASE p # at
        <3>1. Kseg0(f) \in Pages /\ Kseg0(f) \notin {at, k, Twin(k)}
            BY <1>4, <2>2, OtherFrame
        <3>2. p \notin {at, k, Twin(k)}
            BY <2>2, PageFacts
        <3> HIDE DEF k
        <3>3. s.block[p] = r.block[p] /\ s.block[Kseg0(f)] = r.block[Kseg0(f)]
            BY <1>4, <1>6, <3>1, <3>2
        <3> QED BY <1>1, <1>2, <1>3, <1>4, <3>3 DEF Translates, Marked
    <2> QED BY <2>1, <2>2
<1> QED BY <1>1, <1>5, <1>6

LEMMA EnteredRuns ==
    ASSUME CodeCacheAssumption, NEW m, NEW out, NEW r, Good(r, m, out), NEW lut, NEW at \in Pages,
           FrameOf(lut, at) \in Frames, NEW ran, NEW ran2,
           MappedOk(r, lut, m, ran),
           ran2[FrameOf(lut, at)] = Way(at),
           \A f \in Frames, p \in MappedPages : ran[f] = p => ran2[f] = p
    PROVE  MappedOk(Entered(lut, r, at), lut, m, ran2)
<1> DEFINE s == Entered(lut, r, at)
           k == Kseg0(FrameOf(lut, at))
<1>1. /\ s.xxhash = r.xxhash
      /\ \/ /\ s.block = r.block
            /\ \A o \in Pages : r.invalid[o] => s.invalid[o]
         \/ /\ s.block[at] = Uncompiled
            /\ \A o \in Pages : o \notin {at, k, Twin(k)} =>
                  s.block[o] = r.block[o] /\ s.invalid[o] = r.invalid[o]
    BY EnteredFacts
<1>2. CASE /\ s.block = r.block
           /\ \A o \in Pages : r.invalid[o] => s.invalid[o]
    <2> HIDE DEF s
    <2>1. MappedOk(s, lut, m, ran2)
        BY <1>1, <1>2, MappedStays
    <2> QED BY <2>1 DEF s
<1>3. CASE /\ s.block[at] = Uncompiled
           /\ \A o \in Pages : o \notin {at, k, Twin(k)} =>
                  s.block[o] = r.block[o] /\ s.invalid[o] = r.invalid[o]
    <2> SUFFICES ASSUME NEW p \in MappedPages
                 PROVE  RunsCurrent(s, lut, m, ran2, p) /\ HashCurrent(s, ran2, p)
        BY DEF MappedOk
    <2>1. HashCurrent(s, ran2, p)
        <3>1. \A q \in MappedPages : HashCurrent(r, ran, q)
            BY DEF MappedOk
        <3> QED BY <3>1, EnteredHash
    <2> HIDE DEF s
    <2>2. CASE p = at
        <3>1. FrameOf(lut, at) = lut[p] /\ Way(at) = p
            BY <2>2, PageFacts DEF FrameOf, Way
        <3>2. \A w \in Words : s.block[p][w] \in Waiting
            BY <1>3, <2>2 DEF Uncompiled, Waiting
        <3> QED BY <2>1, <3>1, <3>2 DEF RunsCurrent, Translates, Marked
    <2>3. CASE p # at
        <3>0. p \in Pages /\ p \notin {at, k, Twin(k)}
            BY <2>3, PageFacts
        <3> DEFINE f == lut[p]
        <3> SUFFICES ASSUME ~ s.invalid[p]
                     PROVE  /\ f \in Frames /\ ran2[f] = p
                            /\ Marked(s, p, f)
                            /\ ~ (s.invalid[Kseg0(f)] \/ s.invalid[Twin(Kseg0(f))])
                                  => Translates(s, p, m[f])
            BY <2>1 DEF RunsCurrent
        <3>1. ~ r.invalid[p] /\ s.block[p] = r.block[p]
            <4> HIDE DEF k
            <4> QED BY <1>3, <3>0
        <3>2. /\ f \in Frames /\ ran[f] = p /\ Marked(r, p, f)
              /\ ~ (r.invalid[Kseg0(f)] \/ r.invalid[Twin(Kseg0(f))]) => Translates(r, p, m[f])
            BY <3>1 DEF MappedOk, RunsCurrent
        <3> HIDE DEF f
        <3>3. ran2[f] = p
            BY <3>2
        <3>4. /\ Kseg0(f) \in Pages /\ Kseg0(f) \notin {at, k, Twin(k)}
              /\ Twin(Kseg0(f)) \in Pages /\ Twin(Kseg0(f)) \notin {at, k, Twin(k)}
            BY <2>3, <3>2, <3>3, OtherFrame
        <3> HIDE DEF k
        <3>5. /\ s.block[Kseg0(f)] = r.block[Kseg0(f)]
              /\ s.invalid[Kseg0(f)] = r.invalid[Kseg0(f)]
              /\ s.invalid[Twin(Kseg0(f))] = r.invalid[Twin(Kseg0(f))]
            BY <1>3, <3>4
        <3>6. Marked(s, p, f)
            BY <3>1, <3>2, <3>5 DEF Marked
        <3>7. Translates(r, p, m[f]) => Translates(s, p, m[f])
            BY <3>1 DEF Translates
        <3> QED BY <3>2, <3>3, <3>5, <3>6, <3>7
    <2> QED BY <2>2, <2>3
<1> QED BY <1>1, <1>2, <1>3

LEMMA ArriveHistory ==
    ASSUME CodeCacheAssumption, TypeOK, NEW lut, NEW at \in Pages, FrameOf(lut, at) \in Frames,
           Arrive(lut, at), tidy'
    PROVE  /\ tidy /\ ranAs'[FrameOf(lut, at)] = Way(at)
           /\ \A f \in Frames, p \in MappedPages : ranAs[f] = p => ranAs'[f] = p
<1> DEFINE g == FrameOf(lut, at)
<1>1. /\ ranAs' = [ranAs EXCEPT ![g] = IF @ = Nowhere THEN Way(at) ELSE @]
      /\ tidy /\ ranAs[g] \in {Nowhere, Way(at)} /\ g \in Frames
      /\ ranAs \in [Frames -> Pages \cup {Nowhere}]
    BY DEF Arrive, TypeOK
<1> HIDE DEF g
<1>2. \A p \in MappedPages : p # Nowhere
    BY PageFacts DEF CodeCacheAssumption
<1>3. \A f \in Frames : ranAs'[f] = IF f = g /\ ranAs[f] = Nowhere THEN Way(at) ELSE ranAs[f]
    BY <1>1
<1> QED BY <1>1, <1>2, <1>3 DEF g

LEMMA EnterMapped ==
    ASSUME CodeCacheAssumption, TlbAssumption, IInv, MappedInv, NEW r, Good(r, mem, overlooked),
           tidy /\ aligned /\ Separate => MappedOk(r, LUT_r, mem, ranAs),
           NEW p \in Pages, Enter(r, p), UNCHANGED <<entries, LUT_r, LUT_w, mem>>
    PROVE  MappedInv'
<1> DEFINE at == Landing(LUT_r, p)
<1>1. TypeOK /\ LUT_r \in [MappedPages -> Frames \cup {NoFrame}]
    BY DEF IInv, TypeOK, TlbTypeOK
<1>2. at \in Pages /\ FrameOf(LUT_r, at) \in Frames
    BY <1>1, FrameFacts
<1>3. /\ c' = Entered(LUT_r, r, at) /\ Arrive(LUT_r, at)
      /\ UNCHANGED <<overlooked, aligned>>
    BY DEF Enter
<1> HIDE DEF at
<1>4. ASSUME tidy', aligned', Separate PROVE MappedOk(c', LUT_r', mem', ranAs')
    <2>1. /\ tidy /\ ranAs'[FrameOf(LUT_r, at)] = Way(at)
          /\ \A f \in Frames, q \in MappedPages : ranAs[f] = q => ranAs'[f] = q
        BY <1>1, <1>2, <1>3, <1>4, ArriveHistory
    <2>2. MappedOk(r, LUT_r, mem, ranAs)
        BY <1>3, <1>4, <2>1
    <2>3. MappedOk(Entered(LUT_r, r, at), LUT_r, mem, ranAs')
        BY <1>2, <2>1, <2>2, EnteredRuns
    <2> QED BY <1>3, <2>3
<1>5. Separate' = Separate
    BY DEF Separate
<1> QED BY <1>4, <1>5 DEF MappedInv

(* The words that a write reaches are not compiled, or one of the direct   *)
(* pages of the frame is invalid.                                          *)
LEMMA WriteMapped ==
    ASSUME CodeCacheAssumption, IInv, MappedInv, NEW r, Good(r, mem, overlooked),
           tidy /\ aligned /\ Separate => MappedOk(r, LUT_r, mem, ranAs),
           NEW f \in Frames, NEW new, NEW looked, Write(f, new, InvalidatedBoth(r, f, looked)),
           aligned' => /\ aligned
                       /\ \A w \in Words : new[w] # mem[f][w] => w \in looked["KSEG0"]
    PROVE  MappedInv'
<1> DEFINE k == Kseg0(f)
           q == <<f, "KSEG1">>
           t == Invalidated(r, k, looked["KSEG0"])
           s == Invalidated(t, q, looked["KSEG1"])
<1>1. /\ mem' = [mem EXCEPT ![f] = new] /\ c' = s /\ new \in Holds[f]
      /\ UNCHANGED <<entries, LUT_r, LUT_w, pc, ranAs, tidy>>
      /\ mem \in [Frames -> Contents]
    BY DEF Write, InvalidatedBoth, IInv, TypeOK, Kseg0
<1>2. k \in Pages /\ q \in Pages /\ q # k
    BY DEF Kseg0, Pages, DirectPages, Segments
<1>3. /\ Good(t, mem, overlooked) /\ t.block = r.block /\ t.xxhash = r.xxhash
      /\ t.invalid[k] <=> r.invalid[k] \/ Compiled(r, k, looked["KSEG0"])
      /\ \A o \in Pages : o # k => t.invalid[o] = r.invalid[o]
    <2> HIDE DEF k
    <2>1. t.xxhash = r.xxhash
        BY DEF Invalidated, Good, Cache
    <2> QED BY <1>2, <2>1, InvalidatedFacts
<1> HIDE DEF t
<1>4. /\ s.block = t.block /\ s.xxhash = t.xxhash
      /\ s.invalid[q] <=> t.invalid[q] \/ Compiled(t, q, looked["KSEG1"])
      /\ \A o \in Pages : o # q => s.invalid[o] = t.invalid[o]
    <2> HIDE DEF q
    <2>1. s.xxhash = t.xxhash
        BY <1>3 DEF Invalidated, Good, Cache
    <2> QED BY <1>2, <1>3, <2>1, InvalidatedFacts
<1> HIDE DEF s, q
<1>5. /\ s.block = r.block /\ s.xxhash = r.xxhash
      /\ \A o \in Pages : r.invalid[o] => s.invalid[o]
      /\ ~ s.invalid[k] => ~ Compiled(r, k, looked["KSEG0"])
    BY <1>2, <1>3, <1>4
<1>6. mem'[f] = new /\ \A g \in Frames \ {f} : mem'[g] = mem[g]
    BY <1>1
<1>7. \A g \in Frames : mem'[g] \in Holds[g]
    BY <1>1, <1>6 DEF MappedInv
<1>8. ASSUME tidy, aligned', Separate PROVE MappedOk(s, LUT_r, mem', ranAs)
    <2>1. MappedOk(s, LUT_r, mem, ranAs)
        BY <1>5, <1>8, MappedStays
    <2> SUFFICES ASSUME NEW p \in MappedPages
                 PROVE  RunsCurrent(s, LUT_r, mem', ranAs, p)
        BY <2>1 DEF MappedOk
    <2> DEFINE g == LUT_r[p]
    <2> SUFFICES ASSUME g \in Frames, Marked(s, p, g), Translates(s, p, mem[g]),
                        ~ s.invalid[Kseg0(g)]
                 PROVE  Translates(s, p, mem'[g])
        BY <2>1 DEF MappedOk, RunsCurrent
    <2>2. CASE g # f
        BY <1>6, <2>2
    <2>3. CASE g = f
        <3>1. ~ Compiled(r, k, looked["KSEG0"])
            BY <1>5, <2>3
        <3>2. ASSUME s.block[p] # NoBlock, NEW w \in Words, new[w] # mem[f][w]
              PROVE  s.block[p][w] \in Waiting
            <4>1. w \in looked["KSEG0"]
                BY <1>8, <3>2
            <4> QED BY <1>5, <2>3, <3>1, <3>2, <4>1 DEF Marked, Compiled
        <3> HIDE DEF g
        <3> QED BY <1>6, <2>3, <3>2 DEF Translates
    <2> QED BY <2>2, <2>3
<1>9. Separate' = Separate
    BY DEF Separate
<1> QED BY <1>1, <1>7, <1>8, <1>9 DEF MappedInv

LEMMA StoreMapped ==
    ASSUME CodeCacheAssumption, TlbAssumption, IInv, MappedInv,
           NEW p \in Pages, NEW w \in Words, NEW x \in Values, Store(p, w, x)
    PROVE  MappedInv'
<1> DEFINE r == IF Direct(p) THEN c ELSE Invalidated(c, p, {w})
           f == IF Direct(p) THEN p[1] ELSE LUT_w[p]
<1>1. Good(c, mem, overlooked) /\ LUT_w \in [MappedPages -> Frames \cup {NoFrame}]
    BY DEF IInv, TypeOK, TlbTypeOK
<1>2. /\ Good(r, mem, overlooked) /\ r.block = c.block
      /\ \A o \in Pages : c.invalid[o] => r.invalid[o]
    BY <1>1, InvalidatedFacts
<1>3. r.xxhash = c.xxhash
    BY <1>1 DEF Invalidated, Good, Cache
<1>4. f \in Frames \cup {NoFrame}
    BY <1>1, PageFacts
<1>5. IF f = NoFrame
      THEN Enter(r, Kseg0(Vectors)) /\ UNCHANGED <<entries, LUT_r, LUT_w, mem>>
      ELSE /\ Write(f, [mem[f] EXCEPT ![w] = x], InvalidatedBoth(r, f, [s \in Segments |-> {w}]))
           /\ UNCHANGED aligned
    BY DEF Store
<1> HIDE DEF r, f
<1>6. tidy /\ aligned /\ Separate => MappedOk(r, LUT_r, mem, ranAs)
    BY <1>2, <1>3, MappedStays DEF MappedInv
<1>7. CASE f = NoFrame
    <2>1. Kseg0(Vectors) \in Pages
        BY DEF CodeCacheAssumption, Kseg0, Pages, DirectPages, Segments
    <2> QED BY <1>2, <1>5, <1>6, <1>7, <2>1, EnterMapped
<1>8. CASE f # NoFrame
    <2> DEFINE new == [mem[f] EXCEPT ![w] = x]
               looked == [s \in Segments |-> {w}]
    <2>1. f \in Frames /\ Write(f, new, InvalidatedBoth(r, f, looked)) /\ UNCHANGED aligned
        BY <1>4, <1>5, <1>8
    <2>2. w \in looked["KSEG0"] /\ \A i \in Words : i # w => new[i] = mem[f][i]
        BY <2>1 DEF IInv, TypeOK, Contents, Segments
    <2> HIDE DEF new, looked
    <2>3. \A i \in Words : new[i] # mem[f][i] => i \in looked["KSEG0"]
        BY <2>2
    <2> QED BY <1>2, <1>6, <2>1, <2>3, WriteMapped
<1> QED BY <1>7, <1>8

(* What is compiled for a mapped page is marked in its frame's page, and   *)
(* compiling removes no mark.                                              *)
LEMMA CompileMapped ==
    ASSUME CodeCacheAssumption, TlbAssumption, IInv, MappedInv,
           NEW w \in Words, NEW last \in Words, Compile(w, last)
    PROVE  MappedInv'
<1> DEFINE f == FrameOf(LUT_r, pc)
           k == Kseg0(f)
           new == [i \in Words |-> IF i \in w .. last THEN mem[f][i] ELSE c.block[pc][i]]
           marked == [i \in Words |-> IF i \in w .. last /\ c.block[k][i] = NotCompiled
                                      THEN NotCompiled2 ELSE c.block[k][i]]
<1>1. TypeOK /\ PcHasBlock /\ Good(c, mem, overlooked)
    BY DEF IInv
<1>2. /\ pc # Nowhere /\ pc \in Pages
      /\ UNCHANGED <<entries, LUT_r, LUT_w, mem, pc, ranAs, tidy, overlooked, aligned>>
    BY <1>1 DEF Compile, TypeOK, histories
<1>3. f \in Frames
    BY <1>1, <1>2, FrameFacts DEF PcHasBlock, TypeOK, TlbTypeOK
<1>4. k \in DirectPages /\ k \in Pages /\ k[1] = f
    BY <1>3, PageFacts
<1>5. /\ mem[f] \in [Words -> Values] /\ Values \cap Waiting = {}
      /\ NotCompiled2 # NotCompiled /\ NotCompiled \in Waiting
      /\ NoBlock \notin [Words -> Values \cup Waiting]
      /\ c.block[k] # NoBlock /\ c.block[pc] # NoBlock
    BY <1>1, <1>2, <1>3 DEF TypeOK, Contents, Waiting, CodeCacheAssumption, PcHasBlock,
                            NotCompiled, NotCompiled2
<1>6. /\ new \in [Words -> Values \cup Waiting] /\ marked \in [Words -> Values \cup Waiting]
      /\ c' \in Cache /\ c'.invalid = c.invalid
      /\ c'.xxhash = [c.xxhash EXCEPT ![pc] = NoHash]
      /\ c'.block[pc] = new
      /\ ~ Direct(pc) => c'.block[k] = marked
      /\ \A p \in Pages : p # pc /\ (Direct(pc) \/ p # k) => c'.block[p] = c.block[p]
    BY CompiledFacts
<1>7. /\ \A i \in Words : new[i] = IF i \in w .. last THEN mem[f][i] ELSE c.block[pc][i]
      /\ \A i \in Words : marked[i] = IF i \in w .. last /\ c.block[k][i] = NotCompiled
                                      THEN NotCompiled2 ELSE c.block[k][i]
      /\ new # NoBlock /\ marked # NoBlock
    BY <1>5, <1>6
<1> HIDE DEF new, marked
<1>8. ASSUME NEW g \in Frames, NEW i \in Words,
             c.block[Kseg0(g)] # NoBlock, c.block[Kseg0(g)][i] # NotCompiled
      PROVE  c'.block[Kseg0(g)] # NoBlock /\ c'.block[Kseg0(g)][i] # NotCompiled
    <2> DEFINE d == Kseg0(g)
    <2>1. d \in Pages
        BY PageFacts
    <2> HIDE DEF d, k, f
    <2>2. d = Kseg0(g)
        BY DEF d
    <2>3. CASE d = pc
        <3>1. mem[f][i] # NotCompiled
            BY <1>5
        <3> QED BY <1>6, <1>7, <1>8, <2>2, <2>3, <3>1
    <2>4. CASE d # pc /\ d = k /\ ~ Direct(pc)
        BY <1>5, <1>6, <1>7, <1>8, <2>2, <2>4
    <2>5. CASE d # pc /\ (Direct(pc) \/ d # k)
        BY <1>6, <1>8, <2>1, <2>2, <2>5
    <2> QED BY <2>3, <2>4, <2>5
<1>9. ASSUME tidy, aligned, Separate PROVE MappedOk(c', LUT_r, mem, ranAs)
    <2> SUFFICES ASSUME NEW p \in MappedPages
                 PROVE  RunsCurrent(c', LUT_r, mem, ranAs, p) /\ HashCurrent(c', ranAs, p)
        BY DEF MappedOk
    <2>1. /\ RunsCurrent(c, LUT_r, mem, ranAs, p) /\ HashCurrent(c, ranAs, p)
          /\ p \in Pages /\ ~ Direct(p) /\ p # k
        BY <1>4, <1>9, PageFacts DEF MappedInv, MappedOk
    <2>2. CASE p = pc
        <3>1. f = LUT_r[p] /\ ~ Direct(pc)
            BY <2>1, <2>2 DEF FrameOf
        <3>2. HashCurrent(c', ranAs, p)
            BY <1>1, <1>6, <2>1, <2>2 DEF HashCurrent, Good, Cache
        <3>3. Marked(c, p, f) => Marked(c', p, f)
            <4> SUFFICES ASSUME Marked(c, p, f), NEW i \in Words, new[i] \notin Waiting
                         PROVE  marked[i] # NotCompiled
                BY <1>6, <1>7, <2>2, <3>1 DEF Marked
            <4> HIDE DEF k, f
            <4>1. CASE i \in w .. last
                BY <1>5, <1>7, <4>1
            <4>2. CASE i \notin w .. last
                <5>1. c.block[p][i] \notin Waiting
                    BY <1>7, <2>2, <4>2
                <5>2. c.block[k][i] # NotCompiled
                    BY <1>5, <2>2, <5>1 DEF Marked, k
                <5> QED BY <1>7, <4>2, <5>2
            <4> QED BY <4>1, <4>2
        <3>4. Translates(c, p, mem[f]) => Translates(c', p, mem[f])
            <4> HIDE DEF k, f
            <4> QED BY <1>5, <1>6, <1>7, <2>2 DEF Translates
        <3>5. RunsCurrent(c', LUT_r, mem, ranAs, p)
            <4> HIDE DEF f, k
            <4> QED BY <1>6, <2>1, <3>1, <3>3, <3>4 DEF RunsCurrent
        <3> QED BY <3>2, <3>5
    <2>3. CASE p # pc
        <3> HIDE DEF f, k
        <3>1. c'.block[p] = c.block[p] /\ c'.xxhash[p] = c.xxhash[p] /\ c'.invalid = c.invalid
            BY <1>1, <1>6, <2>1, <2>3 DEF Good, Cache
        <3>2. ASSUME NEW g \in Frames PROVE Marked(c, p, g) => Marked(c', p, g)
            BY <1>8, <3>1, <3>2 DEF Marked
        <3>3. \A x : Translates(c, p, x) => Translates(c', p, x)
            BY <3>1 DEF Translates
        <3>4. RunsCurrent(c', LUT_r, mem, ranAs, p)
            BY <2>1, <3>1, <3>2, <3>3 DEF RunsCurrent
        <3>5. HashCurrent(c', ranAs, p)
            BY <2>1, <3>1, <3>2, <3>3 DEF HashCurrent
        <3> QED BY <3>4, <3>5
    <2> QED BY <2>2, <2>3
<1>10. Separate' = Separate
    BY DEF Separate
<1> QED BY <1>2, <1>9, <1>10 DEF MappedInv

(* The hash that is kept of a page is that of the frame it was run in. *)
LEMMA HashKeptMapped ==
    ASSUME CodeCacheAssumption, IInv, MappedInv, NEW r \in Cache,
           MappedOk(r, LUT_r, mem, ranAs), NEW p \in MappedPages, LUT_r[p] \in Frames
    PROVE  /\ MappedOk(HashKept(r, p), LUT_r, mem, ranAs)
           /\ HashKept(r, p).invalid[p]
           /\ \A q \in Pages : r.invalid[q] => HashKept(r, p).invalid[q]
<1> DEFINE s == HashKept(r, p)
           f == LUT_r[p]
           k == Kseg0(f)
           valid == ~ (r.invalid[p] \/ r.invalid[k] \/ r.invalid[Twin(k)])
<1>1. p \in Pages /\ mem[f] \in Contents /\ mem[f] \in Holds[f]
    BY PageFacts DEF IInv, TypeOK, MappedInv
<1>2. /\ s.block = r.block /\ s.invalid[p]
      /\ \A q \in Pages : q # p => s.invalid[q] = r.invalid[q] /\ s.xxhash[q] = r.xxhash[q]
      /\ s.xxhash[p] = IF valid THEN mem[f]
                       ELSE IF r.block[p] # NoBlock THEN NoHash ELSE r.xxhash[p]
    BY <1>1 DEF HashKept, Cache
<1> HIDE DEF s
<1>3. \A q \in Pages : r.invalid[q] => s.invalid[q]
    BY <1>2
<1>4. ASSUME NEW q \in MappedPages PROVE RunsCurrent(s, LUT_r, mem, ranAs, q)
    <2> DEFINE g == LUT_r[q]
    <2> SUFFICES ASSUME ~ s.invalid[q]
                 PROVE  /\ g \in Frames /\ ranAs[g] = q /\ Marked(s, q, g)
                        /\ ~ (s.invalid[Kseg0(g)] \/ s.invalid[Twin(Kseg0(g))])
                              => Translates(s, q, mem[g])
        BY DEF RunsCurrent
    <2>1. q # p /\ ~ r.invalid[q]
        BY <1>2, <1>3, PageFacts
    <2>2. /\ g \in Frames /\ ranAs[g] = q /\ Marked(r, q, g)
          /\ ~ (r.invalid[Kseg0(g)] \/ r.invalid[Twin(Kseg0(g))]) => Translates(r, q, mem[g])
        BY <2>1 DEF MappedOk, RunsCurrent
    <2> HIDE DEF g
    <2>3. Kseg0(g) \in Pages /\ Twin(Kseg0(g)) \in Pages
        BY <2>2, PageFacts
    <2>4. Marked(s, q, g) /\ (Translates(r, q, mem[g]) => Translates(s, q, mem[g]))
        BY <1>2, <2>2 DEF Marked, Translates
    <2> QED BY <1>3, <2>2, <2>3, <2>4
<1>5. ASSUME NEW q \in MappedPages PROVE HashCurrent(s, ranAs, q)
    <2>1. HashCurrent(r, ranAs, q) /\ RunsCurrent(r, LUT_r, mem, ranAs, q) /\ q \in Pages
        BY PageFacts DEF MappedOk
    <2>2. CASE s.xxhash[q] = NoHash
        BY <2>2 DEF HashCurrent
    <2>3. CASE s.xxhash[q] = r.xxhash[q]
        BY <1>2, <2>1, <2>3 DEF HashCurrent, Translates, Marked
    <2>4. CASE q = p /\ valid /\ s.xxhash[q] = mem[f]
        <3>1. ranAs[f] = p /\ Marked(r, p, f) /\ Translates(r, p, mem[f])
            BY <2>1, <2>4 DEF RunsCurrent
        <3>2. Marked(s, p, f) /\ Translates(s, p, s.xxhash[p])
            BY <1>2, <2>4, <3>1 DEF Marked, Translates
        <3> QED BY <1>1, <2>4, <3>1, <3>2 DEF HashCurrent
    <2> QED
        <3> HIDE DEF valid, f
        <3> QED BY <1>2, <2>1, <2>2, <2>3, <2>4
<1>6. MappedOk(s, LUT_r, mem, ranAs)
    BY <1>4, <1>5 DEF MappedOk
<1> QED BY <1>2, <1>3, <1>6 DEF s

(* No other frame has had the contents that the hash is of. *)
LEMMA RevivedMapped ==
    ASSUME CodeCacheAssumption, IInv, MappedInv, Separate, NEW r \in Cache, NEW lut,
           MappedOk(r, lut, mem, ranAs), NEW p \in MappedPages, NEW f \in Frames, lut[p] = f
    PROVE  MappedOk(Revived(r, p, f), lut, mem, ranAs)
<1> DEFINE s == Revived(r, p, f)
           fits == r.block[p] # NoBlock /\ r.xxhash[p] = mem[f]
<1>1. p \in Pages /\ mem[f] \in Contents /\ mem[f] \in Holds[f] /\ mem[f] # NoHash
    BY PageFacts DEF IInv, TypeOK, MappedInv, CodeCacheAssumption
<1>2. /\ s.block = r.block /\ s.xxhash = r.xxhash
      /\ s.invalid[p] <=> r.invalid[p] /\ ~fits
      /\ \A q \in Pages : q # p => s.invalid[q] = r.invalid[q]
    BY <1>1 DEF Revived, Cache
<1> HIDE DEF s
<1>3. /\ \A q, g : Marked(s, q, g) <=> Marked(r, q, g)
      /\ \A q, x : Translates(s, q, x) <=> Translates(r, q, x)
    BY <1>2 DEF Marked, Translates
<1>4. ASSUME NEW q \in MappedPages PROVE HashCurrent(s, ranAs, q)
    BY <1>2, <1>3 DEF MappedOk, HashCurrent
<1>5. ASSUME NEW q \in MappedPages PROVE RunsCurrent(s, lut, mem, ranAs, q)
    <2>1. CASE s.invalid[q]
        BY <2>1 DEF RunsCurrent
    <2>2. CASE ~ r.invalid[q]
        <3> DEFINE g == lut[q]
        <3>1. /\ g \in Frames /\ ranAs[g] = q /\ Marked(r, q, g)
              /\ ~ (r.invalid[Kseg0(g)] \/ r.invalid[Twin(Kseg0(g))]) => Translates(r, q, mem[g])
            BY <2>2 DEF MappedOk, RunsCurrent
        <3> HIDE DEF g
        <3>2. /\ Kseg0(g) \in Pages /\ Twin(Kseg0(g)) \in Pages
              /\ Kseg0(g) # p /\ Twin(Kseg0(g)) # p
            BY <3>1, PageFacts
        <3>3. /\ s.invalid[Kseg0(g)] = r.invalid[Kseg0(g)]
              /\ s.invalid[Twin(Kseg0(g))] = r.invalid[Twin(Kseg0(g))]
            BY <1>2, <3>2
        <3> QED BY <1>3, <3>1, <3>3 DEF RunsCurrent, g
    <2>3. CASE q = p /\ fits
        <3>1. HashCurrent(r, ranAs, p) /\ r.xxhash[p] = mem[f] /\ r.xxhash[p] # NoHash
            BY <1>1, <2>3 DEF MappedOk
        <3>2. PICK g \in Frames : ranAs[g] = p /\ r.xxhash[p] \in Holds[g] /\ Marked(r, p, g)
            BY <3>1 DEF HashCurrent
        <3>3. g = f
            BY <1>1, <3>1, <3>2 DEF Separate
        <3>4. Translates(r, p, mem[f])
            BY <3>1 DEF HashCurrent
        <3> QED BY <1>3, <2>3, <3>2, <3>3, <3>4 DEF RunsCurrent
    <2> QED
        <3> HIDE DEF fits
        <3> QED BY <1>2, <2>1, <2>2, <2>3, PageFacts
<1> QED BY <1>4, <1>5 DEF MappedOk, s

LEMMA WriteEntryMapped ==
    ASSUME CodeCacheAssumption, TlbAssumption, IInv, MappedInv,
           NEW idx \in Entries, NEW new \in NewEntries, WriteEntry(idx, new)
    PROVE  MappedInv'
<1> DEFINE old == entries[idx]
           Old(r, p) == IF p \in Reads(old) THEN HashKept(r, p) ELSE r
           New(r, p) == IF p \in Reads(new) THEN Revived(r, p, new.half[p[2]].pfn) ELSE r
           p1 == <<old.vpn2, "even">>
           p2 == <<old.vpn2, "odd">>
           q1 == <<new.vpn2, "even">>
           q2 == <<new.vpn2, "odd">>
           s1 == Old(c, p1)
           s2 == Old(s1, p2)
           s3 == New(s2, q1)
           s4 == New(s3, q2)
<1>1. /\ TypeOK /\ Disjoint(entries) /\ TablesMatchEntries /\ Good(c, mem, overlooked)
      /\ TLBWrite(idx, new) /\ c' = s4
      /\ UNCHANGED <<mem, pc, ranAs, tidy, overlooked, aligned>>
    BY DEF IInv, WriteEntry, histories
<1>2. TlbTypeOK' /\ TablesMatchEntries' /\ Disjoint(entries')
    BY <1>1, TablesFollow DEF TypeOK
<1>3. /\ new \in Entry /\ old \in Entry /\ entries'[idx] = new
      /\ \A i \in Entries : i # idx => entries'[i] = entries[i]
    BY <1>1 DEF TLBWrite, TypeOK, TlbTypeOK, TlbAssumption
<1>4. \A p \in MappedPages :
          /\ p \in Reads(old) => p \in {p1, p2} /\ LUT_r[p] \in Frames
          /\ p \in Reads(new) => p \in {q1, q2} /\ LUT_r'[p] = new.half[p[2]].pfn
                                 /\ LUT_r'[p] \in Frames
          /\ p \notin Reads(old) /\ p \notin Reads(new) => LUT_r'[p] = LUT_r[p]
    <2> SUFFICES ASSUME NEW p \in MappedPages
                 PROVE  /\ p \in Reads(old) => p \in {p1, p2} /\ LUT_r[p] \in Frames
                        /\ p \in Reads(new) => p \in {q1, q2} /\ LUT_r'[p] = new.half[p[2]].pfn
                                               /\ LUT_r'[p] \in Frames
                        /\ p \notin Reads(old) /\ p \notin Reads(new) => LUT_r'[p] = LUT_r[p]
        OBVIOUS
    <2>1. \A e \in Entry : e.half[p[2]].pfn \in Frames
        BY DEF Entry, Half, MappedPages
    <2>2. p \in Reads(old) => LUT_r[p] = old.half[p[2]].pfn
        BY <1>1 DEF TablesMatchEntries
    <2>3. LUT_r'[p] = IF p \in Reads(new) THEN new.half[p[2]].pfn
                      ELSE IF p \in Reads(old) THEN NoFrame ELSE LUT_r[p]
        BY <1>1 DEF TLBWrite, tlb_map, tlb_unmap
    <2>4. \A e : p \in Reads(e) => p = <<e.vpn2, "even">> \/ p = <<e.vpn2, "odd">>
        BY DEF Reads, MappedPages, Halves
    <2> QED BY <1>3, <2>1, <2>2, <2>3, <2>4
<1>5. Reads(old) \subseteq MappedPages /\ Reads(new) \subseteq MappedPages
      /\ \A p \in MappedPages : p \in Pages
    BY PageFacts DEF Reads
<1>6. ASSUME NEW r, Good(r, mem, overlooked), MappedOk(r, LUT_r, mem, ranAs), NEW p, NEW t, t = Old(r, p)
      PROVE  /\ Good(t, mem, overlooked) /\ MappedOk(t, LUT_r, mem, ranAs)
             /\ \A q \in Pages : r.invalid[q] => t.invalid[q]
             /\ p \in Reads(old) => t.invalid[p]
    <2>1. CASE p \in Reads(old)
        <3>1. p \in MappedPages /\ LUT_r[p] \in Frames /\ t = HashKept(r, p) /\ r \in Cache
            BY <1>4, <1>5, <1>6, <2>1 DEF Good
        <3>2. Good(HashKept(r, p), mem, overlooked)
            BY <1>1, <1>6, <3>1, HashKeptGood
        <3>3. /\ MappedOk(HashKept(r, p), LUT_r, mem, ranAs)
              /\ HashKept(r, p).invalid[p]
              /\ \A q \in Pages : r.invalid[q] => HashKept(r, p).invalid[q]
            BY <1>6, <3>1, HashKeptMapped
        <3> QED BY <3>1, <3>2, <3>3
    <2>2. CASE p \notin Reads(old)
        BY <1>6, <2>2
    <2> QED BY <2>1, <2>2
<1>7. ASSUME Separate, NEW r, Good(r, mem, overlooked), MappedOk(r, LUT_r', mem, ranAs), NEW p, NEW t, t = New(r, p)
      PROVE  Good(t, mem, overlooked) /\ MappedOk(t, LUT_r', mem, ranAs)
    <2>1. CASE p \in Reads(new)
        <3> DEFINE f == new.half[p[2]].pfn
        <3>1. p \in MappedPages /\ f \in Frames /\ LUT_r'[p] = f /\ t = Revived(r, p, f) /\ r \in Cache
            BY <1>4, <1>5, <1>7, <2>1 DEF Good
        <3> HIDE DEF f
        <3>2. Good(Revived(r, p, f), mem, overlooked)
            BY <1>7, <3>1, RevivedGood
        <3>3. MappedOk(Revived(r, p, f), LUT_r', mem, ranAs)
            BY <1>7, <3>1, RevivedMapped
        <3> QED BY <3>1, <3>2, <3>3
    <2>2. CASE p \notin Reads(new)
        BY <1>7, <2>2
    <2> QED BY <2>1, <2>2
<1>8. ASSUME tidy, aligned, Separate PROVE MappedOk(c', LUT_r', mem, ranAs)
    <2>1. MappedOk(c, LUT_r, mem, ranAs)
        BY <1>8 DEF MappedInv
    <2>2. /\ Good(s1, mem, overlooked) /\ MappedOk(s1, LUT_r, mem, ranAs)
          /\ p1 \in Reads(old) => s1.invalid[p1]
        <3> HIDE DEF Old, p1
        <3> QED BY <1>1, <1>6, <2>1
    <2>3. /\ Good(s2, mem, overlooked) /\ MappedOk(s2, LUT_r, mem, ranAs)
          /\ \A q \in Pages : s1.invalid[q] => s2.invalid[q]
          /\ p2 \in Reads(old) => s2.invalid[p2]
        <3> HIDE DEF Old, p2, s1
        <3> QED BY <1>6, <2>2
    <2>4. \A p \in Reads(old) : s2.invalid[p]
        <3> HIDE DEF old, Old, p1, p2, s1, s2
        <3> QED BY <1>4, <1>5, <2>2, <2>3
(* What the table has for the pages that are still valid has not changed:  *)
(* the others were not mapped before.                                      *)
    <2>5. ASSUME NEW p \in MappedPages, ~ s2.invalid[p] PROVE LUT_r'[p] = LUT_r[p]
        <3> HIDE DEF s1, s2, Old
        <3>1. p \notin Reads(old) /\ LUT_r[p] \in Frames
            BY <2>3, <2>4, <2>5 DEF MappedOk, RunsCurrent
        <3>2. PICK i \in Entries : p \in Reads(entries[i])
            BY <1>1, <3>1 DEF TablesMatchEntries, TlbAssumption
        <3>3. i # idx /\ p \in Reads(entries'[i])
            BY <1>3, <3>1, <3>2
        <3>4. p \notin Reads(new)
            BY <1>2, <1>3, <3>3 DEF Disjoint
        <3> QED BY <1>4, <3>1, <3>4
    <2>6. MappedOk(s2, LUT_r', mem, ranAs)
        <3> HIDE DEF s1, s2, Old
        <3> QED BY <2>3, <2>5, MappedStays
    <2>7. Good(s3, mem, overlooked) /\ MappedOk(s3, LUT_r', mem, ranAs)
        <3> HIDE DEF New, q1, s2
        <3> QED BY <1>7, <1>8, <2>3, <2>6
    <2>8. Good(s4, mem, overlooked) /\ MappedOk(s4, LUT_r', mem, ranAs)
        <3> HIDE DEF New, q2, s3
        <3> QED BY <1>7, <1>8, <2>7
    <2> HIDE DEF s4
    <2> QED BY <1>1, <2>8
<1>9. Separate' = Separate
    BY DEF Separate
<1> HIDE DEF s4
<1> QED BY <1>1, <1>8, <1>9 DEF MappedInv

(* A loaded state leaves blocks and hashes but no page valid. *)
LEMMA LoadMapped ==
    ASSUME CodeCacheAssumption, TlbAssumption, IInv, MappedInv, NEW file \in Files,
           LoadState(file)
    PROVE  MappedInv'
<1> DEFINE es == file.entries
           lut == ReadTable(es)
           at == Landing(lut, file.pc)
           r == Entered(lut, c, at)
<1>1. /\ es \in [Entries -> Entry] /\ file.pc \in Pages /\ Disjoint(es)
      /\ \A f \in Frames : file.mem[f] \in Holds[f]
    BY DEF CodeCacheAssumption
<1>2. /\ mem' = file.mem /\ LUT_r' = lut /\ c' = AllInvalid(r) /\ Arrive(lut, at)
      /\ UNCHANGED <<overlooked, aligned>>
    BY DEF LoadState
<1>3. TypeOK /\ Good(c, mem, overlooked)
    BY DEF IInv
<1> HIDE DEF es
<1>4. lut \in [MappedPages -> Frames \cup {NoFrame}]
    <2>1. \A p \in MappedPages : ReadTable(es)[p] \in Frames \cup {NoFrame}
        BY <1>1, TableEntries
    <2> QED BY <2>1 DEF ReadTable
<1> HIDE DEF lut
<1>5. at \in Pages /\ FrameOf(lut, at) \in Frames
    BY <1>1, <1>4, FrameFacts
<1> HIDE DEF at
<1>6. Good(r, mem, overlooked)
    BY <1>3, <1>5, EnteredGood
<1>7. ASSUME tidy', aligned', Separate PROVE MappedOk(c', LUT_r', mem', ranAs')
    <2>1. /\ tidy /\ ranAs'[FrameOf(lut, at)] = Way(at)
          /\ \A f \in Frames, q \in MappedPages : ranAs[f] = q => ranAs'[f] = q
        BY <1>2, <1>3, <1>5, <1>7, ArriveHistory
    <2>2. \A p \in MappedPages : HashCurrent(c, ranAs, p)
        BY <1>2, <1>7, <2>1 DEF MappedInv, MappedOk
    <2>3. \A p \in MappedPages : HashCurrent(r, ranAs', p)
        BY <1>3, <1>5, <2>1, <2>2, EnteredHash
    <2> HIDE DEF r
    <2>4. /\ c'.block = r.block /\ c'.xxhash = r.xxhash /\ \A p \in Pages : c'.invalid[p]
        BY <1>2, <1>6 DEF AllInvalid, Good, Cache
    <2> SUFFICES ASSUME NEW p \in MappedPages
                 PROVE  RunsCurrent(c', LUT_r', mem', ranAs', p) /\ HashCurrent(c', ranAs', p)
        BY DEF MappedOk
    <2>5. RunsCurrent(c', LUT_r', mem', ranAs', p)
        BY <2>4, PageFacts DEF RunsCurrent
    <2>6. HashCurrent(c', ranAs', p)
        BY <2>3, <2>4 DEF HashCurrent, Translates, Marked
    <2> QED BY <2>5, <2>6
<1>8. Separate' = Separate
    BY DEF Separate
<1> QED BY <1>1, <1>2, <1>7, <1>8 DEF MappedInv

LEMMA MappedStep ==
    ASSUME CodeCacheAssumption, TlbAssumption, IInv, MappedInv, [Next]_vars
    PROVE  MappedInv'
<1>1. Good(c, mem, overlooked) /\ c \in Cache /\ (tidy /\ aligned /\ Separate => MappedOk(c, LUT_r, mem, ranAs))
    BY DEF IInv, MappedInv, Good
<1>2. CASE \E p \in Pages : JumpTo(p)
    BY <1>1, <1>2, EnterMapped DEF JumpTo
<1>3. CASE \E w, last \in Words : w <= last /\ Compile(w, last)
    BY <1>3, CompileMapped
<1>4. CASE \E p \in Pages, w \in Words, x \in Values : Store(p, w, x)
    BY <1>4, StoreMapped
<1>5. CASE \E f \in Frames, first, last \in Words, missed \in SUBSET Segments :
              first <= last /\ \E new \in Holds[f] : Dma(f, first, last, missed, new)
    <2> PICK f \in Frames, first \in Words, last \in Words, missed \in SUBSET Segments :
            \E new \in Holds[f] : Dma(f, first, last, missed, new)
        BY <1>5
    <2>1. PICK new \in Holds[f] : Dma(f, first, last, missed, new)
        OBVIOUS
    <2>2. TypeOK
        BY DEF IInv
    <2>3. PICK looked :
              /\ Write(f, new, InvalidatedBoth(c, f, looked))
              /\ aligned' => /\ aligned
                             /\ \A w \in Words : new[w] # mem[f][w] => w \in looked["KSEG0"]
        BY <2>1, <2>2, DmaFacts
    <2> QED BY <1>1, <2>3, WriteMapped
<1>6. CASE \E idx \in Entries, new \in NewEntries : WriteEntry(idx, new)
    BY <1>6, WriteEntryMapped
<1>7. CASE SoftReset
    <2> DEFINE r == AllInvalid(c)
    <2>1. <<Vectors, "KSEG1">> \in Pages
        BY DEF CodeCacheAssumption, Pages, DirectPages, Segments
    <2>2. /\ Good(r, mem, overlooked) /\ r.block = c.block /\ r.xxhash = c.xxhash
          /\ \A p \in Pages : r.invalid[p]
        BY <1>1, AllInvalidGood DEF AllInvalid, Cache
    <2>3. Enter(r, <<Vectors, "KSEG1">>) /\ UNCHANGED <<entries, LUT_r, LUT_w, mem>>
        BY <1>7 DEF SoftReset
    <2> HIDE DEF r
    <2>4. tidy /\ aligned /\ Separate => MappedOk(r, LUT_r, mem, ranAs)
        BY <1>1, <2>2, MappedStays
    <2> QED BY <2>1, <2>2, <2>3, <2>4, EnterMapped
<1>8. CASE \E file \in Files : LoadState(file)
    BY <1>8, LoadMapped
<1>9. CASE UNCHANGED vars
    <2>1. UNCHANGED <<LUT_r, mem, c, ranAs, tidy, aligned>>
        BY <1>9 DEF vars
    <2> QED BY <2>1 DEF MappedInv, MappedOk, RunsCurrent, HashCurrent, Marked, Translates, Separate
<1>10. CASE EmptyDma
    <2>1. /\ c' = AllInvalid(c) /\ UNCHANGED <<LUT_r, mem, ranAs, tidy, aligned>>
        BY <1>10 DEF EmptyDma, histories
    <2>2. /\ c'.block = c.block /\ c'.xxhash = c.xxhash
          /\ \A p \in Pages : c'.invalid[p]
        BY <1>1, <2>1 DEF AllInvalid, Cache
    <2>3. tidy' /\ aligned' /\ Separate => MappedOk(c', LUT_r', mem', ranAs')
        BY <1>1, <2>1, <2>2, MappedStays
    <2>4. Separate' = Separate
        BY DEF Separate
    <2> QED BY <2>1, <2>3, <2>4 DEF MappedInv
<1> QED BY <1>2, <1>3, <1>4, <1>5, <1>6, <1>7, <1>8, <1>9, <1>10 DEF Next

(* Through the TLB: a program that runs each frame as one page and keeps   *)
(* different code in different frames, and none of whose DMAs had a word   *)
(* overlooked, never enters a block of what was in memory before, however  *)
(* pages are mapped away and back, written to through any address          *)
(* meanwhile, and states loaded.                                           *)
THEOREM MappedCodeHolds ==
    ASSUME CodeCacheAssumption, TlbAssumption
    PROVE  Spec => []MappedCodeIsCurrent
<1>1. Init => IInv
    BY InitGood
<1>2. Init => MappedInv
    <2> SUFFICES ASSUME Init PROVE MappedOk(c, LUT_r, mem, ranAs)
        BY DEF Init, MappedInv
    <2>1. \A p \in MappedPages : p \in Pages
        BY PageFacts
    <2>2. \A p \in Pages : c.invalid[p] /\ c.xxhash[p] = NoHash
        BY DEF Init
    <2> QED BY <2>1, <2>2 DEF MappedOk, RunsCurrent, HashCurrent
<1>3. IInv /\ [Next]_vars => IInv'
    BY StepGood
<1>4. IInv /\ MappedInv /\ [Next]_vars => MappedInv'
    BY MappedStep
<1>5. IInv /\ MappedInv => MappedCodeIsCurrent
    <2> SUFFICES ASSUME IInv, MappedInv, tidy, aligned, Separate, NEW p \in MappedPages,
                        LUT_r[p] # NoFrame,
                        ~ update_invalid_addr(LUT_r, c, p).invalid[p]
                 PROVE  Fresh(p, LUT_r[p], Words)
        BY DEF MappedCodeIsCurrent, Separate
    <2> DEFINE f == LUT_r[p]
               k == Kseg0(f)
               t == Twin(k)
               v == Paired(c, k, t)
    <2>1. f \in Frames /\ p \in Pages /\ ~ Direct(p) /\ Good(c, mem, overlooked)
        BY PageFacts DEF IInv, TypeOK, TlbTypeOK
    <2>2. k \in Pages /\ t \in Pages
        BY <2>1, PageFacts
    <2>3. update_invalid_addr(LUT_r, c, p) = Paired(v, k, p)
        BY <2>1 DEF update_invalid_addr
    <2> HIDE DEF f, k, t
    <2>4. Good(v, mem, overlooked) /\ (v.invalid[k] <=> c.invalid[k] \/ c.invalid[t])
          /\ \A o \in Pages : c.invalid[o] => v.invalid[o]
        <3>1. /\ Good(v, mem, overlooked)
              /\ v.invalid[k] <=> c.invalid[k] \/ c.invalid[t]
              /\ v.invalid[t] <=> c.invalid[k] \/ c.invalid[t]
              /\ \A o \in Pages : o # k /\ o # t => v.invalid[o] = c.invalid[o]
            BY <2>1, <2>2, PairedGood
        <3> HIDE DEF v
        <3> QED BY <3>1
    <2> HIDE DEF v
    <2>5. Paired(v, k, p).invalid[p] <=> v.invalid[k] \/ v.invalid[p]
        BY <2>1, <2>2, <2>4, PairedGood
    <2>6. ~ c.invalid[p] /\ ~ c.invalid[k] /\ ~ c.invalid[t]
        BY <2>1, <2>3, <2>4, <2>5
    <2>7. RunsCurrent(c, LUT_r, mem, ranAs, p)
        BY DEF MappedInv, MappedOk
    <2>8. Translates(c, p, mem[f])
        BY <2>6, <2>7 DEF RunsCurrent, f, k, t
    <2> QED BY <2>8 DEF Translates, Fresh, f
<1> QED BY <1>1, <1>2, <1>3, <1>4, <1>5, PTL DEF Spec
=============================================================================
