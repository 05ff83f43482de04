----------------------------- MODULE A314Memory -----------------------------
(***************************************************************************)
(* The Amiga's memory list, as a314.device rewrites it when it starts      *)
(* (fix_mem_region.c): the memory the Raspberry Pi shares gets the          *)
(* attribute MEMF_A314, and a region that is only partly shared is split.  *)
(* A task that allocates with MEMF_A314 then gets a buffer whose address   *)
(* translate_address_a314 turns into an offset the daemon accepts.         *)
(*                                                                         *)
(* Addresses count memory blocks of MEM_BLOCKSIZE bytes.  The task holds   *)
(* Forbid() while it rewrites the list (118), so Mark is one step; the     *)
(* other tasks allocate and free before and after it.  AllocMem, FreeMem   *)
(* and Enqueue are exec's and are modelled from their use.                 *)
(***************************************************************************)
EXTENDS Integers, SequencesExt, FiniteSetsExt

CONSTANTS ChipSize,    \* chip memory is [0, ChipSize)
          Top,         \* expansion memory is [ChipSize, Top)
          HeaderSize,  \* blocks a struct MemHeader takes
          MaxBlocks    \* bound: blocks allocated by tasks at a time

ASSUME MemoryAssumption ==
    /\ {ChipSize, Top, HeaderSize, MaxBlocks} \subseteq Nat \ {0}
    /\ ChipSize < Top

VARIABLES memlist,  \* SysBase->MemList, a sequence of struct MemHeader
          blocks,   \* the memory in use: [start, bytes, a314]
          ca,       \* ComArea's mem_base and mem_size
          marked,   \* fix_memory has run
          wild      \* a NULL MemHeader has been written through

vars == <<memlist, blocks, ca, marked, wild>>

NULL == -1

Span(lo, hi) == lo .. hi - 1

\* The free count add_chunk keeps of a list of chunks.
Bytes(chunks) == FoldLeft(LAMBDA sum, c : sum + c.bytes, 0, chunks)
----------------------------------------------------------------------------
\* exec

\* Enqueue: before the first node of a lower priority.
Enqueue(list, mh) ==
    LET lower == {i \in DOMAIN list : list[i].pri < mh.pri}
        i == IF lower = {} THEN Len(list) + 1 ELSE Min(lower)
    IN SubSeq(list, 1, i - 1) \o <<mh>> \o SubSeq(list, i, Len(list))

Fits(mh, size, a314) ==
    /\ a314 => mh.a314
    /\ \E i \in DOMAIN mh.first : mh.first[i].bytes >= size

\* AllocMem: the first chunk large enough in the first region that has one.
AllocMem(list, size, a314) ==
    LET fit == {n \in DOMAIN list : Fits(list[n], size, a314)} IN
    IF fit = {} THEN [list |-> list, at |-> NULL]
    ELSE LET n == Min(fit)
             mh == list[n]
             i == Min({j \in DOMAIN mh.first : mh.first[j].bytes >= size})
             c == mh.first[i]
             rest == IF c.bytes = size THEN <<>>
                     ELSE <<[start |-> c.start + size, bytes |-> c.bytes - size]>>
         IN [at |-> c.start,
             list |-> [list EXCEPT
                         ![n].first = SubSeq(@, 1, i - 1) \o rest
                                        \o SubSeq(@, i + 1, Len(@)),
                         ![n].free = @ - size]]

\* FreeMem puts a block back before the first chunk above it, and joins it
\* with the chunks it touches.
FreeChunk(chunks, b) ==
    LET above == {i \in DOMAIN chunks : chunks[i].start > b.start}
        i == IF above = {} THEN Len(chunks) + 1 ELSE Min(above)
        down == i > 1 /\ chunks[i - 1].start + chunks[i - 1].bytes = b.start
        up == above # {} /\ b.start + b.bytes = chunks[i].start
        lo == IF down THEN chunks[i - 1].start ELSE b.start
        hi == IF up THEN chunks[i].start + chunks[i].bytes ELSE b.start + b.bytes
    IN SubSeq(chunks, 1, IF down THEN i - 2 ELSE i - 1)
         \o <<[start |-> lo, bytes |-> hi - lo]>>
         \o SubSeq(chunks, IF up THEN i + 1 ELSE i, Len(chunks))
----------------------------------------------------------------------------
\* fix_mem_region.c

\* Mutated SplitChunk: the upper part keeps the whole chunk's length.
SplitChunkLong(mc, split_at) ==
    LET end == mc.start + mc.bytes IN
    IF end <= split_at THEN [ll |-> <<mc>>, ul |-> <<>>]
    ELSE IF split_at <= mc.start THEN [ll |-> <<>>, ul |-> <<mc>>]
    ELSE [ll |-> <<[mc EXCEPT !.bytes = split_at - mc.start]>>,
          ul |-> <<[start |-> split_at, bytes |-> mc.bytes]>>]

\* One chunk of the region, on one side of the split or cut in two.
SplitChunk(mc, split_at) ==
    LET end == mc.start + mc.bytes IN
    IF end <= split_at THEN [ll |-> <<mc>>, ul |-> <<>>]
    ELSE IF split_at <= mc.start THEN [ll |-> <<>>, ul |-> <<mc>>]
    ELSE [ll |-> <<[mc EXCEPT !.bytes = split_at - mc.start]>>,
          ul |-> <<[start |-> split_at, bytes |-> end - split_at]>>]

\* The list ll or ul when every chunk has been looked at.
Side(chunks, split_at, l) ==
    FoldLeft(LAMBDA list, mc : list \o SplitChunk(mc, split_at)[l], <<>>, chunks)

\* The two regions split_region leaves; add_chunk keeps the free counts.
split_region(mh, split_at) ==
    LET ll == Side(mh.first, split_at, "ll")
        ul == Side(mh.first, split_at, "ul")
    IN [lower |-> [mh EXCEPT !.upper = split_at, !.first = ll, !.free = Bytes(ll)],
        upper |-> [mh EXCEPT !.lower = split_at, !.first = ul, !.free = Bytes(ul)]]

overlap(mh, lower, upper) == lower < mh.upper /\ mh.lower < upper

\* The region is cut at split_at.  Its MemHeader is allocated first, from the
\* list as it is: the region's own chunks are read after that.
Split(s, split_at) ==
    LET got == AllocMem(s.list, HeaderSize, FALSE) IN
    [s EXCEPT !.list = got.list,
              !.blocks = IF got.at = NULL THEN @
                         ELSE @ \cup {[start |-> got.at, bytes |-> HeaderSize,
                                       a314 |-> FALSE]},
              !.wild = @ \/ got.at = NULL]

\* Mutated CutBelow: a region that starts at the shared memory is split too.
CutBelowAlways(s, i, address) ==
    IF s.list[i].lower <= address
    THEN LET t == Split(s, address)
             cut == split_region([t.list[i] EXCEPT !.a314 = FALSE], address)
         IN [t EXCEPT !.mh = cut.upper, !.list[i] = cut.lower]
    ELSE [s EXCEPT !.mh = s.list[i], !.list = RemoveAt(s.list, i)]

\* Mutated CutBelow: the list is written back as it was before the header was
\* allocated.
CutBelowStale(s, i, address) ==
    LET t == Split(s, address)
        cut == split_region([s.list[i] EXCEPT !.a314 = FALSE], address)
    IN [t EXCEPT !.mh = cut.upper, !.list[i] = cut.lower]

\* What of region i lies below the shared memory stays on the list as the
\* lower region; a region that starts inside the shared memory is removed.
CutBelow(s, i, address) ==
    IF s.list[i].lower < address
    THEN LET t == Split(s, address)
             cut == split_region([t.list[i] EXCEPT !.a314 = FALSE], address)
         IN [t EXCEPT !.mh = cut.upper, !.list[i] = cut.lower]
    ELSE [s EXCEPT !.mh = s.list[i], !.list = RemoveAt(s.list, i)]

\* What lies above it becomes a region of its own.
CutAbove(s, end) ==
    IF end < s.mh.upper
    THEN LET t == Split(s, end)
             cut == split_region(t.mh, end)
         IN [t EXCEPT !.mh = cut.lower,
                      !.list = Enqueue(t.list, [cut.upper EXCEPT !.a314 = FALSE])]
    ELSE s

\* Mutated mark_region_a314: the memory above is left in the region.
mark_region_low(s, address, size) ==
    LET hit == {i \in DOMAIN s.list : overlap(s.list[i], address, address + size)} IN
    IF hit = {} THEN s
    ELSE LET t == CutBelow(s, Min(hit), address)
         IN [t EXCEPT !.list = Enqueue(t.list, [t.mh EXCEPT !.a314 = TRUE])]

\* mark_region_a314: the first region that overlaps the shared memory.
mark_region_a314(s, address, size) ==
    LET hit == {i \in DOMAIN s.list : overlap(s.list[i], address, address + size)} IN
    IF hit = {} THEN s
    ELSE LET t == CutAbove(CutBelow(s, Min(hit), address), address + size)
         IN [t EXCEPT !.list = Enqueue(t.list, [t.mh EXCEPT !.a314 = TRUE])]

\* fix_memory, each time the device starts.
fix_memory ==
    LET s == mark_region_a314([list |-> memlist, blocks |-> blocks, wild |-> wild,
                               mh |-> NULL],
                              ca.mem_base, ca.mem_size)
    IN /\ ~wild
       /\ memlist' = s.list
       /\ blocks' = s.blocks
       /\ wild' = s.wild
       /\ marked' = TRUE
       /\ UNCHANGED ca

\* Mutated translate_address_a314: an offset of 0 is taken for a failure.
translate_address_zero(address) ==
    IF address > ca.mem_base /\ address - ca.mem_base < ca.mem_size
    THEN address - ca.mem_base ELSE NULL

\* The offset is unsigned: an address below mem_base is out of range.
translate_address_a314(address) ==
    IF address >= ca.mem_base /\ address - ca.mem_base < ca.mem_size
    THEN address - ca.mem_base ELSE NULL
----------------------------------------------------------------------------
\* Exec's list before the device first runs: chip memory of low priority, and
\* expansion memory that holds the shared memory, alone or joined by the
\* expansion library with its neighbours.
Region(lo, hi, pri) ==
    [lower |-> lo, upper |-> hi, pri |-> pri, a314 |-> FALSE, free |-> hi - lo,
     first |-> <<[start |-> lo, bytes |-> hi - lo]>>]

Init ==
    /\ memlist = <<Region(ChipSize, Top, 0), Region(0, ChipSize, -10)>>
    /\ blocks = {}
    /\ ca \in {[mem_base |-> b, mem_size |-> n] : b \in ChipSize .. Top - 1, n \in 1 .. Top}
    /\ ca.mem_base + ca.mem_size <= Top
    /\ marked = FALSE
    /\ wild = FALSE

\* A task allocates.
Alloc(size, a314) ==
    LET got == AllocMem(memlist, size, a314) IN
    /\ ~wild
    /\ Cardinality(blocks) < MaxBlocks
    /\ got.at # NULL
    /\ memlist' = got.list
    /\ blocks' = blocks \cup {[start |-> got.at, bytes |-> size, a314 |-> a314]}
    /\ UNCHANGED <<ca, marked, wild>>

\* A task frees a block that lies in one region.  (A block across the line a
\* region was later split at belongs to none: such a block stays in use.)
Free(b) ==
    /\ ~wild
    /\ \E i \in DOMAIN memlist :
         LET mh == memlist[i] IN
         /\ mh.lower <= b.start /\ b.start + b.bytes <= mh.upper
         /\ memlist' = [memlist EXCEPT ![i].first = FreeChunk(@, b),
                                       ![i].free = @ + b.bytes]
    /\ blocks' = blocks \ {b}
    /\ UNCHANGED <<ca, marked, wild>>

Next ==
    \/ fix_memory
    \/ \E size \in 1 .. Top, a314 \in BOOLEAN : Alloc(size, a314)
    \/ \E b \in blocks : Free(b)

Spec == Init /\ [][Next]_vars
----------------------------------------------------------------------------
Chunks == UNION {ToSet(memlist[i].first) : i \in DOMAIN memlist}
Shared == Span(ca.mem_base, ca.mem_base + ca.mem_size)
Of(p) == Span(p.start, p.start + p.bytes)

\* Every block of memory is in exactly one place: in one free chunk of one
\* region or in one block in use.  Splitting a region loses none and gives
\* none out twice, the memory its own MemHeader takes included.
MemoryConserved ==
    ~wild => /\ UNION {Of(p) : p \in Chunks \cup blocks} = Span(0, Top)
             /\ \A p, q \in Chunks \cup blocks : p # q => Of(p) \cap Of(q) = {}
             /\ Chunks \cap {[start |-> b.start, bytes |-> b.bytes] : b \in blocks} = {}

\* Each region's free list is what exec relies on: in address order, no two
\* chunks adjacent, inside the region, and mh_Free its total.
RegionsSound ==
    ~wild => \A i \in DOMAIN memlist :
        LET mh == memlist[i] IN
        /\ mh.free = Bytes(mh.first)
        /\ \A j \in DOMAIN mh.first : /\ mh.lower <= mh.first[j].start
                                      /\ mh.first[j].start + mh.first[j].bytes <= mh.upper
        /\ \A j \in 1 .. Len(mh.first) - 1 :
              mh.first[j].start + mh.first[j].bytes < mh.first[j + 1].start

\* Both: exec's free lists stay sound and complete through the split.
FreeListsSound == MemoryConserved /\ RegionsSound

\* Once the device runs, a region has MEMF_A314 exactly when it lies in the
\* memory the Raspberry Pi sees, and every other lies outside it.
A314RegionsExact ==
    marked /\ ~wild => \A i \in DOMAIN memlist :
        IF memlist[i].a314 THEN Span(memlist[i].lower, memlist[i].upper) \subseteq Shared
        ELSE Span(memlist[i].lower, memlist[i].upper) \cap Shared = {}

\* A buffer a task allocates with MEMF_A314 can be handed to a service: the
\* addresses of its first and last block translate, and to offsets as far
\* apart as the block is long.
A314BuffersTranslate ==
    \A b \in blocks : b.a314 =>
        /\ translate_address_a314(b.start) # NULL
        /\ translate_address_a314(b.start + b.bytes - 1) # NULL
        /\ translate_address_a314(b.start + b.bytes - 1)
             = translate_address_a314(b.start) + b.bytes - 1

\* A device that could not create its task after fix_memory marks the memory
\* again when it is opened again (startup.c, task_start): marking what is marked
\* splits and allocates nothing.
MarkedOnce ==
    [][marked /\ fix_memory => /\ ToSet(memlist') = ToSet(memlist)
                               /\ UNCHANGED <<blocks, wild>>]_vars
=============================================================================
