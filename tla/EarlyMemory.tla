---------------------------- MODULE EarlyMemory ----------------------------
(***************************************************************************)
(* The two allocators of kernel/src/mm as kernel_main sets them up: the    *)
(* frame allocator over the whole memory map, and the early heap, a bump   *)
(* allocator over the first usable region of at least MIN_HEAP bytes.      *)
(***************************************************************************)
EXTENDS FrameAllocator

CONSTANTS
    MIN_HEAP,           \* 0x10_0000: the smallest region taken for the heap
    Requests,           \* the [size, align] pairs alloc_early is called with
    MaxBlocks           \* bound of the model: heap blocks in a behaviour

ASSUME HeapAssumption ==
    /\ MIN_HEAP \in Nat /\ MaxBlocks \in Nat
    /\ Requests \subseteq [size : Nat \ {0}, align : Nat \ {0}]

VARIABLES
    base,               \* BumpAllocator.base
    next,               \* BumpAllocator.next
    limit,              \* BumpAllocator.limit
    blocks              \* history: the blocks alloc_early returned

heap_vars == <<base, next, limit, blocks>>
all_vars == <<vars, heap_vars>>

EarlyInit ==
    /\ Init
    /\ base = 0 /\ next = 0 /\ limit = 0
    /\ blocks = {}

HeapRegions == {r \in Usable(regions) : r.end - r.start >= MIN_HEAP}

(* init_heap: the bootloader lists the regions by address, so the first    *)
(* one large enough is the lowest.                                         *)
InitHeap ==
    /\ limit = 0 /\ HeapRegions # {}
    /\ base' = Min({r.start : r \in HeapRegions})
    /\ next' = base'
    /\ \E r \in HeapRegions : r.start = base' /\ limit' = r.end
    /\ UNCHANGED <<vars, blocks>>

AlignedBack(addr, align) == AlignDown(addr, align)  \* variant: rounds down
Aligned(addr, align) == AlignUp(addr, align)

(* alloc_early(size, align); a request that does not fit changes nothing. *)
AllocEarly(size, align) ==
    LET start == Aligned(next, align)
    IN  /\ Cardinality(blocks) < MaxBlocks
        /\ start + size <= limit
        /\ next' = start + size
        /\ blocks' = blocks \cup {[start |-> start, size |-> size, align |-> align]}
        /\ UNCHANGED <<vars, base, limit>>

EarlyNext ==
    \/ \E map \in MemoryMaps : InitAllocator(map) /\ UNCHANGED heap_vars
    \/ InitHeap
    \/ regions # {} /\ AllocateFrame /\ UNCHANGED heap_vars
    \/ \E frame \in held : FreeFrame(frame) /\ UNCHANGED heap_vars
    \/ \E r \in Requests : AllocEarly(r.size, r.align)

EarlySpec == EarlyInit /\ [][EarlyNext]_all_vars

-----------------------------------------------------------------------------
Overlap(a, m, b, n) == a < b + n /\ b < a + m

(* The heap never hands out a byte twice, a misaligned block or a byte     *)
(* outside its region, whatever sizes and alignments are mixed and however *)
(* the heap runs out.                                                      *)
HeapBlocksSeparate ==
    \A b \in blocks :
        /\ b.start % b.align = 0 /\ base <= b.start /\ b.start + b.size <= next /\ next <= limit
        /\ \A c \in blocks : b # c => ~Overlap(b.start, b.size, c.start, c.size)

(* mm/mod.rs: "Provides a frame allocator backed by the bootloader memory  *)
(* map and a bump allocator for early kernel heap use."  Memory one of     *)
(* them handed out, or keeps its bitmap in, is not handed out by the other *)
(* one too.                                                                *)
MemoryHasOneOwner ==
    \A b \in blocks :
        /\ ~Overlap(b.start, b.size, bitmap, bitmap_words * WORD_BYTES)
        /\ \A frame \in held : ~Overlap(b.start, b.size, frame, FRAME_SIZE)

=============================================================================
