--------------------------- MODULE FrameAllocator ---------------------------
(***************************************************************************)
(* The physical frame allocator, kernel/src/mm/frame_allocator.rs.         *)
(*                                                                         *)
(* The bitmap is modelled as the set of bit positions that are 1, over all *)
(* bitmap_words * BITMAP_WORD_BITS positions, so the padding bits of the   *)
(* last word, which stand for no frame, are part of the state.  Addresses  *)
(* are bytes, so unaligned region ends and the bytes the bitmap occupies   *)
(* are exact.  FRAME_ALLOC is a Mutex that no interrupt handler takes, so  *)
(* each call is one step.                                                  *)
(***************************************************************************)
EXTENDS Integers, FiniteSets, FiniteSetsExt

CONSTANTS
    FRAME_SIZE,         \* bytes per frame (4096)
    BITMAP_WORD_BITS,   \* bits per bitmap word (64)
    WORD_BYTES,         \* size_of::<AtomicU64>() (8)
    MemoryMaps,         \* the memory maps the bootloader may hand over
    None,               \* Option::None
    NoCall              \* ret when the last call was not an allocation

Regions == [start : Nat, end : Nat, kind : {"Usable", "Reserved"}]

ASSUME SizeAssumption ==
    /\ FRAME_SIZE \in Nat \ {0}
    /\ BITMAP_WORD_BITS \in Nat \ {0}
    /\ WORD_BYTES \in Nat \ {0}
    /\ FRAME_SIZE % WORD_BYTES = 0
    /\ None \notin Nat /\ NoCall \notin Nat \cup {None}

VARIABLES
    regions,            \* the memory map init was called with
    first_frame,        \* FrameAllocator.first_frame
    frame_count,        \* FrameAllocator.frame_count
    bitmap,             \* FrameAllocator.bitmap: the bitmap's address
    bitmap_words,       \* FrameAllocator.bitmap_words: 0 until init has run
    bits,               \* positions of the 1 bits of the bitmap
    held,               \* history: frames handed out and not given back
    ret                 \* history: what the last call returned

geometry == <<regions, first_frame, frame_count, bitmap, bitmap_words>>
vars == <<regions, first_frame, frame_count, bitmap, bitmap_words, bits, held, ret>>

-----------------------------------------------------------------------------
(* align_up and align_down; every alignment the code passes is a power of  *)
(* two, for which masking is the same as rounding.                         *)
AlignUp(addr, align) == ((addr + align - 1) \div align) * align
AlignDown(addr, align) == (addr \div align) * align

Usable(map) == {r \in map : r.kind = "Usable"}

(* compute_usable_range, and the frames between its two ends. *)
FirstFrame(map) == AlignUp(Min({r.start : r \in Usable(map)}), FRAME_SIZE)
LastFrame(map) == AlignDown(Max({r.end : r \in Usable(map)}), FRAME_SIZE)
FrameCount(map) == (LastFrame(map) - FirstFrame(map)) \div FRAME_SIZE

(* The bootloader reports usable memory, and the range it spans holds the  *)
(* end of the lowest frame: otherwise last_frame - first_frame underflows. *)
ASSUME MapAssumption ==
    \A map \in MemoryMaps :
        /\ Usable(map) # {} /\ map \subseteq Regions
        /\ LastFrame(map) \in Nat /\ FirstFrame(map) <= LastFrame(map)

BitmapWords(count) == (count + BITMAP_WORD_BITS - 1) \div BITMAP_WORD_BITS

(* is_bitmap_frame, for a bitmap of the given number of words at addr. *)
IsBitmapFrame(first, addr, words, index) ==
    LET frame == first + index * FRAME_SIZE
    IN  frame >= addr /\ frame < addr + words * WORD_BYTES

(* The indices of the whole frames of usable regions that init frees. *)
UsableIndices(map, first, count) ==
    {i \in 0 .. count - 1 :
        \E r \in Usable(map) :
            /\ first + i * FRAME_SIZE >= AlignUp(r.start, FRAME_SIZE)
            /\ first + i * FRAME_SIZE < AlignDown(r.end, FRAME_SIZE)}

(* The index range init reserves for the bitmap; note the + 1. *)
BitmapReserve(first, addr, words, count) ==
    LET bitmap_first == (addr - first) \div FRAME_SIZE
        bitmap_last == (addr + words * WORD_BYTES - first) \div FRAME_SIZE + 1
    IN  {i \in 0 .. count - 1 : bitmap_first <= i /\ i < bitmap_last}

-----------------------------------------------------------------------------
Init ==
    /\ regions = {}
    /\ first_frame = 0
    /\ frame_count = 0
    /\ bitmap = 0
    /\ bitmap_words = 0
    /\ bits = {}
    /\ held = {}
    /\ ret = NoCall

(* init(regions), called once by kernel_main with the bootloader's map.    *)
(* The bitmap is zeroed, every frame's bit is set, the bits of usable      *)
(* frames outside the bitmap are cleared, the bitmap's own are set again.  *)
InitAllocator(map) ==
    LET first == FirstFrame(map)
        count == FrameCount(map)
        words == BitmapWords(count)
        addr == AlignUp(first, WORD_BYTES)
        freed == {i \in UsableIndices(map, first, count) :
                     ~IsBitmapFrame(first, addr, words, i)}
    IN  /\ regions = {}
        /\ regions' = map
        /\ first_frame' = first
        /\ frame_count' = count
        /\ bitmap' = addr
        /\ bitmap_words' = words
        /\ bits' = ((0 .. count - 1) \ freed)
                       \cup BitmapReserve(first, addr, words, count)
        /\ UNCHANGED <<held, ret>>

Positions == 0 .. bitmap_words * BITMAP_WORD_BITS - 1
Clear == Positions \ bits

(* Words are scanned upwards and trailing_ones picks the lowest 0 bit of a *)
(* word, so the bit taken is the lowest clear position.                    *)
PickedBitLeading == Max(Clear)          \* variant: leading_zeros instead
PickedBit == Min(Clear)

StandsForFrameLoose(index) == index <= frame_count  \* variant: <=
StandsForFrame(index) == index < frame_count

(* allocate_frame: a padding bit of the last word is set like any other    *)
(* and then ends the search without a frame.                               *)
AllocateFrame ==
    /\ IF Clear = {}
       THEN /\ ret' = None
            /\ UNCHANGED <<bits, held>>
       ELSE LET index == PickedBit
                frame == first_frame + index * FRAME_SIZE
            IN  /\ bits' = bits \cup {index}
                /\ IF StandsForFrame(index)
                   THEN ret' = frame /\ held' = held \cup {frame}
                   ELSE ret' = None /\ UNCHANGED held
    /\ UNCHANGED geometry

IndexOfAbsolute(frame) == frame \div FRAME_SIZE  \* variant: base not subtracted
IndexOf(frame) == (frame - first_frame) \div FRAME_SIZE
Managed(frame) == frame >= first_frame /\ IndexOf(frame) < frame_count

(* free_frame: an address the allocator does not manage is ignored. *)
FreeFrame(frame) ==
    /\ IF Managed(frame)
       THEN /\ bits' = bits \ {IndexOf(frame)}
            /\ held' = held \ {frame}
       ELSE UNCHANGED <<bits, held>>
    /\ ret' = NoCall
    /\ UNCHANGED geometry

(* The callers' side of the contract: "Free a previously allocated 4 KiB   *)
(* physical frame."  VirtualMemory has a caller that does not keep to it.  *)
Next ==
    \/ \E map \in MemoryMaps : InitAllocator(map)
    \/ AllocateFrame
    \/ \E frame \in held : FreeFrame(frame)

Spec == Init /\ [][Next]_vars

-----------------------------------------------------------------------------
FrameAt(index) == first_frame + index * FRAME_SIZE
FreeFrames == {FrameAt(i) : i \in (0 .. frame_count - 1) \ bits}
BitmapEnd == bitmap + bitmap_words * WORD_BYTES

(* The bits stay inside the bitmap's words, and what is handed out is a    *)
(* frame of the managed range.                                             *)
TypeOK ==
    /\ {first_frame, frame_count, bitmap, bitmap_words} \subseteq Nat
    /\ bits \subseteq Positions
    /\ held \subseteq {FrameAt(i) : i \in 0 .. frame_count - 1}
    /\ ret \in {None, NoCall} \cup {FrameAt(i) : i \in 0 .. frame_count - 1}

(* No sequence of allocations, failed allocations and frees loses a frame  *)
(* or hands one out twice, and none that init should not have freed gets   *)
(* in: the free and the held frames are disjoint and together are exactly  *)
(* the frames that lie whole in a usable region above the bitmap.          *)
FramesConserved ==
    /\ held \cap FreeFrames = {}
    /\ held \cup FreeFrames =
         {f \in {FrameAt(i) : i \in 0 .. frame_count - 1} :
             /\ f > BitmapEnd
             /\ \E r \in Usable(regions) : r.start <= f /\ f + FRAME_SIZE <= r.end}

(* The bitmap allocator is a frame pool: every allocation takes a free     *)
(* frame, None is returned only when no frame is free (even after padding  *)
(* bits were consumed), and a freed frame becomes available again.         *)
Pool == INSTANCE FramePool WITH
            ready <- regions # {}, free <- FreeFrames
PoolSpec == Pool!Spec

=============================================================================
