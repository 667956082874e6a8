---------------------------- MODULE MemoryProofs ----------------------------
(* Proofs about physical memory and the tables kept in it, for every frame *)
(* size, word size and memory map: the bitmap allocator conserves frames,  *)
(* hands out usable ones only and implements FramePool; the early heap     *)
(* keeps its blocks apart; the registry answers with what was last stored. *)
EXTENDS Registry, TLAPS

(* Steps that name no prover go to the SMT solver, with this many seconds. *)
USE SMTT(30)

-----------------------------------------------------------------------------
(* The frame allocator. *)

(* Every non-empty set of naturals has a least element.  The lemmas below  *)
(* take this as a hypothesis; it is proved, from the library, at the end.  *)
WellOrdered == \A T \in SUBSET Nat : T # {} => \E x \in T : \A y \in T : x <= y

(* So Min is the least element. *)
LEMMA LeastNatural ==
    ASSUME WellOrdered, NEW T \in SUBSET Nat, T # {}
    PROVE  Min(T) \in T /\ \A y \in T : Min(T) <= y
  BY Zenon DEF WellOrdered, Min

(* Frame addresses are FRAME_SIZE apart, and an address gives its index back. *)
LEMMA FrameArithmetic ==
    \A b, i, j, k \in Nat : k > 0 =>
        /\ b + i * k \in Nat
        /\ (b + i * k - b) \div k = i
        /\ b + i * k = b + j * k => i = j
        /\ i < j => b + i * k + k <= b + j * k
<1>. SUFFICES ASSUME NEW b \in Nat, NEW i \in Nat, NEW j \in Nat, NEW k \in Nat, k > 0
              PROVE  /\ b + i * k \in Nat
                     /\ (b + i * k - b) \div k = i
                     /\ b + i * k = b + j * k => i = j
                     /\ i < j => b + i * k + k <= b + j * k
  OBVIOUS
<1>1. i * k \in Nat /\ j * k \in Nat
  OBVIOUS
<1>2. (i * k) \div k = i
  OBVIOUS
<1>3. b + i * k - b = i * k
  BY <1>1
<1>4. i * k = j * k => i = j
  OBVIOUS
<1>5. i < j => i * k + k <= j * k
  OBVIOUS
<1>. QED
  BY <1>1, <1>2, <1>3, <1>4, <1>5

(* Rounding a region's ends to frames keeps exactly its whole frames. *)
LEMMA Rounding ==
    \A m, a, e, k \in Nat : k > 0 =>
        /\ m * k >= AlignUp(a, k) <=> a <= m * k
        /\ m * k < AlignDown(e, k) <=> m * k + k <= e
<1>. SUFFICES ASSUME NEW m \in Nat, NEW a \in Nat, NEW e \in Nat, NEW k \in Nat, k > 0
              PROVE  /\ m * k >= AlignUp(a, k) <=> a <= m * k
                     /\ m * k < AlignDown(e, k) <=> m * k + k <= e
  BY Zenon
<1>. DEFINE q == (a + k - 1) \div k
            d == e \div k
<1>1. q \in Nat /\ q * k <= a + k - 1 /\ a + k - 1 < q * k + k
  OBVIOUS
<1>2. d \in Nat /\ d * k <= e /\ e < d * k + k
  OBVIOUS
<1>3. \A x, y \in Nat : x < y => x * k + k <= y * k
  OBVIOUS
<1>4. m * k \in Nat /\ q * k \in Nat /\ d * k \in Nat
  BY <1>1, <1>2
<1>5. m * k >= q * k <=> a <= m * k
  <2>. HIDE DEF q
  <2>1. CASE m < q
    BY <2>1, <1>1, <1>3, <1>4
  <2>2. CASE q < m
    BY <2>2, <1>1, <1>3, <1>4
  <2>3. CASE m = q
    BY <2>3, <1>1, <1>4
  <2>. QED
    BY <2>1, <2>2, <2>3, <1>1
<1>6. m * k < d * k <=> m * k + k <= e
  <2>. HIDE DEF d
  <2>1. CASE m < d
    BY <2>1, <1>2, <1>3, <1>4
  <2>2. CASE d < m
    BY <2>2, <1>2, <1>3, <1>4
  <2>3. CASE m = d
    BY <2>3, <1>2, <1>4
  <2>. QED
    BY <2>1, <2>2, <2>3, <1>2
<1>. QED
  BY <1>5, <1>6 DEF AlignUp, AlignDown

-----------------------------------------------------------------------------
(* The inductive invariant.  The bitmap has a bit for every frame, which   *)
(* is why an exhausted bitmap means that no frame is free.                 *)
Inv ==
    /\ TypeOK
    /\ FramesConserved
    /\ frame_count <= bitmap_words * BITMAP_WORD_BITS
    /\ regions = {} => frame_count = 0

LEMMA FrameAtFacts ==
    ASSUME TypeOK
    PROVE  \A i, j \in 0 .. frame_count - 1 :
               /\ FrameAt(i) \in Nat
               /\ FrameAt(i) = FrameAt(j) => i = j
               /\ IndexOf(FrameAt(i)) = i
               /\ Managed(FrameAt(i))
<1>. SUFFICES ASSUME NEW i \in 0 .. frame_count - 1, NEW j \in 0 .. frame_count - 1
              PROVE  /\ FrameAt(i) \in Nat
                     /\ FrameAt(i) = FrameAt(j) => i = j
                     /\ IndexOf(FrameAt(i)) = i
                     /\ Managed(FrameAt(i))
  OBVIOUS
<1>1. /\ first_frame \in Nat /\ frame_count \in Nat
      /\ i \in Nat /\ j \in Nat /\ FRAME_SIZE \in Nat /\ FRAME_SIZE > 0
  BY SizeAssumption DEF TypeOK
<1>2. IndexOf(FrameAt(i)) = i
  BY <1>1, FrameArithmetic DEF IndexOf, FrameAt
<1>3. FrameAt(i) \in Nat /\ (FrameAt(i) = FrameAt(j) => i = j)
  BY <1>1, FrameArithmetic DEF FrameAt
<1>4. i * FRAME_SIZE \in Nat
  BY <1>1
<1>5. FrameAt(i) >= first_frame
  BY <1>1, <1>4 DEF FrameAt
<1>. QED
  BY <1>1, <1>2, <1>3, <1>5 DEF Managed

(* allocate_frame takes a free frame, or fails with no frame free. *)
LEMMA AllocateIsPoolStep ==
    ASSUME WellOrdered,
           Inv, AllocateFrame
    PROVE  Pool!Grant \/ Pool!Refuse
<1>. USE DEF Inv
<1>1. UNCHANGED geometry
  BY DEF AllocateFrame
<1>2. 0 .. frame_count - 1 \subseteq Positions
  <2>1. frame_count \in Nat /\ bitmap_words * BITMAP_WORD_BITS \in Nat
    BY SizeAssumption DEF TypeOK
  <2>. QED
    BY <2>1 DEF Positions
<1>3. \A i : FrameAt(i)' = FrameAt(i)
  BY <1>1 DEF FrameAt, geometry
<1>4. FreeFrames' = {FrameAt(i) : i \in (0 .. frame_count - 1) \ bits'}
  BY <1>1, <1>3 DEF FreeFrames, geometry
<1>5. CASE Clear = {}
  <2>1. FreeFrames = {}
    BY <1>2, <1>5 DEF Clear, FreeFrames
  <2>2. ret' = None /\ bits' = bits /\ held' = held
    BY <1>5 DEF AllocateFrame
  <2>3. FreeFrames' = FreeFrames
    BY <1>4, <2>2 DEF FreeFrames
  <2>. QED
    BY <1>1, <2>1, <2>2, <2>3 DEF Pool!Refuse, geometry
<1>6. CASE Clear # {}
  <2>. DEFINE index == PickedBit
  <2>1. Clear \in SUBSET Nat
    BY SizeAssumption DEF Clear, Positions, TypeOK
  <2>2. index \in Clear /\ \A y \in Clear : index <= y
    BY <1>6, <2>1, LeastNatural DEF PickedBit
  <2>3. bits' = bits \cup {index}
    BY <1>6 DEF AllocateFrame
  <2>4. CASE index < frame_count
    <3>1. index \in (0 .. frame_count - 1) \ bits
      BY <2>1, <2>2, <2>4 DEF Clear, TypeOK
    <3>2. ret' = FrameAt(index) /\ held' = held \cup {FrameAt(index)}
      BY <1>6, <2>4 DEF AllocateFrame, StandsForFrame, FrameAt
    <3>3. FrameAt(index) \in FreeFrames
      BY <3>1 DEF FreeFrames
    <3>4. FreeFrames' = FreeFrames \ {FrameAt(index)}
      <4>. HIDE DEF index
      <4>1. \A i \in 0 .. frame_count - 1 : FrameAt(i) = FrameAt(index) => i = index
        BY <3>1, FrameAtFacts, Zenon
      <4>2. (0 .. frame_count - 1) \ bits' = ((0 .. frame_count - 1) \ bits) \ {index}
        BY <2>3, Zenon
      <4>. QED
        BY <1>4, <4>1, <4>2, Zenon DEF FreeFrames
    <3>. QED
      BY <1>1, <3>2, <3>3, <3>4 DEF Pool!Grant, geometry
  <2>5. CASE ~(index < frame_count)
    <3>1. \A i \in 0 .. frame_count - 1 : i \in bits
      BY <1>2, <2>1, <2>2, <2>5 DEF Clear, TypeOK
    <3>2. FreeFrames = {} /\ FreeFrames' = {}
      BY <1>4, <2>3, <3>1 DEF FreeFrames
    <3>3. ret' = None /\ held' = held
      BY <1>6, <2>5 DEF AllocateFrame, StandsForFrame
    <3>. QED
      BY <1>1, <3>2, <3>3 DEF Pool!Refuse, geometry
  <2>. QED
    BY <2>4, <2>5
<1>. QED
  BY <1>5, <1>6

(* free_frame of a held frame makes exactly that frame available again. *)
LEMMA FreeIsPoolStep ==
    ASSUME Inv, NEW frame \in held, FreeFrame(frame)
    PROVE  Pool!Release
<1>. USE DEF Inv
<1>1. PICK i \in 0 .. frame_count - 1 : frame = FrameAt(i)
  BY DEF TypeOK
<1>2. Managed(frame) /\ IndexOf(frame) = i
  BY <1>1, FrameAtFacts
<1>3. bits' = bits \ {i} /\ held' = held \ {frame} /\ ret' = NoCall /\ UNCHANGED geometry
  BY <1>2 DEF FreeFrame
<1>4. \A j : FrameAt(j)' = FrameAt(j)
  BY <1>3 DEF FrameAt, geometry
<1>5. FreeFrames' = {FrameAt(j) : j \in (0 .. frame_count - 1) \ (bits \ {i})}
  BY <1>3, <1>4 DEF FreeFrames, geometry
<1>6. FreeFrames' = FreeFrames \cup {frame}
  BY <1>1, <1>5, Zenon DEF FreeFrames
<1>. QED
  BY <1>3, <1>6 DEF Pool!Release, geometry

(* The pool's steps after init move frames between free and held only. *)
LEMMA PoolStepConserves ==
    ASSUME Pool!Grant \/ Pool!Refuse \/ Pool!Release, FramesConserved, TypeOK, UNCHANGED geometry
    PROVE  FramesConserved'
<1>1. held' \cap FreeFrames' = {} /\ held' \cup FreeFrames' = held \cup FreeFrames
  BY DEF Pool!Grant, Pool!Refuse, Pool!Release, FramesConserved
<1>2. \A i : FrameAt(i)' = FrameAt(i)
  BY DEF FrameAt, geometry
<1>3. BitmapEnd' = BitmapEnd /\ regions' = regions /\ frame_count' = frame_count
  BY DEF BitmapEnd, geometry
<1>. QED
  BY <1>1, <1>2, <1>3 DEF FramesConserved

LEMMA FloorLess ==
    \A i, d, k \in Nat : k > 0 => (i >= d \div k + 1 <=> i * k > d)
<1>. SUFFICES ASSUME NEW i \in Nat, NEW d \in Nat, NEW k \in Nat, k > 0
              PROVE  i >= d \div k + 1 <=> i * k > d
  OBVIOUS
<1>. DEFINE q == d \div k
<1>1. q \in Nat /\ q * k <= d /\ d < q * k + k
  OBVIOUS
<1>2. \A x, y \in Nat : x < y => x * k + k <= y * k
  OBVIOUS
<1>3. i * k \in Nat /\ q * k \in Nat
  BY <1>1
<1>. HIDE DEF q
<1>4. CASE i > q
  BY <1>1, <1>2, <1>3, <1>4
<1>5. CASE i < q
  BY <1>1, <1>2, <1>3, <1>5
<1>6. CASE i = q
  BY <1>1, <1>3, <1>6
<1>7. i >= q + 1 <=> i * k > d
  BY <1>1, <1>4, <1>5, <1>6
<1>. QED
  BY <1>7 DEF q

(* The sizes init computes are naturals, its first frame is aligned, and   *)
(* the bitmap starts in that frame and has a bit for every frame.          *)
LEMMA InitGeometry ==
    ASSUME WellOrdered,
           NEW map \in MemoryMaps,
           NEW first, first = FirstFrame(map),
           NEW count, count = FrameCount(map),
           NEW words, words = BitmapWords(count),
           NEW addr, addr = AlignUp(first, WORD_BYTES)
    PROVE  /\ \E q \in Nat : first = q * FRAME_SIZE
           /\ first \in Nat /\ count \in Nat /\ words \in Nat /\ addr \in Nat
           /\ words * WORD_BYTES \in Nat
           /\ count <= words * BITMAP_WORD_BITS
           /\ first <= addr /\ addr - first < FRAME_SIZE
<1>. DEFINE low == Min({r.start : r \in Usable(map)})
<1>1. low \in Nat
  <2>1. {r.start : r \in Usable(map)} \in SUBSET Nat
    BY MapAssumption DEF Usable, Regions
  <2>2. {r.start : r \in Usable(map)} # {}
    BY MapAssumption
  <2>. QED
    BY <2>1, <2>2, LeastNatural
<1>2. \A a, k \in Nat : k > 0 =>
          /\ (a + k - 1) \div k \in Nat
          /\ ((a + k - 1) \div k) * k \in Nat
          /\ a <= ((a + k - 1) \div k) * k
          /\ ((a + k - 1) \div k) * k < a + k
  OBVIOUS
<1>3. FRAME_SIZE \in Nat /\ FRAME_SIZE > 0 /\ WORD_BYTES \in Nat /\ WORD_BYTES > 0
      /\ BITMAP_WORD_BITS \in Nat /\ BITMAP_WORD_BITS > 0
  BY SizeAssumption
<1>4. first = ((low + FRAME_SIZE - 1) \div FRAME_SIZE) * FRAME_SIZE
  BY DEF FirstFrame, AlignUp
<1>5. first \in Nat /\ \E q \in Nat : first = q * FRAME_SIZE
  BY <1>1, <1>2, <1>3, <1>4, Zenon
<1>6. count \in Nat
  <2>0. LastFrame(map) \in Nat /\ first <= LastFrame(map)
    BY MapAssumption
  <2>1. LastFrame(map) - first \in Nat
    BY <1>5, <2>0
  <2>2. \A d \in Nat : d \div FRAME_SIZE \in Nat
    BY <1>3
  <2>. QED
    BY <2>1, <2>2 DEF FrameCount
<1>7. words \in Nat /\ count <= words * BITMAP_WORD_BITS
  BY <1>2, <1>3, <1>6 DEF BitmapWords
<1>8. addr \in Nat /\ first <= addr /\ addr < first + WORD_BYTES
  BY <1>2, <1>3, <1>5 DEF AlignUp
<1>9. WORD_BYTES <= FRAME_SIZE
  BY SizeAssumption
<1>10. words * WORD_BYTES \in Nat
  BY <1>3, <1>7
<1>11. addr - first < FRAME_SIZE
  BY <1>3, <1>5, <1>8, <1>9
<1>. QED
  BY <1>5, <1>6, <1>7, <1>8, <1>10, <1>11

(* init frees exactly the whole usable frames above the bitmap. *)
LEMMA InitConserves ==
    ASSUME WellOrdered,
           Inv, NEW map \in MemoryMaps, InitAllocator(map)
    PROVE  Inv'
<1>. DEFINE first == FirstFrame(map)
            count == FrameCount(map)
            words == BitmapWords(count)
            addr == AlignUp(first, WORD_BYTES)
            bytes == words * WORD_BYTES
            freed == {i \in UsableIndices(map, first, count) :
                         ~IsBitmapFrame(first, addr, words, i)}
            reserve == BitmapReserve(first, addr, words, count)
<1>1. /\ regions = {} /\ regions' = map /\ first_frame' = first /\ frame_count' = count
      /\ bitmap' = addr /\ bitmap_words' = words
      /\ bits' = ((0 .. count - 1) \ freed) \cup reserve
      /\ held' = held /\ ret' = ret
  BY DEF InitAllocator
<1>2. /\ first \in Nat /\ count \in Nat /\ words \in Nat /\ addr \in Nat /\ bytes \in Nat
      /\ count <= words * BITMAP_WORD_BITS
      /\ first <= addr /\ addr - first < FRAME_SIZE
  BY InitGeometry
<1>3. PICK q \in Nat : first = q * FRAME_SIZE
  BY InitGeometry
<1>4. FRAME_SIZE \in Nat /\ FRAME_SIZE > 0 /\ WORD_BYTES \in Nat /\ BITMAP_WORD_BITS \in Nat
  BY SizeAssumption
<1>. HIDE DEF first, count, words, addr, bytes
<1>5. frame_count = 0 /\ held = {} /\ ret \in {None, NoCall}
  <2>1. frame_count = 0
    BY <1>1 DEF Inv
  <2>. QED
    BY <2>1 DEF Inv, TypeOK
<1>6. \A i \in 0 .. count - 1 : \A r \in Usable(map) :
          /\ first + i * FRAME_SIZE >= AlignUp(r.start, FRAME_SIZE)
          /\ first + i * FRAME_SIZE < AlignDown(r.end, FRAME_SIZE)
          <=> /\ r.start <= first + i * FRAME_SIZE
              /\ first + i * FRAME_SIZE + FRAME_SIZE <= r.end
  <2>. SUFFICES ASSUME NEW i \in 0 .. count - 1, NEW r \in Usable(map)
                PROVE  /\ first + i * FRAME_SIZE >= AlignUp(r.start, FRAME_SIZE)
                       /\ first + i * FRAME_SIZE < AlignDown(r.end, FRAME_SIZE)
                       <=> /\ r.start <= first + i * FRAME_SIZE
                           /\ first + i * FRAME_SIZE + FRAME_SIZE <= r.end
    OBVIOUS
  <2>1. r.start \in Nat /\ r.end \in Nat
    BY MapAssumption DEF Usable, Regions
  <2>2. i \in Nat /\ q + i \in Nat
    BY <1>2
  <2>3. first + i * FRAME_SIZE = (q + i) * FRAME_SIZE
    BY <1>3, <1>4, <2>2
  <2>4. /\ (q + i) * FRAME_SIZE >= AlignUp(r.start, FRAME_SIZE)
           <=> r.start <= (q + i) * FRAME_SIZE
        /\ (q + i) * FRAME_SIZE < AlignDown(r.end, FRAME_SIZE)
           <=> (q + i) * FRAME_SIZE + FRAME_SIZE <= r.end
    BY <1>4, <2>1, <2>2, Rounding, Zenon
  <2>. QED
    BY <2>3, <2>4
<1>7. \A i \in 0 .. count - 1 :
          i \notin reserve <=> first + i * FRAME_SIZE > addr + bytes
  <2>. SUFFICES ASSUME NEW i \in 0 .. count - 1
                PROVE  i \notin reserve <=> first + i * FRAME_SIZE > addr + bytes
    OBVIOUS
  <2>. DEFINE d == addr + bytes - first
  <2>1. d \in Nat /\ i \in Nat /\ i * FRAME_SIZE \in Nat
    BY <1>2, <1>4
  <2>2. (addr - first) \div FRAME_SIZE = 0
    BY <1>2, <1>4
  <2>3. i \notin reserve <=> i >= d \div FRAME_SIZE + 1
    <3>1. d \div FRAME_SIZE \in Nat
      BY <1>4, <2>1
    <3>. QED
      BY <2>1, <2>2, <3>1 DEF BitmapReserve, bytes
  <2>4. i >= d \div FRAME_SIZE + 1 <=> i * FRAME_SIZE > d
    BY <1>4, <2>1, FloorLess
  <2>. QED
    BY <1>2, <2>1, <2>3, <2>4
<1>8. \A i \in 0 .. count - 1 :
          i \notin bits' <=>
             /\ first + i * FRAME_SIZE > addr + bytes
             /\ \E r \in Usable(map) : /\ r.start <= first + i * FRAME_SIZE
                                       /\ first + i * FRAME_SIZE + FRAME_SIZE <= r.end
  <2>. SUFFICES ASSUME NEW i \in 0 .. count - 1
                PROVE  i \notin bits' <=>
                         /\ first + i * FRAME_SIZE > addr + bytes
                         /\ \E r \in Usable(map) :
                                /\ r.start <= first + i * FRAME_SIZE
                                /\ first + i * FRAME_SIZE + FRAME_SIZE <= r.end
    OBVIOUS
  <2>1. i \notin bits' <=> i \in freed /\ i \notin reserve
    BY <1>1
  <2>2. i * FRAME_SIZE \in Nat
    BY <1>2, <1>4
  <2>3. first + i * FRAME_SIZE > addr + bytes => ~IsBitmapFrame(first, addr, words, i)
    BY <1>2, <2>2 DEF IsBitmapFrame, bytes
  <2>. QED
    BY <1>6, <1>7, <2>1, <2>3 DEF UsableIndices
<1>9. FramesConserved'
  <2>1. held' \cap FreeFrames' = {}
    BY <1>1, <1>5
  <2>2. BitmapEnd' = addr + bytes
    BY <1>1 DEF BitmapEnd, bytes
  <2>3. \A i : FrameAt(i)' = first + i * FRAME_SIZE
    BY <1>1 DEF FrameAt
  <2>4. FreeFrames' = {first + i * FRAME_SIZE : i \in (0 .. count - 1) \ bits'}
    BY <1>1, <2>3 DEF FreeFrames
  <2>. QED
    BY <1>1, <1>5, <1>8, <2>1, <2>2, <2>3, <2>4 DEF FramesConserved
<1>10. TypeOK'
  <2>1. bits' \subseteq 0 .. count - 1
    BY <1>1 DEF BitmapReserve
  <2>2. words * BITMAP_WORD_BITS \in Nat
    BY <1>2, <1>4
  <2>3. bits' \subseteq Positions'
    BY <1>1, <1>2, <2>1, <2>2 DEF Positions
  <2>. QED
    BY <1>1, <1>2, <1>5, <2>3 DEF TypeOK
<1>11. regions' # {}
  BY <1>1, MapAssumption DEF Usable
<1>. QED
  BY <1>1, <1>2, <1>9, <1>10, <1>11 DEF Inv

LEMMA AllocatePreservesInv ==
    ASSUME WellOrdered
    PROVE  Inv /\ AllocateFrame => Inv'
<1>. SUFFICES ASSUME Inv, AllocateFrame
              PROVE  Inv'
  OBVIOUS
<1>1. UNCHANGED geometry
  BY DEF AllocateFrame
<1>2. FramesConserved'
  BY <1>1, AllocateIsPoolStep, PoolStepConserves DEF Inv
<1>3. \A i : FrameAt(i)' = FrameAt(i)
  BY <1>1 DEF FrameAt, geometry
<1>4. TypeOK'
  <2>1. bits' \subseteq Positions
    <3>1. CASE Clear = {}
      BY <3>1 DEF AllocateFrame, Inv, TypeOK
    <3>2. CASE Clear # {}
      <4>1. Clear \in SUBSET Nat
        BY SizeAssumption DEF Clear, Positions, Inv, TypeOK
      <4>2. PickedBit \in Clear
        BY <3>2, <4>1, LeastNatural DEF PickedBit
      <4>. QED
        BY <3>2, <4>2 DEF AllocateFrame, Clear, Inv, TypeOK
    <3>. QED
      BY <3>1, <3>2
  <2>2. Positions' = Positions
    BY <1>1 DEF Positions, geometry
  <2>3. /\ held' \subseteq {FrameAt(i) : i \in 0 .. frame_count - 1}
        /\ ret' \in {None, NoCall} \cup {FrameAt(i) : i \in 0 .. frame_count - 1}
    <3>1. FreeFrames \subseteq {FrameAt(i) : i \in 0 .. frame_count - 1}
      BY DEF FreeFrames
    <3>. QED
      BY <3>1, AllocateIsPoolStep DEF Inv, TypeOK, Pool!Grant, Pool!Refuse
  <2>. QED
    BY <1>1, <1>3, <2>1, <2>2, <2>3 DEF Inv, TypeOK, geometry
<1>. QED
  BY <1>1, <1>2, <1>4 DEF Inv, geometry

LEMMA FreePreservesInv ==
    ASSUME Inv, NEW frame \in held, FreeFrame(frame)
    PROVE  Inv'
<1>1. UNCHANGED geometry /\ bits' \subseteq bits /\ held' \subseteq held /\ ret' = NoCall
  BY DEF FreeFrame
<1>2. FramesConserved'
  BY <1>1, FreeIsPoolStep, PoolStepConserves DEF Inv
<1>3. \A i : FrameAt(i)' = FrameAt(i)
  BY <1>1 DEF FrameAt, geometry
<1>4. Positions' = Positions
  BY <1>1 DEF Positions, geometry
<1>5. TypeOK'
  BY <1>1, <1>3, <1>4 DEF Inv, TypeOK, geometry
<1>. QED
  BY <1>1, <1>2, <1>5 DEF Inv, geometry

LEMMA InvInductive ==
    ASSUME WellOrdered
    PROVE  /\ Init => Inv
           /\ Inv /\ [Next]_vars => Inv'
<1>1. Init => Inv
  <2>. SUFFICES ASSUME Init
                PROVE  Inv
    OBVIOUS
  <2>1. 0 .. frame_count - 1 = {} /\ bitmap_words * BITMAP_WORD_BITS = 0
    BY SizeAssumption DEF Init
  <2>2. TypeOK
    BY <2>1 DEF Init, TypeOK, Positions
  <2>3. FramesConserved
    BY <2>1 DEF Init, FramesConserved, FreeFrames
  <2>. QED
    BY <2>1, <2>2, <2>3 DEF Init, Inv
<1>2. Inv /\ UNCHANGED vars => Inv'
  BY DEF Inv, vars, TypeOK, FramesConserved, Positions, FrameAt, FreeFrames, BitmapEnd, Usable
<1>. QED
  BY <1>1, <1>2, InitConserves, AllocatePreservesInv, FreePreservesInv DEF Next

(* Every step of the allocator is a step of the pool. *)
LEMMA StepIsPoolStep ==
    ASSUME WellOrdered
    PROVE  Inv /\ [Next]_vars => [Pool!Next]_(Pool!vars)
<1>. SUFFICES ASSUME Inv, [Next]_vars
              PROVE  [Pool!Next]_(Pool!vars)
  OBVIOUS
<1>1. CASE \E map \in MemoryMaps : InitAllocator(map)
  <2>1. PICK map \in MemoryMaps : InitAllocator(map)
    BY <1>1
  <2>2. map # {}
    BY MapAssumption DEF Usable
  <2>. QED
    BY <2>1, <2>2 DEF InitAllocator, Pool!Provide, Pool!Next
<1>2. CASE AllocateFrame
  BY <1>2, AllocateIsPoolStep DEF Pool!Next
<1>3. CASE \E frame \in held : FreeFrame(frame)
  BY <1>3, FreeIsPoolStep DEF Pool!Next
<1>4. CASE UNCHANGED vars
  BY <1>4 DEF vars, Pool!vars, FreeFrames, FrameAt
<1>. QED
  BY <1>1, <1>2, <1>3, <1>4 DEF Next

-----------------------------------------------------------------------------
(* The early heap: every mix of sizes and alignments, any number of blocks. *)

Blocks == [start : Nat, size : Nat \ {0}, align : Nat \ {0}]

(* Nothing is handed out above next, and nothing before init_heap. *)
Placed(b, from, to) == b.start % b.align = 0 /\ from <= b.start /\ b.start + b.size <= to

HeapInv ==
    /\ regions \subseteq Regions
    /\ base \in Nat /\ next \in Nat /\ limit \in Nat
    /\ base <= next /\ next <= limit
    /\ blocks \subseteq Blocks
    /\ limit = 0 => blocks = {}
    /\ \A b \in blocks : Placed(b, base, next)
    /\ \A b, c \in blocks : b # c => ~Overlap(b.start, b.size, c.start, c.size)

(* align_up gives a multiple of the alignment that is not below addr. *)
LEMMA AlignsUp ==
    ASSUME NEW addr \in Nat, NEW align \in Nat \ {0}
    PROVE  /\ Aligned(addr, align) \in Nat
           /\ addr <= Aligned(addr, align)
           /\ Aligned(addr, align) % align = 0
  <1> DEFINE q == (addr + align - 1) \div align
  <1>1. \A n \in Nat, k \in Nat \ {0} : n \div k \in Nat /\ n < (n \div k) * k + k
    BY Z3
  <1>2. \A n \in Nat, k \in Nat \ {0} : (n * k) % k = 0 /\ n * k \in Nat
    BY Z3
  <1>3. addr + align - 1 \in Nat
    OBVIOUS
  <1>4. q \in Nat /\ addr + align - 1 < q * align + align
    BY <1>1, <1>3
  <1>5. (q * align) % align = 0 /\ q * align \in Nat
    BY <1>2, <1>4, Zenon
  <1>6. Aligned(addr, align) = q * align
    BY DEF Aligned, AlignUp
  <1> HIDE DEF q
  <1>7. addr <= q * align
    BY <1>4, <1>5
  <1> QED
    BY <1>5, <1>6, <1>7

LEMMA InitHeapKeepsInv == HeapInv /\ InitHeap => HeapInv'
  <1> SUFFICES ASSUME HeapInv, InitHeap PROVE HeapInv'
    OBVIOUS
  <1>1. PICK r \in HeapRegions : r.start = base' /\ limit' = r.end
    BY Zenon DEF InitHeap
  <1>2. r \in Regions /\ r.end - r.start >= MIN_HEAP
    BY <1>1 DEF HeapRegions, Usable, HeapInv
  <1>3. r.start \in Nat /\ r.end \in Nat /\ r.start <= r.end
    BY <1>2, HeapAssumption DEF Regions
  <1>4. base' \in Nat /\ limit' \in Nat /\ next' = base' /\ base' <= limit'
    BY <1>1, <1>3 DEF InitHeap
  <1>5. blocks' = {} /\ regions' = regions
    BY DEF InitHeap, HeapInv, vars
  <1> QED
    BY <1>4, <1>5 DEF HeapInv

LEMMA AllocKeepsInv ==
    ASSUME HeapInv, NEW r \in Requests, AllocEarly(r.size, r.align)
    PROVE  HeapInv'
  <1> DEFINE start == Aligned(next, r.align)
             new == [start |-> start, size |-> r.size, align |-> r.align]
  <1>1. r.size \in Nat \ {0} /\ r.align \in Nat \ {0}
    BY HeapAssumption
  <1>2. start \in Nat /\ next <= start /\ start % r.align = 0
    BY <1>1, AlignsUp DEF HeapInv
  <1>3. /\ start + r.size <= limit /\ next' = start + r.size
        /\ blocks' = blocks \cup {new}
        /\ regions' = regions /\ base' = base /\ limit' = limit
    BY DEF AllocEarly, vars
  <1> HIDE DEF start
  <1>4. new \in Blocks
    BY <1>1, <1>2, Zenon DEF Blocks
  <1>5. next' \in Nat /\ next <= next' /\ next' <= limit' /\ limit' # 0
    BY <1>1, <1>2, <1>3 DEF HeapInv
  <1>6. \A b \in blocks : b \in Blocks /\ b.start \in Nat /\ b.size \in Nat
    BY DEF HeapInv, Blocks
  <1>7. \A b \in blocks' : Placed(b, base', next')
    <2>1. Placed(new, base', next')
      BY <1>1, <1>2, <1>3 DEF Placed, HeapInv
    <2>2. ASSUME NEW b \in blocks PROVE Placed(b, base', next')
      <3>1. Placed(b, base, next) /\ b.start + b.size \in Nat
        BY <1>6 DEF HeapInv
      <3> QED
        BY <1>3, <1>5, <3>1 DEF Placed, HeapInv
    <2> QED
      BY <1>3, <2>1, <2>2
  <1>8. \A b \in blocks : /\ ~Overlap(b.start, b.size, new.start, new.size)
                          /\ ~Overlap(new.start, new.size, b.start, b.size)
    <2> SUFFICES ASSUME NEW b \in blocks PROVE ~(start < b.start + b.size)
      BY DEF Overlap
    <2>1. b.start + b.size <= next /\ b.start + b.size \in Nat
      BY <1>6 DEF HeapInv, Placed
    <2> QED
      BY <1>2, <2>1 DEF HeapInv
  <1>9. \A b, c \in blocks' : b # c => ~Overlap(b.start, b.size, c.start, c.size)
    <2> SUFFICES ASSUME NEW b \in blocks', NEW c \in blocks', b # c
                 PROVE  ~Overlap(b.start, b.size, c.start, c.size)
      OBVIOUS
    <2> HIDE DEF new
    <2>1. CASE b \in blocks /\ c \in blocks
      BY <2>1 DEF HeapInv
    <2> QED
      BY <1>3, <1>8, <2>1
  <1> QED
    BY <1>3, <1>4, <1>5, <1>7, <1>9 DEF HeapInv

LEMMA FrameStepKeepsInv ==
    ASSUME HeapInv, regions' \subseteq Regions, UNCHANGED heap_vars
    PROVE  HeapInv'
  BY DEF HeapInv, heap_vars, Placed

(* alloc_early never hands out a byte twice, a misaligned block or a byte  *)
(* outside the heap's region, whatever happens to the frames meanwhile.    *)
THEOREM HeapSeparation == EarlySpec => []HeapBlocksSeparate
  <1>1. EarlyInit => HeapInv
    BY DEF EarlyInit, Init, HeapInv
  <1>2. HeapInv /\ [EarlyNext]_all_vars => HeapInv'
    <2> SUFFICES ASSUME HeapInv, [EarlyNext]_all_vars PROVE HeapInv'
      OBVIOUS
    <2>1. CASE \E map \in MemoryMaps : InitAllocator(map) /\ UNCHANGED heap_vars
      <3>1. regions' \subseteq Regions
        BY <2>1, MapAssumption DEF InitAllocator
      <3> QED
        BY <2>1, <3>1, FrameStepKeepsInv
    <2>2. CASE regions # {} /\ AllocateFrame /\ UNCHANGED heap_vars
      <3>1. UNCHANGED geometry
        BY <2>2, Zenon DEF AllocateFrame
      <3>2. regions' \subseteq Regions
        BY <3>1 DEF HeapInv, geometry
      <3> QED
        BY <2>2, <3>2, FrameStepKeepsInv
    <2>3. CASE \E frame \in held : FreeFrame(frame) /\ UNCHANGED heap_vars
      <3>1. regions' \subseteq Regions
        BY <2>3 DEF FreeFrame, HeapInv, geometry
      <3> QED
        BY <2>3, <3>1, FrameStepKeepsInv
    <2>4. CASE UNCHANGED all_vars
      <3>1. regions' \subseteq Regions /\ UNCHANGED heap_vars
        BY <2>4 DEF all_vars, vars, HeapInv
      <3> QED
        BY <3>1, FrameStepKeepsInv
    <2> QED
      BY <2>1, <2>2, <2>3, <2>4, InitHeapKeepsInv, AllocKeepsInv DEF EarlyNext
  <1>3. HeapInv => HeapBlocksSeparate
    BY DEF HeapInv, HeapBlocksSeparate, Placed
  <1> QED
    BY <1>1, <1>2, <1>3, PTL DEF EarlySpec

-----------------------------------------------------------------------------
(* The registry: every table size, path length and set of names and data. *)

Slots == 1 .. MAX_KEYS
Holds(i, path) == registry[i] # None /\ registry[i].path = path

(* RegistryAnswers alone does not survive set_value, which overwrites only *)
(* the first slot it finds: no two slots have one path, and the table and  *)
(* the history have the same paths with the same data.                     *)
RegistryInv ==
    /\ registry = [i \in Slots |-> registry[i]]
    /\ \A i, j \in Slots :
           registry[i] # None /\ registry[j] # None /\ registry[i].path = registry[j].path => i = j
    /\ \A i \in Slots :
           registry[i] # None =>
               /\ registry[i].path \in DOMAIN last
               /\ registry[i].data = last[registry[i].path]
    /\ \A path \in DOMAIN last : \E i \in Slots : Holds(i, path)

(* set_value writes a slot that has the path, or an empty one if none has. *)
LEMMA ChosenSlot ==
    ASSUME WellOrdered,
           RegistryInv, NEW path, Candidates(path) # {}
    PROVE  /\ Min(Candidates(path)) \in Slots
           /\ \A i \in Slots : Holds(i, path) => i = Min(Candidates(path))
           /\ \/ Holds(Min(Candidates(path)), path)
              \/ registry[Min(Candidates(path))] = None
  <1>1. DOMAIN registry = Slots
    BY DEF RegistryInv
  <1>2. Candidates(path) \in SUBSET Slots
    BY <1>1 DEF Candidates, SlotsOf, EmptySlots
  <1>3. Slots \subseteq Nat
    BY RegistryAssumption DEF Slots
  <1>4. Min(Candidates(path)) \in Candidates(path)
    BY <1>2, <1>3, LeastNatural
  <1>5. CASE SlotsOf(path) # {}
    <2>1. Min(Candidates(path)) \in SlotsOf(path)
      BY <1>4, <1>5 DEF Candidates
    <2> DEFINE slot == Min(Candidates(path))
    <2>2. slot \in Slots /\ Holds(slot, path)
      BY <1>1, <2>1 DEF SlotsOf, Holds
    <2> HIDE DEF slot
    <2>3. \A i \in Slots : Holds(i, path) => i = slot
      BY <2>2 DEF Holds, RegistryInv
    <2> QED
      BY <2>2, <2>3 DEF slot
  <1>6. CASE SlotsOf(path) = {}
    <2>1. Min(Candidates(path)) \in EmptySlots
      BY <1>4, <1>6 DEF Candidates
    <2>2. \A i \in Slots : ~Holds(i, path)
      BY <1>1, <1>6, Zenon DEF SlotsOf, Holds
    <2>3. Min(Candidates(path)) \in Slots /\ registry[Min(Candidates(path))] = None
      BY <1>1, <2>1, Zenon DEF EmptySlots
    <2> QED
      BY <2>2, <2>3, Zenon
  <1> QED
    BY <1>5, <1>6

(* A write of that slot keeps the table and the history alike. *)
LEMMA StoreKeepsInv ==
    ASSUME RegistryInv, NEW path, NEW data, NEW slot \in Slots,
           [path |-> path, data |-> data] # None,
           \A i \in Slots : Holds(i, path) => i = slot,
           Holds(slot, path) \/ registry[slot] = None,
           registry' = [registry EXCEPT ![slot] = [path |-> path, data |-> data]],
           last' = [p \in DOMAIN last \cup {path} |-> IF p = path THEN data ELSE last[p]]
    PROVE  RegistryInv'
  <1>1. DOMAIN registry = Slots
    BY DEF RegistryInv
  <1>2. registry' = [i \in Slots |-> registry'[i]]
    BY <1>1, Zenon
  <1>3. registry'[slot] = [path |-> path, data |-> data]
    BY <1>1
  <1>4. \A i \in Slots : i # slot => registry'[i] = registry[i]
    BY <1>1
  <1>5. \A i \in Slots : i # slot /\ registry[i] # None => registry[i].path # path
    BY Zenon DEF Holds
  <1>6. DOMAIN last' = DOMAIN last \cup {path} /\ last'[path] = data
    BY Zenon
  <1>7. \A p \in DOMAIN last : p # path => last'[p] = last[p]
    BY Zenon
  <1>8. \A i, j \in Slots :
           registry'[i] # None /\ registry'[j] # None /\ registry'[i].path = registry'[j].path => i = j
    BY <1>3, <1>4, <1>5 DEF RegistryInv
  <1>9. ASSUME NEW i \in Slots, registry'[i] # None
        PROVE  registry'[i].path \in DOMAIN last' /\ registry'[i].data = last'[registry'[i].path]
    <2>1. CASE i = slot
      BY <1>3, <1>6, <2>1
    <2>2. CASE i # slot
      BY <1>4, <1>5, <1>6, <1>7, <1>9, <2>2, Zenon DEF RegistryInv
    <2> QED
      BY <2>1, <2>2
  <1>10. ASSUME NEW p \in DOMAIN last' PROVE \E i \in Slots : Holds(i, p)'
    <2>1. CASE p = path
      BY <1>3, <2>1 DEF Holds
    <2>2. CASE p # path
      <3>1. PICK i \in Slots : Holds(i, p)
        BY <1>6, <2>2 DEF RegistryInv
      <3>2. i # slot
        BY <2>2, <3>1 DEF Holds
      <3> QED
        BY <1>4, <3>1, <3>2, Zenon DEF Holds
    <2> QED
      BY <2>1, <2>2
  <1> QED
    BY <1>2, <1>8, <1>9, <1>10, Zenon DEF RegistryInv, Slots

(* A step that leaves the registry alone keeps the invariant. *)
LEMMA IdleKeepsInv ==
    ASSUME RegistryInv, UNCHANGED <<registry, last>>
    PROVE  RegistryInv'
  BY DEF RegistryInv, Holds, Slots

(* The invariant makes get_value answer from the history. *)
LEMMA InvAnswers ==
    ASSUME WellOrdered
    PROVE  RegistryInv => RegistryAnswers
  <1> SUFFICES ASSUME RegistryInv, NEW path
               PROVE  GetValue(path) = IF path \in DOMAIN last THEN last[path] ELSE None
    BY Zenon DEF RegistryAnswers
  <1>1. DOMAIN registry = Slots
    BY DEF RegistryInv
  <1>2. CASE SlotsOf(path) = {}
    BY <1>1, <1>2 DEF GetValue, SlotsOf, Holds, RegistryInv
  <1>3. CASE SlotsOf(path) # {}
    <2>1. SlotsOf(path) \in SUBSET Nat
      BY <1>1, RegistryAssumption DEF SlotsOf, Slots
    <2>2. Min(SlotsOf(path)) \in SlotsOf(path)
      BY <1>3, <2>1, LeastNatural
    <2> QED
      BY <1>1, <1>3, <2>2 DEF GetValue, SlotsOf, RegistryInv
  <1> QED
    BY <1>2, <1>3

(* set_value keeps the invariant, whether it stores or not. *)
LEMMA RegistryInvInductive ==
    ASSUME WellOrdered
    PROVE  RegistryInv /\ [RegistryNext]_everything => RegistryInv'
  <1> SUFFICES ASSUME RegistryInv, [RegistryNext]_everything PROVE RegistryInv'
    OBVIOUS
  <1>1. CASE UNCHANGED registry_vars
    BY <1>1, IdleKeepsInv DEF registry_vars
  <1>2. ASSUME NEW name \in Names, HeapExhausted(name) PROVE RegistryInv'
    <2>1. UNCHANGED <<registry, last>>
      BY <1>2, Zenon DEF HeapExhausted
    <2> QED
      BY <2>1, IdleKeepsInv
  <1>3. ASSUME NEW name \in Names, NEW data \in Data, SetValue(name, data) PROVE RegistryInv'
    <2> DEFINE path == FormatPath(name)
    <2>1. CASE Candidates(path) = {}
      <3>1. UNCHANGED <<registry, last>>
        BY <1>3, <2>1, Zenon DEF SetValue
      <3> QED
        BY <3>1, IdleKeepsInv
    <2>2. CASE Candidates(path) # {}
      <3>0. PICK slot \in Slots : slot = Min(Candidates(path))
        BY <2>2, ChosenSlot
      <3>1. /\ registry' = [registry EXCEPT ![slot] = [path |-> path, data |-> data]]
            /\ last' = [p \in DOMAIN last \cup {path} |-> IF p = path THEN data ELSE last[p]]
        BY <1>3, <2>2, <3>0, Zenon DEF SetValue
      <3>2. [path |-> path, data |-> data] # None
        BY EntryAssumption
      <3>3. /\ \A i \in Slots : Holds(i, path) => i = slot
            /\ Holds(slot, path) \/ registry[slot] = None
        BY <2>2, <3>0, ChosenSlot
      <3> HIDE DEF path
      <3> QED
        BY <3>1, <3>2, <3>3, StoreKeepsInv, Zenon
    <2> QED
      BY <2>1, <2>2
  <1>4. CASE UNCHANGED everything
    BY <1>1, <1>4 DEF everything
  <1> QED
    BY <1>1, <1>2, <1>3, <1>4 DEF RegistryNext

-----------------------------------------------------------------------------
(* The library, and the theorems that rest on it. *)

LOCAL INSTANCE WellFoundedInduction

LEMMA WellOrderedHolds == WellOrdered
  <1> SUFFICES ASSUME NEW T \in SUBSET Nat, T # {}
               PROVE  \E x \in T : \A y \in T : x <= y
    BY Zenon DEF WellOrdered
  <1>1. PICK x \in T : \A y \in T : ~(<<y, x>> \in OpToRel(<, Nat))
    BY NatLessThanWellFounded, WFMin, Zenon
  <1>2. \A y \in T : ~(y < x)
    BY <1>1, Zenon DEF OpToRel
  <1> QED
    BY <1>2

(* Type correctness of the allocator for every map and every size. *)
THEOREM TypeCorrect == Spec => []TypeOK
<1>1. Inv => TypeOK
  BY DEF Inv
<1>. QED
  BY <1>1, InvInductive, WellOrderedHolds, PTL DEF Spec

(* Whatever the memory map and the sequence of calls, the free and held    *)
(* frames are disjoint and are exactly the whole usable frames above the   *)
(* bitmap (frame_allocator.rs init, allocate_frame, free_frame).           *)
THEOREM Conservation == Spec => []FramesConserved
<1>1. Inv => FramesConserved
  BY DEF Inv
<1>. QED
  BY <1>1, InvInductive, WellOrderedHolds, PTL DEF Spec

(* The bitmap allocator implements the frame pool its callers rely on. *)
THEOREM Refinement == Spec => PoolSpec
<1>1. Init => Pool!Init
  <2>1. Init => 0 .. frame_count - 1 = {}
    BY DEF Init
  <2>. QED
    BY <2>1 DEF Init, Pool!Init, FreeFrames
<1>. QED
  BY <1>1, StepIsPoolStep, InvInductive, WellOrderedHolds, PTL DEF Spec, PoolSpec, Pool!Spec

(* get_value always answers with the data of the last set_value that       *)
(* returned true for the path, however often the table was full, a value   *)
(* set again or a path cut off.                                            *)
THEOREM RegistryRemembers == RegistrySpec => []RegistryAnswers
  <1>1. RegistryInit => RegistryInv
    BY DEF RegistryInit, RegistryInv, Slots
  <1> QED
    BY <1>1, RegistryInvInductive, InvAnswers, WellOrderedHolds, PTL DEF RegistrySpec

=============================================================================
