------------------------- MODULE HandleTableProofs -------------------------
(* Proofs about HandleTable, for every size of the table below the number  *)
(* of handles, and through every wrap of the counter.                      *)
EXTENDS HandleTable, TLAPS

(* The allocations made, until the counter has wrapped and gone on. *)
Count == IF wrapped THEN HANDLE_VALUES - 1 ELSE next_handle - 1

(* Until the first close the table is filled from the bottom, in the order *)
(* of the handle numbers.  Afterwards nothing is claimed but the types.    *)
Filled ==
    /\ Count <= MAX_HANDLES
    /\ DOMAIN issued = 1 .. Count
    /\ \A s \in Slots : table[s] = IF s < Count THEN issued[s + 1] ELSE None

Inv ==
    /\ HtTypeOK
    /\ ~wrapped => next_handle # 0
    /\ ~closed => Filled

LEMMA Sizes ==
    /\ MAX_HANDLES \in Nat \ {0} /\ HANDLE_VALUES \in Nat
    /\ MAX_HANDLES < HANDLE_VALUES /\ None \notin Headers
  BY HandleAssumption

LEMMA CountIsNat == Inv => Count \in Nat
  BY Sizes DEF Inv, HtTypeOK, Count

(* A slot number computed from a handle is a slot, and the handles up to   *)
(* the size of the table are the slots' own numbers.                       *)
LEMMA SlotArithmetic ==
    ASSUME NEW handle \in Nat \ {0}
    PROVE  /\ SlotOf(handle) \in Slots
           /\ handle <= MAX_HANDLES => SlotOf(handle) = handle - 1
  <1>1. MAX_HANDLES \in Nat \ {0}
    BY HandleAssumption
  <1>2. \A n \in Nat, m \in Nat \ {0} : n % m \in 0 .. m - 1 /\ (n < m => n % m = n)
    BY Z3
  <1>3. handle - 1 \in Nat /\ (handle <= MAX_HANDLES <=> handle - 1 < MAX_HANDLES)
    BY <1>1
  <1>4. (handle - 1) % MAX_HANDLES \in 0 .. MAX_HANDLES - 1
    BY <1>1, <1>2, <1>3
  <1>5. handle - 1 < MAX_HANDLES => (handle - 1) % MAX_HANDLES = handle - 1
    BY <1>1, <1>2, <1>3
  <1> QED
    BY <1>3, <1>4, <1>5 DEF SlotOf, Slots

LEMMA LowestFreeSlot ==
    ASSUME Inv, ~closed, FreeSlots # {}
    PROVE  ~wrapped /\ Count < MAX_HANDLES /\ Min(FreeSlots) = Count
  <1>1. Count \in Nat /\ Filled
    BY CountIsNat DEF Inv
  <1>2. ASSUME NEW s \in Slots, s < Count
        PROVE  table[s] # None
    <2>1. s + 1 \in DOMAIN issued
      BY <1>1, <1>2, Sizes DEF Filled, Slots
    <2>2. issued[s + 1] \in Headers
      BY <2>1 DEF Inv, HtTypeOK
    <2> QED
      BY <1>1, <1>2, <2>2, Sizes DEF Filled
  <1>3. \A s \in Slots : ~(s < Count) => table[s] = None
    BY <1>1 DEF Filled
  <1>4. FreeSlots = Count .. MAX_HANDLES - 1
    BY <1>1, <1>2, <1>3, Sizes DEF FreeSlots, Slots
  <1>5. Count < MAX_HANDLES
    BY <1>1, <1>4, Sizes
  <1>6. Count \in FreeSlots /\ \A s \in FreeSlots : s \in Int /\ Count <= s
    BY <1>1, <1>4, <1>5, Sizes
  <1>7. Min(FreeSlots) = Count
    <2>1. \A x \in FreeSlots : (\A y \in FreeSlots : x <= y) => x = Count
      BY <1>1, <1>6
    <2> QED
      BY <1>6, <2>1, Zenon DEF Min
  <1>8. ~wrapped
    BY <1>5, Sizes DEF Count
  <1> QED
    BY <1>5, <1>7, <1>8

LEMMA InitEstablishesInv == HtInit => Inv
  <1> SUFFICES ASSUME HtInit PROVE Inv
    OBVIOUS
  <1>1. DOMAIN issued = {}
    BY DEF HtInit
  <1>2. Count = 0
    BY DEF HtInit, Count
  <1>3. HtTypeOK
    <2>1. table \in [Slots -> Headers \cup {None}]
      BY DEF HtInit
    <2>2. next_handle \in 0 .. HANDLE_VALUES - 1
      BY Sizes DEF HtInit
    <2>3. closed \in BOOLEAN /\ wrapped \in BOOLEAN
      BY DEF HtInit
    <2> QED
      BY <1>1, <2>1, <2>2, <2>3 DEF HtTypeOK
  <1>4. Filled
    BY <1>1, <1>2, Sizes DEF HtInit, Filled, Slots
  <1> QED
    BY <1>3, <1>4 DEF HtInit, Inv

(* What the counter does: it moves on by one, or wraps to 0. *)
LEMMA CounterMoves ==
    ASSUME next_handle \in 0 .. HANDLE_VALUES - 1
    PROVE  NextHandle = IF next_handle = HANDLE_VALUES - 1 THEN 0 ELSE next_handle + 1
  <1>1. \A n, m \in Nat : n < m => n % m = n
    BY Z3
  <1>2. \A m \in Nat \ {0} : m % m = 0
    BY Z3
  <1>3. CASE next_handle = HANDLE_VALUES - 1
    <2>1. next_handle + 1 = HANDLE_VALUES /\ HANDLE_VALUES \in Nat \ {0}
      BY <1>3, Sizes
    <2> QED
      BY <1>2, <1>3, <2>1 DEF NextHandle
  <1>4. CASE next_handle # HANDLE_VALUES - 1
    <2>1. next_handle + 1 \in Nat /\ next_handle + 1 < HANDLE_VALUES
      BY <1>4, Sizes
    <2> QED
      BY <1>1, <1>4, <2>1, Sizes DEF NextHandle
  <1> QED
    BY <1>3, <1>4

LEMMA AllocatePreservesInv ==
    ASSUME Inv, NEW header \in Headers, AllocateHandle(header.kind, header.data)
    PROVE  Inv'
  <1>1. [kind |-> header.kind, data |-> header.data] = header
    BY DEF Headers
  <1>2. /\ table' = [table EXCEPT ![Min(FreeSlots)] = header]
        /\ next_handle' = NextHandle
        /\ issued' = Extend(issued, next_handle, header)
        /\ wrapped' = (wrapped \/ next_handle' = 0)
        /\ FreeSlots # {}
        /\ closed' = closed
    BY <1>1 DEF AllocateHandle
  <1>3. next_handle \in 0 .. HANDLE_VALUES - 1 /\ (~wrapped => next_handle # 0)
    BY DEF Inv, HtTypeOK
  <1>4. next_handle' = IF next_handle = HANDLE_VALUES - 1 THEN 0 ELSE next_handle + 1
    BY <1>2, <1>3, CounterMoves
  <1>5. /\ DOMAIN issued' = DOMAIN issued \cup {next_handle}
        /\ \A h \in DOMAIN issued' :
              issued'[h] = IF h = next_handle THEN header ELSE issued[h]
    BY <1>2 DEF Extend
  <1>6. HtTypeOK'
    <2>1. table' \in [Slots -> Headers \cup {None}]
      BY <1>2 DEF Inv, HtTypeOK
    <2>2. next_handle' \in 0 .. HANDLE_VALUES - 1
      BY <1>3, <1>4, Sizes
    <2>3. DOMAIN issued' \subseteq 0 .. HANDLE_VALUES - 1
      BY <1>3, <1>5 DEF Inv, HtTypeOK
    <2>4. ASSUME ~wrapped' PROVE DOMAIN issued' \subseteq 1 .. next_handle' - 1
      <3>1. ~wrapped /\ next_handle' # 0
        BY <1>2, <2>4
      <3>2. next_handle' = next_handle + 1 /\ next_handle # 0
        BY <1>3, <1>4, <3>1
      <3>3. DOMAIN issued \subseteq 1 .. next_handle - 1
        BY <3>1 DEF Inv, HtTypeOK
      <3> QED
        BY <1>3, <1>5, <3>2, <3>3, Sizes
    <2>5. \A h \in DOMAIN issued' : issued'[h] \in Headers
      BY <1>5 DEF Inv, HtTypeOK
    <2>6. closed' \in BOOLEAN /\ wrapped' \in BOOLEAN
      BY <1>2 DEF Inv, HtTypeOK
    <2> QED
      BY <2>1, <2>2, <2>3, <2>4, <2>5, <2>6 DEF HtTypeOK
  <1>7. ~wrapped' => next_handle' # 0
    BY <1>2
  <1>8. ASSUME ~closed' PROVE Filled'
    <2>1. Filled /\ ~closed
      BY <1>2, <1>8 DEF Inv
    <2>2. ~wrapped /\ Count < MAX_HANDLES /\ Min(FreeSlots) = Count
      BY <1>2, <2>1, LowestFreeSlot
    <2>3. Count \in Nat /\ next_handle = Count + 1
      BY <1>3, <2>2, CountIsNat DEF Count
    <2>4. Count' = Count + 1
      <3>1. CASE next_handle = HANDLE_VALUES - 1
        <4>1. wrapped'
          BY <1>2, <1>4, <3>1
        <4> QED
          BY <2>3, <3>1, <4>1, Sizes DEF Count
      <3>2. CASE next_handle # HANDLE_VALUES - 1
        <4>1. next_handle' = next_handle + 1
          BY <1>4, <3>2
        <4>2. next_handle' # 0
          BY <1>3, <4>1, Sizes
        <4>3. ~wrapped'
          BY <1>2, <2>2, <4>2, Zenon
        <4> QED
          BY <2>3, <4>1, <4>3 DEF Count
      <3> QED
        BY <3>1, <3>2
    <2>5. DOMAIN issued' = 1 .. Count'
      BY <1>5, <2>1, <2>3, <2>4 DEF Filled
    <2>6. \A s \in Slots : table'[s] = IF s = Count THEN header ELSE table[s]
      BY <1>2, <2>2, <2>3, Sizes DEF Inv, HtTypeOK, Slots
    <2>7. ASSUME NEW s \in Slots
          PROVE  table'[s] = IF s < Count' THEN issued'[s + 1] ELSE None
      <3>1. table[s] = IF s < Count THEN issued[s + 1] ELSE None
        BY <2>1 DEF Filled
      <3>2. s \in Nat
        BY Sizes DEF Slots
      <3>3. s < Count' => s + 1 \in DOMAIN issued'
        BY <2>3, <2>4, <2>5, <3>2
      <3> QED
        BY <1>5, <2>3, <2>4, <2>6, <3>1, <3>2, <3>3
    <2> QED
      BY <2>2, <2>3, <2>4, <2>5, <2>7, Sizes DEF Filled
  <1> QED
    BY <1>6, <1>7, <1>8 DEF Inv

LEMMA ClosePreservesInv ==
    ASSUME Inv, NEW handle \in 0 .. HANDLE_VALUES - 1, CloseHandle(handle)
    PROVE  Inv'
  <1>1. /\ table' = [table EXCEPT ![SlotOf(handle)] = None]
        /\ next_handle' = next_handle
        /\ DOMAIN issued' = DOMAIN issued \ {handle}
        /\ \A h \in DOMAIN issued' : issued'[h] = issued[h]
        /\ closed' = TRUE /\ wrapped' = wrapped
    BY DEF CloseHandle, Restrict
  <1>2. HtTypeOK'
    BY <1>1 DEF Inv, HtTypeOK
  <1> QED
    BY <1>1, <1>2 DEF Inv

LEMMA InvStays == Inv /\ UNCHANGED ht_vars => Inv'
  BY DEF ht_vars, Inv, HtTypeOK, Filled, Count

LEMMA InvInductive == Inv /\ [HtNext]_ht_vars => Inv'
  <1> SUFFICES ASSUME Inv, [HtNext]_ht_vars PROVE Inv'
    OBVIOUS
  <1>1. CASE \E header \in Headers : AllocateHandle(header.kind, header.data)
    BY <1>1, AllocatePreservesInv
  <1>2. CASE \E handle \in 0 .. HANDLE_VALUES - 1 : CloseHandle(handle)
    BY <1>2, ClosePreservesInv
  <1>3. CASE UNCHANGED ht_vars
    BY <1>3, InvStays
  <1> QED
    BY <1>1, <1>2, <1>3 DEF HtNext

LEMMA InvAlways == HtSpec => []Inv
  <1> QED
    BY InitEstablishesInv, InvInductive, PTL DEF HtSpec

(* Whatever handles are closed, and until the counter has wrapped, every   *)
(* handle a caller holds is one the counter has passed: objects::allocate  *)
(* issues no number twice, and never 0, which objects::lookup would map to *)
(* the last slot.  From the wrap on, which no guard prevents, only the     *)
(* ranges are claimed.                                                     *)
THEOREM HtTypeCorrect == HtSpec => []HtTypeOK
  <1>1. Inv => HtTypeOK
    BY DEF Inv
  <1> QED
    BY <1>1, InvAlways, PTL

LEMMA FilledResolves == Inv => ResolvesUntilFirstClose
  <1> SUFFICES ASSUME Inv, ~closed, NEW handle \in DOMAIN issued
               PROVE  table[SlotOf(handle)] = issued[handle]
    BY DEF ResolvesUntilFirstClose
  <1>1. Filled /\ Count \in Nat
    BY CountIsNat DEF Inv
  <1>2. handle \in Nat \ {0} /\ handle <= Count /\ handle <= MAX_HANDLES
    BY <1>1, Sizes DEF Filled
  <1>3. SlotOf(handle) = handle - 1 /\ handle - 1 \in Slots
    BY <1>2, SlotArithmetic
  <1> QED
    BY <1>1, <1>2, <1>3, Sizes DEF Filled

(* As long as nothing was closed, up to a full table, objects::lookup      *)
(* returns for each handle the object that objects::allocate stored when   *)
(* it issued it.                                                           *)
THEOREM UnclosedHandlesResolve == HtSpec => []ResolvesUntilFirstClose
  BY FilledResolves, InvAlways, PTL

=============================================================================
