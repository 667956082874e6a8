-------------------------- MODULE InterruptsProofs --------------------------
(***************************************************************************)
(* Proofs about interrupts in the idle kernel: every set of devices and    *)
(* every firmware, every size of the keyboard ring, handlers between any   *)
(* two accesses of the idle loop; and about the registers that the timer   *)
(* handler saves.                                                          *)
(***************************************************************************)
EXTENDS Interrupts, TimerHandler, TLAPS

(* Steps that name no prover go to the SMT solver, with this many seconds. *)
USE SMTT(30)

-----------------------------------------------------------------------------
(* Routing. *)

(* NoUnhandledVector needs the mask that lets only handled lines through. *)
PicInv == mode \in {"opening", "on"} => mask1 = Pic1Mask

(* 0xFC leaves lines 0 and 1 of PIC1 open, and closes the cascade. *)
LEMMA OpenLines ==
    ASSUME NEW bit \in 0 .. 7, ~Masked(Pic1Mask, bit)
    PROVE  bit \in {0, 1}
  <1>1. (252 \div 2 ^ 2) % 2 = 1 /\ (252 \div 2 ^ 3) % 2 = 1 /\ (252 \div 2 ^ 4) % 2 = 1
    OBVIOUS
  <1>2. (252 \div 2 ^ 5) % 2 = 1 /\ (252 \div 2 ^ 6) % 2 = 1 /\ (252 \div 2 ^ 7) % 2 = 1
    OBVIOUS
  <1>3. /\ Masked(Pic1Mask, 2) /\ Masked(Pic1Mask, 3) /\ Masked(Pic1Mask, 4)
        /\ Masked(Pic1Mask, 5) /\ Masked(Pic1Mask, 6) /\ Masked(Pic1Mask, 7)
    BY <1>1, <1>2, Zenon DEF Masked, Pic1Mask
  <1>4. bit \in {0, 1} \/ bit \in {2, 3, 4, 5, 6, 7}
    OBVIOUS
  <1> QED
    BY <1>3, <1>4

LEMMA DeliveredIsHandled ==
    ASSUME PicInv, mode = "on", NEW irq \in Lines, Deliverable(irq)
    PROVE  irq \in Handled
  <1>1. irq \in 0 .. 15 /\ irq # 2
    BY LinesAssumption
  <1>2. ~Masked(Pic1Mask, Line1(irq))
    BY DEF PicInv, Deliverable, Passes
  <1>3. Line1(irq) \in 0 .. 7
    BY <1>1 DEF Line1, Cascade
  <1>4. Line1(irq) \in {0, 1}
    BY <1>2, <1>3, OpenLines
  <1> QED
    BY <1>1, <1>4 DEF Line1, Cascade, Handled

LEMMA StepKeepsPic == ASSUME PicInv, [IrNext]_vars PROVE PicInv'
  <1>1. CASE Initialise
    BY <1>1 DEF Initialise, InitInterrupts, RemapPic, OpenPic1, OpenPic2, PicInv
  <1>2. ASSUME NEW irq \in Lines, Device(irq) PROVE PicInv'
    BY <1>2 DEF Device, Raise, PicInv
  <1>3. ASSUME NEW irq \in Lines, Take(irq) PROVE PicInv'
    <2>1. mask1' = mask1 /\ (mode' = mode \/ mode' = "fault")
      BY <1>3 DEF Take, Interrupt
    <2> QED
      BY <2>1 DEF PicInv
  <1>4. CASE Run \/ UNCHANGED vars
    BY <1>4 DEF Run, vars, pic_vars, PicInv
  <1> QED
    BY <1>1, <1>2, <1>3, <1>4 DEF IrNext

LEMMA StaysOn == ASSUME PicInv, [IrNext]_vars, mode = "on" PROVE mode' = "on"
  <1>1. CASE Initialise
    BY <1>1 DEF Initialise, InitInterrupts, RemapPic, OpenPic1, OpenPic2
  <1>2. ASSUME NEW irq \in Lines, Device(irq) PROVE mode' = "on"
    BY <1>2 DEF Device, Raise
  <1>3. ASSUME NEW irq \in Lines, Take(irq) PROVE mode' = "on"
    <2>1. Deliverable(irq)
      BY <1>3 DEF Take, Interrupt
    <2>2. irq \in Handled
      BY <2>1, DeliveredIsHandled
    <2> QED
      BY <1>3, <2>2 DEF Take, Interrupt
  <1>4. CASE Run \/ UNCHANGED vars
    BY <1>4 DEF Run, vars, pic_vars
  <1> QED
    BY <1>1, <1>2, <1>3, <1>4 DEF IrNext

(* Whatever masks the firmware left, and whatever lines the devices raise, *)
(* in whatever order: once init has written its masks no interrupt is      *)
(* delivered that the IDT has no entry for.  The mask 0xFC of PIC1 closes  *)
(* the cascade, so line 10, which 0xFB opens on PIC2, never gets through.  *)
THEOREM OnlyHandledVectors == IrSpec => NoUnhandledVector
  <1>1. IrInit => PicInv
    BY DEF IrInit, PicInit, PicInv
  <1>2. PicInv /\ [IrNext]_vars => PicInv'
    BY StepKeepsPic
  <1>3. PicInv /\ [IrNext]_vars => [mode = "on" => mode' # "fault"]_vars
    BY StaysOn
  <1> QED
    BY <1>1, <1>2, <1>3, PTL DEF IrSpec, NoUnhandledVector

-----------------------------------------------------------------------------
(* The keyboard ring. *)

N == KEYBOARD_BUF_SIZE
Stored == Scancodes \cup {None}
Rings == [Indices -> Stored]

(* What the ring b holds from h up to t. *)
Contents(b, h, t) == [i \in 1 .. (t - h) % N |-> b[(h + i - 1) % N]]

(* Until the timer destroys a local of read_scancode: its copy of the head *)
(* is the head, and while the loop stands between the comparison and the   *)
(* advance, the handler only adds: the ring is not empty and the slot that *)
(* was fetched is the one the head still points to.                        *)
RingInv ==
    /\ buf \in Rings /\ head \in Indices /\ tail \in Indices
    /\ step \in {"compare", "fetch", "advance"} => index = head
    /\ step \in {"fetch", "advance"} => head # tail
    /\ step = "advance" => scancode = buf[head]

KbInv == clobbered \/ RingInv

LEMMA Size == N \in Nat /\ N > 1 /\ Indices = 0 .. N - 1 /\ N \in Nat \ {0}
  BY KeyboardAssumption DEF N, Indices, PIC_EOI

LEMMA Wraps ==
    ASSUME NEW x \in Int
    PROVE  /\ 0 <= x /\ x < N => x % N = x
           /\ N <= x /\ x < N + N => x % N = x - N
           /\ -N < x /\ x < 0 => x % N = x + N
  <1> N \in Nat \ {0}
    BY Size
  <1>1. ASSUME NEW M \in Nat \ {0}, 0 <= x, x < M PROVE x % M = x
    BY <1>1, Z3
  <1>2. ASSUME NEW M \in Nat \ {0}, M <= x, x < M + M PROVE x % M = x - M
    BY <1>2, Z3
  <1>3. ASSUME NEW M \in Nat \ {0}, -M < x, x < 0 PROVE x % M = x + M
    BY <1>3, Z3
  <1> QED
    BY <1>1, <1>2, <1>3, Zenon

LEMMA Geometry ==
    ASSUME NEW h \in Indices, NEW t \in Indices
    PROVE  /\ Succ(h) = IF h = N - 1 THEN 0 ELSE h + 1
           /\ Succ(h) \in Indices
           /\ (t - h) % N = IF h <= t THEN t - h ELSE t - h + N
           /\ (t - h) % N \in 0 .. N - 1
           /\ \A i \in 1 .. N : /\ (h + i - 1) % N = IF h + i - 1 < N THEN h + i - 1 ELSE h + i - 1 - N
                                /\ (h + i - 1) % N \in Indices
  <1> HIDE DEF N
  <1>1. N \in Nat /\ N > 1 /\ h \in 0 .. N - 1 /\ t \in 0 .. N - 1 /\ Indices = 0 .. N - 1
    BY Size
  <1>2. (h + 1) % N = IF h = N - 1 THEN 0 ELSE h + 1
    <2>1. h + 1 \in Int
      BY <1>1
    <2> QED
      BY <1>1, <2>1, Wraps
  <1>3. Succ(h) = (h + 1) % N
    BY DEF Succ, N
  <1>4. (t - h) % N = IF h <= t THEN t - h ELSE t - h + N
    <2>1. t - h \in Int
      BY <1>1
    <2>2. IF h <= t THEN 0 <= t - h /\ t - h < N ELSE -N < t - h /\ t - h < 0
      BY <1>1
    <2> QED
      BY <2>1, <2>2, Wraps
  <1>5. ASSUME NEW i \in 1 .. N
        PROVE  (h + i - 1) % N = IF h + i - 1 < N THEN h + i - 1 ELSE h + i - 1 - N
    <2>1. PICK x \in Int : x = h + i - 1 /\ 0 <= x /\ x < N + N
      BY <1>1
    <2>2. x % N = IF x < N THEN x ELSE x - N
      BY <1>1, <2>1, Wraps
    <2>3. x = h + i - 1
      BY <2>1
    <2>4. PICK y : y = x % N /\ y = (h + i - 1) % N
      BY <2>3, Zenon
    <2>5. y = IF x < N THEN x ELSE x - N
      BY <2>2, <2>4, Zenon
    <2>6. y = IF h + i - 1 < N THEN h + i - 1 ELSE h + i - 1 - N
      BY <1>1, <2>3, <2>5
    <2> QED
      BY <2>4, <2>6, Zenon
  <1>6. ASSUME NEW i \in 1 .. N PROVE (h + i - 1) % N \in Indices
    BY <1>1, <1>5
  <1> QED
    BY <1>1, <1>2, <1>3, <1>4, <1>5, <1>6

LEMMA Appending ==
    ASSUME NEW S, NEW l \in Seq(S), NEW e \in S
    PROVE  /\ Append(l, e) \in Seq(S) /\ Len(Append(l, e)) = Len(l) + 1
           /\ Append(l, e)[Len(l) + 1] = e /\ \A i \in 1 .. Len(l) : Append(l, e)[i] = l[i]
  OBVIOUS

LEMMA Shortening ==
    ASSUME NEW S, NEW l \in Seq(S), l # <<>>
    PROVE  /\ Tail(l) \in Seq(S) /\ Len(Tail(l)) = Len(l) - 1
           /\ \A i \in 1 .. Len(Tail(l)) : Tail(l)[i] = l[i + 1]
  OBVIOUS

LEMMA ContentsIs ==
    ASSUME NEW b \in Rings, NEW h \in Indices, NEW t \in Indices
    PROVE  /\ Contents(b, h, t) \in Seq(Stored)
           /\ Len(Contents(b, h, t)) = (t - h) % N
           /\ \A i \in 1 .. (t - h) % N : Contents(b, h, t)[i] = b[(h + i - 1) % N]
  <1> HIDE DEF N
  <1>1. (t - h) % N \in Nat /\ (t - h) % N <= N - 1 /\ N \in Nat
    BY Geometry, Size
  <1>2. \A i \in 1 .. (t - h) % N : b[(h + i - 1) % N] \in Stored
    <2> TAKE i \in 1 .. (t - h) % N
    <2>1. i \in 1 .. N
      BY <1>1
    <2> QED
      BY <2>1, Geometry DEF Rings
  <1> QED
    BY <1>1, <1>2 DEF Contents

(* A scancode stored at the tail comes last, and disturbs nothing. *)
LEMMA StoreAppends ==
    ASSUME NEW b \in Rings, NEW h \in Indices, NEW t \in Indices, NEW s \in Scancodes,
           Succ(t) # h
    PROVE  /\ Contents([b EXCEPT ![t] = s], h, Succ(t)) = Append(Contents(b, h, t), s)
           /\ Len(Contents(b, h, t)) < N - 1
  <1> HIDE DEF N
  <1>1. N \in Nat /\ N > 1 /\ h \in 0 .. N - 1 /\ t \in 0 .. N - 1 /\ Indices = 0 .. N - 1
    BY Size
  <1>2. PICK u \in Indices : u = Succ(t)
    BY Geometry
  <1>3. PICK c \in Rings : c = [b EXCEPT ![t] = s]
    BY Zenon DEF Rings, Stored
  <1>4. PICK n \in 0 .. N - 1 : n = (t - h) % N /\ n = IF h <= t THEN t - h ELSE t - h + N
    BY Geometry
  <1>5. u = IF t = N - 1 THEN 0 ELSE t + 1
    BY <1>2, Geometry
  <1>6. (u - h) % N = IF h <= u THEN u - h ELSE u - h + N
    BY Geometry, Zenon
  <1>7. (u - h) % N = n + 1 /\ n < N - 1
    BY <1>1, <1>2, <1>4, <1>5, <1>6
  <1>8. PICK l \in Seq(Stored) : /\ l = Contents(b, h, t) /\ Len(l) = n
                                 /\ \A i \in 1 .. n : l[i] = b[(h + i - 1) % N]
    <2>1. PICK l : l = Contents(b, h, t)
      BY Zenon
    <2>2. /\ l \in Seq(Stored) /\ Len(l) = (t - h) % N
          /\ \A i \in 1 .. (t - h) % N : l[i] = b[(h + i - 1) % N]
      BY <2>1, ContentsIs, Zenon
    <2> QED
      BY <1>4, <2>1, <2>2
  <1>9. PICK m \in Seq(Stored) : /\ m = Contents(c, h, u) /\ Len(m) = n + 1
                                 /\ \A i \in 1 .. n + 1 : m[i] = c[(h + i - 1) % N]
    <2>1. PICK m : m = Contents(c, h, u)
      BY Zenon
    <2>2. /\ m \in Seq(Stored) /\ Len(m) = (u - h) % N
          /\ \A i \in 1 .. (u - h) % N : m[i] = c[(h + i - 1) % N]
      BY <2>1, ContentsIs, Zenon
    <2> QED
      BY <1>7, <2>1, <2>2
  <1>10. \A i \in 1 .. n + 1 : /\ i \in 1 .. N
                               /\ (h + i - 1) % N = t <=> i = n + 1
    <2> TAKE i \in 1 .. n + 1
    <2>1. i \in 1 .. N
      BY <1>1, <1>7
    <2>2. (h + i - 1) % N = IF h + i - 1 < N THEN h + i - 1 ELSE h + i - 1 - N
      BY <2>1, Geometry, Zenon
    <2>3. PICK y : y = (h + i - 1) % N
      BY Zenon
    <2>4. y = IF h + i - 1 < N THEN h + i - 1 ELSE h + i - 1 - N
      BY <2>2, <2>3
    <2>5. y = t <=> i = n + 1
      BY <1>1, <1>4, <1>7, <2>1, <2>4
    <2> QED
      BY <2>1, <2>3, <2>5
  <1>11. \A i \in 1 .. n + 1 : m[i] = IF i = n + 1 THEN s ELSE l[i]
    <2> TAKE i \in 1 .. n + 1
    <2>1. i \in 1 .. N /\ ((h + i - 1) % N = t <=> i = n + 1)
      BY <1>10, Zenon
    <2>2. (h + i - 1) % N \in Indices
      BY <2>1, Geometry, Zenon
    <2>3. m[i] = IF (h + i - 1) % N = t THEN s ELSE b[(h + i - 1) % N]
      BY <1>3, <1>9, <2>2, Zenon DEF Rings
    <2>4. i # n + 1 => l[i] = b[(h + i - 1) % N]
      BY <1>8
    <2> QED
      BY <2>1, <2>3, <2>4
  <1>12. PICK a \in Seq(Stored) : /\ a = Append(l, s) /\ Len(a) = n + 1
                                  /\ \A i \in 1 .. n + 1 : a[i] = IF i = n + 1 THEN s ELSE l[i]
    <2>1. s \in Stored
      BY DEF Stored
    <2>2. PICK a : a = Append(l, s)
      BY Zenon
    <2>3. /\ a \in Seq(Stored) /\ Len(a) = Len(l) + 1 /\ a[Len(l) + 1] = s
          /\ \A i \in 1 .. Len(l) : a[i] = l[i]
      BY <2>1, <2>2, Appending
    <2>4. Len(a) = n + 1 /\ a[n + 1] = s /\ \A i \in 1 .. n : a[i] = l[i]
      BY <1>8, <2>3
    <2>5. \A i \in 1 .. n + 1 : i = n + 1 \/ i \in 1 .. n
      BY <1>4
    <2>6. \A i \in 1 .. n + 1 : a[i] = IF i = n + 1 THEN s ELSE l[i]
      BY <2>4, <2>5
    <2> QED
      BY <2>2, <2>3, <2>4, <2>6, Zenon
  <1>13. m = a
    BY <1>9, <1>11, <1>12
  <1> QED
    BY <1>2, <1>3, <1>7, <1>8, <1>9, <1>12, <1>13, Zenon

(* A ring that has no room holds one scancode less than it has slots. *)
LEMMA FullRing ==
    ASSUME NEW b \in Rings, NEW h \in Indices, NEW t \in Indices, Succ(t) = h
    PROVE  Len(Contents(b, h, t)) = N - 1
  <1> HIDE DEF N
  <1>1. N \in Nat /\ N > 1 /\ h \in 0 .. N - 1 /\ t \in 0 .. N - 1
    BY Size
  <1>2. h = IF t = N - 1 THEN 0 ELSE t + 1
    BY Geometry
  <1>3. (t - h) % N = IF h <= t THEN t - h ELSE t - h + N
    BY Geometry, Zenon
  <1>4. (t - h) % N = N - 1
    BY <1>1, <1>2, <1>3
  <1> QED
    BY <1>4, ContentsIs

(* Moving the head takes the first scancode off. *)
LEMMA AdvanceTakes ==
    ASSUME NEW b \in Rings, NEW h \in Indices, NEW t \in Indices, h # t
    PROVE  /\ Contents(b, h, t) # <<>> /\ Head(Contents(b, h, t)) = b[h]
           /\ Contents(b, Succ(h), t) = Tail(Contents(b, h, t))
  <1> HIDE DEF N
  <1>1. N \in Nat /\ N > 1 /\ h \in 0 .. N - 1 /\ t \in 0 .. N - 1 /\ Indices = 0 .. N - 1
    BY Size
  <1>2. PICK u \in Indices : u = Succ(h)
    BY Geometry
  <1>3. PICK n \in 0 .. N - 1 : n = (t - h) % N /\ n = IF h <= t THEN t - h ELSE t - h + N
    BY Geometry, Zenon
  <1>4. u = IF h = N - 1 THEN 0 ELSE h + 1
    BY <1>2, Geometry
  <1>5. (t - u) % N = IF u <= t THEN t - u ELSE t - u + N
    BY Geometry, Zenon
  <1>6. n > 0 /\ (t - u) % N = n - 1
    BY <1>1, <1>3, <1>4, <1>5
  <1>7. PICK l \in Seq(Stored) : /\ l = Contents(b, h, t) /\ Len(l) = n
                                 /\ \A i \in 1 .. n : l[i] = b[(h + i - 1) % N]
    <2>1. PICK l : l = Contents(b, h, t)
      BY Zenon
    <2>2. /\ l \in Seq(Stored) /\ Len(l) = (t - h) % N
          /\ \A i \in 1 .. (t - h) % N : l[i] = b[(h + i - 1) % N]
      BY <2>1, ContentsIs, Zenon
    <2> QED
      BY <1>3, <2>1, <2>2
  <1>8. PICK m \in Seq(Stored) : /\ m = Contents(b, u, t) /\ Len(m) = n - 1
                                 /\ \A i \in 1 .. n - 1 : m[i] = b[(u + i - 1) % N]
    <2>1. PICK m : m = Contents(b, u, t)
      BY Zenon
    <2>2. /\ m \in Seq(Stored) /\ Len(m) = (t - u) % N
          /\ \A i \in 1 .. (t - u) % N : m[i] = b[(u + i - 1) % N]
      BY <2>1, ContentsIs, Zenon
    <2> QED
      BY <1>6, <2>1, <2>2
  <1>9. \A i \in 1 .. n - 1 : m[i] = l[i + 1]
    <2> TAKE i \in 1 .. n - 1
    <2>1. i \in 1 .. N /\ i + 1 \in 1 .. N /\ i + 1 \in 1 .. n
      BY <1>1, <1>3, <1>6
    <2>2. (u + i - 1) % N = IF u + i - 1 < N THEN u + i - 1 ELSE u + i - 1 - N
      BY <2>1, Geometry, Zenon
    <2>3. (h + (i + 1) - 1) % N = IF h + (i + 1) - 1 < N THEN h + (i + 1) - 1
                                                         ELSE h + (i + 1) - 1 - N
      BY <2>1, Geometry, Zenon
    <2>4. (u + i - 1) % N = (h + (i + 1) - 1) % N
      BY <1>1, <1>4, <2>1, <2>2, <2>3
    <2>5. l[i + 1] = b[(h + (i + 1) - 1) % N]
      BY <1>7, <2>1
    <2> QED
      BY <1>8, <2>4, <2>5
  <1>10. PICK a \in Seq(Stored) : /\ a = Tail(l) /\ Len(a) = n - 1
                                  /\ \A i \in 1 .. n - 1 : a[i] = l[i + 1]
    <2>1. l # <<>>
      BY <1>6, <1>7
    <2>2. PICK a \in Seq(Stored) : /\ a = Tail(l) /\ Len(a) = Len(l) - 1
                                   /\ \A i \in 1 .. Len(a) : a[i] = l[i + 1]
      BY <2>1, Shortening, Zenon
    <2> QED
      BY <1>7, <2>2, Zenon
  <1>11. m = a
    BY <1>8, <1>9, <1>10
  <1>12. l # <<>> /\ Head(l) = l[1]
    BY <1>6, <1>7
  <1>13. l[1] = b[h]
    <2>1. 1 \in 1 .. n /\ 1 \in 1 .. N
      BY <1>1, <1>6
    <2>2. (h + 1 - 1) % N = IF h + 1 - 1 < N THEN h + 1 - 1 ELSE h + 1 - 1 - N
      BY <2>1, Geometry
    <2>3. (h + 1 - 1) % N = h
      BY <1>1, <2>2
    <2> QED
      BY <1>7, <2>1, <2>3
  <1> QED
    BY <1>2, <1>7, <1>8, <1>10, <1>11, <1>12, <1>13

(* What the timer does not destroy it leaves alone. *)
LEMMA TimerSpares ==
    ASSUME TimerInterrupt
    PROVE  /\ UNCHANGED ring_vars /\ step' = Woken /\ taken' = taken
           /\ clobbered' \/ UNCHANGED local_vars
  BY Zenon DEF TimerInterrupt

LEMMA WakingKeepsRing ==
    ASSUME RingInv, UNCHANGED ring_vars, step' = Woken, index' = index, scancode' = scancode
    PROVE  RingInv'
  BY DEF ring_vars, Woken, RingInv

LEMMA KeyKeepsRing == ASSUME RingInv, NEW s \in Scancodes, KeyboardInterrupt(s) PROVE RingInv'
  <1>1. head' = head /\ index' = index /\ scancode' = scancode /\ step' = Woken
    BY DEF KeyboardInterrupt, local_vars
  <1>2. CASE ~HasRoom
    BY <1>1, <1>2, WakingKeepsRing DEF KeyboardInterrupt, ring_vars
  <1>3. CASE HasRoom
    <2>1. buf' = [buf EXCEPT ![tail] = s] /\ tail' = Succ(tail) /\ Succ(tail) # head
      BY <1>3 DEF KeyboardInterrupt, HasRoom
    <2>2. buf' \in Rings /\ \A i \in Indices : i # tail => buf'[i] = buf[i]
      BY <2>1 DEF RingInv, Rings, Stored
    <2>3. tail' \in Indices /\ tail' # head
      BY <2>1, Geometry DEF RingInv
    <2> QED
      BY <1>1, <2>2, <2>3 DEF RingInv, Woken
  <1> QED
    BY <1>2, <1>3

LEMMA LoopKeepsRing == ASSUME RingInv, IdleLoop PROVE RingInv'
  <1>1. CASE Check
    BY <1>1 DEF Check, ring_vars, RingInv
  <1>2. CASE Compare
    <2>1. step' = "fetch" => index # tail
      BY <1>2 DEF Compare
    <2>2. step' \in {"mouse", "fetch", "panicked"} /\ (step' = "fetch" => index' = index)
      BY <1>2 DEF Compare
    <2> QED
      BY <1>2, <2>1, <2>2 DEF Compare, ring_vars, RingInv
  <1>3. CASE Fetch
    <2>1. scancode' = buf[head]
      BY <1>3 DEF Fetch, RingInv
    <2> QED
      BY <1>3, <2>1 DEF Fetch, ring_vars, RingInv
  <1>4. CASE Advance
    <2>1. head' \in Indices
      BY <1>4, Geometry DEF Advance, RingInv
    <2> QED
      BY <1>4, <2>1 DEF Advance, RingInv
  <1>5. CASE MouseAndRender \/ HaltOnce
    BY <1>5 DEF MouseAndRender, HaltOnce, ring_vars, RingInv
  <1> QED
    BY <1>1, <1>2, <1>3, <1>4, <1>5 DEF IdleLoop

(* A destroyed local is remembered. *)
LEMMA LocalsKept == UNCHANGED local_vars => clobbered' = clobbered
  BY DEF local_vars

(* An interrupt without a handler of its own only wakes the processor. *)
LEMMA OtherLine ==
    ASSUME NEW irq, Handler(irq), irq # 0, irq # 1
    PROVE  step' = Woken /\ UNCHANGED ring_vars /\ UNCHANGED local_vars /\ taken' = taken
  <1>1. step' = Woken /\ UNCHANGED <<ring_vars, local_vars, taken>>
    BY Zenon DEF Handler
  <1> QED
    BY <1>1, Zenon

LEMMA TimerLine == ASSUME Handler(0) PROVE TimerInterrupt
  <1>1. 0 # 1
    OBVIOUS
  <1> QED
    BY <1>1, Zenon DEF Handler

LEMMA KeyLine == ASSUME Handler(1) PROVE \E s \in Scancodes : KeyboardInterrupt(s)
  <1>1. 1 # 0
    OBVIOUS
  <1> QED
    BY <1>1, Zenon DEF Handler

LEMMA KeySparesLocals ==
    ASSUME NEW s, KeyboardInterrupt(s) PROVE UNCHANGED local_vars
  BY Zenon DEF KeyboardInterrupt

LEMMA StaysClobbered == clobbered /\ [IrNext]_vars => clobbered'
  <1> SUFFICES ASSUME clobbered, [IrNext]_vars PROVE clobbered'
    OBVIOUS
  <1>1. UNCHANGED kb_vars => clobbered' = clobbered
    BY DEF kb_vars, local_vars
  <1>2. Check \/ Compare \/ Fetch \/ Advance => clobbered' = clobbered
    BY Zenon DEF Check, Compare, Fetch, Advance
  <1>3. MouseAndRender \/ HaltOnce => clobbered' = clobbered
    BY LocalsKept, Zenon DEF MouseAndRender, HaltOnce
  <1>4. IdleLoop => clobbered' = clobbered
    BY <1>2, <1>3, Zenon DEF IdleLoop
  <1>5. ASSUME NEW irq \in Lines, Handler(irq) PROVE clobbered'
    <2>1. CASE irq = 1
      BY <1>5, <2>1, KeyLine, KeySparesLocals, LocalsKept, Zenon
    <2>2. CASE irq = 0
      BY <1>5, <2>2, TimerLine, TimerSpares, LocalsKept, Zenon
    <2>3. CASE irq # 0 /\ irq # 1
      BY <1>5, <2>3, OtherLine, LocalsKept, Zenon
    <2> QED
      BY <2>1, <2>2, <2>3, Zenon
  <1>6. CASE UNCHANGED vars
    <2>1. UNCHANGED kb_vars
      BY <1>6, Zenon DEF vars
    <2> QED
      BY <1>1, <2>1, Zenon
  <1> QED
    BY <1>1, <1>4, <1>5, <1>6, Zenon DEF IrNext, Initialise, Device, Take, Run

LEMMA StepKeepsKb == ASSUME KbInv, [IrNext]_vars PROVE KbInv'
  <1>1. SUFFICES ASSUME RingInv PROVE KbInv'
    BY StaysClobbered DEF KbInv
  <1>2. CASE UNCHANGED kb_vars
    BY <1>1, <1>2 DEF kb_vars, ring_vars, local_vars, RingInv, KbInv
  <1>3. ASSUME NEW irq \in Lines, Handler(irq) PROVE KbInv'
    <2>1. CASE irq = 1
      BY <1>1, <1>3, <2>1, KeyLine, KeyKeepsRing, Zenon DEF KbInv
    <2>2. CASE irq = 0
      <3>1. CASE clobbered'
        BY <3>1 DEF KbInv
      <3>2. CASE UNCHANGED local_vars
        BY <1>1, <1>3, <2>2, <3>2, TimerLine, TimerSpares, WakingKeepsRing DEF local_vars, KbInv
      <3> QED
        BY <1>3, <2>2, <3>1, <3>2, TimerLine, TimerSpares, Zenon
    <2>3. CASE irq # 0 /\ irq # 1
      BY <1>1, <1>3, <2>3, OtherLine, WakingKeepsRing DEF local_vars, KbInv
    <2> QED
      BY <2>1, <2>2, <2>3
  <1> QED
    BY <1>1, <1>2, <1>3, LoopKeepsRing DEF IrNext, Initialise, Device, Take, Run, vars, KbInv

LEMMA BufferedIs == Buffered = Contents(buf, head, tail)
  BY DEF Buffered, Contents, N

(* The two sides of the ring share it without a lock, and interrupts       *)
(* arrive between any two accesses of the reader: still the ring is a      *)
(* bounded queue that loses only what finds it full, and the loop gets     *)
(* every other scancode once and in the order of the keys, as long as no   *)
(* timer interrupt has destroyed a local of read_scancode.                 *)
THEOREM RingIsKeyQueue == IrSpec => KeyQueueSpec
  <1>1. IrInit => KbInv /\ Keys!Init
    <2> SUFFICES ASSUME IrInit PROVE KbInv /\ Keys!Init
      OBVIOUS
    <2>1. RingInv
      BY Size DEF IrInit, KbInit, RingInv, Rings, Stored
    <2>2. (tail - head) % N = 0
      <3>1. tail = head /\ head \in Indices /\ tail - head = 0
        BY Size DEF IrInit, KbInit
      <3>2. 0 % N = 0
        BY Size, Wraps
      <3> QED
        BY <3>1, <3>2, Zenon
    <2>3. Contents(buf, head, tail) = <<>>
      BY <2>1, <2>2, ContentsIs DEF RingInv
    <2> QED
      BY <2>1, <2>3, BufferedIs DEF Keys!Init, IrInit, KbInit, KbInv
  <1>2. KbInv /\ [IrNext]_vars => KbInv'
    BY StepKeepsKb
  <1>3. KbInv /\ [IrNext]_vars => [Keys!Next \/ clobbered']_<<Buffered, taken>>
    <2>0. SUFFICES ASSUME RingInv, [IrNext]_vars
                   PROVE  Keys!Next \/ clobbered' \/ UNCHANGED <<Buffered, taken>>
      BY StaysClobbered DEF KbInv
    <2>1. buf \in Rings /\ head \in Indices /\ tail \in Indices
      BY <2>0 DEF RingInv
    <2>2. UNCHANGED <<buf, head, tail, taken>> => UNCHANGED <<Buffered, taken>>
      BY DEF Buffered
    <2>3. ASSUME NEW s \in Scancodes, KeyboardInterrupt(s) PROVE Keys!Press(s)
      <3>1. head' = head /\ taken' = taken
        BY <2>3 DEF KeyboardInterrupt
      <3>2. PICK l : l = Contents(buf, head, tail)
        BY Zenon
      <3>3. Buffered = l
        BY <3>2, BufferedIs
      <3>4. Buffered' = Contents(buf', head', tail')
        BY DEF Buffered, Contents, N
      <3>5. CASE HasRoom
        <4>1. buf' = [buf EXCEPT ![tail] = s] /\ tail' = Succ(tail) /\ Succ(tail) # head
          BY <2>3, <3>5 DEF KeyboardInterrupt, HasRoom
        <4>2. Buffered' = Append(l, s) /\ Len(l) < N - 1
          BY <2>1, <3>1, <3>2, <3>4, <4>1, StoreAppends, Zenon
        <4> QED
          BY <3>1, <3>3, <4>2 DEF Keys!Press, N
      <3>6. CASE ~HasRoom
        <4>1. buf' = buf /\ tail' = tail /\ Succ(tail) = head
          BY <2>3, <3>6 DEF KeyboardInterrupt, HasRoom
        <4>2. Buffered' = l /\ Len(l) = N - 1
          BY <2>1, <3>1, <3>2, <3>4, <4>1, FullRing
        <4>3. ~(Len(l) < N - 1)
          BY <4>2, Size
        <4> QED
          BY <3>1, <3>3, <4>2, <4>3 DEF Keys!Press, N
      <3> QED
        BY <3>5, <3>6
    <2>4. CASE Advance
      <3>1. head' = Succ(head) /\ taken' = buf[head] /\ UNCHANGED <<buf, tail>> /\ head # tail
        BY <2>0, <2>4 DEF Advance, RingInv
      <3>2. PICK l : l = Contents(buf, head, tail)
        BY Zenon
      <3>3. Buffered = l
        BY <3>2, BufferedIs
      <3>4. Buffered' = Contents(buf', head', tail')
        BY DEF Buffered, Contents, N
      <3>5. l # <<>> /\ Head(l) = buf[head] /\ Buffered' = Tail(l)
        BY <2>1, <3>1, <3>2, <3>4, AdvanceTakes
      <3>6. Keys!Take
        BY <3>1, <3>3, <3>5 DEF Keys!Take
      <3> QED
        BY <3>6 DEF Keys!Next
    <2>5. ASSUME NEW irq \in Lines, Handler(irq)
          PROVE  Keys!Next \/ UNCHANGED <<Buffered, taken>>
      <3>1. CASE irq = 1
        <4>1. PICK s \in Scancodes : KeyboardInterrupt(s)
          BY <2>5, <3>1 DEF Handler
        <4> QED
          BY <2>3, <4>1 DEF Keys!Next
      <3>2. CASE irq = 0
        <4>1. UNCHANGED ring_vars /\ taken' = taken
          BY <2>5, <3>2, TimerLine, TimerSpares, Zenon
        <4> QED
          BY <2>2, <4>1 DEF ring_vars
      <3>3. CASE irq # 0 /\ irq # 1
        <4>1. UNCHANGED ring_vars /\ taken' = taken
          BY <2>5, <3>3, OtherLine, Zenon
        <4> QED
          BY <2>2, <4>1 DEF ring_vars
      <3> QED
        BY <3>1, <3>2, <3>3
    <2>6. CASE UNCHANGED kb_vars \/ (IdleLoop /\ ~Advance)
      BY <2>2, <2>6 DEF kb_vars, ring_vars, IdleLoop, Check, Compare, Fetch, MouseAndRender, HaltOnce
    <2> QED
      BY <2>0, <2>4, <2>5, <2>6 DEF IrNext, Initialise, Device, Take, Run, vars
  <1> QED
    BY <1>1, <1>2, <1>3, PTL DEF IrSpec, KeyQueueSpec

-----------------------------------------------------------------------------
(* The registers across the timer interrupt. *)

Agree(r, s) == \A x \in Registers \ {"rax"} : r[x] = s[x]

(* The frame of a thread that waits is the one of its last interruption,   *)
(* and restores what it had then.                                          *)
TimerInv ==
    /\ running \in Threads
    /\ regs = [x \in Registers |-> regs[x]]
    /\ frames = [t \in Threads |-> frames[t]]
    /\ before = [t \in Threads |-> before[t]]
    /\ Resumes => Agree(regs, before[running])
    /\ \A t \in Threads \ {running} :
           frames[t] # None /\ before[t] # None => Agree(Load(frames[t]), before[t])

(* The pops mirror the pushes. *)
LEMMA Mirrored == \A i \in 1 .. SAVED : Popped[i] = Pushed[SAVED + 1 - i]
  <1> SUFFICES ASSUME NEW i \in 1 .. 15 PROVE Popped[i] = Pushed[16 - i]
    BY DEF SAVED
  <1>1. \/ i = 1 \/ i = 2 \/ i = 3 \/ i = 4 \/ i = 5 \/ i = 6 \/ i = 7 \/ i = 8
        \/ i = 9 \/ i = 10 \/ i = 11 \/ i = 12 \/ i = 13 \/ i = 14 \/ i = 15
    OBVIOUS
  <1> QED
    BY <1>1 DEF Popped, Pushed

(* A frame holds every register where the pops look for it. *)
LEMMA LoadOfSave ==
    ASSUME NEW r, NEW x \in Registers
    PROVE  Load(Save(r))[x] = r[x]
  <1> DEFINE i == CHOOSE j \in 1 .. SAVED : Popped[j] = x
  <1>1. \E j \in 1 .. SAVED : Popped[j] = x
    <2>1. PICK k \in 1 .. SAVED : Pushed[k] = x
      BY DEF Registers
    <2>2. SAVED + 1 - k \in 1 .. SAVED /\ SAVED + 1 - (SAVED + 1 - k) = k
      BY DEF SAVED
    <2>3. Popped[SAVED + 1 - k] = Pushed[SAVED + 1 - (SAVED + 1 - k)]
      BY <2>2, Mirrored
    <2> QED
      BY <2>1, <2>2, <2>3
  <1>2. i \in 1 .. SAVED /\ Popped[i] = x
    BY <1>1
  <1>3. Load(Save(r))[x] = Save(r)[i]
    BY DEF Load
  <1>4. Save(r)[i] = r[Pushed[SAVED + 1 - i]]
    BY <1>2 DEF Save
  <1> QED
    BY <1>2, <1>3, <1>4, Mirrored

(* The end of the handler costs rax and nothing else. *)
LEMMA EoiCostsRax ==
    ASSUME NEW g, g = [x \in Registers |-> g[x]]
    PROVE  /\ EoiInRax(g) = [x \in Registers |-> EoiInRax(g)[x]]
           /\ Agree(EoiInRax(g), g)
  BY DEF EoiInRax, Agree

LEMMA ComputeKeepsTimerInv == TimerInv /\ Compute => TimerInv'
  <1> SUFFICES ASSUME TimerInv, Compute PROVE TimerInv'
    OBVIOUS
  <1>1. running' = running /\ frames' = frames /\ before' = [before EXCEPT ![running] = None]
    BY DEF Compute
  <1>2. regs' = [x \in Registers |-> regs'[x]]
    BY DEF Compute, Values
  <1>3. before'[running] = None
    BY <1>1 DEF TimerInv
  <1>4. ~Resumes'
    BY <1>1, <1>3 DEF Resumes
  <1>5. \A t \in Threads \ {running} : before'[t] = before[t]
    BY <1>1 DEF TimerInv
  <1>6. before' = [t \in Threads |-> before'[t]]
    BY <1>1 DEF TimerInv
  <1> QED
    BY <1>1, <1>2, <1>4, <1>5, <1>6 DEF TimerInv

LEMMA Ring0KeepsTimerInv == TimerInv /\ TimerInRing0 => TimerInv'
  <1> SUFFICES ASSUME TimerInv, TimerInRing0 PROVE TimerInv'
    OBVIOUS
  <1>1. /\ running' = running /\ frames' = frames
        /\ before' = [before EXCEPT ![running] = regs]
        /\ regs' = EoiInRax(CsInRax(0))
    BY DEF TimerInRing0
  <1>2. regs' = [x \in Registers |-> regs'[x]] /\ \A x \in Registers \ {"rax"} : regs'[x] = regs[x]
    BY <1>1 DEF TimerInv, EoiInRax, CsInRax
  <1>3. before'[running] = regs
    BY <1>1 DEF TimerInv
  <1>4. Agree(regs', before'[running'])
    BY <1>1, <1>2, <1>3 DEF Agree
  <1>5. \A t \in Threads \ {running} : before'[t] = before[t]
    BY <1>1 DEF TimerInv
  <1>6. before' = [t \in Threads |-> before'[t]]
    BY <1>1 DEF TimerInv
  <1> QED
    BY <1>1, <1>2, <1>4, <1>5, <1>6 DEF TimerInv

LEMMA Ring3KeepsTimerInv ==
    ASSUME TimerInv, NEW next \in Threads, TimerInRing3(next)
    PROVE  TimerInv'
  <1> DEFINE saved == [frames EXCEPT ![running] = Save(CsInRax(3))]
  <1>1. /\ running' = next /\ frames' = saved
        /\ before' = [before EXCEPT ![running] = regs]
        /\ regs' = EoiInRax(Load(saved[next]))
        /\ saved[next] # None
    BY DEF TimerInRing3
  <1>2. \A x \in Registers \ {"rax"} : CsInRax(3)[x] = regs[x]
    BY DEF TimerInv, CsInRax
  <1>3. saved[running] = Save(CsInRax(3)) /\ before'[running] = regs
    BY <1>1 DEF TimerInv
  <1>4. Agree(Load(saved[running]), before'[running])
    BY <1>2, <1>3, LoadOfSave DEF Agree
  <1>5. \A t \in Threads \ {running} : saved[t] = frames[t] /\ before'[t] = before[t]
    BY <1>1, Zenon DEF TimerInv
  <1>6. \A t \in Threads : saved[t] # None /\ before'[t] # None => Agree(Load(saved[t]), before'[t])
    BY <1>4, <1>5 DEF TimerInv
  <1>7. regs' = [x \in Registers |-> regs'[x]] /\ Agree(regs', Load(saved[next]))
    <2> DEFINE loaded == Load(saved[next])
    <2>1. loaded = [x \in Registers |-> loaded[x]]
      BY DEF Load
    <2> HIDE DEF loaded
    <2>2. /\ EoiInRax(loaded) = [x \in Registers |-> EoiInRax(loaded)[x]]
          /\ Agree(EoiInRax(loaded), loaded)
      BY <2>1, EoiCostsRax
    <2>3. regs' = EoiInRax(loaded)
      BY <1>1 DEF loaded
    <2> QED
      BY <2>2, <2>3 DEF loaded
  <1>8. before'[next] # None => Agree(regs', before'[next])
    BY <1>1, <1>6, <1>7 DEF Agree
  <1>9. frames' = [t \in Threads |-> frames'[t]] /\ before' = [t \in Threads |-> before'[t]]
    BY <1>1, Zenon DEF TimerInv
  <1> QED
    BY <1>1, <1>6, <1>7, <1>8, <1>9, Zenon DEF TimerInv, Resumes

(* Whatever preempt chooses, and however often a thread is interrupted, it *)
(* goes on with every register but rax as it left it.                      *)
THEOREM RegistersSurviveTheTimer == ThSpec => []OtherRegistersPreserved
  <1>1. ThInit => TimerInv
    <2> SUFFICES ASSUME ThInit PROVE TimerInv
      OBVIOUS
    <2>1. running \in Threads /\ before[running] = None
      BY DEF ThInit
    <2>2. \A t \in Threads : before[t] = None
      BY DEF ThInit
    <2> QED
      BY <2>1, <2>2 DEF ThInit, TimerInv, Resumes, Values
  <1>2. TimerInv /\ [ThNext]_th_vars => TimerInv'
    <2> SUFFICES ASSUME TimerInv, [ThNext]_th_vars PROVE TimerInv'
      OBVIOUS
    <2>1. CASE UNCHANGED th_vars
      BY <2>1 DEF th_vars, TimerInv, Resumes, Agree, Load
    <2>2. CASE ThNext
      BY <2>2, ComputeKeepsTimerInv, Ring0KeepsTimerInv, Ring3KeepsTimerInv DEF ThNext
    <2> QED
      BY <2>1, <2>2
  <1>3. TimerInv => OtherRegistersPreserved
    BY DEF TimerInv, OtherRegistersPreserved, Agree
  <1> QED
    BY <1>1, <1>2, <1>3, PTL DEF ThSpec

=============================================================================
