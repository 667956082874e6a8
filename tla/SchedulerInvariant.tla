------------------------ MODULE SchedulerInvariant -------------------------
(***************************************************************************)
(* The inductive invariant of the thread scheduler, and that starting it,  *)
(* entering a thread, a system call and the timer interrupt preserve it.   *)
(***************************************************************************)
EXTENDS Scheduler, TLAPS

(* Steps that name no prover go to the SMT solver, with this many seconds. *)
USE SMTT(30)

-----------------------------------------------------------------------------
(* The inductive invariant. *)

(* The ready array q holds k entries, from its bottom on. *)
Holds(q, k) ==
    /\ q \in [Slots -> Slots \cup {None}]
    /\ k \in 0 .. MAX_THREADS
    /\ \A i \in Slots : q[i] # None <=> i < k

(* A stack on which only the frame create_thread built for s lies. *)
Fresh(stack, s) == stack = <<[kind |-> "initial", thread |-> s]>>

Queued(q, s) == \E i \in Slots : q[i] = s

Once(q, s) == \A i, j \in Slots : q[i] = s /\ q[j] = s => i = j

Executing == cpu.mode \in {"ring3", "ring0", "interpreter"}

SchedTypes ==
    /\ threads \in [Slots -> Threads \cup {None}]
    /\ current \in Slots \cup {None}
    /\ stacks \in [Stacks -> Seq(Frames)]
    /\ \A s \in Stacks : Len(stacks[s]) <= 2
    /\ syscall_rsp \in Slots \cup {None} /\ rsp0 \in Slots \cup {None}
    /\ cr3 \in Roots \cup {None}
    /\ cpu \in [mode : Modes, thread : Slots \cup {None}]
    /\ yielded \in BOOLEAN

(* Where the frames of create_thread and of a yielded system call lie. *)
FramesInPlace ==
    \A s \in Stacks : \A i \in 1 .. Len(stacks[s]) :
        /\ stacks[s][i].kind = "initial" =>
               s \in Slots /\ Fresh(stacks[s], s) /\ threads[s] # None
        /\ stacks[s][i].kind = "switch" /\ s # Boot => syscall_rsp # None

(* Which stack a saved stack pointer can name. *)
PointersInPlace ==
    \A s \in Slots : threads[s] # None =>
        LET p == threads[s].rsp
        IN  /\ p.depth = 1 => p.stack \in {s, Boot}
            /\ p.stack = Boot => p.depth = 1 /\ threads[s].foreign
            /\ p.depth = 2 => ~Fresh(stacks[s], s)
            /\ threads[s].interrupt_rsp # None => ~Fresh(stacks[s], s)

(* A thread that never ran is queued once. *)
QueuedOnce ==
    \A s \in Slots : threads[s] # None /\ Fresh(stacks[s], s) /\ s # current
                     /\ threads[s].rsp.depth = 1 /\ threads[s].rsp.stack = s =>
        Once(ready, s)

(* A thread that exited is neither queued nor running. *)
ExitedIsGone ==
    \A s \in Slots : threads[s] # None /\ threads[s].state = "Exited" =>
        ~Queued(ready, s) /\ (Executing => s # current)

(* The processor and what the scheduler takes it to run. *)
ProcessorInStep ==
    /\ syscall_rsp = None <=> rsp0 = None
    /\ Executing => current \in Slots /\ cpu.thread \in Slots
    /\ cpu.mode = "ring3" => syscall_rsp # None
    /\ cpu.mode = "interpreter" => threads[current].foreign
    /\ cpu.mode = "ring0" => /\ cpu.thread = current
                             /\ ~Fresh(stacks[current], current)
                             /\ ~Queued(ready, current)
    /\ Native /\ Fresh(stacks[current], current) => rsp0 = current /\ syscall_rsp = current

(* create_thread takes the lowest slot and the lowest place. *)
Booting ==
    /\ ~yielded /\ current = None /\ cpu.thread = None /\ cr3 = None
    /\ \A i \in Slots : ready[i] = IF threads[i] = None THEN None ELSE i
    /\ \A s \in Slots : threads[s] # None => threads[s].interrupt_rsp = None

BeforeFirstYield ==
    /\ cpu.mode \in {"boot", "interpreter", "ring3"}
    /\ cpu.thread = current
    /\ ReadyThreadsAreQueued
    /\ cpu.mode = "ring3" =>
           /\ syscall_rsp = current /\ rsp0 = current /\ cr3 = threads[current].root
           /\ \A s \in Slots : threads[s] # None /\ s # current => threads[s].interrupt_rsp = None

SchedInv ==
    /\ SchedTypes
    /\ \E k : Holds(ready, k)
    /\ OnlyInitialisedThreads
    /\ FramesInPlace
    /\ PointersInPlace
    /\ QueuedOnce
    /\ ExitedIsGone
    /\ ProcessorInStep
    /\ cpu.mode = "boot" => Booting
    /\ ~yielded => BeforeFirstYield
-----------------------------------------------------------------------------
(* The ready queue. *)

LEMMA Sizes ==
    /\ MAX_THREADS \in Nat \ {0} /\ Slots \subseteq Nat /\ Boot = MAX_THREADS
    /\ Boot \notin Slots /\ None \notin Slots /\ None \notin Stacks /\ 0 \in Slots
    /\ Slots \subseteq Stacks /\ Boot \in Stacks
  BY SchedAssumption DEF Slots, Boot, Stacks

LEMMA MinIs ==
    ASSUME NEW T \in SUBSET Nat, NEW m \in T, \A y \in T : m <= y
    PROVE  Min(T) = m
  <1>1. \A x \in T : (\A y \in T : x <= y) => x = m
    OBVIOUS
  <1>2. Min(T) \in T /\ \A y \in T : Min(T) <= y
    BY Zenon DEF Min
  <1> QED
    BY <1>1, <1>2, Zenon

LEMMA MaxIs ==
    ASSUME NEW T \in SUBSET Nat, NEW m \in T, \A y \in T : y <= m
    PROVE  Max(T) = m
  <1>1. \A x \in T : (\A y \in T : x >= y) => x = m
    OBVIOUS
  <1>2. Max(T) \in T /\ \A y \in T : Max(T) >= y
    BY Zenon DEF Max
  <1> QED
    BY <1>1, <1>2, Zenon

(* enqueue_thread appends, or leaves a full array alone. *)
LEMMA EnqueueAppends ==
    ASSUME NEW q, NEW k, Holds(q, k), NEW slot \in Slots
    PROVE  IF k < MAX_THREADS
           THEN /\ k \in Slots /\ Enqueue(q, slot) = [q EXCEPT ![k] = slot]
                /\ Holds(Enqueue(q, slot), k + 1)
           ELSE Enqueue(q, slot) = q
  <1> DEFINE free == {i \in Slots : q[i] = None}
  <1>1. CASE k < MAX_THREADS
    <2>1. k \in free /\ free \in SUBSET Nat /\ \A y \in free : k <= y
      BY <1>1, Sizes DEF Holds, Slots
    <2>2. Min(free) = k
      BY <2>1, MinIs
    <2>3. free # {}
      BY <2>1
    <2>4. Enqueue(q, slot) = [q EXCEPT ![k] = slot]
      BY <2>2, <2>3, Zenon DEF Enqueue
    <2>5. Holds([q EXCEPT ![k] = slot], k + 1)
      BY <1>1, <2>1, Sizes DEF Holds, Slots
    <2> QED
      BY <1>1, <2>1, <2>4, <2>5
  <1>2. CASE ~(k < MAX_THREADS)
    <2>1. free = {}
      BY <1>2, Sizes DEF Holds, Slots
    <2> QED
      BY <1>2, <2>1, Zenon DEF Enqueue
  <1> QED
    BY <1>1, <1>2

(* dequeue_thread takes the lowest entry and moves the others down. *)
LEMMA DequeueTakesHead ==
    ASSUME NEW q, NEW k, Holds(q, k)
    PROVE  IF k = 0
           THEN NextSlot(q) = None /\ Dequeue(q) = q
           ELSE /\ NextSlot(q) = q[0] /\ q[0] \in Slots
                /\ Holds(Dequeue(q), k - 1)
                /\ \A i \in Slots : i < k - 1 => i + 1 \in Slots /\ Dequeue(q)[i] = q[i + 1]
  <1>1. CASE k = 0
    <2>1. Full(q) = {}
      BY <1>1, Sizes DEF Holds, Full, Slots
    <2> QED
      BY <1>1, <2>1 DEF NextSlot, Dequeue
  <1>2. CASE k # 0
    <2>1. 0 \in Full(q) /\ Full(q) \in SUBSET Nat /\ \A y \in Full(q) : 0 <= y
      BY <1>2, Sizes DEF Holds, Full, Slots
    <2>2. Min(Full(q)) = 0 /\ Full(q) # {}
      BY <2>1, MinIs
    <2>3. NextSlot(q) = q[0] /\ q[0] \in Slots
      BY <1>2, <2>1, <2>2 DEF NextSlot, Full, Holds
    <2>4. Dequeue(q) = [i \in Slots |-> IF i = MAX_THREADS - 1 THEN None ELSE q[i + 1]]
      <3> DEFINE D(m) == [i \in Slots |-> CASE i < m -> q[i]
                                           [] i = MAX_THREADS - 1 -> None
                                           [] OTHER -> q[i + 1]]
      <3>1. Dequeue(q) = D(Min(Full(q)))
        BY <2>2, Zenon DEF Dequeue
      <3>2. Dequeue(q) = D(0)
        BY <2>2, <3>1
      <3>3. \A i \in Slots : ~(i < 0)
        BY Sizes
      <3> QED
        BY <3>2, <3>3
    <2>5. Holds(Dequeue(q), k - 1)
      BY <1>2, <2>4, Sizes DEF Holds, Slots
    <2>6. \A i \in Slots : i < k - 1 => i + 1 \in Slots /\ Dequeue(q)[i] = q[i + 1]
      BY <1>2, <2>4, Sizes DEF Holds, Slots
    <2> QED
      BY <1>2, <2>3, <2>5, <2>6
  <1> QED
    BY <1>1, <1>2

LEMMA Enqueued ==
    ASSUME NEW q, NEW k, Holds(q, k), NEW slot \in Slots
    PROVE  LET e == Enqueue(q, slot)
           IN  /\ \E m : Holds(e, m)
               /\ \A s \in Slots : Queued(q, s) => Queued(e, s)
               /\ \A s \in Slots : Queued(e, s) => s = slot \/ Queued(q, s)
               /\ \A s \in Slots : s # slot /\ Once(q, s) => Once(e, s)
               /\ ~Queued(q, slot) => Once(e, slot)
               /\ k < MAX_THREADS => Queued(e, slot)
               /\ e[0] # None
               /\ k > 0 => e[0] = q[0]
  <1> DEFINE e == Enqueue(q, slot)
  <1>1. CASE k < MAX_THREADS
    <2>1. k \in Slots /\ e = [q EXCEPT ![k] = slot] /\ Holds(e, k + 1)
      BY <1>1, EnqueueAppends
    <2>2. q \in [Slots -> Slots \cup {None}] /\ q[k] = None
      BY <2>1, Sizes DEF Holds
    <2>3. \A i \in Slots : e[i] = IF i = k THEN slot ELSE q[i]
      BY <2>1, <2>2
    <2>4. e[0] # None /\ (k > 0 => e[0] = q[0])
      BY <2>1, <2>3, Sizes DEF Holds
    <2> HIDE DEF e
    <2>5. \A s \in Slots : Queued(q, s) => Queued(e, s)
      BY <2>2, <2>3, Sizes DEF Queued
    <2>6. \A s \in Slots : Queued(e, s) => s = slot \/ Queued(q, s)
      BY <2>3 DEF Queued
    <2>7. \A s \in Slots : s # slot /\ Once(q, s) => Once(e, s)
      BY <2>3 DEF Once
    <2>8. ~Queued(q, slot) => Once(e, slot)
      BY <2>3 DEF Once, Queued
    <2>9. Queued(e, slot)
      BY <2>1, <2>3 DEF Queued
    <2> QED
      BY <2>1, <2>4, <2>5, <2>6, <2>7, <2>8, <2>9, Zenon DEF e
  <1>2. CASE ~(k < MAX_THREADS)
    <2>1. e = q
      BY <1>2, EnqueueAppends
    <2>2. q[0] # None
      BY <1>2, Sizes DEF Holds
    <2>3. ~Queued(q, slot) => Once(q, slot)
      BY DEF Queued, Once
    <2> QED
      BY <1>2, <2>1, <2>2, <2>3
  <1> QED
    BY <1>1, <1>2

LEMMA Dequeued ==
    ASSUME NEW q, NEW k, Holds(q, k), k > 0
    PROVE  LET d == Dequeue(q)
           IN  /\ NextSlot(q) = q[0] /\ q[0] \in Slots /\ Queued(q, q[0])
               /\ k - 1 < MAX_THREADS /\ Holds(d, k - 1)
               /\ \A s \in Slots : Queued(d, s) => Queued(q, s)
               /\ \A s \in Slots : Queued(q, s) => s = q[0] \/ Queued(d, s)
               /\ \A s \in Slots : Once(q, s) => Once(d, s)
               /\ Once(q, q[0]) => ~Queued(d, q[0])
  <1> DEFINE d == Dequeue(q)
  <1>1. /\ NextSlot(q) = q[0] /\ q[0] \in Slots /\ Holds(d, k - 1)
        /\ \A i \in Slots : i < k - 1 => i + 1 \in Slots /\ d[i] = q[i + 1]
    <2>1. k # 0
      BY DEF Holds
    <2> QED
      BY <2>1, DequeueTakesHead
  <1> HIDE DEF d
  <1>2. k \in Nat /\ k - 1 < MAX_THREADS /\ MAX_THREADS \in Nat /\ Slots \subseteq Nat /\ 0 \in Slots /\ None \notin Slots
    BY Sizes DEF Holds
  <1>3. \A i \in Slots : d[i] # None => i < k - 1
    BY <1>1 DEF Holds
  <1>4. \A i \in Slots : \A s \in Slots : d[i] = s => i + 1 \in Slots /\ q[i + 1] = s
    BY <1>1, <1>2, <1>3
  <1>5. \A i \in Slots : q[i] # None => i < k
    BY DEF Holds
  <1>6. \A i \in Slots : \A s \in Slots : q[i] = s /\ i # 0 => i - 1 \in Slots /\ d[i - 1] = s
    <2> TAKE i \in Slots
    <2> TAKE s \in Slots
    <2> HAVE q[i] = s /\ i # 0
    <2>1. i < k
      BY <1>2, <1>5
    <2>2. i - 1 \in Slots /\ i - 1 < k - 1
      BY <1>2, <2>1 DEF Slots
    <2>3. d[i - 1] = q[(i - 1) + 1]
      BY <1>1, <2>2
    <2> QED
      BY <1>2, <2>2, <2>3
  <1>7. \A s \in Slots : Queued(d, s) => Queued(q, s)
    BY <1>4 DEF Queued
  <1>8. \A s \in Slots : Queued(q, s) => s = q[0] \/ Queued(d, s)
    BY <1>6 DEF Queued
  <1>9. \A s \in Slots : Once(q, s) => Once(d, s)
    <2> SUFFICES ASSUME NEW s \in Slots, Once(q, s), NEW i \in Slots, NEW j \in Slots,
                        d[i] = s, d[j] = s
                 PROVE  i = j
      BY DEF Once
    <2>1. i + 1 \in Slots /\ j + 1 \in Slots /\ q[i + 1] = s /\ q[j + 1] = s
      BY <1>4
    <2>2. i + 1 = j + 1
      BY <2>1 DEF Once
    <2> QED
      BY <1>2, <2>2
  <1>10. Once(q, q[0]) => ~Queued(d, q[0])
    <2> SUFFICES ASSUME Once(q, q[0]), NEW i \in Slots, d[i] = q[0] PROVE FALSE
      BY DEF Queued
    <2>1. i + 1 \in Slots /\ q[i + 1] = q[0]
      BY <1>1, <1>4
    <2>2. i + 1 = 0
      BY <1>2, <2>1 DEF Once
    <2> QED
      BY <1>2, <2>2
  <1>11. Queued(q, q[0])
    BY <1>2 DEF Queued
  <1> QED
    BY <1>1, <1>2, <1>7, <1>8, <1>9, <1>10, <1>11, Zenon DEF d

-----------------------------------------------------------------------------
(* Starting up. *)

LEMMA InitEstablishesSched == SchedInit => SchedInv
  <1> SUFFICES ASSUME SchedInit PROVE SchedInv
    OBVIOUS
  <1> USE DEF SchedInit
  <1>1. SchedTypes
    <2>1. <<>> \in Seq(Frames) /\ Len(<<>>) = 0
      OBVIOUS
    <2>2. cpu \in [mode : Modes, thread : Slots \cup {None}]
      BY DEF Executes, Modes
    <2>3. stacks \in [Stacks -> Seq(Frames)] /\ \A s \in Stacks : Len(stacks[s]) <= 2
      BY <2>1
    <2> QED
      BY <2>2, <2>3, Zenon DEF SchedTypes
  <1>2. Holds(ready, 0)
    BY Sizes DEF Holds
  <1>3. OnlyInitialisedThreads
    BY DEF OnlyInitialisedThreads
  <1>4. FramesInPlace
    BY DEF FramesInPlace
  <1>5. PointersInPlace /\ QueuedOnce /\ ExitedIsGone
    BY DEF PointersInPlace, QueuedOnce, ExitedIsGone
  <1>6. cpu.mode = "boot" /\ cpu.thread = None
    BY DEF Executes
  <1>7. ProcessorInStep
    BY <1>6 DEF ProcessorInStep, Executing, Native
  <1>8. Booting
    BY <1>6 DEF Booting
  <1>9. BeforeFirstYield
    BY <1>6 DEF BeforeFirstYield, ReadyThreadsAreQueued
  <1> QED
    BY <1>1, <1>2, <1>3, <1>4, <1>5, <1>7, <1>8, <1>9 DEF SchedInv

LEMMA LowestSlot ==
    ASSUME SchedInv, cpu.mode = "boot", FreeSlots # {}
    PROVE  \E k : /\ Holds(ready, k) /\ k \in Slots /\ k < MAX_THREADS
                  /\ threads[k] = None /\ Min(FreeSlots) = k
  <1>1. PICK k : Holds(ready, k)
    BY DEF SchedInv
  <1>2. k \in Nat /\ ready \in [Slots -> Slots \cup {None}]
    BY <1>1, Sizes DEF Holds
  <1>3. \A i \in Slots : threads[i] = None <=> ~(i < k)
    BY <1>1, Sizes DEF SchedInv, Booting, Holds
  <1>4. k \in Slots
    <2>1. PICK s \in Slots : threads[s] = None
      BY DEF FreeSlots
    <2> QED
      BY <1>2, <1>3, <2>1, Sizes DEF Slots
  <1>5. k \in FreeSlots /\ k < MAX_THREADS /\ FreeSlots \in SUBSET Nat /\ \A y \in FreeSlots : k <= y
    BY <1>2, <1>3, <1>4, Sizes DEF FreeSlots, Slots
  <1>6. Min(FreeSlots) = k
    BY <1>5, MinIs
  <1> QED
    BY <1>1, <1>4, <1>5, <1>6, Zenon DEF FreeSlots

LEMMA CreateKeepsSched ==
    ASSUME SchedInv, NEW root \in Roots \cup {None}, NEW foreign \in BOOLEAN, CreateThread(root, foreign)
    PROVE  SchedInv'
  <1>1. cpu.mode = "boot" /\ Booting /\ SchedTypes /\ OnlyInitialisedThreads
    BY DEF SchedInv, CreateThread
  <1>2. PICK k : /\ Holds(ready, k) /\ k \in Slots /\ k < MAX_THREADS
                 /\ threads[k] = None /\ Min(FreeSlots) = k
    BY <1>1, LowestSlot DEF CreateThread
  <1>3. ready \in [Slots -> Slots \cup {None}]
    BY <1>2 DEF Holds
  <1> DEFINE frame == [kind |-> "initial", thread |-> k]
             new == NewThread(k, root, foreign)
  <1>7. /\ k \in Slots /\ threads[k] = None
        /\ stacks' = [stacks EXCEPT ![k] = <<frame>>]
        /\ threads' = [threads EXCEPT ![k] = new]
        /\ ready' = Enqueue(ready, k)
        /\ UNCHANGED <<current, syscall_rsp, rsp0, cr3, cpu, yielded>>
    BY <1>2 DEF CreateThread
  <1>8. ready' = [ready EXCEPT ![k] = k] /\ Holds(ready', k + 1)
    BY <1>2, <1>7, EnqueueAppends
  <1>9. new \in Threads /\ new # None /\ new.state = "Ready" /\ new.interrupt_rsp = None
        /\ new.rsp.stack = k /\ new.rsp.depth = 1
    BY <1>7, Sizes, SchedAssumption DEF NewThread, Threads, Pointers
  <1>10. frame \in Frames /\ <<frame>> \in Seq(Frames) /\ Len(<<frame>>) = 1 /\ <<frame>>[1] = frame
    BY <1>7 DEF Frames
  <1>11. Fresh(<<frame>>, k)
    BY DEF Fresh
  <1>12. /\ threads' \in [Slots -> Threads \cup {None}]
         /\ \A s \in Slots : threads'[s] = IF s = k THEN new ELSE threads[s]
    BY <1>1, <1>7, <1>9 DEF SchedTypes
  <1>13. /\ stacks' \in [Stacks -> Seq(Frames)]
         /\ \A s \in Stacks : stacks'[s] = IF s = k THEN <<frame>> ELSE stacks[s]
    BY <1>1, <1>7, <1>10, Sizes DEF SchedTypes
  <1>14. \A i \in Slots : ready'[i] = IF i = k THEN k ELSE ready[i]
    BY <1>3, <1>7, <1>8
  <1> HIDE DEF frame, new
  <1>15. SchedTypes'
    BY <1>1, <1>7, <1>10, <1>12, <1>13 DEF SchedTypes
  <1>16. OnlyInitialisedThreads'
    BY <1>1, <1>3, <1>7, <1>9, <1>12, <1>14, Sizes DEF OnlyInitialisedThreads, Booting
  <1>17. FramesInPlace'
    <2> SUFFICES ASSUME NEW s \in Stacks, NEW i \in 1 .. Len(stacks'[s])
                 PROVE  /\ stacks'[s][i].kind = "initial" =>
                             s \in Slots /\ Fresh(stacks'[s], s) /\ threads'[s] # None
                        /\ stacks'[s][i].kind = "switch" /\ s # Boot => syscall_rsp' # None
      BY DEF FramesInPlace
    <2>1. CASE s = k
      <3>1. i = 1
        <4>1. stacks'[s] = <<frame>>
          BY <1>13, <2>1
        <4>2. i \in 1 .. 1
          BY <1>10, <4>1
        <4> QED
          BY <4>2
      <3>2. stacks'[s][i].kind = "initial"
        BY <1>10, <1>13, <2>1, <3>1 DEF frame
      <3> QED
        BY <1>7, <1>9, <1>11, <1>12, <1>13, <2>1, <3>2
    <2>2. CASE s # k
      <3>1. stacks'[s] = stacks[s] /\ (s \in Slots => threads'[s] = threads[s])
        BY <1>12, <1>13, <2>2
      <3> QED
        BY <1>7, <3>1 DEF FramesInPlace, SchedInv
    <2> QED
      BY <2>1, <2>2
  <1>18. PointersInPlace'
    BY <1>7, <1>9, <1>12, <1>13, Sizes DEF PointersInPlace, SchedInv
  <1>19. QueuedOnce'
    <2> SUFFICES ASSUME NEW s \in Slots PROVE Once(ready', s)
      BY DEF QueuedOnce
    <2> QED
      BY <1>1, <1>14, Sizes DEF Once, Booting
  <1>20. ExitedIsGone'
    <2> SUFFICES ASSUME NEW s \in Slots, threads'[s] # None, threads'[s].state = "Exited"
                 PROVE  FALSE
      BY DEF ExitedIsGone
    <2>1. s # k /\ threads'[s] = threads[s]
      BY <1>9, <1>12
    <2>2. ready[s] = s
      BY <1>1, <2>1 DEF Booting
    <2> QED
      BY <2>1, <2>2 DEF SchedInv, ExitedIsGone, Queued
  <1>21. ProcessorInStep'
    BY <1>1, <1>7 DEF ProcessorInStep, SchedInv, Executing, Native
  <1>22. Booting'
    BY <1>1, <1>7, <1>9, <1>12, <1>14 DEF Booting
  <1>23. BeforeFirstYield'
    <2>1. ReadyThreadsAreQueued'
      BY <1>22 DEF ReadyThreadsAreQueued, Booting
    <2> QED
      BY <1>1, <1>7, <2>1 DEF BeforeFirstYield, Booting
  <1> QED
    BY <1>8, <1>15, <1>16, <1>17, <1>18, <1>19, <1>20, <1>21, <1>22, <1>23 DEF SchedInv

(* U is the thread table T with the state of s set. *)
StateIs(U, T, s, state) ==
    /\ U \in [Slots -> Threads \cup {None}]
    /\ \A t \in Slots : t # s => U[t] = T[t]
    /\ U[s] \in Threads /\ U[s] # None /\ U[s].state = state
    /\ U[s].root = T[s].root /\ U[s].foreign = T[s].foreign
    /\ U[s].rsp = T[s].rsp /\ U[s].interrupt_rsp = T[s].interrupt_rsp

LEMMA StateSet ==
    ASSUME NEW T \in [Slots -> Threads \cup {None}], NEW s \in Slots, T[s] # None,
           NEW state \in {"Ready", "Running", "Exited"}
    PROVE  StateIs([T EXCEPT ![s].state = state], T, s, state)
  <1>1. T[s] \in Threads /\ None \notin Threads
    BY SchedAssumption
  <1>2. [T[s] EXCEPT !.state = state] \in Threads
    BY <1>1 DEF Threads
  <1> QED
    BY <1>1, <1>2 DEF Threads, StateIs

(* enter_user_mode and enter_interpreter: the first thread. *)
LEMMA EnterKeepsSched ==
    ASSUME SchedInv, NEW slot \in Slots, EnterUserMode(slot) \/ EnterInterpreter(slot)
    PROVE  SchedInv'
  <1>1. cpu.mode = "boot" /\ Booting /\ SchedTypes /\ OnlyInitialisedThreads /\ threads[slot] # None
    BY DEF SchedInv, EnterUserMode, EnterInterpreter
  <1>2. /\ threads' = [threads EXCEPT ![slot].state = "Running"]
        /\ current' = slot /\ UNCHANGED <<ready, stacks, yielded>>
    BY DEF EnterUserMode, EnterInterpreter
  <1>3. \/ /\ threads[slot].foreign /\ cpu' = Executes("interpreter", slot)
           /\ UNCHANGED <<syscall_rsp, rsp0, cr3>>
        \/ /\ cpu' = Executes("ring3", slot)
           /\ cr3' = threads[slot].root /\ syscall_rsp' = slot /\ rsp0' = slot
    <2>1. cr3 = None
      BY <1>1 DEF Booting
    <2> QED
      BY <2>1 DEF EnterUserMode, EnterInterpreter, LoadRoot
  <1>4. /\ cpu'.mode \in {"ring3", "interpreter"} /\ cpu'.thread = slot
        /\ cpu' \in [mode : Modes, thread : Slots \cup {None}]
        /\ cpu'.mode = "interpreter" => threads[slot].foreign /\ UNCHANGED <<syscall_rsp, rsp0, cr3>>
        /\ cpu'.mode = "ring3" => cr3' = threads[slot].root /\ syscall_rsp' = slot /\ rsp0' = slot
    BY <1>3 DEF Executes, Modes
  <1>5. /\ threads' \in [Slots -> Threads \cup {None}]
        /\ \A t \in Slots : t # slot => threads'[t] = threads[t]
        /\ threads'[slot] # None /\ threads'[slot].state = "Running"
        /\ threads'[slot].root = threads[slot].root /\ threads'[slot].foreign = threads[slot].foreign
        /\ threads'[slot].rsp = threads[slot].rsp
        /\ threads'[slot].interrupt_rsp = threads[slot].interrupt_rsp
    <2>1. threads \in [Slots -> Threads \cup {None}] /\ "Running" \in {"Ready", "Running", "Exited"}
      BY <1>1 DEF SchedTypes
    <2>2. StateIs(threads', threads, slot, "Running")
      BY <1>1, <1>2, <2>1, StateSet, Zenon
    <2> QED
      BY <2>2 DEF StateIs
  <1>6. threads[slot] \in Threads /\ threads[slot].root \in Roots \cup {None}
    BY <1>1 DEF SchedTypes, Threads
  <1>7. \A t \in Slots : threads'[t] = None <=> threads[t] = None
    BY <1>1, <1>5
  <1>8. SchedTypes'
    BY <1>1, <1>2, <1>4, <1>5, <1>6 DEF SchedTypes
  <1>9. OnlyInitialisedThreads'
    BY <1>1, <1>2, <1>5, <1>7, Sizes DEF OnlyInitialisedThreads, Booting
  <1>10. FramesInPlace'
    <2>1. syscall_rsp' # None \/ syscall_rsp' = syscall_rsp
      BY <1>4, Sizes
    <2> QED
      BY <1>2, <1>7, <2>1 DEF FramesInPlace, SchedInv
  <1>11. PointersInPlace'
    <2>1. \A t \in Slots : /\ threads'[t] # None <=> threads[t] # None
                           /\ threads[t] # None => /\ threads'[t].rsp = threads[t].rsp
                                                   /\ threads'[t].interrupt_rsp = threads[t].interrupt_rsp
                                                   /\ threads'[t].foreign = threads[t].foreign
      BY <1>5, <1>7
    <2> QED
      BY <1>2, <2>1 DEF PointersInPlace, SchedInv
  <1>12. QueuedOnce'
    <2> SUFFICES ASSUME NEW s \in Slots PROVE Once(ready', s)
      BY DEF QueuedOnce
    <2> QED
      BY <1>1, <1>2, Sizes DEF Once, Booting
  <1>13. ExitedIsGone'
    <2> SUFFICES ASSUME NEW s \in Slots, threads'[s] # None, threads'[s].state = "Exited"
                 PROVE  FALSE
      BY DEF ExitedIsGone
    <2>1. s # slot /\ threads'[s] = threads[s]
      BY <1>5
    <2>2. ready[s] = s
      BY <1>1, <2>1 DEF Booting
    <2> QED
      BY <2>1, <2>2 DEF SchedInv, ExitedIsGone, Queued
  <1>14. ProcessorInStep'
    BY <1>2, <1>4, <1>5, Sizes DEF ProcessorInStep, SchedInv, Executing, Native
  <1>15. BeforeFirstYield'
    <2>1. ReadyThreadsAreQueued'
      BY <1>1, <1>2, <1>5 DEF ReadyThreadsAreQueued, Booting
    <2>2. \A s \in Slots : threads'[s] # None /\ s # current' => threads'[s].interrupt_rsp = None
      BY <1>1, <1>2, <1>5 DEF Booting
    <2> QED
      BY <1>2, <1>4, <1>5, <2>1, <2>2 DEF BeforeFirstYield
  <1>16. \E k : Holds(ready', k)
    BY <1>2 DEF SchedInv
  <1>17. cpu'.mode # "boot"
    BY <1>4
  <1> QED
    BY <1>8, <1>9, <1>10, <1>11, <1>12, <1>13, <1>14, <1>15, <1>16, <1>17 DEF SchedInv

-----------------------------------------------------------------------------
(* What a push at the top of a kernel stack leaves. *)

Short(S) == S \in [Stacks -> Seq(Frames)] /\ \A s \in Stacks : Len(S[s]) <= 2

FramesOK(S, T, entry) ==
    \A s \in Stacks : \A i \in 1 .. Len(S[s]) :
        /\ S[s][i].kind = "initial" => s \in Slots /\ Fresh(S[s], s) /\ T[s] # None
        /\ S[s][i].kind = "switch" /\ s # Boot => entry # None

(* Frames v of threads that have run, on stack x. *)
Used(v, x, entry) ==
    /\ v \in Seq(Frames) /\ Len(v) \in 1 .. 2
    /\ \A i \in 1 .. Len(v) : v[i].kind # "initial" /\ (v[i].kind = "switch" /\ x # Boot => entry # None)

StillThere(T, U) == \A s \in Slots : T[s] # None => U[s] # None

(* S is R but for stack x, which holds the frames v. *)
Overwritten(S, R, x, v) ==
    /\ S[x] = v
    /\ \A s \in Stacks : s # x => S[s] = R[s]
    /\ \A s \in Slots : Fresh(S[s], s) => s # x /\ Fresh(R[s], s)

LEMMA PushOverwrites ==
    ASSUME NEW R, Short(R), NEW T, NEW U, StillThere(T, U), NEW entry, FramesOK(R, T, entry),
           NEW x \in Stacks, NEW v, Used(v, x, entry)
    PROVE  LET S == [R EXCEPT ![x] = v]
           IN  Short(S) /\ FramesOK(S, U, entry) /\ Overwritten(S, R, x, v)
  <1>1. PICK S : S = [R EXCEPT ![x] = v]
    BY Zenon
  <1>2. S \in [Stacks -> Seq(Frames)] /\ S[x] = v /\ \A s \in Stacks : s # x => S[s] = R[s]
    BY <1>1 DEF Short, Used
  <1>3. \A s \in Slots : ~Fresh(v, s)
    <2> SUFFICES ASSUME NEW s \in Slots, Fresh(v, s) PROVE FALSE
      OBVIOUS
    <2>1. v[1] = [kind |-> "initial", thread |-> s]
      BY DEF Fresh
    <2>2. v[1].kind = "initial"
      BY <2>1
    <2>3. 1 \in 1 .. Len(v)
      BY DEF Used
    <2> QED
      BY <2>2, <2>3 DEF Used
  <1>4. \A s \in Slots : Fresh(S[s], s) => s # x /\ Fresh(R[s], s)
    BY <1>2, <1>3, Sizes
  <1>5. \A s \in Stacks : Len(S[s]) <= 2
    <2> TAKE s \in Stacks
    <2>1. CASE s = x
      <3>1. S[s] = v
        BY <1>2, <2>1
      <3> QED
        BY <3>1 DEF Used
    <2>2. CASE s # x
      BY <1>2, <2>2 DEF Short
    <2> QED
      BY <2>1, <2>2
  <1>6. FramesOK(S, U, entry)
    <2> SUFFICES ASSUME NEW s \in Stacks, NEW i \in 1 .. Len(S[s])
                 PROVE  /\ S[s][i].kind = "initial" => s \in Slots /\ Fresh(S[s], s) /\ U[s] # None
                        /\ S[s][i].kind = "switch" /\ s # Boot => entry # None
      BY DEF FramesOK
    <2>1. CASE s = x
      <3>1. S[s] = v
        BY <1>2, <2>1
      <3> QED
        BY <2>1, <3>1 DEF Used
    <2>2. CASE s # x
      <3>1. S[s] = R[s]
        BY <1>2, <2>2
      <3> QED
        BY <3>1 DEF FramesOK, StillThere
    <2> QED
      BY <2>1, <2>2
  <1> QED
    BY <1>1, <1>2, <1>4, <1>5, <1>6 DEF Short, Overwritten

LEMMA OneFrame ==
    ASSUME NEW f \in Frames, f.kind # "initial", NEW x, NEW entry,
           f.kind = "switch" /\ x # Boot => entry # None
    PROVE  Used(<<f>>, x, entry)
  <1>1. <<f>> \in Seq(Frames) /\ Len(<<f>>) = 1 /\ <<f>>[1] = f
    OBVIOUS
  <1>2. \A i \in 1 .. Len(<<f>>) : <<f>>[i] = f
    BY <1>1
  <1> QED
    BY <1>1, <1>2 DEF Used

-----------------------------------------------------------------------------
(* System calls that do not switch. *)

LEMMA SyscallPushes ==
    ASSUME SchedInv, Native, syscall_rsp # None
    PROVE  LET frame == [kind |-> "syscall", thread |-> cpu.thread]
           IN  /\ Short(InSyscall) /\ FramesOK(InSyscall, threads, syscall_rsp)
               /\ Overwritten(InSyscall, stacks, syscall_rsp, <<frame>>)
               /\ frame \in Frames
  <1>1. /\ syscall_rsp \in Slots /\ syscall_rsp \in Stacks /\ cpu.thread \in Slots
        /\ Short(stacks) /\ FramesOK(stacks, threads, syscall_rsp)
    <2>1. SchedTypes /\ FramesInPlace /\ ProcessorInStep
      BY Zenon DEF SchedInv
    <2>2. syscall_rsp \in Slots /\ syscall_rsp \in Stacks
      BY <2>1, Sizes DEF SchedTypes
    <2>3. Executing
      BY DEF Native, Executing
    <2>4. cpu.thread \in Slots
      BY <2>1, <2>3, Zenon DEF ProcessorInStep
    <2>5. Short(stacks)
      BY <2>1, Zenon DEF SchedTypes, Short
    <2>6. FramesOK(stacks, threads, syscall_rsp)
      BY <2>1, Zenon DEF FramesInPlace, FramesOK
    <2> QED
      BY <2>2, <2>4, <2>5, <2>6, Zenon
  <1> DEFINE frame == [kind |-> "syscall", thread |-> cpu.thread]
  <1>2. frame \in Frames /\ frame.kind = "syscall"
    BY <1>1 DEF Frames
  <1>3. Used(<<frame>>, syscall_rsp, syscall_rsp)
    BY <1>2, OneFrame
  <1>4. StillThere(threads, threads)
    BY DEF StillThere
  <1> QED
    BY <1>1, <1>2, <1>3, <1>4, PushOverwrites DEF InSyscall

LEMMA SyscallReturns ==
    ASSUME SchedInv, Native, syscall_rsp # None,
           cpu' = Executes("ring3", cpu.thread), stacks' = InSyscall,
           UNCHANGED <<threads, ready, current, syscall_rsp, rsp0, cr3>>,
           yielded' = yielded \/ yielded' = TRUE
    PROVE  SchedInv'
  <1>1. /\ SchedTypes /\ ProcessorInStep /\ cpu.mode # "boot"
        /\ current \in Slots /\ cpu.thread \in Slots
    BY DEF SchedInv, ProcessorInStep, Executing, Native
  <1>2. cpu'.mode = "ring3" /\ cpu'.thread = cpu.thread
        /\ cpu' \in [mode : Modes, thread : Slots \cup {None}]
    BY <1>1 DEF Executes, Modes
  <1>3. /\ Short(stacks') /\ FramesOK(stacks', threads, syscall_rsp)
        /\ \A s \in Slots : Fresh(stacks'[s], s) => s # syscall_rsp /\ Fresh(stacks[s], s)
    BY SyscallPushes DEF Overwritten
  <1>4. SchedTypes'
    BY <1>1, <1>2, <1>3, Zenon DEF SchedTypes, Short
  <1>5. OnlyInitialisedThreads'
    BY DEF SchedInv, OnlyInitialisedThreads
  <1>6. FramesInPlace'
    BY <1>3 DEF FramesInPlace, FramesOK
  <1>7. PointersInPlace' /\ QueuedOnce'
    BY <1>3, Zenon DEF PointersInPlace, QueuedOnce, SchedInv
  <1>8. ExitedIsGone'
    BY <1>1, <1>2 DEF SchedInv, ExitedIsGone, Executing, Native
  <1>9. ProcessorInStep'
    BY <1>1, <1>2, <1>3, Zenon DEF ProcessorInStep, Executing, Native
  <1>10. ~yielded' => BeforeFirstYield'
    BY <1>1, <1>2, Sizes, Zenon DEF SchedInv, BeforeFirstYield, ReadyThreadsAreQueued, Native
  <1> QED
    BY <1>2, <1>4, <1>5, <1>6, <1>7, <1>8, <1>9, <1>10 DEF SchedInv

LEMMA SyscallKeepsSched == ASSUME SchedInv, Syscall PROVE SchedInv'
  <1>1. /\ Native /\ UNCHANGED <<threads, ready, current, syscall_rsp, rsp0, cr3, yielded>>
        /\ SchedTypes /\ ProcessorInStep /\ cpu.mode # "boot"
    BY Zenon DEF Syscall, SchedInv, ProcessorInStep, Native
  <1>2. CASE syscall_rsp = None
    <2>1. stacks' = stacks /\ cpu'.mode = "undefined" /\ cpu'.thread = None
          /\ cpu' \in [mode : Modes, thread : Slots \cup {None}]
      BY <1>2 DEF Syscall, Executes, Modes
    <2>2. yielded
      BY <1>1, <1>2, Sizes, Zenon DEF SchedInv, BeforeFirstYield, Native, SchedTypes, ProcessorInStep
    <2>3. SchedTypes'
      BY <1>1, <2>1 DEF SchedTypes
    <2>4. threads' = threads /\ stacks' = stacks /\ ready' = ready /\ current' = current
          /\ syscall_rsp' = syscall_rsp
      BY <1>1, <2>1
    <2>5. OnlyInitialisedThreads' /\ QueuedOnce' /\ FramesInPlace' /\ PointersInPlace'
      <3>1. OnlyInitialisedThreads /\ QueuedOnce /\ FramesInPlace /\ PointersInPlace
        BY Zenon DEF SchedInv
      <3>2. OnlyInitialisedThreads'
        BY <2>4, <3>1, Zenon DEF OnlyInitialisedThreads
      <3>3. QueuedOnce'
        BY <2>4, <3>1, Zenon DEF QueuedOnce
      <3>4. FramesInPlace'
        BY <2>4, <3>1, Zenon DEF FramesInPlace
      <3>5. PointersInPlace'
        BY <2>4, <3>1, Zenon DEF PointersInPlace
      <3> QED
        BY <3>2, <3>3, <3>4, <3>5
    <2>6. ExitedIsGone' /\ ProcessorInStep'
      BY <1>1, <2>1, Zenon DEF SchedInv, ExitedIsGone, ProcessorInStep, Executing, Native
    <2> QED
      BY <1>1, <2>1, <2>2, <2>3, <2>4, <2>5, <2>6 DEF SchedInv
  <1>3. CASE syscall_rsp # None
    BY <1>1, <1>3, SyscallReturns DEF Syscall
  <1> QED
    BY <1>2, <1>3

-----------------------------------------------------------------------------
(* The timer interrupt. *)

(* preempt marks the running thread Ready and saves its interrupt frame. *)
Preempted(U, T, s, p) ==
    /\ U \in [Slots -> Threads \cup {None}]
    /\ \A t \in Slots : t # s => U[t] = T[t]
    /\ U[s] \in Threads /\ U[s] # None /\ U[s].state = "Ready" /\ U[s].interrupt_rsp = p
    /\ U[s].root = T[s].root /\ U[s].foreign = T[s].foreign /\ U[s].rsp = T[s].rsp

LEMMA PreemptSets ==
    ASSUME NEW T \in [Slots -> Threads \cup {None}], NEW s \in Slots, T[s] # None,
           NEW p \in Pointers
    PROVE  Preempted([T EXCEPT ![s].state = "Ready", ![s].interrupt_rsp = p], T, s, p)
  <1>1. T[s] \in Threads /\ None \notin Threads
    BY SchedAssumption
  <1>2. [T[s] EXCEPT !.state = "Ready", !.interrupt_rsp = p] \in Threads
    BY <1>1, Zenon DEF Threads
  <1> QED
    BY <1>1, <1>2, Zenon DEF Threads, Preempted

LEMMA TimerKeepsSched == ASSUME SchedInv, Timer PROVE SchedInv'
  <1> DEFINE frame == [kind |-> "interrupt", thread |-> cpu.thread]
             p == [stack |-> rsp0, depth |-> 1]
             contents == [stacks EXCEPT ![rsp0] = <<frame>>]
             table == [threads EXCEPT ![current].state = "Ready", ![current].interrupt_rsp = p]
             queue == Enqueue(ready, current)
  <1>1. /\ cpu.mode = "ring3" /\ UNCHANGED <<syscall_rsp, cr3, yielded>>
        /\ SchedTypes /\ ProcessorInStep /\ OnlyInitialisedThreads /\ PointersInPlace
    BY Zenon DEF Timer, SchedInv
  <1>2. /\ current \in Slots /\ cpu.thread \in Slots /\ rsp0 \in Slots
        /\ syscall_rsp # None /\ threads[current] # None
    <2>1. current \in Slots /\ cpu.thread \in Slots /\ syscall_rsp # None /\ rsp0 # None
      BY <1>1 DEF ProcessorInStep, Executing
    <2>2. rsp0 \in Slots
      BY <1>1, <2>1 DEF SchedTypes
    <2>3. threads[current] # None
      BY <1>1, <2>1, Sizes DEF OnlyInitialisedThreads
    <2> QED
      BY <2>1, <2>2, <2>3
  <1>3. threads[current].state # "Exited"
    BY <1>1, <1>2 DEF SchedInv, ExitedIsGone, Executing
  <1>4. /\ stacks' = contents
        /\ IF NextSlot(queue) = None
           THEN threads' = table /\ ready' = queue /\ UNCHANGED <<current, rsp0, cpu>>
           ELSE IF table[NextSlot(queue)].interrupt_rsp = None
           THEN /\ threads' = table
                /\ ready' = PutBack(queue, NextSlot(queue))
                /\ UNCHANGED <<current, rsp0, cpu>>
           ELSE /\ threads' = [table EXCEPT ![NextSlot(queue)].state = "Running"]
                /\ ready' = Dequeue(queue)
                /\ current' = NextSlot(queue)
                /\ rsp0' = NextSlot(queue)
                /\ LET f == FrameAt(contents, table[NextSlot(queue)].interrupt_rsp)
                   IN  cpu' = IF f # None /\ f.kind = "interrupt"
                              THEN Executes("ring3", f.thread)
                              ELSE Executes("undefined", None)
    BY <1>3, Zenon DEF Timer
  <1>5. frame \in Frames /\ frame.kind = "interrupt" /\ frame.thread = cpu.thread /\ p \in Pointers
    BY <1>2, Sizes DEF Frames, Pointers
  <1>6. Preempted(table, threads, current, p)
    BY <1>1, <1>2, <1>5, PreemptSets, Zenon DEF SchedTypes
  <1>7. PICK T : T = table
    BY Zenon
  <1>8. PICK S : S = contents
    BY Zenon
  <1>9. StillThere(threads, T)
    BY <1>2, <1>6, <1>7, Zenon DEF StillThere, Preempted
  <1>10. Short(S) /\ FramesOK(S, T, syscall_rsp) /\ Overwritten(S, stacks, rsp0, <<frame>>)
    <2>1. Short(stacks) /\ FramesOK(stacks, threads, syscall_rsp) /\ rsp0 \in Stacks
      BY <1>1, <1>2, Sizes, Zenon DEF SchedInv, SchedTypes, FramesInPlace, Short, FramesOK
    <2>2. Used(<<frame>>, rsp0, syscall_rsp)
      BY <1>5, OneFrame
    <2> QED
      BY <1>8, <1>9, <2>1, <2>2, PushOverwrites, Zenon
  <1>11. PICK k : Holds(ready, k)
    BY DEF SchedInv
  <1>12. PICK q : q = queue
    BY Zenon
  <1>13. PICK m : Holds(q, m)
    BY <1>2, <1>11, <1>12, Enqueued, Zenon
  <1>14. /\ \A s \in Slots : Queued(ready, s) => Queued(q, s)
         /\ \A s \in Slots : Queued(q, s) => s = current \/ Queued(ready, s)
         /\ \A s \in Slots : s # current /\ Once(ready, s) => Once(q, s)
         /\ q[0] # None
    BY <1>2, <1>11, <1>12, Enqueued, Zenon
  <1>15. m > 0
    BY <1>13, <1>14, Sizes DEF Holds
  <1>16. PICK d : d = Dequeue(q)
    BY Zenon
  <1>17. /\ NextSlot(q) = q[0] /\ q[0] \in Slots /\ Queued(q, q[0])
         /\ m - 1 < MAX_THREADS /\ Holds(d, m - 1)
         /\ \A s \in Slots : Queued(d, s) => Queued(q, s)
         /\ \A s \in Slots : Queued(q, s) => s = q[0] \/ Queued(d, s)
         /\ \A s \in Slots : Once(q, s) => Once(d, s)
         /\ Once(q, q[0]) => ~Queued(d, q[0])
    BY <1>13, <1>15, <1>16, Dequeued
  <1>18. PICK next \in Slots : next = q[0] /\ next = NextSlot(q)
    BY <1>17
  <1>19. \A s \in Slots : Queued(q, s) => threads[s] # None
    BY <1>2, <1>14, Sizes DEF SchedInv, OnlyInitialisedThreads, Queued
  <1>20. threads[next] # None /\ T[next] # None
    BY <1>9, <1>17, <1>18, <1>19, Zenon DEF StillThere
  <1>21. ~Fresh(S[current], current)
    <2>1. Fresh(S[current], current) => current # rsp0 /\ Fresh(stacks[current], current)
      BY <1>2, <1>10, Zenon DEF Overwritten
    <2> QED
      BY <1>1, <2>1 DEF ProcessorInStep, Native
  <1>22. \/ /\ T[next].interrupt_rsp = None /\ threads' = T /\ stacks' = S
            /\ ready' = Enqueue(d, next) /\ UNCHANGED <<current, rsp0, cpu>>
         \/ /\ T[next].interrupt_rsp # None
            /\ threads' = [T EXCEPT ![next].state = "Running"] /\ stacks' = S
            /\ ready' = d /\ current' = next /\ rsp0' = next
            /\ cpu' = IF /\ FrameAt(S, T[next].interrupt_rsp) # None
                         /\ FrameAt(S, T[next].interrupt_rsp).kind = "interrupt"
                      THEN Executes("ring3", FrameAt(S, T[next].interrupt_rsp).thread)
                      ELSE Executes("undefined", None)
    <2>1. next # None
      BY Sizes
    <2> HIDE DEF table, contents, queue
    <2> QED
      BY <1>4, <1>7, <1>8, <1>12, <1>16, <1>18, <2>1 DEF PutBack
  <1> HIDE DEF frame, p, contents, table, queue
  <1>23. /\ T \in [Slots -> Threads \cup {None}]
         /\ \A s \in Slots : s # current => T[s] = threads[s]
         /\ T[current] # None /\ T[current].state = "Ready" /\ T[current].interrupt_rsp = p
         /\ T[current].root = threads[current].root /\ T[current].foreign = threads[current].foreign
         /\ T[current].rsp = threads[current].rsp
    BY <1>6, <1>7 DEF Preempted
  <1>24. p # None
    BY <1>5, SchedAssumption
  <1>25. \A s \in Slots : /\ T[s] = None <=> threads[s] = None
                          /\ T[s].rsp = threads[s].rsp /\ T[s].foreign = threads[s].foreign
                          /\ T[s].root = threads[s].root
    BY <1>2, <1>23
  <1>26. \A s \in Slots : Fresh(S[s], s) => s # current /\ Fresh(stacks[s], s)
    BY <1>10, <1>21 DEF Overwritten
  <1>27. CASE /\ T[next].interrupt_rsp = None /\ threads' = T /\ stacks' = S
              /\ ready' = Enqueue(d, next) /\ UNCHANGED <<current, rsp0, cpu>>
    <2>1. next # current
      BY <1>23, <1>24, <1>27
    <2>2. /\ \E n : Holds(ready', n)
          /\ \A s \in Slots : Queued(d, s) => Queued(ready', s)
          /\ \A s \in Slots : Queued(ready', s) => s = next \/ Queued(d, s)
          /\ \A s \in Slots : s # next /\ Once(d, s) => Once(ready', s)
          /\ ~Queued(d, next) => Once(ready', next)
          /\ Queued(ready', next)
      <3>1. ready' = Enqueue(d, next)
        BY <1>27, Zenon
      <3>2. PICK j : Holds(d, j) /\ j < MAX_THREADS
        BY <1>17, Zenon
      <3>3. PICK e : e = Enqueue(d, next)
        BY Zenon
      <3>4. /\ \E n : Holds(e, n)
            /\ \A s \in Slots : Queued(d, s) => Queued(e, s)
            /\ \A s \in Slots : Queued(e, s) => s = next \/ Queued(d, s)
            /\ \A s \in Slots : s # next /\ Once(d, s) => Once(e, s)
            /\ ~Queued(d, next) => Once(e, next)
            /\ Queued(e, next)
        BY <3>2, <3>3, Enqueued, Zenon
      <3>5. ready' = e
        BY <3>1, <3>3, Zenon
      <3> QED
        BY <3>4, <3>5, Zenon
    <2>3. SchedTypes'
      BY <1>1, <1>10, <1>23, <1>27, Zenon DEF SchedTypes, Short
    <2>4. \A s \in Slots : Queued(ready', s) => Queued(q, s)
      BY <1>17, <1>18, <2>2
    <2>5. OnlyInitialisedThreads'
      BY <1>2, <1>19, <1>25, <1>27, <2>2, <2>4 DEF OnlyInitialisedThreads, Queued, Holds
    <2>6. FramesInPlace'
      BY <1>1, <1>10, <1>27, Zenon DEF FramesInPlace, FramesOK
    <2>7. PointersInPlace'
      <3>1. threads' = T /\ stacks' = S
        BY <1>27, Zenon
      <3>2. \A s \in Slots : s # current => T[s].interrupt_rsp = threads[s].interrupt_rsp
        BY <1>23, Zenon
      <3>3. SUFFICES ASSUME NEW s \in Slots, T[s] # None
                     PROVE  /\ T[s].rsp.depth = 1 => T[s].rsp.stack \in {s, Boot}
                            /\ T[s].rsp.stack = Boot => T[s].rsp.depth = 1 /\ T[s].foreign
                            /\ T[s].rsp.depth = 2 => ~Fresh(S[s], s)
                            /\ T[s].interrupt_rsp # None => ~Fresh(S[s], s)
        BY <3>1, Zenon DEF PointersInPlace
      <3>4. threads[s] # None /\ T[s].rsp = threads[s].rsp /\ T[s].foreign = threads[s].foreign
        BY <1>25, <3>3, Zenon
      <3>5. /\ threads[s].rsp.depth = 1 => threads[s].rsp.stack \in {s, Boot}
            /\ threads[s].rsp.stack = Boot => threads[s].rsp.depth = 1 /\ threads[s].foreign
            /\ threads[s].rsp.depth = 2 => ~Fresh(stacks[s], s)
            /\ threads[s].interrupt_rsp # None => ~Fresh(stacks[s], s)
        BY <1>1, <3>4, Zenon DEF PointersInPlace
      <3>6. Fresh(S[s], s) => s # current /\ Fresh(stacks[s], s)
        BY <1>26, Zenon
      <3> QED
        BY <3>2, <3>4, <3>5, <3>6, Zenon
    <2>8. QueuedOnce'
      <3> SUFFICES ASSUME NEW s \in Slots, threads'[s] # None, Fresh(stacks'[s], s), s # current',
                          threads'[s].rsp.depth = 1, threads'[s].rsp.stack = s
                   PROVE  Once(ready', s)
        BY Zenon DEF QueuedOnce
      <3>1. s # current /\ Once(ready, s)
        BY <1>25, <1>26, <1>27, Zenon DEF SchedInv, QueuedOnce
      <3> QED
        BY <1>14, <1>17, <1>18, <2>2, <3>1, Zenon
    <2>9. ExitedIsGone'
      <3> SUFFICES ASSUME NEW s \in Slots, threads'[s] # None, threads'[s].state = "Exited"
                   PROVE  ~Queued(ready', s) /\ s # current'
        BY DEF ExitedIsGone
      <3>1. s # current /\ threads[s] # None /\ threads[s].state = "Exited"
        BY <1>23, <1>27, Zenon
      <3>2. ~Queued(ready, s)
        BY <3>1 DEF SchedInv, ExitedIsGone
      <3> QED
        BY <1>14, <1>27, <2>4, <3>1, <3>2, Zenon
    <2>10. ProcessorInStep'
      BY <1>1, <1>21, <1>27, Zenon DEF ProcessorInStep, Executing, Native
    <2>11. ~yielded => BeforeFirstYield'
      <3> SUFFICES ASSUME BeforeFirstYield PROVE BeforeFirstYield'
        BY DEF SchedInv
      <3>1. ReadyThreadsAreQueued'
        <4> SUFFICES ASSUME NEW s \in Slots, threads'[s] # None, threads'[s].state = "Ready",
                            s # current'
                     PROVE  Queued(ready', s)
          BY DEF ReadyThreadsAreQueued, Queued
        <4>1. s # current /\ threads[s] # None /\ threads[s].state = "Ready"
          BY <1>23, <1>27, Zenon
        <4>2. Queued(ready, s)
          BY <4>1 DEF BeforeFirstYield, ReadyThreadsAreQueued, Queued
        <4> QED
          BY <1>14, <1>17, <1>18, <2>2, <4>2, Zenon
      <3> QED
        BY <1>1, <1>2, <1>23, <1>25, <1>27, <3>1 DEF BeforeFirstYield
    <2> QED
      BY <1>1, <1>27, <2>2, <2>3, <2>5, <2>6, <2>7, <2>8, <2>9, <2>10, <2>11 DEF SchedInv
  <1>28. CASE /\ T[next].interrupt_rsp # None
              /\ threads' = [T EXCEPT ![next].state = "Running"] /\ stacks' = S
              /\ ready' = d /\ current' = next /\ rsp0' = next
              /\ cpu' = IF /\ FrameAt(S, T[next].interrupt_rsp) # None
                           /\ FrameAt(S, T[next].interrupt_rsp).kind = "interrupt"
                        THEN Executes("ring3", FrameAt(S, T[next].interrupt_rsp).thread)
                        ELSE Executes("undefined", None)
    <2>1. StateIs(threads', T, next, "Running")
      <3>1. "Running" \in {"Ready", "Running", "Exited"}
        OBVIOUS
      <3> QED
        BY <1>20, <1>23, <1>28, <3>1, StateSet, Zenon
    <2>2. /\ threads' \in [Slots -> Threads \cup {None}]
          /\ \A s \in Slots : s # next => threads'[s] = T[s]
          /\ threads'[next] # None /\ threads'[next].state = "Running"
          /\ \A s \in Slots : /\ threads'[s].rsp = T[s].rsp /\ threads'[s].foreign = T[s].foreign
                              /\ threads'[s].root = T[s].root
                              /\ threads'[s].interrupt_rsp = T[s].interrupt_rsp
      BY <2>1 DEF StateIs
    <2>3. PICK g : g = FrameAt(S, T[next].interrupt_rsp)
      BY Zenon
    <2>4. g # None => g \in Frames
      <3>1. PICK r \in Pointers : r = T[next].interrupt_rsp
        <4>1. T[next] \in Threads
          BY <1>20, <1>23
        <4> QED
          BY <1>28, <4>1 DEF Threads
      <3>2. r.stack \in Stacks /\ r.depth \in 1 .. 2
        BY DEF Pointers
      <3>3. S[r.stack] \in Seq(Frames)
        BY <1>10, <3>2 DEF Short
      <3> QED
        BY <2>3, <3>1, <3>2, <3>3 DEF FrameAt
    <2>5. /\ cpu'.mode \in {"ring3", "undefined"} /\ cpu' \in [mode : Modes, thread : Slots \cup {None}]
          /\ cpu'.mode = "ring3" => cpu'.thread \in Slots
      <3>1. CASE g # None /\ g.kind = "interrupt"
        <4>1. cpu' = Executes("ring3", g.thread) /\ g.thread \in Slots
          BY <1>28, <2>3, <2>4, <3>1 DEF Frames
        <4> QED
          BY <4>1 DEF Executes, Modes
      <3>2. CASE ~(g # None /\ g.kind = "interrupt")
        <4>1. cpu' = Executes("undefined", None)
          BY <1>28, <2>3, <3>2
        <4> QED
          BY <4>1 DEF Executes, Modes
      <3> QED
        BY <3>1, <3>2
    <2>6. SchedTypes'
      BY <1>1, <1>10, <1>28, <2>2, <2>5, Zenon DEF SchedTypes, Short
    <2>7. OnlyInitialisedThreads'
      <3>1. \A s \in Slots : Queued(ready', s) => threads'[s] # None
        BY <1>17, <1>19, <1>25, <1>28, <2>2
      <3>2. ready' \in [Slots -> Slots \cup {None}]
        BY <1>17, <1>28 DEF Holds
      <3> QED
        BY <1>28, <2>2, <3>1, <3>2 DEF OnlyInitialisedThreads, Queued
    <2>8. FramesInPlace'
      BY <1>1, <1>10, <1>28, <2>2 DEF FramesInPlace, FramesOK
    <2>9. PointersInPlace'
      BY <1>1, <1>20, <1>23, <1>25, <1>26, <1>28, <2>2 DEF PointersInPlace
    <2>10. QueuedOnce'
      <3> SUFFICES ASSUME NEW s \in Slots, threads'[s] # None, Fresh(stacks'[s], s), s # current',
                          threads'[s].rsp.depth = 1, threads'[s].rsp.stack = s
                   PROVE  Once(ready', s)
        BY DEF QueuedOnce
      <3>1. s # current /\ Once(ready, s)
        BY <1>25, <1>26, <1>28, <2>2 DEF SchedInv, QueuedOnce
      <3> QED
        BY <1>14, <1>17, <1>28, <3>1
    <2>11. ExitedIsGone'
      <3> SUFFICES ASSUME NEW s \in Slots, threads'[s] # None, threads'[s].state = "Exited"
                   PROVE  ~Queued(ready', s) /\ s # current'
        BY DEF ExitedIsGone
      <3>1. s # next /\ s # current /\ threads[s] # None /\ threads[s].state = "Exited"
        BY <1>23, <2>2, Zenon
      <3>2. ~Queued(ready, s)
        BY <3>1, Zenon DEF SchedInv, ExitedIsGone
      <3> QED
        BY <1>14, <1>17, <1>28, <3>1, <3>2
    <2>12. ProcessorInStep'
      <3>1. ~Fresh(S[next], next)
        BY <1>1, <1>20, <1>23, <1>26, <1>28 DEF PointersInPlace
      <3> QED
        BY <1>1, <1>2, <1>28, <2>5, <3>1, Sizes, Zenon DEF ProcessorInStep, Executing, Native
    <2>13. ~yielded => BeforeFirstYield'
      <3> SUFFICES ASSUME BeforeFirstYield PROVE BeforeFirstYield'
        BY DEF SchedInv
      <3>1. cpu.thread = current /\ rsp0 = current /\ syscall_rsp = current /\ cr3 = threads[current].root
            /\ \A s \in Slots : threads[s] # None /\ s # current => threads[s].interrupt_rsp = None
        BY <1>1 DEF BeforeFirstYield
      <3>2. next = current
        BY <1>20, <1>23, <1>28, <3>1
      <3>3. g = frame
        <4>1. S[current] = <<frame>>
          BY <1>10, <3>1, Zenon DEF Overwritten
        <4>2. T[next].interrupt_rsp = p /\ p.stack = current /\ p.depth = 1
          BY <1>23, <3>1, <3>2, Zenon DEF p
        <4>3. Len(<<frame>>) = 1 /\ <<frame>>[1] = frame
          OBVIOUS
        <4>4. g = IF 1 <= Len(S[current]) THEN S[current][1] ELSE None
          BY <2>3, <4>2 DEF FrameAt
        <4>5. Len(S[current]) = 1 /\ S[current][1] = frame
          BY <4>1, <4>3, Zenon
        <4> QED
          BY <4>4, <4>5
      <3>4. cpu' = Executes("ring3", current)
        <4>1. frame # None
          BY <1>5, SchedAssumption
        <4> QED
          BY <1>5, <1>28, <2>3, <3>1, <3>3, <4>1
      <3>5. ReadyThreadsAreQueued'
        <4> SUFFICES ASSUME NEW s \in Slots, threads'[s] # None, threads'[s].state = "Ready",
                            s # current'
                     PROVE  Queued(ready', s)
          BY DEF ReadyThreadsAreQueued, Queued
        <4>1. s # current /\ threads[s] # None /\ threads[s].state = "Ready"
          BY <1>23, <1>28, <2>2, <3>2
        <4>2. Queued(ready, s)
          BY <4>1 DEF BeforeFirstYield, ReadyThreadsAreQueued, Queued
        <4> QED
          BY <1>14, <1>17, <1>18, <1>28, <3>2, <4>1, <4>2
      <3>6. cpu'.mode = "ring3" /\ cpu'.thread = current
        BY <3>4 DEF Executes
      <3> QED
        BY <1>1, <1>23, <1>25, <1>28, <2>2, <3>1, <3>2, <3>5, <3>6 DEF BeforeFirstYield
    <2> QED
      BY <1>1, <1>17, <1>28, <2>5, <2>6, <2>7, <2>8, <2>9, <2>10, <2>11, <2>12, <2>13, Zenon DEF SchedInv
  <1> QED
    BY <1>22, <1>27, <1>28

=============================================================================
