-------------------------- MODULE SchedulerProofs --------------------------
(***************************************************************************)
(* Proofs about the thread scheduler: that schedule() preserves the        *)
(* invariant of SchedulerInvariant, and what follows from it.              *)
(***************************************************************************)
EXTENDS SchedulerInvariant

(* Steps that name no prover go to the SMT solver, with this many seconds. *)
USE SMTT(30)

-----------------------------------------------------------------------------
(* schedule(). *)

(* The table U that schedule leaves when it takes next and saves p. *)
SwitchedIs(U, T, c, next, p) ==
    /\ U \in [Slots -> Threads \cup {None}]
    /\ \A s \in Slots : s # c /\ s # next => U[s] = T[s]
    /\ \A s \in Slots : /\ U[s] # None <=> T[s] # None
                        /\ U[s].foreign = T[s].foreign /\ U[s].interrupt_rsp = T[s].interrupt_rsp
                        /\ s # c => U[s].rsp = T[s].rsp
    /\ U[c].rsp = p
    /\ U[c].state = IF T[c].state = "Exited" /\ next # c THEN "Exited" ELSE "Ready"
    /\ next # c => U[next].state = "Running"

LEMMA SwitchSets ==
    ASSUME NEW T \in [Slots -> Threads \cup {None}], NEW next \in Slots, T[next] # None,
           NEW p \in Pointers, current \in Slots, T[current] # None
    PROVE  SwitchedIs(Switched(T, next, p), T, current, next, p)
  <1>1. PICK c \in Slots : c = current
    BY Zenon
  <1>2. PICK R : R = [T EXCEPT ![next].state = "Running"]
    BY Zenon
  <1>3. StateIs(R, T, next, "Running")
    <2>1. "Running" \in {"Ready", "Running", "Exited"}
      OBVIOUS
    <2> QED
      BY <1>2, <2>1, StateSet, Zenon
  <1>4. R \in [Slots -> Threads \cup {None}] /\ R[c] \in Threads /\ None \notin Threads
    <2>1. None \notin Threads /\ T[c] # None
      BY <1>1, SchedAssumption
    <2> QED
      BY <1>3, <2>1 DEF StateIs
  <1>5. PICK U : U = [R EXCEPT ![c].rsp = p,
                               ![c].state = IF R[c].state = "Exited" THEN @ ELSE "Ready"]
    BY Zenon
  <1>6. PICK r : r = [R[c] EXCEPT !.rsp = p,
                                  !.state = IF R[c].state = "Exited" THEN @ ELSE "Ready"]
    OBVIOUS
  <1>7. /\ r \in Threads /\ r # None /\ r.rsp = p /\ r.foreign = R[c].foreign
        /\ r.interrupt_rsp = R[c].interrupt_rsp
        /\ r.state = IF R[c].state = "Exited" THEN "Exited" ELSE "Ready"
    BY <1>4, <1>6, Zenon DEF Threads
  <1>8. U = [R EXCEPT ![c] = r]
    BY <1>4, <1>5, <1>6, Zenon
  <1>9. U \in [Slots -> Threads \cup {None}] /\ U[c] = r /\ \A s \in Slots : s # c => U[s] = R[s]
    BY <1>4, <1>7, <1>8
  <1>10. Switched(T, next, p) = U
    BY <1>1, <1>2, <1>5 DEF Switched
  <1>11. SwitchedIs(U, T, c, next, p)
    <2>1. R[c].state = "Exited" <=> T[c].state = "Exited" /\ next # c
      BY <1>3 DEF StateIs
    <2>2. U[c].state = IF T[c].state = "Exited" /\ next # c THEN "Exited" ELSE "Ready"
      BY <1>7, <1>9, <2>1
    <2>3. \A s \in Slots : /\ R[s] # None <=> T[s] # None
                           /\ R[s].foreign = T[s].foreign /\ R[s].interrupt_rsp = T[s].interrupt_rsp
                           /\ R[s].rsp = T[s].rsp
      BY <1>3 DEF StateIs
    <2>4. R[c] # None
      BY <1>4
    <2>5. \A s \in Slots : /\ U[s] # None <=> T[s] # None
                           /\ U[s].foreign = T[s].foreign /\ U[s].interrupt_rsp = T[s].interrupt_rsp
                           /\ s # c => U[s].rsp = T[s].rsp
      BY <1>7, <1>9, <2>3, <2>4
    <2>6. next # c => U[next].state = "Running"
      BY <1>3, <1>9 DEF StateIs
    <2>7. \A s \in Slots : s # c /\ s # next => U[s] = T[s]
      BY <1>3, <1>9 DEF StateIs
    <2> QED
      BY <1>7, <1>9, <2>2, <2>5, <2>6, <2>7 DEF SwitchedIs
  <1> QED
    BY <1>1, <1>10, <1>11

(* What the callers of schedule have prepared: the table T, the stacks P   *)
(* with the frame of the switch pushed, and p, where it lies.              *)
Leaving(T, P, p) ==
    /\ T \in [Slots -> Threads \cup {None}]
    /\ \A s \in Slots : s # current => T[s] = threads[s]
    /\ T[current] # None /\ T[current].foreign = threads[current].foreign
    /\ T[current].rsp = threads[current].rsp
    /\ T[current].interrupt_rsp = threads[current].interrupt_rsp
    /\ T[current].state = "Exited" => ~Queued(ready, current)
    /\ Short(P) /\ FramesOK(P, threads, syscall_rsp)
    /\ \A s \in Slots : Fresh(P[s], s) => Fresh(stacks[s], s)
    /\ Fresh(P[current], current) => threads[current].foreign /\ p.stack = Boot
    /\ p \in Pointers
    /\ p.stack = Boot => p.depth = 1 /\ threads[current].foreign
    /\ p.depth = 1 => p.stack \in {current, Boot}

(* What schedule then does when it finds the thread next. *)
Switches(T, P, p, next) ==
    /\ next = NextSlot(ready) /\ next # None
    /\ threads' = Switched(T, next, p) /\ ready' = Requeued(T, next)
    /\ cpu' = Resumed(P, T[next].rsp)
    /\ stacks' = IF cpu'.mode = "ring0" THEN [P EXCEPT ![T[next].rsp.stack] = <<>>] ELSE P

LEMMA SwitchKeepsSched ==
    ASSUME SchedInv, Executing, NEW T, NEW P, NEW p, Leaving(T, P, p),
           NEW next, Switches(T, P, p, next), current' = next,
           UNCHANGED <<syscall_rsp, rsp0, cr3>>, yielded'
    PROVE  SchedInv'
  <1>1. /\ SchedTypes /\ ProcessorInStep /\ OnlyInitialisedThreads /\ PointersInPlace
        /\ QueuedOnce /\ ExitedIsGone
        /\ current \in Slots /\ cpu.thread \in Slots
    BY DEF SchedInv, ProcessorInStep
  <1>2. threads[current] # None
    BY <1>1, Sizes DEF OnlyInitialisedThreads
  <1>3. PICK k : Holds(ready, k)
    BY DEF SchedInv
  <1>4. k > 0
    <2>1. k # 0
      BY <1>3, DequeueTakesHead, Zenon DEF Switches
    <2> QED
      BY <1>3, <2>1 DEF Holds
  <1>5. PICK d : d = Dequeue(ready)
    BY Zenon
  <1>6. /\ next = ready[0] /\ next \in Slots /\ Queued(ready, next)
        /\ k - 1 < MAX_THREADS /\ Holds(d, k - 1)
        /\ \A s \in Slots : Queued(d, s) => Queued(ready, s)
        /\ \A s \in Slots : Once(ready, s) => Once(d, s)
        /\ Once(ready, next) => ~Queued(d, next)
    BY <1>3, <1>4, <1>5, Dequeued, Zenon DEF Switches
  <1>7. PICK e : e = Enqueue(d, current)
    BY Zenon
  <1>8. /\ \E n : Holds(e, n)
        /\ \A s \in Slots : Queued(e, s) => s = current \/ Queued(d, s)
        /\ \A s \in Slots : s # current /\ Once(d, s) => Once(e, s)
    BY <1>1, <1>6, <1>7, Enqueued
  <1>9. ready' = IF T[current].state = "Exited" /\ next # current THEN d ELSE e
    BY <1>5, <1>7 DEF Switches, Requeued
  <1>10. /\ \E n : Holds(ready', n)
         /\ \A s \in Slots : Queued(ready', s) => s = current \/ Queued(d, s)
         /\ \A s \in Slots : s # current /\ Once(ready, s) => Once(ready', s)
    BY <1>6, <1>8, <1>9
  <1>11. threads[next] # None /\ threads[next] \in Threads
    <2>1. threads[next] # None
      BY <1>1, <1>6, Sizes DEF OnlyInitialisedThreads
    <2> QED
      BY <1>1, <1>6, <2>1 DEF SchedTypes
  <1>12. T[next] # None /\ T[next].rsp = threads[next].rsp
    BY <1>6, <1>11 DEF Leaving
  <1>13. SwitchedIs(threads', T, current, next, p)
    BY <1>1, <1>6, <1>12, SwitchSets, Zenon DEF Switches, Leaving
  <1>14. /\ threads' \in [Slots -> Threads \cup {None}]
         /\ \A s \in Slots : s # current /\ s # next => threads'[s] = threads[s]
         /\ \A s \in Slots : /\ threads'[s] # None <=> threads[s] # None
                             /\ threads'[s].foreign = threads[s].foreign
                             /\ threads'[s].interrupt_rsp = threads[s].interrupt_rsp
                             /\ s # current => threads'[s].rsp = threads[s].rsp
         /\ threads'[current].rsp = p
         /\ threads'[current].state = IF T[current].state = "Exited" /\ next # current
                                      THEN "Exited" ELSE "Ready"
         /\ next # current => threads'[next].state = "Running"
    <2>1. \A s \in Slots : /\ T[s] # None <=> threads[s] # None
                           /\ T[s].foreign = threads[s].foreign
                           /\ T[s].interrupt_rsp = threads[s].interrupt_rsp
                           /\ T[s].rsp = threads[s].rsp
      BY <1>2 DEF Leaving
    <2> QED
      BY <1>13, <2>1, SMTT(30) DEF SwitchedIs, Leaving
  <1>15. PICK t \in Pointers : t = T[next].rsp
    BY <1>11, <1>12 DEF Threads
  <1>16. PICK f : f = FrameAt(P, t)
    BY Zenon
  <1>17. /\ t.stack \in Stacks /\ t.depth \in 1 .. 2
         /\ t.depth = 1 => t.stack \in {next, Boot}
         /\ t.stack = Boot => threads[next].foreign
         /\ t.depth = 2 => ~Fresh(stacks[next], next)
    BY <1>1, <1>6, <1>11, <1>12, <1>15 DEF PointersInPlace, Pointers
  <1>18. f # None => f \in Frames /\ t.depth \in 1 .. Len(P[t.stack]) /\ f = P[t.stack][t.depth]
    <2>1. P[t.stack] \in Seq(Frames)
      BY <1>17 DEF Leaving, Short
    <2>2. Len(P[t.stack]) \in Nat
      BY <2>1, SMTT(30)
    <2>3. f # None => t.depth \in 1 .. Len(P[t.stack]) /\ f = P[t.stack][t.depth]
      BY <1>16, <1>17, <2>2, SMTT(30) DEF FrameAt
    <2> QED
      BY <2>1, <2>3
  \* a frame of create_thread is found by its own thread only, and untouched
  <1>19. ASSUME f # None, f.kind = "initial"
         PROVE  t.stack = next /\ t.depth = 1 /\ f.thread = next /\ Fresh(P[next], next)
    <2>1. t.stack \in Slots /\ Fresh(P[t.stack], t.stack)
      BY <1>17, <1>18, <1>19, SMTT(30) DEF Leaving, FramesOK
    <2>2. P[t.stack] = <<[kind |-> "initial", thread |-> t.stack]>>
      BY <2>1 DEF Fresh
    <2>3. Len(P[t.stack]) = 1 /\ P[t.stack][1] = [kind |-> "initial", thread |-> t.stack]
      BY <2>2
    <2>4. t.depth = 1
      BY <1>17, <1>18, <1>19, <2>3
    <2>5. f = [kind |-> "initial", thread |-> t.stack]
      BY <1>18, <1>19, <2>3, <2>4
    <2>6. t.stack = next
      BY <1>17, <2>1, <2>4, Sizes
    <2>7. f.thread = next
      BY <2>5, <2>6
    <2> QED
      BY <2>1, <2>4, <2>6, <2>7
  <1>20. /\ cpu' \in [mode : Modes, thread : Slots \cup {None}]
         /\ cpu'.mode \in {"ring0", "ring3", "interpreter", "halted", "undefined"}
         /\ cpu'.mode = "ring0" => /\ f # None /\ f.kind = "initial" /\ ~threads[f.thread].foreign
                                   /\ cpu'.thread = f.thread
         /\ cpu'.mode = "ring3" => f # None /\ f.kind = "switch" /\ t.stack # Boot
                                   /\ cpu'.thread = f.thread
         /\ cpu'.mode = "interpreter" => f # None /\ t.stack = Boot /\ cpu'.thread = f.thread
    <2>1. cpu' = IF f = None THEN Executes("undefined", None)
                 ELSE CASE f.kind = "initial" /\ ~threads[f.thread].foreign -> Executes("ring0", f.thread)
                        [] f.kind = "switch" ->
                               Executes(IF t.stack = Boot THEN "interpreter" ELSE "ring3", f.thread)
                        [] f.kind = "exiting" -> Executes("halted", None)
                        [] OTHER -> Executes("undefined", None)
      BY <1>15, <1>16, Zenon DEF Switches, Resumed
    <2>2. f # None => f.thread \in Slots
      BY <1>18 DEF Frames
    <2>3. CASE f = None
      <3>1. cpu' = Executes("undefined", None)
        BY <2>1, <2>3
      <3> QED
        BY <3>1 DEF Executes, Modes
    <2>4. CASE f # None /\ f.kind = "initial" /\ ~threads[f.thread].foreign
      <3>1. cpu' = Executes("ring0", f.thread)
        BY <2>1, <2>4
      <3> QED
        BY <2>2, <2>4, <3>1 DEF Executes, Modes
    <2>5. CASE f # None /\ f.kind = "switch"
      <3>1. cpu' = Executes(IF t.stack = Boot THEN "interpreter" ELSE "ring3", f.thread)
        BY <2>1, <2>5
      <3> QED
        BY <2>2, <2>5, <3>1 DEF Executes, Modes
    <2>6. CASE f # None /\ f.kind # "switch" /\ ~(f.kind = "initial" /\ ~threads[f.thread].foreign)
      <3>1. cpu' = Executes("halted", None) \/ cpu' = Executes("undefined", None)
        BY <2>1, <2>6
      <3> QED
        BY <3>1 DEF Executes, Modes
    <2> QED
      BY <2>3, <2>4, <2>5, <2>6
  <1>21. cpu'.mode = "ring0" => /\ t.stack = next /\ t.depth = 1 /\ Fresh(P[next], next)
                                /\ cpu'.thread = next /\ next # current /\ ~Queued(ready', next)
    <2> SUFFICES ASSUME cpu'.mode = "ring0"
                 PROVE  /\ t.stack = next /\ t.depth = 1 /\ Fresh(P[next], next)
                        /\ cpu'.thread = next /\ next # current /\ ~Queued(ready', next)
      OBVIOUS
    <2>1. /\ t.stack = next /\ t.depth = 1 /\ Fresh(P[next], next) /\ cpu'.thread = next
          /\ ~threads[next].foreign
      BY <1>19, <1>20
    <2>2. next # current
      BY <2>1 DEF Leaving
    <2>3. Fresh(stacks[next], next)
      BY <1>6, <2>1, Zenon DEF Leaving
    <2>4. Once(ready, next)
      BY <1>1, <1>6, <1>11, <1>12, <1>15, <2>1, <2>2, <2>3, Zenon DEF QueuedOnce
    <2> QED
      BY <1>6, <1>10, <2>1, <2>2, <2>4
  <1>22. /\ Short(stacks') /\ FramesOK(stacks', threads', syscall_rsp)
         /\ \A s \in Slots : Fresh(stacks'[s], s) => Fresh(P[s], s)
         /\ cpu'.mode = "ring0" => ~Fresh(stacks'[next], next)
    <2>1. \A s \in Slots : threads[s] # None => threads'[s] # None
      BY <1>14
    <2>2. CASE cpu'.mode # "ring0"
      <3>1. stacks' = P
        BY <2>2 DEF Switches
      <3> QED
        BY <2>1, <2>2, <3>1, Zenon DEF Leaving, FramesOK
    <2>3. CASE cpu'.mode = "ring0"
      <3>1. stacks' = [P EXCEPT ![next] = <<>>] /\ next \in Stacks
        BY <1>6, <1>15, <1>21, <2>3, Sizes, Zenon DEF Switches
      <3>2. <<>> \in Seq(Frames) /\ Len(<<>>) = 0
        OBVIOUS
      <3>3. /\ stacks' \in [Stacks -> Seq(Frames)] /\ stacks'[next] = <<>>
            /\ \A s \in Stacks : s # next => stacks'[s] = P[s]
        BY <3>1, <3>2 DEF Leaving, Short
      <3>4. \A s \in Slots : ~Fresh(<<>>, s)
        BY DEF Fresh
      <3>5. \A s \in Slots : Fresh(stacks'[s], s) => s # next /\ Fresh(P[s], s)
        BY <3>3, <3>4, Sizes
      <3>6. \A s \in Stacks : Len(stacks'[s]) <= 2
        <4> TAKE s \in Stacks
        <4>1. CASE s = next
          <5>1. stacks'[s] = <<>>
            BY <3>3, <4>1
          <5> QED
            BY <3>2, <5>1
        <4>2. CASE s # next
          BY <3>3, <4>2 DEF Leaving, Short
        <4> QED
          BY <4>1, <4>2
      <3>7. \A s \in Stacks : \A i \in 1 .. Len(stacks'[s]) : s # next /\ stacks'[s] = P[s]
        <4> TAKE s \in Stacks
        <4>1. CASE s = next
          <5>1. stacks'[s] = <<>>
            BY <3>3, <4>1
          <5>2. Len(stacks'[s]) = 0
            BY <3>2, <5>1
          <5> QED
            BY <5>2, SMTT(30)
        <4>2. CASE s # next
          BY <3>3, <4>2
        <4> QED
          BY <4>1, <4>2
      <3>8. FramesOK(stacks', threads', syscall_rsp)
        BY <2>1, <3>7, SMTT(30) DEF Leaving, FramesOK
      <3> QED
        BY <1>6, <3>3, <3>5, <3>6, <3>8 DEF Short
    <2> QED
      BY <2>2, <2>3, Zenon
  <1>23. \A s \in Slots : Fresh(stacks'[s], s) => Fresh(stacks[s], s)
    BY <1>22, Zenon DEF Leaving
  <1>24. SchedTypes'
    BY <1>1, <1>6, <1>14, <1>20, <1>22, Zenon DEF SchedTypes, Short
  <1>25. OnlyInitialisedThreads'
    <2>1. \A s \in Slots : Queued(ready, s) => threads[s] # None
      BY <1>1, Sizes, Zenon DEF OnlyInitialisedThreads, Queued
    <2>2. \A s \in Slots : Queued(ready', s) => threads'[s] # None
      BY <1>2, <1>6, <1>10, <1>14, <2>1, Zenon
    <2>3. ready' \in [Slots -> Slots \cup {None}]
      BY <1>10 DEF Holds
    <2>4. threads'[next] # None
      BY <1>6, <1>11, <1>14, Zenon
    <2> QED
      BY <2>2, <2>3, <2>4, Zenon DEF OnlyInitialisedThreads, Queued
  <1>26. FramesInPlace'
    BY <1>22, Zenon DEF FramesInPlace, FramesOK
  <1>27. PointersInPlace'
    <2> SUFFICES ASSUME NEW s \in Slots, threads'[s] # None
                 PROVE  /\ threads'[s].rsp.depth = 1 => threads'[s].rsp.stack \in {s, Boot}
                        /\ threads'[s].rsp.stack = Boot => threads'[s].rsp.depth = 1 /\ threads'[s].foreign
                        /\ threads'[s].rsp.depth = 2 => ~Fresh(stacks'[s], s)
                        /\ threads'[s].interrupt_rsp # None => ~Fresh(stacks'[s], s)
      BY DEF PointersInPlace
    <2>1. CASE s = current
      <3>1. /\ threads'[s].rsp = p /\ threads'[s].foreign = threads[s].foreign
            /\ threads'[s].interrupt_rsp = threads[s].interrupt_rsp /\ threads[s] # None
        BY <1>14, <2>1
      <3>2. /\ p.stack = Boot => p.depth = 1 /\ threads[s].foreign
            /\ p.depth = 1 => p.stack \in {s, Boot}
            /\ Fresh(P[s], s) => p.stack = Boot
        BY <2>1, Zenon DEF Leaving
      <3>3. threads[s].interrupt_rsp # None => ~Fresh(stacks[s], s)
        BY <1>1, <3>1, Zenon DEF PointersInPlace
      <3> QED
        BY <1>22, <1>23, <3>1, <3>2, <3>3, SMTT(30)
    <2>2. CASE s # current
      <3>1. /\ threads'[s].rsp = threads[s].rsp /\ threads'[s].foreign = threads[s].foreign
            /\ threads'[s].interrupt_rsp = threads[s].interrupt_rsp /\ threads[s] # None
        BY <1>14, <2>2
      <3> QED
        BY <1>1, <1>23, <3>1, Zenon DEF PointersInPlace
    <2> QED
      BY <2>1, <2>2
  <1>28. QueuedOnce'
    <2> SUFFICES ASSUME NEW s \in Slots, threads'[s] # None, Fresh(stacks'[s], s), s # current',
                        threads'[s].rsp.depth = 1, threads'[s].rsp.stack = s
                 PROVE  Once(ready', s)
      BY DEF QueuedOnce
    <2>1. s # current
      <3> SUFFICES ASSUME s = current PROVE FALSE
        OBVIOUS
      <3>1. p.stack = s
        BY <1>14, Zenon
      <3>2. Fresh(P[s], s)
        BY <1>22, Zenon
      <3>3. p.stack = Boot
        BY <3>2, Zenon DEF Leaving
      <3> QED
        BY <3>1, <3>3, Sizes
    <2>2. threads[s] # None /\ threads[s].rsp = threads'[s].rsp /\ Fresh(stacks[s], s)
      BY <1>14, <1>23, <2>1, Zenon
    <2>3. Once(ready, s)
      BY <1>1, <2>1, <2>2, Zenon DEF QueuedOnce
    <2> QED
      BY <1>10, <2>1, <2>3, Zenon
  <1>29. ExitedIsGone'
    <2> SUFFICES ASSUME NEW s \in Slots, threads'[s] # None, threads'[s].state = "Exited"
                 PROVE  ~Queued(ready', s) /\ s # current'
      BY DEF ExitedIsGone
    <2>1. s # next
      BY <1>14
    <2>2. CASE s = current
      <3>1. T[current].state = "Exited" /\ ready' = d
        BY <1>9, <1>14, <2>1, <2>2, Zenon
      <3>2. ~Queued(ready, current)
        BY <3>1, Zenon DEF Leaving
      <3> QED
        BY <1>1, <1>6, <2>1, <2>2, <3>1, <3>2
    <2>3. CASE s # current
      <3>1. ~Queued(ready, s)
        BY <1>1, <1>14, <2>1, <2>3, Zenon DEF ExitedIsGone
      <3> QED
        BY <1>6, <1>10, <2>1, <2>3, <3>1, Zenon
    <2> QED
      BY <2>2, <2>3
  <1>30. ProcessorInStep'
    <2>1. cpu'.mode \in {"ring3", "ring0", "interpreter"} => cpu'.thread \in Slots
      BY <1>18, <1>20 DEF Frames
    <2>2. cpu'.mode = "interpreter" => threads'[next].foreign
      BY <1>6, <1>14, <1>17, <1>20, Zenon
    <2>3. cpu'.mode = "ring3" => syscall_rsp # None
      BY <1>17, <1>18, <1>20, SMTT(30) DEF Leaving, FramesOK
    <2>4. cpu'.mode = "ring3" => ~Fresh(stacks'[next], next)
      <3> SUFFICES ASSUME cpu'.mode = "ring3", Fresh(stacks'[next], next) PROVE FALSE
        OBVIOUS
      <3>1. Fresh(P[next], next) /\ Fresh(stacks[next], next)
        BY <1>6, <1>22, <1>23, Zenon
      <3>2. t.depth = 1 /\ t.stack = next
        BY <1>17, <1>20, <3>1
      <3>3. P[next] = <<[kind |-> "initial", thread |-> next]>>
        BY <3>1 DEF Fresh
      <3>4. P[next][1] = [kind |-> "initial", thread |-> next]
        BY <3>3
      <3>5. f = [kind |-> "initial", thread |-> next]
        BY <1>18, <1>20, <3>2, <3>4
      <3>6. f.kind = "initial"
        BY <3>5
      <3> QED
        BY <1>20, <3>6
    <2> QED
      BY <1>1, <1>6, <1>20, <1>21, <1>22, <2>1, <2>2, <2>3, <2>4, Zenon DEF ProcessorInStep, Executing, Native
  <1> QED
    BY <1>10, <1>20, <1>24, <1>25, <1>26, <1>27, <1>28, <1>29, <1>30 DEF SchedInv

LEMMA PushBelow ==
    ASSUME NEW g \in Frames, NEW f \in Frames, g.kind = "syscall", f.kind = "switch",
           NEW x, NEW entry, entry # None
    PROVE  Used(<<g, f>>, x, entry)
  <1>1. PICK u : u = <<g, f>>
    BY Zenon
  <1>2. u \in Seq(Frames) /\ Len(u) = 2 /\ u[1] = g /\ u[2] = f
    BY <1>1
  <1>3. \A i \in 1 .. Len(u) : u[i] = g \/ u[i] = f
    BY <1>2
  <1>4. Len(u) \in 1 .. 2
    BY <1>2
  <1>5. Used(u, x, entry)
    BY <1>2, <1>3, <1>4 DEF Used
  <1> QED
    BY <1>1, <1>5

(* Nothing of the invariant depends on yielded once it is set. *)
LEMMA StandingKeepsSched ==
    ASSUME SchedInv, UNCHANGED <<threads, ready, current, stacks, syscall_rsp, rsp0, cr3, cpu>>,
           yielded' = yielded \/ yielded', cpu.mode = "boot" => yielded' = yielded
    PROVE  SchedInv'
  <1>1. SchedTypes'
    BY Zenon DEF SchedInv, SchedTypes
  <1>2. OnlyInitialisedThreads'
    BY DEF SchedInv, OnlyInitialisedThreads
  <1>3. FramesInPlace'
    BY DEF SchedInv, FramesInPlace
  <1>4. PointersInPlace'
    BY DEF SchedInv, PointersInPlace
  <1>5. QueuedOnce'
    BY DEF SchedInv, QueuedOnce
  <1>6. ExitedIsGone'
    BY DEF SchedInv, ExitedIsGone, Executing
  <1>7. ProcessorInStep'
    BY Zenon DEF SchedInv, ProcessorInStep, Executing, Native
  <1>8. cpu'.mode = "boot" => Booting'
    BY DEF SchedInv, Booting
  <1>9. ~yielded' => BeforeFirstYield'
    <2> SUFFICES ASSUME ~yielded' PROVE BeforeFirstYield'
      OBVIOUS
    <2>1. BeforeFirstYield
      BY DEF SchedInv
    <2> QED
      BY <2>1 DEF BeforeFirstYield, ReadyThreadsAreQueued, Native
  <1>10. \E k : Holds(ready', k)
    BY DEF SchedInv
  <1> QED
    BY <1>1, <1>2, <1>3, <1>4, <1>5, <1>6, <1>7, <1>8, <1>9, <1>10 DEF SchedInv

LEMMA StacksShort == SchedInv => Short(stacks) /\ FramesOK(stacks, threads, syscall_rsp)
  BY DEF SchedInv, SchedTypes, FramesInPlace, Short, FramesOK

LEMMA DelayKeepsSched == ASSUME SchedInv, DelayExecution PROVE SchedInv'
  <1> DEFINE frame == [kind |-> "switch", thread |-> cpu.thread]
  <1>1. /\ yielded' = TRUE /\ UNCHANGED <<syscall_rsp, rsp0, cr3>>
        /\ SchedTypes /\ ProcessorInStep
    BY Zenon DEF DelayExecution, SchedInv
  <1>2. Executing /\ current \in Slots /\ cpu.thread \in Slots
    BY <1>1, Zenon DEF DelayExecution, Executing, Native, ProcessorInStep
  <1>3. threads[current] # None
    BY <1>2, Sizes DEF SchedInv, OnlyInitialisedThreads
  <1>4. frame \in Frames /\ frame.kind = "switch"
    BY <1>2 DEF Frames
  <1>5. /\ threads \in [Slots -> Threads \cup {None}]
        /\ threads[current].state = "Exited" => ~Queued(ready, current)
    BY <1>1, <1>2, <1>3 DEF SchedTypes, SchedInv, ExitedIsGone
  <1>6. Short(stacks) /\ FramesOK(stacks, threads, syscall_rsp) /\ StillThere(threads, threads)
    BY StacksShort DEF StillThere
  <1>7. PICK next : next = NextSlot(ready)
    BY Zenon
  <1>8. CASE cpu.mode = "interpreter" /\ Schedule(threads, stacks, [stack |-> Boot, depth |-> 1], frame, cpu)
    <2>1. CASE next = None
      <3>1. UNCHANGED <<threads, stacks, cpu, ready, current>>
        BY <1>7, <1>8, <2>1, Zenon DEF Schedule
      <3> QED
        BY <1>1, <1>8, <3>1, StandingKeepsSched
    <2>2. CASE next # None
      <3>1. PICK p : p = [stack |-> Boot, depth |-> 1]
        BY Zenon
      <3>2. p \in Pointers /\ p.stack = Boot /\ p.depth = 1
        BY <3>1, Sizes DEF Pointers
      <3>3. PICK P : P = [stacks EXCEPT ![Boot] = <<frame>>]
        BY Zenon
      <3>4. Used(<<frame>>, Boot, syscall_rsp)
        BY <1>4, OneFrame
      <3>5. Short(P) /\ FramesOK(P, threads, syscall_rsp) /\ Overwritten(P, stacks, Boot, <<frame>>)
        BY <1>6, <3>3, <3>4, Sizes, PushOverwrites, Zenon
      <3>6. threads[current].foreign
        BY <1>1, <1>8, Zenon DEF ProcessorInStep
      <3>7. Leaving(threads, P, p)
        BY <1>3, <1>5, <3>2, <3>5, <3>6, Zenon DEF Leaving, Overwritten
      <3>8. P = [stacks EXCEPT ![p.stack] = IF p.depth = 1 THEN <<frame>> ELSE <<@[1], frame>>]
        BY <3>2, <3>3
      <3>9. Switches(threads, P, p, next) /\ current' = next
        <4> HIDE DEF frame
        <4> QED
          BY <1>7, <1>8, <2>2, <3>1, <3>8, Zenon DEF Schedule, Switches
      <3> QED
        BY <1>1, <1>2, <3>7, <3>9, SwitchKeepsSched
    <2> QED
      BY <2>1, <2>2
  <1>9. CASE /\ Native /\ syscall_rsp # None
             /\ Schedule(threads, InSyscall, [stack |-> syscall_rsp, depth |-> 2], frame,
                         Executes("ring3", cpu.thread))
    <2> DEFINE call == [kind |-> "syscall", thread |-> cpu.thread]
    <2>1. CASE next = None
      <3>1. UNCHANGED <<threads, ready, current>> /\ stacks' = InSyscall
            /\ cpu' = Executes("ring3", cpu.thread)
        BY <1>7, <1>9, <2>1, Zenon DEF Schedule
      <3> QED
        BY <1>1, <1>9, <3>1, SyscallReturns
    <2>2. CASE next # None
      <3>1. PICK p : p = [stack |-> syscall_rsp, depth |-> 2]
        BY Zenon
      <3>2. syscall_rsp \in Slots /\ syscall_rsp \in Stacks
        BY <1>1, <1>9, Sizes DEF SchedTypes
      <3>3. p \in Pointers /\ p.stack = syscall_rsp /\ p.depth = 2
        BY <3>1, <3>2 DEF Pointers
      <3>4. PICK C : C = InSyscall
        BY Zenon
      <3>5. /\ Short(C) /\ FramesOK(C, threads, syscall_rsp)
            /\ Overwritten(C, stacks, syscall_rsp, <<call>>) /\ call \in Frames
        BY <1>9, <3>4, SyscallPushes
      <3>6. PICK v : v = <<call, frame>>
        BY Zenon
      <3>7. Used(v, syscall_rsp, syscall_rsp)
        BY <1>4, <1>9, <3>5, <3>6, PushBelow
      <3>8. PICK P : P = [C EXCEPT ![syscall_rsp] = v]
        BY Zenon
      <3>9. Short(P) /\ FramesOK(P, threads, syscall_rsp) /\ Overwritten(P, C, syscall_rsp, v)
        BY <1>6, <3>2, <3>5, <3>7, <3>8, PushOverwrites, Zenon
      <3>10. \A s \in Slots : Fresh(P[s], s) => s # syscall_rsp /\ Fresh(stacks[s], s)
        BY <3>5, <3>9, Zenon DEF Overwritten
      <3>11. ~Fresh(P[current], current)
        BY <1>1, <1>2, <1>9, <3>10, Zenon DEF ProcessorInStep
      <3>12. Leaving(threads, P, p)
        <4>1. p.stack # Boot /\ p.depth # 1
          BY <3>2, <3>3, Sizes
        <4> QED
          BY <1>3, <1>5, <3>3, <3>9, <3>10, <3>11, <4>1, Zenon DEF Leaving
      <3>13. P = [C EXCEPT ![p.stack] = IF p.depth = 1 THEN <<frame>> ELSE <<@[1], frame>>]
        <4>1. C[syscall_rsp] = <<call>>
          BY <3>5 DEF Overwritten
        <4>2. C[syscall_rsp][1] = call
          BY <4>1
        <4> QED
          BY <3>3, <3>6, <3>8, <4>2
      <3>14. Switches(threads, P, p, next) /\ current' = next
        <4> HIDE DEF frame
        <4> QED
          BY <1>7, <1>9, <2>2, <3>1, <3>4, <3>13, Zenon DEF Schedule, Switches
      <3> QED
        BY <1>1, <1>2, <3>12, <3>14, SwitchKeepsSched
    <2> QED
      BY <2>1, <2>2
  <1> QED
    BY <1>8, <1>9, Zenon DEF DelayExecution

LEMMA ExitKeepsSched == ASSUME SchedInv, ThreadExit PROVE SchedInv'
  <1> DEFINE frame == [kind |-> "exiting", thread |-> cpu.thread]
  <1>1. /\ cpu.mode = "ring0" /\ UNCHANGED <<syscall_rsp, rsp0, cr3, yielded>>
        /\ SchedTypes /\ ProcessorInStep
    BY DEF ThreadExit, SchedInv
  <1>2. Executing /\ current \in Slots /\ cpu.thread = current /\ ~Queued(ready, current)
    BY <1>1 DEF Executing, ProcessorInStep
  <1>3. threads[current] # None /\ threads \in [Slots -> Threads \cup {None}]
    BY <1>1, <1>2, Sizes DEF SchedTypes, SchedInv, OnlyInitialisedThreads
  <1>4. yielded
    BY <1>1 DEF SchedInv, BeforeFirstYield
  <1>5. frame \in Frames /\ frame.kind = "exiting"
    BY <1>2 DEF Frames
  <1>6. PICK T : T = [threads EXCEPT ![current].state = "Exited"]
    BY Zenon
  <1>7. StateIs(T, threads, current, "Exited")
    <2>1. "Exited" \in {"Ready", "Running", "Exited"}
      OBVIOUS
    <2> QED
      BY <1>2, <1>3, <1>6, <2>1, StateSet, Zenon
  <1>8. PICK next : next = NextSlot(ready)
    BY Zenon
  <1>9. PICK p : p = [stack |-> cpu.thread, depth |-> 1]
    BY Zenon
  <1>10. p \in Pointers /\ p.stack = current /\ p.depth = 1
    BY <1>2, <1>9, Sizes DEF Pointers
  <1>11. Schedule(T, stacks, p, frame, Executes("halted", None))
    BY <1>6, <1>9 DEF ThreadExit
  <1> HIDE DEF frame
  <1>12. CASE next = None
    <2>1. /\ threads' = T /\ cpu' = Executes("halted", None)
          /\ UNCHANGED <<stacks, ready, current>>
      BY <1>8, <1>11, <1>12, Zenon DEF Schedule
    <2>2. cpu'.mode = "halted" /\ cpu' \in [mode : Modes, thread : Slots \cup {None}]
      BY <2>1 DEF Executes, Modes
    <2>3. /\ threads' \in [Slots -> Threads \cup {None}]
          /\ \A s \in Slots : s # current => threads'[s] = threads[s]
          /\ \A s \in Slots : /\ threads'[s] # None <=> threads[s] # None
                              /\ threads'[s].foreign = threads[s].foreign
                              /\ threads'[s].rsp = threads[s].rsp
                              /\ threads'[s].interrupt_rsp = threads[s].interrupt_rsp
      BY <1>3, <1>7, <2>1 DEF StateIs
    <2>4. SchedTypes'
      BY <1>1, <2>1, <2>2, <2>3, Zenon DEF SchedTypes
    <2>5. OnlyInitialisedThreads'
      BY <1>2, <2>1, <2>3, Sizes DEF SchedInv, OnlyInitialisedThreads, SchedTypes, Holds
    <2>6. FramesInPlace'
      BY <1>1, <2>1, <2>3, Zenon DEF SchedInv, FramesInPlace
    <2>7. PointersInPlace'
      BY <1>1, <2>1, <2>3 DEF SchedInv, PointersInPlace
    <2>8. QueuedOnce'
      BY <1>1, <2>1, <2>3, Zenon DEF SchedInv, QueuedOnce
    <2>9. ExitedIsGone'
      BY <1>2, <2>1, <2>2, <2>3, Zenon DEF SchedInv, ExitedIsGone, Executing
    <2>10. ProcessorInStep'
      BY <1>1, <2>1, <2>2, Zenon DEF ProcessorInStep, Executing, Native
    <2>11. \E k : Holds(ready', k)
      BY <2>1 DEF SchedInv
    <2> QED
      BY <1>1, <1>4, <2>2, <2>4, <2>5, <2>6, <2>7, <2>8, <2>9, <2>10, <2>11 DEF SchedInv
  <1>13. CASE next # None
    <2>1. PICK P : P = [stacks EXCEPT ![current] = <<frame>>]
      BY Zenon
    <2>2. Used(<<frame>>, current, syscall_rsp)
      BY <1>5, OneFrame
    <2>3. Short(stacks) /\ FramesOK(stacks, threads, syscall_rsp) /\ StillThere(threads, threads)
      BY StacksShort DEF StillThere
    <2>4. Short(P) /\ FramesOK(P, threads, syscall_rsp) /\ Overwritten(P, stacks, current, <<frame>>)
      BY <1>2, <2>1, <2>2, <2>3, Sizes, PushOverwrites, Zenon
    <2>5. Leaving(T, P, p)
      <3>1. current # Boot
        BY <1>2, Sizes
      <3> QED
        BY <1>2, <1>7, <1>10, <2>4, <3>1, Zenon DEF Leaving, Overwritten, StateIs
    <2>6. P = [stacks EXCEPT ![p.stack] = IF p.depth = 1 THEN <<frame>> ELSE <<@[1], frame>>]
      BY <1>10, <2>1
    <2>7. Switches(T, P, p, next) /\ current' = next
      BY <1>8, <1>11, <1>13, <2>6, Zenon DEF Schedule, Switches
    <2> QED
      BY <1>1, <1>2, <1>4, <2>5, <2>7, SwitchKeepsSched
  <1> QED
    BY <1>12, <1>13

-----------------------------------------------------------------------------
(* The ready queue as a sequence. *)

LEMMA Appending ==
    ASSUME NEW S, NEW l \in Seq(S), NEW e \in S
    PROVE  /\ Append(l, e) \in Seq(S) /\ Len(Append(l, e)) = Len(l) + 1
           /\ Append(l, e)[Len(l) + 1] = e /\ \A i \in 1 .. Len(l) : Append(l, e)[i] = l[i]
  OBVIOUS

LEMMA Shortening ==
    ASSUME NEW S, NEW l \in Seq(S), l # <<>>
    PROVE  /\ Tail(l) \in Seq(S) /\ Len(Tail(l)) = Len(l) - 1
           /\ \A i \in 1 .. Len(Tail(l)) : Tail(l)[i] = l[i + 1]
  OBVIOUS

LEMMA SameEntries ==
    ASSUME NEW S, NEW a \in Seq(S), NEW b \in Seq(S), Len(a) = Len(b),
           \A i \in 1 .. Len(a) : a[i] = b[i]
    PROVE  a = b
  OBVIOUS

LEMMA ListedIs ==
    ASSUME NEW q, NEW k, Holds(q, k)
    PROVE  /\ UpToLast(q) = [n \in 1 .. k |-> q[n - 1]]
           /\ UpToLast(q) \in Seq(Slots) /\ Len(UpToLast(q)) = k
  <1>1. k \in Nat /\ k <= MAX_THREADS /\ MAX_THREADS \in Nat /\ q \in [Slots -> Slots \cup {None}]
    BY Sizes DEF Holds
  <1>2. Full(q) = 0 .. k - 1
    BY <1>1 DEF Full, Holds, Slots
  <1>3. k # 0 => Max(0 .. k - 1) = k - 1
    BY <1>1, MaxIs
  <1>4. (IF Full(q) = {} THEN 0 ELSE Max(Full(q)) + 1) = k
    <2>1. 0 .. k - 1 = {} <=> k = 0
      BY <1>1
    <2> QED
      BY <1>1, <1>2, <1>3, <2>1
  <1>5. UpToLast(q) = [n \in 1 .. k |-> q[n - 1]]
    BY <1>4 DEF UpToLast
  <1>6. \A n \in 1 .. k : q[n - 1] \in Slots
    BY <1>1 DEF Holds, Slots
  <1> QED
    BY <1>1, <1>5, <1>6

LEMMA ListedEnqueue ==
    ASSUME NEW q, NEW k, Holds(q, k), NEW slot \in Slots
    PROVE  UpToLast(Enqueue(q, slot)) = Fifo!Enqueue(UpToLast(q), slot)
  <1>1. k \in Nat /\ q \in [Slots -> Slots \cup {None}]
    BY Sizes DEF Holds
  <1>2. /\ UpToLast(q) = [n \in 1 .. k |-> q[n - 1]]
        /\ UpToLast(q) \in Seq(Slots) /\ Len(UpToLast(q)) = k
    BY ListedIs
  <1>3. CASE k < MAX_THREADS
    <2>1. PICK e : e = Enqueue(q, slot)
      BY Zenon
    <2>2. k \in Slots /\ e = [q EXCEPT ![k] = slot] /\ Holds(e, k + 1)
      BY <1>3, <2>1, EnqueueAppends
    <2>3. /\ UpToLast(e) = [n \in 1 .. k + 1 |-> e[n - 1]]
          /\ UpToLast(e) \in Seq(Slots) /\ Len(UpToLast(e)) = k + 1
      BY <2>2, ListedIs, Zenon
    <2>4. PICK a \in Seq(Slots) : a = UpToLast(e)
      BY <2>3
    <2>5. PICK l \in Seq(Slots) : l = UpToLast(q)
      BY <1>2
    <2>6. PICK b \in Seq(Slots) : b = Append(l, slot)
      BY Appending, Zenon
    <2>7. /\ Len(b) = k + 1 /\ b[k + 1] = slot /\ \A i \in 1 .. k : b[i] = l[i]
      <3>1. /\ Len(b) = Len(l) + 1 /\ b[Len(l) + 1] = slot
            /\ \A i \in 1 .. Len(l) : b[i] = l[i]
        BY <2>6, Appending
      <3>2. Len(l) = k
        BY <1>2, <2>5, Zenon
      <3> QED
        BY <3>1, <3>2
    <2>8. \A i \in 1 .. k + 1 : a[i] = b[i]
      <3> TAKE i \in 1 .. k + 1
      <3>1. a[i] = e[i - 1]
        BY <2>3, <2>4
      <3>2. CASE i = k + 1
        BY <1>1, <2>2, <2>7, <3>1, <3>2
      <3>3. CASE i # k + 1
        <4>1. i \in 1 .. k /\ i - 1 \in Slots /\ i - 1 # k
          <5>1. i \in Nat /\ 1 <= i /\ i <= k /\ k < MAX_THREADS /\ MAX_THREADS \in Nat
            BY <1>1, <1>3, <3>3, Sizes
          <5> QED
            BY <1>1, <5>1 DEF Slots
        <4>2. l[i] = q[i - 1]
          BY <1>2, <2>5, <4>1
        <4> QED
          BY <1>1, <2>2, <2>7, <3>1, <4>1, <4>2
      <3> QED
        BY <3>2, <3>3
    <2>9. a = b
      BY <2>3, <2>4, <2>7, <2>8, SameEntries
    <2> QED
      BY <1>2, <1>3, <2>1, <2>4, <2>5, <2>6, <2>9, Zenon DEF Fifo!Enqueue
  <1>4. CASE ~(k < MAX_THREADS)
    BY <1>2, <1>4, EnqueueAppends, Zenon DEF Fifo!Enqueue
  <1> QED
    BY <1>3, <1>4

LEMMA ListedDequeue ==
    ASSUME NEW q, NEW k, Holds(q, k), k > 0
    PROVE  /\ UpToLast(q) # <<>> /\ Head(UpToLast(q)) = q[0]
           /\ UpToLast(Dequeue(q)) = Tail(UpToLast(q))
  <1>1. k \in Nat /\ k # 0 /\ q \in [Slots -> Slots \cup {None}]
    BY Sizes DEF Holds
  <1>2. PICK d : d = Dequeue(q)
    BY Zenon
  <1>3. Holds(d, k - 1) /\ \A i \in Slots : i < k - 1 => i + 1 \in Slots /\ d[i] = q[i + 1]
    BY <1>1, <1>2, DequeueTakesHead
  <1>4. PICK l \in Seq(Slots) : l = UpToLast(q) /\ Len(l) = k /\ l = [n \in 1 .. k |-> q[n - 1]]
    BY ListedIs
  <1>5. PICK a \in Seq(Slots) : a = UpToLast(d) /\ Len(a) = k - 1 /\ a = [n \in 1 .. k - 1 |-> d[n - 1]]
    BY <1>3, ListedIs
  <1>6. l # <<>>
    BY <1>1, <1>4
  <1>7. Head(l) = q[0]
    <2>1. l[1] = q[0]
      BY <1>1, <1>4
    <2> QED
      BY <1>6, <2>1
  <1>8. PICK t \in Seq(Slots) : t = Tail(l) /\ Len(t) = k - 1 /\ \A i \in 1 .. k - 1 : t[i] = l[i + 1]
    <2>1. /\ Tail(l) \in Seq(Slots) /\ Len(Tail(l)) = Len(l) - 1
          /\ \A i \in 1 .. Len(Tail(l)) : Tail(l)[i] = l[i + 1]
      BY <1>6, Shortening
    <2>2. Len(Tail(l)) = k - 1
      BY <1>4, <2>1, Zenon
    <2>3. \A i \in 1 .. k - 1 : Tail(l)[i] = l[i + 1]
      BY <2>1, <2>2
    <2> QED
      BY <2>1, <2>2, <2>3, Zenon
  <1>9. \A i \in 1 .. k - 1 : a[i] = t[i]
    <2> TAKE i \in 1 .. k - 1
    <2>1. a[i] = d[i - 1] /\ t[i] = l[i + 1]
      BY <1>5, <1>8
    <2>2. l[i + 1] = q[i]
      <3>1. i + 1 \in 1 .. k /\ (i + 1) - 1 = i
        BY <1>1
      <3> QED
        BY <1>4, <3>1
    <2>3. i - 1 \in Slots /\ i - 1 < k - 1 /\ (i - 1) + 1 = i
      BY <1>1, Sizes DEF Slots, Holds
    <2>4. d[i - 1] = q[i]
      BY <1>3, <2>3
    <2> QED
      BY <2>1, <2>2, <2>4
  <1>10. a = t
    BY <1>5, <1>8, <1>9, SameEntries, Zenon
  <1> QED
    BY <1>2, <1>4, <1>5, <1>6, <1>7, <1>8, <1>10, Zenon

-----------------------------------------------------------------------------
(* What each step does to the queue and to the threads that wait nowhere. *)

OthersKept == \A s \in Slots : s # current /\ ~Queued(ready, s) => threads'[s] = threads[s]

LEMMA ScheduleEffect ==
    ASSUME SchedInv, Executing, NEW T, NEW contents, NEW p \in Pointers, NEW frame, NEW otherwise,
           StateIs(T, threads, current, T[current].state),
           Schedule(T, contents, p, frame, otherwise)
    PROVE  OthersKept /\ (Fifo!Next \/ UNCHANGED ready)
  <1>1. current \in Slots
    BY Zenon DEF SchedInv, ProcessorInStep
  <1>2. PICK k : Holds(ready, k)
    BY DEF SchedInv
  <1>3. PICK next : next = NextSlot(ready)
    BY Zenon
  <1>4. CASE next = None
    <2>1. threads' = T /\ ready' = ready
      BY <1>3, <1>4, Zenon DEF Schedule
    <2> QED
      BY <2>1, Zenon DEF OthersKept, StateIs
  <1>5. CASE next # None
    <2>1. threads' = Switched(T, next, p) /\ ready' = Requeued(T, next)
      BY <1>3, <1>5, Zenon DEF Schedule
    <2>2. k > 0
      <3>1. k # 0
        BY <1>2, <1>3, <1>5, DequeueTakesHead, Zenon
      <3> QED
        BY <1>2, <3>1 DEF Holds
    <2>3. next = ready[0] /\ next \in Slots /\ Queued(ready, next) /\ Holds(Dequeue(ready), k - 1)
      BY <1>2, <1>3, <2>2, Dequeued, Zenon
    <2>4. T \in [Slots -> Threads \cup {None}] /\ T[current] # None
          /\ \A s \in Slots : s # current => T[s] = threads[s]
      BY Zenon DEF StateIs
    <2>5. T[next] # None
      <3>1. threads[next] # None
        BY <2>3, Sizes, Zenon DEF SchedInv, OnlyInitialisedThreads
      <3> QED
        BY <2>3, <2>4, <3>1, Zenon
    <2>6. SwitchedIs(threads', T, current, next, p)
      <3>1. SwitchedIs(Switched(T, next, p), T, current, next, p)
        BY <1>1, <2>3, <2>4, <2>5, SwitchSets, Zenon
      <3> QED
        BY <2>1, <3>1, Zenon
    <2>7. OthersKept
      <3> SUFFICES ASSUME NEW s \in Slots, s # current, ~Queued(ready, s)
                   PROVE  threads'[s] = threads[s]
        BY Zenon DEF OthersKept
      <3>1. s # next
        BY <2>3, Zenon
      <3> QED
        BY <2>4, <2>6, <3>1, Zenon DEF SwitchedIs
    <2>8. Fifo!Next
      <3>1. UpToLast(ready) # <<>> /\ UpToLast(Dequeue(ready)) = Tail(UpToLast(ready))
        BY <1>2, <2>2, ListedDequeue
      <3>2. CASE ready' = Dequeue(ready)
        <4>1. UpToLast(ready') = Tail(UpToLast(ready))
          BY <3>1, <3>2
        <4>2. Fifo!Take
          BY <3>1, <4>1 DEF Fifo!Take, Queue
        <4> QED
          BY <4>2 DEF Fifo!Next
      <3>3. CASE ready' = Enqueue(Dequeue(ready), current)
        <4>1. UpToLast(ready') = Fifo!Enqueue(Tail(UpToLast(ready)), current)
          BY <1>1, <2>3, <3>1, <3>3, ListedEnqueue, Zenon
        <4>2. Fifo!TakeThenAdd
          BY <1>1, <3>1, <4>1 DEF Fifo!TakeThenAdd, Queue
        <4> QED
          BY <4>2 DEF Fifo!Next
      <3> QED
        BY <2>1, <3>2, <3>3, Zenon DEF Requeued
    <2> QED
      BY <2>7, <2>8
  <1> QED
    BY <1>4, <1>5

LEMMA TimerEffect == ASSUME SchedInv, Timer PROVE OthersKept /\ Fifo!Next
  <1> DEFINE p == [stack |-> rsp0, depth |-> 1]
  <1>1. cpu.mode = "ring3" /\ SchedTypes /\ ProcessorInStep /\ OnlyInitialisedThreads
    BY Zenon DEF Timer, SchedInv
  <1>2. current \in Slots /\ rsp0 \in Slots
    <2>1. current \in Slots /\ rsp0 # None
      BY <1>1, Zenon DEF ProcessorInStep, Executing
    <2> QED
      BY <1>1, <2>1 DEF SchedTypes
  <1>3. threads[current] # None
    BY <1>1, <1>2, Sizes DEF OnlyInitialisedThreads
  <1>4. threads[current].state # "Exited"
    BY <1>1, <1>2, <1>3 DEF SchedInv, ExitedIsGone, Executing
  <1>5. PICK T : T = [threads EXCEPT ![current].state = "Ready", ![current].interrupt_rsp = p]
    BY Zenon
  <1>6. Preempted(T, threads, current, p)
    <2>1. p \in Pointers
      BY <1>2, Sizes DEF Pointers
    <2> QED
      BY <1>1, <1>2, <1>3, <1>5, <2>1, PreemptSets, Zenon DEF SchedTypes
  <1>7. PICK q : q = Enqueue(ready, current)
    BY Zenon
  <1>8. PICK k : Holds(ready, k)
    BY DEF SchedInv
  <1>9. PICK m : Holds(q, m)
    BY <1>2, <1>7, <1>8, Enqueued
  <1>10. q[0] # None /\ \A s \in Slots : Queued(q, s) => s = current \/ Queued(ready, s)
    BY <1>2, <1>7, <1>8, Enqueued
  <1>11. m > 0
    BY <1>9, <1>10, Sizes DEF Holds
  <1>12. PICK next \in Slots : next = NextSlot(q) /\ next = q[0] /\ Queued(q, next)
                               /\ Holds(Dequeue(q), m - 1)
    BY <1>9, <1>11, Dequeued
  <1>13. next # None
    BY Sizes
  <1>14. \/ threads' = T /\ ready' = Enqueue(Dequeue(q), next)
         \/ threads' = [T EXCEPT ![next].state = "Running"] /\ ready' = Dequeue(q)
    BY <1>4, <1>5, <1>7, <1>12, <1>13, Zenon DEF Timer, PutBack
  <1>15. OthersKept
    <2> SUFFICES ASSUME NEW s \in Slots, s # current, ~Queued(ready, s)
                 PROVE  threads'[s] = threads[s]
      BY Zenon DEF OthersKept
    <2>1. s # next /\ T[s] = threads[s] /\ T \in [Slots -> Threads \cup {None}]
      BY <1>6, <1>10, <1>12, Zenon DEF Preempted
    <2> QED
      BY <1>14, <2>1
  <1>16. Fifo!Next
    <2>1. UpToLast(q) = Fifo!Enqueue(UpToLast(ready), current)
      BY <1>2, <1>7, <1>8, ListedEnqueue
    <2>2. Head(UpToLast(q)) = next /\ UpToLast(Dequeue(q)) = Tail(UpToLast(q))
      BY <1>9, <1>11, <1>12, ListedDequeue
    <2>3. UpToLast(Enqueue(Dequeue(q), next)) = Fifo!Enqueue(Tail(UpToLast(q)), Head(UpToLast(q)))
      BY <1>12, <2>2, ListedEnqueue, Zenon
    <2>4. PICK l : l = UpToLast(q)
      BY Zenon
    <2>5. UpToLast(ready') = Tail(l) \/ UpToLast(ready') = Fifo!Enqueue(Tail(l), Head(l))
      BY <1>14, <2>2, <2>3, <2>4
    <2>6. l = Fifo!Enqueue(Queue, current)
      BY <2>1, <2>4 DEF Queue
    <2>7. Fifo!Rotate
      BY <1>2, <2>5, <2>6 DEF Fifo!Rotate, Queue
    <2> QED
      BY <2>7 DEF Fifo!Next
  <1> QED
    BY <1>15, <1>16

LEMMA SwitchingEffect ==
    ASSUME SchedInv, DelayExecution \/ ThreadExit
    PROVE  OthersKept /\ (Fifo!Next \/ UNCHANGED ready)
  <1>1. SchedTypes /\ ProcessorInStep
    BY DEF SchedInv
  <1>2. Executing /\ current \in Slots /\ cpu.thread \in Slots
    BY <1>1 DEF DelayExecution, ThreadExit, Executing, Native, ProcessorInStep
  <1>3. threads[current] # None /\ threads \in [Slots -> Threads \cup {None}]
    BY <1>1, <1>2, Sizes DEF SchedTypes, SchedInv, OnlyInitialisedThreads
  <1>4. Slots \subseteq Stacks /\ Boot \in Stacks
    BY Sizes
  <1>5. CASE DelayExecution
    <2>1. StateIs(threads, threads, current, threads[current].state)
      BY <1>2, <1>3 DEF StateIs
    <2>2. \/ Schedule(threads, stacks, [stack |-> Boot, depth |-> 1],
                      [kind |-> "switch", thread |-> cpu.thread], cpu)
          \/ /\ syscall_rsp # None
             /\ Schedule(threads, InSyscall, [stack |-> syscall_rsp, depth |-> 2],
                         [kind |-> "switch", thread |-> cpu.thread], Executes("ring3", cpu.thread))
      BY <1>5, Zenon DEF DelayExecution
    <2>3. syscall_rsp # None => syscall_rsp \in Stacks
      BY <1>1, Sizes DEF SchedTypes
    <2>4. /\ [stack |-> Boot, depth |-> 1] \in Pointers
          /\ syscall_rsp # None => [stack |-> syscall_rsp, depth |-> 2] \in Pointers
      BY <1>4, <2>3 DEF Pointers
    <2> QED
      BY <1>2, <2>1, <2>2, <2>4, ScheduleEffect, Zenon
  <1>6. CASE ThreadExit
    <2>1. PICK T : T = [threads EXCEPT ![current].state = "Exited"]
      BY Zenon
    <2>2. StateIs(T, threads, current, "Exited")
      <3>1. "Exited" \in {"Ready", "Running", "Exited"}
        OBVIOUS
      <3> QED
        BY <1>2, <1>3, <2>1, <3>1, StateSet, Zenon
    <2>3. StateIs(T, threads, current, T[current].state)
      BY <2>2, Zenon DEF StateIs
    <2>4. [stack |-> cpu.thread, depth |-> 1] \in Pointers
      BY <1>2, <1>4 DEF Pointers
    <2>5. Schedule(T, stacks, [stack |-> cpu.thread, depth |-> 1],
                   [kind |-> "exiting", thread |-> cpu.thread], Executes("halted", None))
      BY <1>6, <2>1 DEF ThreadExit
    <2> QED
      BY <1>2, <2>3, <2>4, <2>5, ScheduleEffect, Zenon
  <1> QED
    BY <1>5, <1>6

-----------------------------------------------------------------------------
(* The theorems. *)

LEMMA SchedInvAlways == SchedSpec => []SchedInv
  <1>1. SchedInv /\ [SchedNext]_vars => SchedInv'
    <2> SUFFICES ASSUME SchedInv, [SchedNext]_vars PROVE SchedInv'
      OBVIOUS
    <2>1. CASE \E root \in Roots \cup {None}, foreign \in BOOLEAN : CreateThread(root, foreign)
      BY <2>1, CreateKeepsSched
    <2>2. CASE \E slot \in Slots : EnterUserMode(slot) \/ EnterInterpreter(slot)
      BY <2>2, EnterKeepsSched
    <2>3. CASE Syscall
      BY <2>3, SyscallKeepsSched
    <2>4. CASE DelayExecution
      BY <2>4, DelayKeepsSched
    <2>5. CASE ThreadExit
      BY <2>5, ExitKeepsSched
    <2>6. CASE Timer
      BY <2>6, TimerKeepsSched
    <2>7. CASE UNCHANGED vars
      BY <2>7, StandingKeepsSched DEF vars
    <2> QED
      BY <2>1, <2>2, <2>3, <2>4, <2>5, <2>6, <2>7 DEF SchedNext
  <1> QED
    BY <1>1, InitEstablishesSched, PTL DEF SchedSpec

(* The thread table, the stacks and the saved pointers keep their shape,   *)
(* whatever the number of threads: no kernel stack of the model holds more *)
(* than the frame of an entry and the one switch pushes below it.          *)
THEOREM SchedTypeCorrect == SchedSpec => []SchedTypeOK
  <1>1. SchedInv => SchedTypeOK
    <2> SUFFICES ASSUME SchedInv PROVE SchedTypeOK
      OBVIOUS
    <2>1. ready \in [Slots -> Slots \cup {None}]
      BY DEF SchedInv, Holds
    <2>2. SchedTypes
      BY DEF SchedInv
    <2>3. \A s \in Stacks : \A i \in 1 .. Len(stacks[s]) : i <= 2 /\ stacks[s][i] \in Frames
      <3> SUFFICES ASSUME NEW s \in Stacks, NEW i \in 1 .. Len(stacks[s])
                   PROVE  i <= 2 /\ stacks[s][i] \in Frames
        OBVIOUS
      <3>1. stacks[s] \in Seq(Frames) /\ Len(stacks[s]) <= 2
        BY <2>2 DEF SchedTypes
      <3>2. Len(stacks[s]) \in Nat
        BY <3>1
      <3> QED
        BY <3>1, <3>2
    <2> QED
      BY <2>1, <2>2, <2>3 DEF SchedTypes, SchedTypeOK
  <1> QED
    BY <1>1, SchedInvAlways, PTL

(* thread_mut never exposes a slot that create_thread has not written. *)
THEOREM SchedOnlyInitialised == SchedSpec => []OnlyInitialisedThreads
  <1>1. SchedInv => OnlyInitialisedThreads
    BY DEF SchedInv
  <1> QED
    BY <1>1, SchedInvAlways, PTL

(* Until the first NtDelayExecution, with any number of threads and timer  *)
(* interrupts, the entered thread runs on its own stacks and page table    *)
(* and no Ready thread drops out of the queue.                             *)
THEOREM ConsistentUntilYield == SchedSpec => []UntilFirstYield
  <1>1. SchedInv => UntilFirstYield
    <2> SUFFICES ASSUME SchedInv, ~yielded
                 PROVE  /\ SwitchTargetsIntact /\ SyscallStackFollowsThread /\ Rsp0FollowsThread
                        /\ Cr3FollowsThread /\ ReadyThreadsAreQueued /\ cpu.thread = current
      BY DEF UntilFirstYield
    <2>1. BeforeFirstYield
      BY DEF SchedInv
    <2>2. SwitchTargetsIntact
      BY <2>1 DEF BeforeFirstYield, SwitchTargetsIntact
    <2>3. SyscallStackFollowsThread /\ Rsp0FollowsThread /\ Cr3FollowsThread
      BY <2>1 DEF BeforeFirstYield, SyscallStackFollowsThread, Rsp0FollowsThread, Cr3FollowsThread, Native
    <2> QED
      BY <2>1, <2>2, <2>3 DEF BeforeFirstYield
  <1> QED
    BY <1>1, SchedInvAlways, PTL

LEMMA ExitedNotSwitched ==
    SchedInv /\ [SchedNext]_vars =>
        \A s \in Slots : threads[s] # None /\ threads[s].state = "Exited" => threads'[s] = threads[s]
  <1> SUFFICES ASSUME SchedInv, [SchedNext]_vars, NEW s \in Slots,
                      threads[s] # None, threads[s].state = "Exited"
               PROVE  threads'[s] = threads[s]
    OBVIOUS
  <1>1. ~Queued(ready, s) /\ (Executing => s # current)
    BY Zenon DEF SchedInv, ExitedIsGone
  <1>2. cpu.mode # "boot"
    <2> SUFFICES ASSUME cpu.mode = "boot" PROVE FALSE
      OBVIOUS
    <2>1. ready[s] = s
      BY DEF SchedInv, Booting
    <2> QED
      BY <1>1, <2>1 DEF Queued
  <1>3. CASE DelayExecution \/ ThreadExit
    <2>1. Executing
      BY <1>3 DEF DelayExecution, ThreadExit, Executing, Native
    <2> QED
      BY <1>1, <1>3, <2>1, SwitchingEffect DEF OthersKept
  <1>4. CASE Timer
    <2>1. Executing
      BY <1>4, Zenon DEF Timer, Executing
    <2> QED
      BY <1>1, <1>4, <2>1, TimerEffect DEF OthersKept
  <1>5. CASE Syscall \/ UNCHANGED vars
    BY <1>5, Zenon DEF Syscall, vars
  <1> QED
    BY <1>2, <1>3, <1>4, <1>5 DEF SchedNext, CreateThread, EnterUserMode, EnterInterpreter

(* A thread that thread_exit marked is never changed, run or queued again: *)
(* a thread reaches thread_exit only on its first run, when the ready      *)
(* queue holds no other entry of it.                                       *)
THEOREM ExitIsFinal == SchedSpec => ExitedStaysExited
  <1>1. SchedInv /\ [SchedNext]_vars =>
            [\A s \in Slots : threads[s] # None /\ threads[s].state = "Exited"
                                  => threads'[s] = threads[s]]_vars
    BY ExitedNotSwitched
  <1> QED
    BY <1>1, SchedInvAlways, PTL DEF SchedSpec, ExitedStaysExited

(* enqueue_thread and dequeue_thread make READY_QUEUE a first-in first-out *)
(* queue: every step of the scheduler is a step of the abstract queue.     *)
THEOREM ReadyQueueIsFifo == SchedSpec => FifoSpec
  <1>1. SchedInit => Fifo!Init
    <2> SUFFICES ASSUME SchedInit PROVE Fifo!Init
      OBVIOUS
    <2>1. Holds(ready, 0)
      BY Sizes DEF SchedInit, Holds
    <2>2. UpToLast(ready) = <<>>
      BY <2>1, ListedIs
    <2> QED
      BY <2>2 DEF Fifo!Init, Queue
  <1>2. SchedInv /\ [SchedNext]_vars => [Fifo!Next]_Queue
    <2> SUFFICES ASSUME SchedInv, [SchedNext]_vars PROVE Fifo!Next \/ Queue' = Queue
      OBVIOUS
    <2>1. UNCHANGED ready => Queue' = Queue
      BY DEF Queue
    <2>2. CASE \E root \in Roots \cup {None}, foreign \in BOOLEAN : CreateThread(root, foreign)
      <3>1. cpu.mode = "boot" /\ FreeSlots # {} /\ ready' = Enqueue(ready, Min(FreeSlots))
        BY <2>2, Zenon DEF CreateThread
      <3>2. PICK k : Holds(ready, k) /\ k \in Slots /\ Min(FreeSlots) = k
        BY <3>1, LowestSlot
      <3>3. UpToLast(ready') = Fifo!Enqueue(UpToLast(ready), k)
        BY <3>1, <3>2, ListedEnqueue
      <3>4. Fifo!Add
        BY <3>2, <3>3 DEF Fifo!Add, Queue
      <3> QED
        BY <3>4 DEF Fifo!Next
    <2>3. CASE DelayExecution \/ ThreadExit
      BY <2>1, <2>3, SwitchingEffect
    <2>4. CASE Timer
      BY <2>4, TimerEffect
    <2>5. CASE (\E slot \in Slots : EnterUserMode(slot) \/ EnterInterpreter(slot)) \/ Syscall
               \/ UNCHANGED vars
      BY <2>1, <2>5 DEF EnterUserMode, EnterInterpreter, Syscall, vars
    <2> QED
      BY <2>2, <2>3, <2>4, <2>5 DEF SchedNext
  <1> QED
    BY <1>1, <1>2, SchedInvAlways, PTL DEF SchedSpec, FifoSpec, Fifo!Spec
=============================================================================
