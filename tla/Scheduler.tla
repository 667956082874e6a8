----------------------------- MODULE Scheduler -----------------------------
(***************************************************************************)
(* The thread scheduler, kernel/src/win32/scheduler.rs, with the saved     *)
(* contexts it switches between: context_switch.rs, the SYSCALL entry of   *)
(* syscall.rs, the timer interrupt of interrupts.rs and the TSS of gdt.rs. *)
(*                                                                         *)
(* One core; scheduler code runs in kernel mode, which the timer does not  *)
(* preempt, so every entry into the kernel is one step.                    *)
(*                                                                         *)
(* A kernel stack is the sequence of the frames on it, the one at its top  *)
(* address first; a frame says what pushed it and whose context it holds.  *)
(* SYSCALL and interrupts push at the top, over whatever is there.  A      *)
(* saved stack pointer is a stack and a depth.  What cpu runs is kept      *)
(* apart from CURRENT_THREAD, what the scheduler takes it to run.          *)
(***************************************************************************)
EXTENDS Option, Integers, Sequences, FiniteSetsExt

CONSTANTS
    MAX_THREADS,        \* 16, also the length of the ready queue
    Roots               \* page-table roots of the processes; None for root 0,
                        \* the process for which PageTable::new found no frame

Slots == 0 .. MAX_THREADS - 1
Boot == MAX_THREADS                     \* the stack the kernel booted on
Stacks == Slots \cup {Boot}

Frames == [kind : {"initial", "syscall", "switch", "interrupt", "exiting"}, thread : Slots]
Pointers == [stack : Stacks, depth : 1 .. 2]
Threads == [state : {"Ready", "Running", "Exited"}, root : Roots \cup {None}, foreign : BOOLEAN,
            rsp : Pointers, interrupt_rsp : Pointers \cup {None}]
Modes == {"boot", "ring3", "ring0", "interpreter", "halted", "undefined"}

ASSUME SchedAssumption ==
    /\ MAX_THREADS \in Nat \ {0}
    /\ None \notin Nat /\ None \notin Roots
    /\ None \notin Frames /\ None \notin Pointers /\ None \notin Threads

VARIABLES
    threads,            \* THREAD_STORAGE, None where THREAD_USED is false
    ready,              \* READY_QUEUE
    current,            \* CURRENT_THREAD
    stacks,             \* the frames on each kernel stack
    syscall_rsp,        \* the thread at whose stack SYSCALL_RSP points
    rsp0,               \* the thread at whose stack TSS.RSP0 points
    cr3,                \* the page table loaded; None is the bootloader's
    cpu,                \* what really executes: [mode, thread]
    yielded             \* history: NtDelayExecution was called

vars == <<threads, ready, current, stacks, syscall_rsp, rsp0, cr3, cpu, yielded>>

Executes(mode, thread) == [mode |-> mode, thread |-> thread]

SchedInit ==
    /\ threads = [s \in Slots |-> None]
    /\ ready = [i \in Slots |-> None]
    /\ current = None
    /\ stacks = [s \in Stacks |-> <<>>]
    /\ syscall_rsp = None
    /\ rsp0 = None
    /\ cr3 = None
    /\ cpu = Executes("boot", None)
    /\ yielded = FALSE

-----------------------------------------------------------------------------
(* The ready queue. *)

(* enqueue_thread: the first empty place; nothing if there is none. *)
EnqueueLast(queue, slot) ==     \* variant: from the other end
    LET free == {i \in Slots : queue[i] = None}
    IN  IF free = {} THEN queue ELSE [queue EXCEPT ![Max(free)] = slot]
Enqueue(queue, slot) ==
    LET free == {i \in Slots : queue[i] = None}
    IN  IF free = {} THEN queue ELSE [queue EXCEPT ![Min(free)] = slot]

(* dequeue_thread: the first full place, and the queue with the entries    *)
(* from there on shifted down.                                             *)
Full(queue) == {i \in Slots : queue[i] # None}
NextSlot(queue) == IF Full(queue) = {} THEN None ELSE queue[Min(Full(queue))]
Dequeue(queue) ==
    IF Full(queue) = {} THEN queue
    ELSE [i \in Slots |-> CASE i < Min(Full(queue)) -> queue[i]
                            [] i = MAX_THREADS - 1 -> None
                            [] OTHER -> queue[i + 1]]

-----------------------------------------------------------------------------
(* Before the first thread runs. *)

FreeSlots == {s \in Slots : threads[s] = None}

(* Thread::new and what create_thread sets; foreign is needs_translation   *)
(* of the process it is created for.                                       *)
NewThreadUnwritten(slot, root, foreign) == None \* variant: THREAD_STORAGE not written
NewThreadWithoutStack(slot, root, foreign) ==   \* variant: thread.rsp left zero
    [state |-> "Ready", root |-> root, foreign |-> foreign,
     rsp |-> [stack |-> slot, depth |-> 0], interrupt_rsp |-> None]
NewThread(slot, root, foreign) ==
    [state |-> "Ready", root |-> root, foreign |-> foreign,
     rsp |-> [stack |-> slot, depth |-> 1], interrupt_rsp |-> None]

(* create_thread; when the early heap is exhausted nothing changes. *)
CreateThread(root, foreign) ==
    LET slot == Min(FreeSlots)
    IN  /\ cpu.mode = "boot"
        /\ FreeSlots # {}
        /\ stacks' = [stacks EXCEPT ![slot] = <<[kind |-> "initial", thread |-> slot]>>]
        /\ threads' = [threads EXCEPT ![slot] = NewThread(slot, root, foreign)]
        /\ ready' = Enqueue(ready, slot)
        /\ UNCHANGED <<current, syscall_rsp, rsp0, cr3, cpu, yielded>>

(* enter_user_mode; the slot stays in the ready queue.  A root of 0 is not *)
(* loaded.                                                                 *)
LoadRoot(root) == IF root = None THEN cr3 ELSE root
EnterUserMode(slot) ==
    /\ cpu.mode = "boot" /\ threads[slot] # None /\ ~threads[slot].foreign
    /\ threads' = [threads EXCEPT ![slot].state = "Running"]
    /\ current' = slot
    /\ cr3' = LoadRoot(threads[slot].root)
    /\ syscall_rsp' = slot
    /\ rsp0' = slot
    /\ cpu' = Executes("ring3", slot)
    /\ UNCHANGED <<ready, stacks, yielded>>

(* enter_interpreter: the interpreter runs on the boot stack, in ring 0. *)
EnterInterpreter(slot) ==
    /\ cpu.mode = "boot" /\ threads[slot] # None /\ threads[slot].foreign
    /\ threads' = [threads EXCEPT ![slot].state = "Running"]
    /\ current' = slot
    /\ cpu' = Executes("interpreter", slot)
    /\ UNCHANGED <<ready, stacks, syscall_rsp, rsp0, cr3, yielded>>

-----------------------------------------------------------------------------
(* Switching. *)

FrameAt(contents, p) ==
    IF p.depth <= Len(contents[p.stack]) THEN contents[p.stack][p.depth] ELSE None

(* What executes once switch has loaded the stack pointer p: a new thread  *)
(* starts at its entry point in ring 0, a thread that yielded returns from *)
(* its system call, one that exited halts.  Any other frame sends the ret  *)
(* to whatever word lies there, and the code of a foreign thread is not    *)
(* code for this processor.                                                *)
Resumed(contents, p) ==
    LET frame == FrameAt(contents, p)
    IN  IF frame = None THEN Executes("undefined", None)
        ELSE CASE frame.kind = "initial" /\ ~threads[frame.thread].foreign ->
                      Executes("ring0", frame.thread)
               [] frame.kind = "switch" ->
                      Executes(IF p.stack = Boot THEN "interpreter" ELSE "ring3", frame.thread)
               [] frame.kind = "exiting" -> Executes("halted", None)
               [] OTHER -> Executes("undefined", None)

(* The thread table and queue after schedule takes slot next: next becomes *)
(* Running first, so when it is also the current thread it ends up Ready.  *)
Switched(table, next, saved) ==
    LET running == [table EXCEPT ![next].state = "Running"]
    IN  [running EXCEPT
            ![current].rsp = saved,
            ![current].state = IF running[current].state = "Exited" THEN @ ELSE "Ready"]

RequeuedAlways(table, next) == Enqueue(Dequeue(ready), current) \* variant: Exited too
Requeued(table, next) ==
    IF table[current].state = "Exited" /\ next # current
    THEN Dequeue(ready) ELSE Enqueue(Dequeue(ready), current)

(* schedule(), called with table as the threads and contents on the stacks *)
(* by code that runs on the stack of saved; switch pushes frame there.     *)
Schedule(table, contents, saved, frame, otherwise) ==
    LET next == NextSlot(ready)
        pushed == [contents EXCEPT ![saved.stack] =
                     IF saved.depth = 1 THEN <<frame>> ELSE <<@[1], frame>>]
        target == table[next].rsp
    IN  IF next = None
        THEN /\ threads' = table
             /\ stacks' = contents
             /\ cpu' = otherwise
             /\ UNCHANGED <<ready, current>>
        ELSE /\ threads' = Switched(table, next, saved)
             /\ ready' = Requeued(table, next)
             /\ current' = next
             /\ cpu' = Resumed(pushed, target)
             \* the stub pops the initial frame and calls over it
             /\ stacks' = IF cpu'.mode = "ring0"
                          THEN [pushed EXCEPT ![target.stack] = <<>>] ELSE pushed

(* The frame syscall_entry builds at SYSCALL_RSP. *)
InSyscall == [stacks EXCEPT ![syscall_rsp] = <<[kind |-> "syscall", thread |-> cpu.thread]>>]

Native == cpu.mode \in {"ring3", "ring0"}

(* Any NT call but NtDelayExecution.  SYSRET returns to ring 3. *)
Syscall ==
    /\ Native
    /\ IF syscall_rsp = None
       THEN cpu' = Executes("undefined", None) /\ UNCHANGED stacks
       ELSE cpu' = Executes("ring3", cpu.thread) /\ stacks' = InSyscall
    /\ UNCHANGED <<threads, ready, current, syscall_rsp, rsp0, cr3, yielded>>

(* NtDelayExecution: handle_delay_execution calls yield_current. *)
DelayExecution ==
    LET frame == [kind |-> "switch", thread |-> cpu.thread]
    IN  /\ \/ /\ cpu.mode = "interpreter"
              /\ Schedule(threads, stacks, [stack |-> Boot, depth |-> 1], frame, cpu)
           \/ /\ Native /\ syscall_rsp # None
              /\ Schedule(threads, InSyscall, [stack |-> syscall_rsp, depth |-> 2], frame,
                          Executes("ring3", cpu.thread))
        /\ yielded' = TRUE
        /\ UNCHANGED <<syscall_rsp, rsp0, cr3>>

(* thread_exit: a thread that runs in ring 0 returns to its stub. *)
ThreadExit ==
    /\ cpu.mode = "ring0"
    /\ Schedule([threads EXCEPT ![current].state = "Exited"], stacks,
                [stack |-> cpu.thread, depth |-> 1],
                [kind |-> "exiting", thread |-> cpu.thread],
                Executes("halted", None))
    /\ UNCHANGED <<syscall_rsp, rsp0, cr3, yielded>>

(* "Put it back": preempt took a thread that has no interrupt frame. *)
PutBackForgotten(queue, slot) == Dequeue(queue)     \* variant
PutBack(queue, slot) == Enqueue(Dequeue(queue), slot)

(* timer_interrupt_handler in ring 3, and preempt. *)
Timer ==
    LET contents == [stacks EXCEPT ![rsp0] = <<[kind |-> "interrupt", thread |-> cpu.thread]>>]
        live == threads[current].state # "Exited"
        table == IF live
                 THEN [threads EXCEPT ![current].state = "Ready",
                                      ![current].interrupt_rsp = [stack |-> rsp0, depth |-> 1]]
                 ELSE threads
        queue == IF live THEN Enqueue(ready, current) ELSE ready
        next == NextSlot(queue)
    IN  /\ cpu.mode = "ring3"
        /\ stacks' = contents
        /\ IF next = None
           THEN threads' = table /\ ready' = queue /\ UNCHANGED <<current, rsp0, cpu>>
           ELSE IF table[next].interrupt_rsp = None
           THEN /\ threads' = table
                /\ ready' = PutBack(queue, next)
                /\ UNCHANGED <<current, rsp0, cpu>>
           ELSE /\ threads' = [table EXCEPT ![next].state = "Running"]
                /\ ready' = Dequeue(queue)
                /\ current' = next
                /\ rsp0' = next
                /\ LET frame == FrameAt(contents, table[next].interrupt_rsp)
                   IN  cpu' = IF frame # None /\ frame.kind = "interrupt"
                              THEN Executes("ring3", frame.thread)
                              ELSE Executes("undefined", None)
        /\ UNCHANGED <<syscall_rsp, cr3, yielded>>

SchedNext ==
    \/ \E root \in Roots \cup {None}, foreign \in BOOLEAN : CreateThread(root, foreign)
    \/ \E slot \in Slots : EnterUserMode(slot) \/ EnterInterpreter(slot)
    \/ Syscall
    \/ DelayExecution
    \/ ThreadExit
    \/ Timer

SchedSpec == SchedInit /\ [][SchedNext]_vars

-----------------------------------------------------------------------------
SchedTypeOK ==
    /\ threads \in [Slots -> Threads \cup {None}]
    /\ ready \in [Slots -> Slots \cup {None}]
    /\ current \in Slots \cup {None}
    /\ \A s \in Stacks : \A i \in 1 .. Len(stacks[s]) : i <= 2 /\ stacks[s][i] \in Frames
    /\ {syscall_rsp, rsp0} \subseteq Slots \cup {None}
    /\ cr3 \in Roots \cup {None}
    /\ cpu \in [mode : Modes, thread : Slots \cup {None}]

(* Each of these follows a sentence of the source's own comments. *)

(* context_switch.rs on switch: "Both pointers must point to valid, owned  *)
(* stacks."  No switch loads a stack pointer below which the frame it was  *)
(* saved for is gone.                                                      *)
SwitchTargetsIntact == cpu.mode # "undefined"

(* syscall.rs on SYSCALL_RSP: "The scheduler updates this to the current   *)
(* thread's kernel stack before entering user mode."                       *)
SyscallStackFollowsThread == cpu.mode = "ring3" => syscall_rsp = cpu.thread

(* gdt.rs on set_rsp0: called "whenever the scheduler switches to a        *)
(* different thread, so that interrupts always arrive on the current       *)
(* thread's kernel stack".                                                 *)
Rsp0FollowsThread == cpu.mode = "ring3" => rsp0 = cpu.thread

(* scheduler.rs on create_thread: page_table_root "must be loaded before   *)
(* this thread runs natively".                                             *)
Cr3FollowsThread == Native => cr3 = threads[cpu.thread].root    \* None: none to load

(* scheduler.rs: the scheduler "switches between the kernel idle context   *)
(* and ready Windows threads", whose indices "the ready queue holds".  A   *)
(* thread that is Ready is queued, or is the one that runs.                *)
ReadyThreadsAreQueued ==
    \A s \in Slots : threads[s] # None /\ threads[s].state = "Ready" =>
        s = current \/ \E i \in Slots : ready[i] = s

-----------------------------------------------------------------------------
(* Whatever the timer and other system calls do, until the first           *)
(* NtDelayExecution the thread that was entered is the one that runs and   *)
(* that with_current_thread finds, on its own stacks and page table, and   *)
(* no thread drops out of the queue although preempt queues the running    *)
(* thread a second time and ignores that the queue may be full.            *)
UntilFirstYield ==
    ~yielded =>
        /\ SwitchTargetsIntact
        /\ SyscallStackFollowsThread /\ Rsp0FollowsThread /\ Cr3FollowsThread
        /\ ReadyThreadsAreQueued
        /\ cpu.thread = current

(* Every slot that schedule, preempt or with_current_thread dereferences   *)
(* has been written: thread_mut never exposes an uninitialised Thread.     *)
OnlyInitialisedThreads ==
    \A s \in {current} \cup {ready[i] : i \in Slots} : s # None => threads[s] # None

(* A thread that exited never runs again: thread_exit marks it before      *)
(* schedule, which takes the next thread before it looks at the mark, and  *)
(* the queue holds no other entry of it.                                   *)
ExitedStaysExited ==
    [][\A s \in Slots : threads[s] # None /\ threads[s].state = "Exited"
                            => threads'[s] = threads[s]]_vars

(* The array with its shifts and duplicate entries is a FIFO queue without *)
(* holes: the array up to its last entry.                                  *)
UpToLast(array) ==
    [n \in 1 .. (IF Full(array) = {} THEN 0 ELSE Max(Full(array)) + 1) |-> array[n - 1]]
Queue == UpToLast(ready)
Fifo == INSTANCE ReadyQueue WITH queue <- Queue, Capacity <- MAX_THREADS
FifoSpec == Fifo!Spec

=============================================================================
