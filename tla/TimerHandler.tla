---------------------------- MODULE TimerHandler ----------------------------
(***************************************************************************)
(* What timer_interrupt_handler of kernel/src/arch/x86_64/interrupts.rs    *)
(* does to the registers.  The code it interrupts keeps a value of its own *)
(* in every register; a register's value is named by thread, register and  *)
(* generation, so values that get into a wrong register or thread show.    *)
(* Which thread preempt chooses is the subject of Scheduler; here it may   *)
(* be any that has an interrupt frame.                                     *)
(***************************************************************************)
EXTENDS Option, Integers

CONSTANTS
    Threads,            \* threads that run in ring 3
    Generations         \* bound of the model: values a register may take

(* The order in which the handler pushes the registers, and pops them. *)
Pushed == <<"r15", "r14", "r13", "r12", "r11", "r10", "r9", "r8",
            "rbp", "rdi", "rsi", "rbx", "rdx", "rcx", "rax">>
PoppedSwapped == <<"rax", "rcx", "rdx", "rbx", "rdi", "rsi", "rbp",    \* variant
                   "r8", "r9", "r10", "r11", "r12", "r13", "r14", "r15">>
Popped == <<"rax", "rcx", "rdx", "rbx", "rsi", "rdi", "rbp",
            "r8", "r9", "r10", "r11", "r12", "r13", "r14", "r15">>
SAVED == 15             \* registers pushed
Registers == {Pushed[i] : i \in 1 .. SAVED}

ASSUME RegistersAssumption == Threads # {} /\ Generations # {}

VARIABLES
    running,            \* the thread that executes, in ring 3 or in a syscall
    ring,               \* 3 or 0
    regs,               \* the processor's registers
    frames,             \* thread -> interrupt frame, the word at rsp first
    before              \* history: thread -> registers when it was interrupted

th_vars == <<running, ring, regs, frames, before>>

Values(t, g) == [r \in Registers |-> <<t, r, g>>]
Kernel(n) == <<"kernel", "rax", n>>

ThInit ==
    /\ running \in Threads
    /\ ring = 3
    /\ \E g \in Generations : regs = Values(running, g)
    /\ frames = [t \in Threads |-> None]
    /\ before = [t \in Threads |-> None]

(* The program computes, and enters or leaves a system call. *)
Compute ==
    /\ \E g \in Generations : regs' = Values(running, g)
    /\ ring' \in {0, 3}
    /\ before' = [before EXCEPT ![running] = None]
    /\ UNCHANGED <<running, frames>>

(* The first instructions look at the interrupted CS through rax. *)
CsInRax(cpl) == [regs EXCEPT !["rax"] = Kernel(cpl)]

(* mov al, PIC_EOI: rax holds a small number by then, so all of it is 0x20. *)
EoiInRax(r) == [r EXCEPT !["rax"] = Kernel(32)]

(* The register pushed last lies at rsp, and is the first word popped. *)
Save(r) == [i \in 1 .. SAVED |-> r[Pushed[SAVED + 1 - i]]]
Load(frame) == [r \in Registers |-> frame[CHOOSE i \in 1 .. SAVED : Popped[i] = r]]

(* From ring 3: save, let preempt choose a frame, restore that one. *)
TimerInRing3(next) ==
    LET saved == [frames EXCEPT ![running] = Save(CsInRax(3))]
    IN  /\ ring = 3
        /\ saved[next] # None
        /\ frames' = saved
        /\ regs' = EoiInRax(Load(saved[next]))
        /\ running' = next
        /\ before' = [before EXCEPT ![running] = regs]
        /\ UNCHANGED ring

(* From ring 0: acknowledge the PIC and return. *)
TimerInRing0 ==
    /\ ring = 0
    /\ regs' = EoiInRax(CsInRax(0))
    /\ before' = [before EXCEPT ![running] = regs]
    /\ UNCHANGED <<running, ring, frames>>

ThNext == Compute \/ TimerInRing0 \/ \E next \in Threads : TimerInRing3(next)

ThSpec == ThInit /\ [][ThNext]_th_vars

-----------------------------------------------------------------------------
Resumes == before[running] # None

(* A thread that goes on after a timer interrupt, at once or after others  *)
(* ran, finds every register but rax as it left it: the pops mirror the    *)
(* pushes, and each thread gets its own frame.  rax is lost: it holds the  *)
(* interrupted CS before it is pushed, and the PIC command after the pop.  *)
OtherRegistersPreserved ==
    Resumes => \A r \in Registers \ {"rax"} : regs[r] = before[running][r]

=============================================================================
