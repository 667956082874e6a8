------------------------------ MODULE Keyboard ------------------------------
(***************************************************************************)
(* The keyboard ring buffer of kernel/src/arch/x86_64/interrupts.rs and    *)
(* its consumer, the idle loop of kernel_main.                             *)
(*                                                                         *)
(* Interrupt handlers run between any two memory accesses of the loop, so  *)
(* each access of the loop to the ring is a step of its own; a handler is  *)
(* one step, since handlers do not nest.  There is no lock.                *)
(*                                                                         *)
(* The timer handler returns to the kernel with rax overwritten.  Which of *)
(* read_scancode's locals the build holds in rax when the timer strikes is *)
(* not known, so TimerInterrupt may destroy any one of them or none; what  *)
(* it does to the locals of handle_mouse and render is not modelled.       *)
(***************************************************************************)
EXTENDS Option, Integers, Sequences

CONSTANTS
    KEYBOARD_BUF_SIZE,  \* 32
    Scancodes,          \* what the controller sends: make and break codes
    Printable           \* the bytes read_char has a character for

PIC_EOI == 32           \* 0x20, what the timer handler leaves in rax

ASSUME KeyboardAssumption ==
    /\ KEYBOARD_BUF_SIZE \in 2 .. PIC_EOI
    /\ None \notin Scancodes

Indices == 0 .. KEYBOARD_BUF_SIZE - 1

VARIABLES
    buf,                \* KEYBOARD_BUF
    head,               \* KEYBOARD_HEAD, written by the loop only
    tail,               \* KEYBOARD_TAIL, written by the handler only
    step,               \* where the idle loop stands
    index,              \* read_scancode's copy of KEYBOARD_HEAD
    scancode,           \* read_scancode's local
    taken,              \* the scancode the loop last consumed
    clobbered           \* history: the timer destroyed a local in rax

ring_vars == <<buf, head, tail>>
local_vars == <<index, scancode, clobbered>>
kb_vars == <<ring_vars, step, local_vars, taken>>

KbInit ==
    /\ buf = [i \in Indices |-> None]   \* zeroed; never read before written
    /\ head = 0 /\ tail = 0
    /\ step = "check"
    /\ index = None /\ scancode = None /\ taken = None
    /\ clobbered = FALSE

Succ(i) == (i + 1) % KEYBOARD_BUF_SIZE

-----------------------------------------------------------------------------
(* Interrupts.  One that arrives while the processor is halted wakes it;   *)
(* one that arrives just before hlt does not.                              *)
Woken == IF step = "halted" THEN "check" ELSE step

HasRoomUnchecked == TRUE                        \* variant: overruns the head
HasRoom == Succ(tail) # head

(* keyboard_interrupt_handler: a scancode that finds the ring full is lost. *)
KeyboardInterrupt(s) ==
    /\ IF HasRoom
       THEN buf' = [buf EXCEPT ![tail] = s] /\ tail' = Succ(tail)
       ELSE UNCHANGED <<buf, tail>>
    /\ step' = Woken
    /\ UNCHANGED <<head, local_vars, taken>>

(* timer_interrupt_handler in kernel mode looks at CS through rax and puts *)
(* PIC_EOI there; the local the interrupted code held in it is lost.       *)
InRax(local) ==
    CASE local = "index" -> step \in {"compare", "fetch", "advance"}
      [] local = "scancode" -> step = "advance"
TimerInterrupt ==
    /\ \/ UNCHANGED local_vars
       \/ InRax("index") /\ index' = PIC_EOI /\ clobbered' = TRUE /\ UNCHANGED scancode
       \/ InRax("scancode") /\ scancode' = PIC_EOI /\ clobbered' = TRUE /\ UNCHANGED index
    /\ step' = Woken
    /\ UNCHANGED <<ring_vars, taken>>

-----------------------------------------------------------------------------
(* The idle loop: while let Some(ch) = read_char() { type_char(ch) }, then *)
(* handle_mouse and render, then halt_once.                                *)

(* read_scancode: KEYBOARD_HEAD is read ... *)
Check ==
    /\ step = "check"
    /\ index' = head
    /\ step' = "compare"
    /\ UNCHANGED <<ring_vars, scancode, clobbered, taken>>

(* ... compared with KEYBOARD_TAIL, and checked against the array's size. *)
Compare ==
    /\ step = "compare"
    /\ step' = CASE index = tail -> "mouse"
                 [] index # tail /\ index \in Indices -> "fetch"
                 [] OTHER -> "panicked"
    /\ index' = IF step' = "fetch" THEN index ELSE None
    /\ UNCHANGED <<ring_vars, scancode, clobbered, taken>>

(* KEYBOARD_BUF[KEYBOARD_HEAD]; a destroyed index reads behind the array. *)
Fetch ==
    /\ step = "fetch"
    /\ scancode' \in IF index \in Indices THEN {buf[index]} ELSE Scancodes
    /\ step' = "advance"
    /\ UNCHANGED <<ring_vars, index, clobbered, taken>>

(* KEYBOARD_HEAD moves on.  A scancode without a character makes read_char *)
(* return None, which ends the while loop although more may be buffered.   *)
Advance ==
    /\ step = "advance"
    /\ head' = Succ(index)
    /\ taken' = scancode
    /\ step' = IF scancode \in Printable THEN "check" ELSE "mouse"
    /\ index' = None /\ scancode' = None
    /\ UNCHANGED <<buf, tail, clobbered>>

(* handle_mouse and render touch none of this state. *)
MouseAndRender ==
    /\ step = "mouse"
    /\ step' = "halt"
    /\ UNCHANGED <<ring_vars, local_vars, taken>>

HaltOnce ==
    /\ step = "halt"
    /\ step' = "halted"
    /\ UNCHANGED <<ring_vars, local_vars, taken>>

IdleLoop == Check \/ Compare \/ Fetch \/ Advance \/ MouseAndRender \/ HaltOnce

-----------------------------------------------------------------------------
(* Head and tail move around the ring independently and without a lock,    *)
(* and still a scancode is consumed exactly once, in order, and only a     *)
(* full ring loses any: the slot being fetched is never overwritten.  This *)
(* is promised until a timer interrupt destroys a value that read_scancode *)
(* holds in rax, and no longer.                                            *)
Buffered == [i \in 1 .. (tail - head) % KEYBOARD_BUF_SIZE |->
               buf[(head + i - 1) % KEYBOARD_BUF_SIZE]]
Keys == INSTANCE KeyQueue WITH
            queue <- Buffered, Capacity <- KEYBOARD_BUF_SIZE - 1, Nothing <- None
KeyQueueSpec == Keys!Init /\ [][Keys!Next \/ clobbered']_<<Buffered, taken>>

=============================================================================
