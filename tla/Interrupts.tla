----------------------------- MODULE Interrupts -----------------------------
(***************************************************************************)
(* Interrupts in the idle kernel, from the device to the loop: a line is   *)
(* raised, the controllers of Pic deliver it under the masks and in-       *)
(* service state the code leaves, the handler of Keyboard runs and sends   *)
(* its end of interrupt, and the idle loop consumes what it stored.        *)
(***************************************************************************)
EXTENDS Pic, Keyboard

ASSUME DevicesAssumption == {0, 1} \subseteq Lines

vars == <<pic_vars, kb_vars>>

IrInit == PicInit /\ KbInit

(* Timer and keyboard handler; the mouse handler and an interrupt without  *)
(* one do not touch the keyboard ring, but do end a halt.                  *)
Handler(irq) ==
    CASE irq = 0 -> TimerInterrupt
      [] irq = 1 -> \E s \in Scancodes : KeyboardInterrupt(s)
      [] OTHER -> step' = Woken /\ UNCHANGED <<ring_vars, local_vars, taken>>

Initialise == InitInterrupts /\ UNCHANGED kb_vars
Device(irq) == Raise(irq) /\ UNCHANGED kb_vars
Take(irq) == Interrupt(irq) /\ Handler(irq)
Run == mode = "on" /\ IdleLoop /\ UNCHANGED pic_vars

IrNext ==
    \/ Initialise
    \/ \E irq \in Lines : Device(irq)
    \/ \E irq \in Lines : Take(irq)
    \/ Run

(* The processor runs, the PS/2 controller answers init_ps2_mouse, and the *)
(* timer keeps ticking; nobody is obliged to press a key.  Lines are not   *)
(* raised so fast that a lower one which keeps waiting never gets its turn.*)
IrSpec ==
    /\ IrInit /\ [][IrNext]_vars
    /\ WF_vars(Initialise) /\ WF_vars(Run)
    /\ WF_vars(Device(0)) /\ SF_vars(Take(0)) /\ SF_vars(Take(1))

-----------------------------------------------------------------------------
(* Once init is through, no line is delivered that has no entry in the     *)
(* IDT.  0xFB opens line 10, which nobody handles; only the closed cascade *)
(* line keeps it away.  Before, between remap_pic and the two mask writes, *)
(* the firmware's masks may let such a line through.                       *)
NoUnhandledVector == [][mode = "on" => mode' # "fault"]_vars

(* A key the controller signals is always taken: the mask lets it through, *)
(* and no handler, its own or the timer's, forgets an end of interrupt     *)
(* that would block it.  Only a vector without handler can prevent it.     *)
KeyboardServed == 1 \in pending ~> (1 \notin pending \/ mode = "fault")

(* Every buffered scancode is consumed eventually, also one that arrived   *)
(* between the last check and hlt, or that stands behind a scancode which  *)
(* ended the while loop: the next timer interrupt sees to it, unless one   *)
(* destroys what read_scancode holds in rax.                               *)
KeysReachTheLoop ==
    \A i \in Indices :
        (head = i /\ tail # i) ~> (head # i \/ clobbered \/ mode = "fault")

=============================================================================
