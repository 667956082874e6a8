-------------------------------- MODULE Pic --------------------------------
(***************************************************************************)
(* Interrupt routing: init and the end-of-interrupt part of the handlers   *)
(* of kernel/src/arch/x86_64/interrupts.rs over the two 8259 controllers.  *)
(*                                                                         *)
(* PIC1 has lines 0-7, PIC2 has 8-15 and hangs on line 2 of PIC1.  The     *)
(* handlers are interrupt gates: one runs to its iret before the next      *)
(* interrupt is taken, so delivery, handler and EOI are one step.          *)
(***************************************************************************)
EXTENDS Integers, FiniteSets, FiniteSetsExt

CONSTANTS
    Lines,              \* the lines some device of the machine raises
    FirmwareMasks       \* the pairs of masks the firmware may leave

ASSUME LinesAssumption ==
    /\ Lines \subseteq 0 .. 15 \ {2}
    /\ FirmwareMasks \subseteq (0 .. 255) \X (0 .. 255)

Cascade == 2

VARIABLES
    mode,               \* "off", "remapped", "opening", "on"; "fault"
    mask1, mask2,       \* interrupt mask registers: a 1 bit masks a line
    pending,            \* lines raised and not yet delivered
    service1, service2  \* in-service lines of PIC1 and PIC2

pic_vars == <<mode, mask1, mask2, pending, service1, service2>>

PicInit ==
    /\ mode = "off"
    /\ \E masks \in FirmwareMasks : mask1 = masks[1] /\ mask2 = masks[2]
    /\ pending = {} /\ service1 = {} /\ service2 = {}

Masked(mask, bit) == (mask \div 2 ^ bit) % 2 = 1

(* The masks init writes last. *)
Pic1MaskWithCascade == 248      \* variant: 0xF8
Pic1MaskWithoutTimer == 253     \* variant: 0xFD
Pic1Mask == 252                 \* 0xFC
Pic2Mask == 251                 \* 0xFB

(* init in three steps.  The IDT is loaded and remap_pic directs the lines *)
(* to it, which forgets what was in service and puts the firmware's masks  *)
(* back; until init_ps2_mouse is through, these decide what is delivered.  *)
RemapPic ==
    /\ mode = "off"
    /\ mode' = "remapped"
    /\ service1' = {} /\ service2' = {}
    /\ UNCHANGED <<mask1, mask2, pending>>

OpenPic1 ==
    /\ mode = "remapped"
    /\ mode' = "opening"
    /\ mask1' = Pic1Mask
    /\ UNCHANGED <<mask2, pending, service1, service2>>

OpenPic2 ==
    /\ mode = "opening"
    /\ mode' = "on"
    /\ mask2' = Pic2Mask
    /\ UNCHANGED <<mask1, pending, service1, service2>>

InitInterrupts == RemapPic \/ OpenPic1 \/ OpenPic2

(* A device raises its line. *)
Raise(irq) ==
    /\ mode # "fault"
    /\ pending' = pending \cup {irq}
    /\ UNCHANGED <<mode, mask1, mask2, service1, service2>>

(* 8259: the line of PIC1 a request comes through, and whether it passes   *)
(* the masks.                                                              *)
Line1(irq) == IF irq < 8 THEN irq ELSE Cascade
Passes(irq) == ~Masked(mask1, Line1(irq)) /\ (irq >= 8 => ~Masked(mask2, irq - 8))

(* Fixed priority: only a line above everything in service is delivered,   *)
(* and the highest one first; the lines of PIC2 rank where line 2 does.    *)
Before(a, b) == Line1(a) < Line1(b) \/ (Line1(a) = Line1(b) /\ a < b)
Deliverable(irq) ==
    /\ irq \in pending /\ Passes(irq)
    /\ \A s \in service1 : Line1(irq) < s
    /\ \A other \in pending : Passes(other) => ~Before(other, irq)

Handled == {0, 1, 12}           \* lines with an entry in the IDT

EndOfInterrupt(service) == IF service = {} THEN {} ELSE service \ {Min(service)}

(* The EOIs a handler sends: all to PIC1, the mouse handler to PIC2 too. *)
Eoi1MouseOnly(irq, service) ==      \* variant: PIC1 left without EOI
    IF irq >= 8 THEN EndOfInterrupt(service) ELSE service
Eoi1(irq, service) == EndOfInterrupt(service)

Interrupt(irq) ==
    /\ mode \in {"remapped", "opening", "on"} /\ Deliverable(irq)
    /\ pending' = pending \ {irq}
    /\ IF irq \in Handled
       THEN /\ service1' = Eoi1(irq, service1 \cup {Line1(irq)})
            /\ service2' = IF irq >= 8 THEN EndOfInterrupt(service2 \cup {irq}) ELSE service2
            /\ UNCHANGED mode
       ELSE mode' = "fault" /\ UNCHANGED <<service1, service2>>
    /\ UNCHANGED <<mask1, mask2>>

=============================================================================
