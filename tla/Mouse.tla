------------------------------- MODULE Mouse -------------------------------
(***************************************************************************)
(* The PS/2 mouse: mouse_interrupt_handler of arch/x86_64/interrupts.rs    *)
(* assembles three-byte packets from single bytes, and the device sends    *)
(* them: first the answers to the two commands of init_ps2_mouse, which    *)
(* nobody reads there, then packets.  A byte can be lost: the keyboard     *)
(* handler reads the same port.  Bytes are signed, as the code takes them. *)
(***************************************************************************)
EXTENDS Integers, Sequences

CONSTANTS
    WIDTH, HEIGHT,      \* 1280 and 1024
    Start,              \* where the pointer is at boot: 100, 100
    Heads,              \* first bytes of packets: bit 3 set, buttons below
    Moves               \* movement bytes

ACK == -6               \* 0xFA
Bit3(byte) == (byte \div 8) % 2 = 1
Byte == -128 .. 127

ASSUME MouseAssumption ==
    /\ WIDTH \in Nat \ {0} /\ HEIGHT \in Nat \ {0}
    /\ Start \in [x : 0 .. WIDTH - 1, y : 0 .. HEIGHT - 1]
    /\ Heads \subseteq Byte /\ Moves \subseteq Byte
    /\ \A h \in Heads : Bit3(h)

VARIABLES
    packet,             \* MOUSE_PACKET, as far as it is filled
    pos,                \* MOUSE_X, MOUSE_Y
    btn,                \* MOUSE_BTN
    acks,               \* device: answers not yet sent
    phase,              \* device: bytes of the current packet already sent
    quiet,              \* device: none of its movement bytes had bit 3 set or was lost
    synced              \* history: such a packet went by, and no byte was lost since

Cycle == Len(packet)    \* MOUSE_CYCLE
handler_vars == <<packet, pos, btn>>
mouse_vars == <<packet, pos, btn, acks, phase, quiet, synced>>

MouseInit ==
    /\ packet = <<>>
    /\ pos = Start
    /\ btn = 0
    /\ acks = 2 /\ phase = 0 /\ quiet = FALSE /\ synced = FALSE

Unclamped(n, max) == n                          \* variant: clamp dropped
Clamp(n, max) == IF n < 0 THEN 0 ELSE IF n > max THEN max ELSE n

(* Outside a packet a byte without bit 3 is skipped. *)
NeverSkipped(byte) == FALSE                     \* variant: no wait for a start
Skipped(byte) == Cycle = 0 /\ ~Bit3(byte)

MouseInterrupt(byte) ==
    CASE Skipped(byte) -> UNCHANGED handler_vars
      [] ~Skipped(byte) /\ Cycle < 2 ->
            packet' = Append(packet, byte) /\ UNCHANGED <<pos, btn>>
      [] OTHER ->
            /\ pos' = [x |-> Clamp(pos.x + packet[2], WIDTH - 1),
                       y |-> Clamp(pos.y - byte, HEIGHT - 1)]
            /\ btn' = packet[1] % 8
            /\ packet' = <<>>

(* The device: what it sends next, and where that leaves it. *)
Sends == IF acks > 0 THEN {ACK} ELSE IF phase = 0 THEN Heads ELSE Moves

Sent(byte, lost) ==
    LET still == ~lost /\ (phase = 0 \/ (quiet /\ ~Bit3(byte)))
    IN  IF acks > 0 THEN acks' = acks - 1 /\ UNCHANGED <<phase, quiet, synced>>
        ELSE /\ phase' = (phase + 1) % 3
             /\ quiet' = still
             /\ synced' = (~lost /\ (synced \/ (phase = 2 /\ still)))
             /\ UNCHANGED acks

ByteArrives == \E byte \in Sends : Sent(byte, FALSE) /\ MouseInterrupt(byte)
ByteLost == \E byte \in Sends : Sent(byte, TRUE) /\ UNCHANGED handler_vars

-----------------------------------------------------------------------------
(* However the handler and the device got out of step (the two answers     *)
(* that init_ps2_mouse leaves behind see to it at boot), one packet whose  *)
(* movement bytes have bit 3 clear brings them together, and they stay     *)
(* together, whatever is sent, until a byte is lost: from then on the      *)
(* handler takes a byte for what the device meant it to be.                *)
MouseInStep == synced => Cycle = phase

=============================================================================
