----------------------------- MODULE X86Decode -----------------------------
(* The instruction-length decoder, crates/x86-decode. *)
EXTENDS Option, GuestWords

Invalid == [len |-> 0, kind |-> "invalid", jmp_offset |-> None]
Decoded(len, kind) == [Invalid EXCEPT !.len = len, !.kind = kind]
Jump(len, offset) == [len |-> len, kind |-> "jmp", jmp_offset |-> offset]

LegacyPrefixes == {102, 103, 46, 62, 38, 100, 101, 54, 240, 242, 243}

(* The position of the first byte that is no legacy prefix. *)
PrefixEnd(code) ==
    CHOOSE p \in 0 .. Len(code) :
        /\ \A q \in 0 .. p - 1 : At(code, q) \in LegacyPrefixes
        /\ p < Len(code) => At(code, p) \notin LegacyPrefixes

ShortOffsetUnsigned(byte) == byte           \* variant: not sign-extended
ShortOffset(byte) == AsI8(byte)

(* decode: an operand is read only if the buffer holds all of it. *)
DecodeX86(code) ==
    LET pos == PrefixEnd(code) + 1
        Has(n) == pos + n <= Len(code)
    IN  IF ~Has(0) THEN Invalid
        ELSE LET opcode == At(code, pos - 1)
             IN  CASE opcode = 144 -> Decoded(pos, "nop")
                   [] opcode = 195 -> Decoded(pos, "ret")
                   [] opcode = 235 /\ Has(1) -> Jump(pos + 1, ShortOffset(At(code, pos)))
                   [] opcode = 233 /\ Has(4) -> Jump(pos + 4, I32(code, pos))
                   [] opcode = 15 /\ Has(1) ->
                          IF At(code, pos) = 5 THEN Decoded(pos + 1, "syscall") ELSE Invalid
                   [] OTHER -> Invalid

(* step *)
StepX86(pc, code) == IF DecodeX86(code).len = 0 THEN None ELSE Plus(pc, DecodeX86(code).len)

=============================================================================
