------------------------------ MODULE Aarch64 ------------------------------
(***************************************************************************)
(* The AArch64 decoder, crates/aarch64-decode, which the kernel exercises  *)
(* at every boot.  An opcode is its two halves <<high, low>>; the offset   *)
(* of ADRP is counted in pages.                                            *)
(***************************************************************************)
EXTENDS Option, Integers

CONSTANT ArmWords       \* instructions whose encodings are handed to decode

VARIABLE decoded        \* history: the instruction encoded, and what decode gave

ArmInit == decoded = None

-----------------------------------------------------------------------------
(* The architecture's encodings, of the six instructions decode has to     *)
(* invert and of some near them; other is any further word.                *)
Word16(i, high, low) ==         \* imm in bits 20 to 5
    <<high + i.imm \div 2048, low + 32 * (i.imm % 2048)>>

ArmEncoded(i) ==
    CASE i.op = "nop" -> <<54531, 8223>>
      [] i.op = "ret" -> <<54879, 32 * 30>>
      [] i.op = "svc" -> Word16(i, 54272, 1)
      [] i.op = "hvc" -> Word16(i, 54272, 2)
      [] i.op = "smc" -> Word16(i, 54272, 3)
      [] i.op = "bl" -> <<37888 + ((i.offset \div 262144) % 1024), (i.offset \div 4) % 65536>>
      [] i.op = "movz" -> Word16(i, 53888 + 2 * i.shift, i.reg)
      [] i.op = "movz32" -> Word16(i, 21120 + 2 * i.shift, i.reg)
      [] i.op = "adrp" ->
             LET high == (i.page \div 4) % 524288
             IN  <<36864 + 8192 * (i.page % 4) + high \div 2048, 32 * (high % 2048) + i.reg>>
      [] i.op = "other" -> i.word

-----------------------------------------------------------------------------
Imm16(high, low) == (high % 32) * 2048 + low \div 32

Signed(n, bits) == IF n < 2 ^ (bits - 1) THEN n ELSE n - 2 ^ bits
SignedBlWide(n) == Signed(n, 27)            \* variant: sign bit missed
SignedBl(n) == Signed(n, 26)

(* decode *)
DecodeA64(opcode) ==
    LET high == opcode[1]
        low == opcode[2]
    IN  CASE high = 54531 /\ low = 8223 -> [op |-> "nop"]
          [] high = 54879 /\ low \div 1024 = 0 -> [op |-> "ret"]
          [] high \div 32 = 1696 -> [op |-> "svc", imm |-> Imm16(high, low)]
          [] high \div 1024 = 37 ->
                 [op |-> "bl", offset |-> 4 * SignedBl((high % 1024) * 65536 + low)]
          [] (high % 32768) \div 128 = 165 ->
                 [op |-> "movz", reg |-> low % 32, imm |-> Imm16(high, low),
                  shift |-> 16 * ((high \div 32) % 4)]
          [] high \div 32768 = 1 /\ (high \div 256) % 32 = 16 ->
                 [op |-> "adrp", reg |-> low % 32,
                  page |-> Signed(4 * ((high % 256) * 2048 + low \div 32)
                                  + ((high \div 8192) % 4), 21)]
          [] OTHER -> [op |-> "unsupported"]

(* self_test calls decode for one opcode after another and logs what comes *)
(* back; here the opcodes are all those of ArmWords.                       *)
DecodeOne == \E i \in ArmWords : decoded' = [from |-> i, to |-> DecodeA64(ArmEncoded(i))]

-----------------------------------------------------------------------------
(* What decode makes of an instruction.  The crate's comment promises      *)
(* "Everything else is reported as `Instruction::Unsupported`", but HVC,   *)
(* SMC and the 32-bit MOVZ differ from SVC and MOVZ in bits decode does    *)
(* not look at.                                                            *)
Reading(i) ==
    CASE i.op \in {"hvc", "smc"} -> [i EXCEPT !.op = "svc"]
      [] i.op = "movz32" -> [i EXCEPT !.op = "movz"]
      [] i.op = "other" -> [op |-> "unsupported"]
      [] OTHER -> i

(* decode gives back each of the six instructions as it was encoded, every *)
(* field with its width and sign; the three just named it takes for their  *)
(* neighbours, with the same fields, and further words for none of the six.*)
DecodedAsEncoded == (decoded # None) => decoded.to = Reading(decoded.from)

=============================================================================
