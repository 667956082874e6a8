----------------------------- MODULE GuestWords -----------------------------
(***************************************************************************)
(* The data of an interpreted guest.  A u64 is the pair of its upper and  *)
(* its lower half, each as the signed number with the same 32 bits.        *)
(* Memory is made of the 8-byte words the guest uses, by their addresses;  *)
(* addresses lie below 2^31, so that sums of them carry nothing over.      *)
(***************************************************************************)
EXTENDS Integers, Sequences, TLC, Bitwise

(* A byte of a little-endian number, and numbers read from a position of   *)
(* the code; positions count from 0, as in the source.                     *)
At(code, pos) == code[pos + 1]
AsI8(byte) == IF byte < 128 THEN byte ELSE byte - 256
I32(code, pos) ==
    At(code, pos) + 256 * At(code, pos + 1) + 65536 * At(code, pos + 2)
        + 16777216 * AsI8(At(code, pos + 3))

(* u64::from_le_bytes, u32 as u64, i32 as u64, and wrapping_add. *)
U64(code, pos) == <<I32(code, pos + 4), I32(code, pos)>>
ZeroExtended(n) == <<0, n>>
SignExtended(n) == <<IF n < 0 THEN -1 ELSE 0, n>>
Plus(word, n) == <<word[1], word[2] + n>>
Low(word) == word[2]
Zero == <<0, 0>>

(* The bytes of a number and of a u64, as an assembler writes them. *)
Bytes(n, width) == [k \in 1 .. width |-> (n \div 256 ^ (k - 1)) % 256]
Bytes64(word) == Bytes(word[2], 4) \o Bytes(word[1], 4)

Xored32(a, b) ==
    LET Magnitude(n) == IF n < 0 THEN -n - 1 ELSE n
        bits == Magnitude(a) ^^ Magnitude(b)
    IN  IF (a < 0) = (b < 0) THEN bits ELSE -bits - 1
Xored(v, w) == <<Xored32(v[1], w[1]), Xored32(v[2], w[2])>>

(* read_u64 and write_u64; a word never written holds zero. *)
ReadU64(mem, addr) == IF addr \in DOMAIN mem THEN mem[addr] ELSE Zero
WriteU64(mem, addr, value) == (addr :> value) @@ mem

=============================================================================
