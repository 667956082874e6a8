----------------------------- MODULE X86Machine -----------------------------
(***************************************************************************)
(* What a guest program means to a processor, against which the            *)
(* interpreter is compared: instructions with their operands, how an       *)
(* assembler writes each one down, and what the processor does for it.     *)
(* It follows the instruction set's manual, not the interpreter.           *)
(*                                                                         *)
(* An operand is <<"reg", r>>, <<"at", r>> (the word register r points at) *)
(* or <<"data", a>> (the word at a, addressed relative to rip).  wide says *)
(* that an instruction works on 64 bits, else on 32.                       *)
(***************************************************************************)
EXTENDS GuestWords

RAX == 0
RSP == 4
R8 == 8

(* Opcode and operand: a REX prefix where it says something, the opcode,   *)
(* ModR/M with number in its reg field, a displacement from the end of the *)
(* instruction, and an immediate operand.                                  *)
Encoded(pc, wide, opcode, number, operand, imm) ==
    LET w == IF wide THEN 1 ELSE 0
        rm == IF operand[1] = "data" THEN 5 ELSE operand[2]
        rex == 64 + 8 * w + 4 * (number \div 8) + (rm \div 8)
        head == (IF rex = 64 THEN <<>> ELSE <<rex>>) \o <<opcode>>
        modrm == 8 * (number % 8) + (rm % 8) + (IF operand[1] = "reg" THEN 192 ELSE 0)
        end == Low(pc) + Len(head) + 5 + Len(imm)
        disp == IF operand[1] = "data" THEN Bytes(operand[2] - end, 4) ELSE <<>>
    IN  head \o <<modrm>> \o disp \o imm

Assembled(i, pc) ==
    CASE i.op = "nop" -> <<144>>
      [] i.op = "xchg" -> <<65, 144>>           \* xchg r8d, eax
      [] i.op = "ret" -> <<195>>
      [] i.op = "syscall" -> <<15, 5>>
      [] i.op = "jmp" /\ i.short -> <<235>> \o Bytes(i.target - (Low(pc) + 2), 1)
      [] i.op = "jmp" -> <<233>> \o Bytes(i.target - (Low(pc) + 5), 4)
      [] i.op = "call" -> <<232>> \o Bytes(i.target - (Low(pc) + 5), 4)
      [] i.op = "mov" ->
             LET rex == 64 + (IF i.wide THEN 8 ELSE 0) + (i.reg \div 8)
             IN  (IF rex = 64 THEN <<>> ELSE <<rex>>) \o <<184 + (i.reg % 8)>>
                     \o (IF i.wide THEN Bytes64(i.value) ELSE Bytes(i.value, 4))
      [] i.op = "store" -> Encoded(pc, i.wide, 199, 0, i.to, Bytes(i.value, 4))
      [] i.op = "lea" -> Encoded(pc, i.wide, 141, i.reg, i.from, <<>>)
      [] i.op = "xor" /\ i.from[1] = "reg" -> Encoded(pc, i.wide, 49, i.from[2], i.to, <<>>)
      [] i.op = "xor" -> Encoded(pc, i.wide, 51, i.to[2], i.from, <<>>)
      [] i.op = "other" -> i.bytes

Addr(m, operand) ==
    IF operand[1] = "at" THEN m.regs[operand[2]] ELSE ZeroExtended(operand[2])
Get(m, operand) ==
    IF operand[1] = "reg" THEN m.regs[operand[2]] ELSE ReadU64(m.mem, Addr(m, operand))

(* A 32-bit result clears the upper half of a register, and leaves the     *)
(* upper half of a word in memory.                                         *)
Put(m, wide, operand, value) ==
    IF operand[1] = "reg"
    THEN [m EXCEPT !.regs[operand[2]] = IF wide THEN value ELSE ZeroExtended(Low(value))]
    ELSE LET old == Get(m, operand)
             new == IF wide THEN value ELSE <<old[1], Low(value)>>
         IN  [m EXCEPT !.mem = WriteU64(@, Addr(m, operand), new)]

(* The machine after instruction i; a system call answers with status.  A  *)
(* return to address zero ends the thread, as does an instruction the      *)
(* interpreter does not offer.                                             *)
Processed(m, i, status) ==
    LET next == Plus(m.rip, Len(Assembled(i, m.rip)))
        Goto(n, rip) == [n EXCEPT !.rip = rip]
        sp == m.regs[RSP]
        pop == [m EXCEPT !.regs[RSP] = Plus(sp, 8)]
        push == [m EXCEPT !.regs[RSP] = Plus(sp, -8), !.mem = WriteU64(@, Plus(sp, -8), next)]
        swapped == Put(Put(m, FALSE, <<"reg", RAX>>, m.regs[R8]), FALSE, <<"reg", R8>>, m.regs[RAX])
    IN  CASE i.op = "nop" -> Goto(m, next)
          [] i.op = "xchg" -> Goto(swapped, next)
          [] i.op = "ret" -> IF ReadU64(m.mem, sp) = Zero THEN [pop EXCEPT !.halted = TRUE]
                             ELSE Goto(pop, ReadU64(m.mem, sp))
          [] i.op = "syscall" -> Goto(Put(m, FALSE, <<"reg", RAX>>, ZeroExtended(status)), next)
          [] i.op = "jmp" -> Goto(m, ZeroExtended(i.target))
          [] i.op = "call" -> Goto(push, ZeroExtended(i.target))
          [] i.op = "mov" ->
                 LET value == IF i.wide THEN i.value ELSE ZeroExtended(i.value)
                 IN  Goto(Put(m, i.wide, <<"reg", i.reg>>, value), next)
          [] i.op = "store" -> Goto(Put(m, i.wide, i.to, SignExtended(i.value)), next)
          [] i.op = "lea" -> Goto(Put(m, i.wide, <<"reg", i.reg>>, Addr(m, i.from)), next)
          [] i.op = "xor" -> Goto(Put(m, i.wide, i.to, Xored(Get(m, i.to), Get(m, i.from))), next)
          [] i.op = "other" -> [m EXCEPT !.halted = TRUE]

=============================================================================
