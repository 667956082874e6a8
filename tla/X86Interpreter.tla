--------------------------- MODULE X86Interpreter ---------------------------
(***************************************************************************)
(* The interpreter for guests of another architecture than the host's,     *)
(* kernel/src/win32/abi/interpreter.rs, from the bytes at the program      *)
(* counter to the thread's registers and memory.  Each step finds some     *)
(* instruction of Program at the program counter, assembled; the processor *)
(* of X86Machine runs beside it.                                           *)
(***************************************************************************)
EXTENDS X86Decode, X86Machine

CONSTANTS
    Program,            \* the instructions a step may find
    Entry, Top,         \* entry point and top of the guest stack
    Regs,               \* the registers when the interpreter is entered
    Words,              \* what may lie above the stack
    Statuses,           \* what nt::dispatch may answer
    MaxSteps            \* bound of the model: instructions executed

VARIABLES
    thread,             \* what the interpreter keeps: rip, regs, mem, halted
    ideal,              \* history: the same, as the processor would have it
    fetched,            \* history: the last instruction, its place, bytes and successor
    exact,              \* history: no instruction was read otherwise than by a processor
    steps

x86_vars == <<thread, ideal, fetched, exact, steps>>

WINDOW == 15
Window(bytes) == bytes \o [k \in 1 .. WINDOW - Len(bytes) |-> 0]

(* run_x86_64_loop before its loop, for the thread enter_interpreter takes. *)
X86Init ==
    \E word \in Words :
        /\ thread = [rip |-> ZeroExtended(Entry),
                     regs |-> [Regs EXCEPT ![RSP] = ZeroExtended(Top)],
                     mem |-> ZeroExtended(Top) :> word, halted |-> FALSE]
        /\ ideal = thread
        /\ fetched = None
        /\ exact = TRUE
        /\ steps = 0

-----------------------------------------------------------------------------
(* Decoding. *)

(* The fourth bits a REX prefix gives, and the position after it. *)
RexPrefix(code) ==
    LET byte == At(code, 0)
        found == byte \div 16 = 4
        Bit(n) == found /\ (byte \div n) % 2 = 1
    IN  [w |-> Bit(8), r |-> Bit(4), b |-> Bit(1), pos |-> IF found THEN 1 ELSE 0]

GprUnextended(base, rex_ext) == base % 8        \* variant: REX ignored
Gpr(base, rex_ext) == (base % 8) + (IF rex_ext THEN 8 ELSE 0)

(* decode_modrm *)
Mod(byte) == byte \div 64
RegField(byte) == (byte \div 8) % 8
Rm(byte) == byte % 8

(* decode_modrm_operand: the position after the operand, and the operand;  *)
(* None for an addressing mode it does not support.                        *)
ModrmOperand(t, pos, code, modrm, rex_b) ==
    CASE Mod(modrm) = 3 -> [pos |-> pos, is |-> "reg", at |-> Gpr(Rm(modrm), rex_b)]
      [] Mod(modrm) = 0 /\ Rm(modrm) = 5 ->
             [pos |-> pos + 4, is |-> "addr", at |-> Plus(t.rip, pos + 4 + I32(code, pos))]
      [] Mod(modrm) = 0 /\ Rm(modrm) # 4 /\ Rm(modrm) # 5 ->
             [pos |-> pos, is |-> "addr", at |-> t.regs[Gpr(Rm(modrm), rex_b)]]
      [] OTHER -> None

Value(t, operand) ==
    IF operand.is = "reg" THEN t.regs[operand.at] ELSE ReadU64(t.mem, operand.at)
Assign(t, operand, value) ==
    IF operand.is = "reg" THEN [t EXCEPT !.regs[operand.at] = value]
    ELSE [t EXCEPT !.mem = WriteU64(@, operand.at, value)]
WriteReg(t, reg, value) == [t EXCEPT !.regs[reg] = value]

-----------------------------------------------------------------------------
(* Executing: the thread and the next program counter, None to stop. *)

Result(t, npc) == [thread |-> t, npc |-> npc]
Unsupported(t) == Result(t, None)

Ret(t) ==
    LET ra == ReadU64(t.mem, t.regs[RSP])
    IN  Result(WriteReg(t, RSP, Plus(t.regs[RSP], 8)), IF ra = Zero THEN None ELSE ra)

Call(t, pos, code) ==
    LET rsp == Plus(t.regs[RSP], -8)
        return == Plus(t.rip, pos + 4)
    IN  Result([WriteReg(t, RSP, rsp) EXCEPT !.mem = WriteU64(@, rsp, return)],
               Plus(return, I32(code, pos)))

(* B8 to BF: eight bytes with REX.W, else four, zero-extended. *)
MovImmediate(t, pos, code, rex) ==
    LET reg == Gpr(At(code, pos - 1), rex.b)
    IN  IF rex.w THEN Result(WriteReg(t, reg, U64(code, pos)), Plus(t.rip, pos + 8))
        ELSE Result(WriteReg(t, reg, ZeroExtended(I32(code, pos))), Plus(t.rip, pos + 4))

MovToOperandShort(t, pos, code, rex) ==         \* variant: two bytes without REX.W
    LET modrm == At(code, pos)
        to == ModrmOperand(t, pos + 1, code, modrm, rex.b)
        width == IF rex.w THEN 4 ELSE 2
    IN  IF RegField(modrm) # 0 \/ to = None THEN Unsupported(t)
        ELSE Result(Assign(t, to, SignExtended(I32(code, to.pos))), Plus(t.rip, to.pos + width))
MovToOperand(t, pos, code, rex) ==
    LET modrm == At(code, pos)
        to == ModrmOperand(t, pos + 1, code, modrm, rex.b)
    IN  IF RegField(modrm) # 0 \/ to = None THEN Unsupported(t)
        ELSE Result(Assign(t, to, SignExtended(I32(code, to.pos))), Plus(t.rip, to.pos + 4))

XorToOperand(t, pos, code, rex) ==
    LET modrm == At(code, pos)
        src == Gpr(RegField(modrm), rex.r)
        dst == ModrmOperand(t, pos + 1, code, modrm, rex.b)
    IN  IF dst = None THEN Unsupported(t)
        ELSE Result(Assign(t, dst, Xored(Value(t, dst), t.regs[src])), Plus(t.rip, dst.pos))

XorToRegister(t, pos, code, rex) ==
    LET modrm == At(code, pos)
        dst == Gpr(RegField(modrm), rex.r)
        src == ModrmOperand(t, pos + 1, code, modrm, rex.b)
    IN  IF src = None THEN Unsupported(t)
        ELSE Result(WriteReg(t, dst, Xored(t.regs[dst], Value(t, src))), Plus(t.rip, src.pos))

Lea(t, pos, code, rex) ==
    LET modrm == At(code, pos)
        end == Plus(t.rip, pos + 5)
    IN  IF Mod(modrm) # 0 \/ Rm(modrm) # 5 THEN Unsupported(t)
        ELSE Result(WriteReg(t, Gpr(RegField(modrm), rex.r), Plus(end, I32(code, pos + 1))), end)

(* dispatch_syscall; the call itself is the subject of other modules. *)
DispatchSyscall(t, return_pc, status) == Result(WriteReg(t, RAX, ZeroExtended(status)), return_pc)

(* execute_instruction *)
Execute(t, code, status) ==
    LET rex == RexPrefix(code)
        opcode == At(code, rex.pos)
        pos == rex.pos + 1
    IN  CASE opcode = 144 -> Result(t, Plus(t.rip, pos))
          [] opcode = 195 -> Ret(t)
          [] opcode = 235 -> Result(t, Plus(t.rip, pos + 1 + AsI8(At(code, pos))))
          [] opcode = 233 -> Result(t, Plus(t.rip, pos + 4 + I32(code, pos)))
          [] opcode = 232 -> Call(t, pos, code)
          [] opcode \in 184 .. 191 -> MovImmediate(t, pos, code, rex)
          [] opcode = 199 -> MovToOperand(t, pos, code, rex)
          [] opcode = 49 -> XorToOperand(t, pos, code, rex)
          [] opcode = 51 -> XorToRegister(t, pos, code, rex)
          [] opcode = 141 -> Lea(t, pos, code, rex)
          [] opcode = 15 /\ At(code, pos) = 5 -> DispatchSyscall(t, Plus(t.rip, pos + 1), status)
          [] OTHER -> Unsupported(t)

-----------------------------------------------------------------------------
(* Instructions the interpreter takes for others: operands of 32 bits are  *)
(* handled as 64, the displacement of a MOV of an immediate counts from    *)
(* before the immediate, and any 0x90 is a NOP.  A program is followed up  *)
(* to and including the first of these; from there on it is another        *)
(* program to the interpreter than to the processor.                       *)
Narrow(i) == i.op \in {"store", "xor", "lea"} /\ ~i.wide
Displaced(i) == i.op = "store" /\ i.to[1] = "data"
Misread(i) == Narrow(i) \/ Displaced(i) \/ i.op = "xchg"

(* One turn of run_x86_64_loop; halted is the hlt after it stops. *)
Turn(i, status) ==
    LET bytes == Assembled(i, thread.rip)
        done == Execute(thread, Window(bytes), status)
    IN  /\ ~thread.halted /\ exact /\ steps < MaxSteps
        /\ thread' = IF done.npc = None THEN [done.thread EXCEPT !.halted = TRUE]
                     ELSE [done.thread EXCEPT !.rip = done.npc]
        /\ ideal' = Processed(ideal, i, status)
        /\ fetched' = [insn |-> i, pc |-> thread.rip, bytes |-> bytes, npc |-> done.npc]
        /\ exact' = ~Misread(i)
        /\ steps' = steps + 1

X86Next == \E i \in Program, status \in Statuses : Turn(i, status)

-----------------------------------------------------------------------------
(* As long as a program has none of the instructions of Misread, the       *)
(* interpreter has the program counter, registers and memory of the        *)
(* processor: each encoding is taken apart as it was put together, with    *)
(* REX bits on the right fields, immediates extended to 64 bits as they    *)
(* should be, and calls and returns matched through the guest stack.       *)
RunsLikeTheProcessor == exact => thread = ideal

(* Even these instructions go wrong in their own operand only: the next    *)
(* program counter is right; operands of 32 bits have the right lower      *)
(* halves; the displaced word lies 4 bytes too low and is otherwise right; *)
(* the exchange, taken for a NOP, leaves all but its two registers right.  *)
LowHalves(f) == [x \in DOMAIN f |-> Low(f[x])]
DifferencesConfined ==
    ~exact =>
        LET i == fetched.insn
        IN  /\ thread.rip = ideal.rip /\ thread.halted = ideal.halted
            /\ \A r \in DOMAIN ideal.regs :
                   i.op # "xchg" \/ r \notin {RAX, R8} =>
                       Low(thread.regs[r]) = Low(ideal.regs[r])
            /\ ~Displaced(i) => LowHalves(thread.mem) = LowHalves(ideal.mem)
            /\ Displaced(i) /\ i.wide =>
                   LET written == Addr(ideal, i.to)
                   IN  thread.mem = WriteU64(
                           [a \in DOMAIN ideal.mem \ {written} |-> ideal.mem[a]],
                           Plus(written, -4), ideal.mem[written])

(* The instruction-length decoder agrees with the interpreter: it gives    *)
(* the instruction its length, jumps where the interpreter goes, and on a  *)
(* buffer that ends sooner decodes nothing.                                *)
DecodersAgree ==
    (fetched # None) =>
        LET code == Window(fetched.bytes)
            insn == DecodeX86(code)
        IN  (insn.len # 0) =>
                /\ insn.len = Len(fetched.bytes)
                /\ (fetched.npc # None) =>
                       CASE insn.kind = "jmp" -> fetched.npc = Plus(fetched.pc, insn.len + insn.jmp_offset)
                         [] insn.kind = "ret" -> TRUE
                         [] OTHER -> fetched.npc = StepX86(fetched.pc, code)
                /\ \A n \in 0 .. insn.len - 1 : DecodeX86(SubSeq(code, 1, n)) = Invalid

=============================================================================
