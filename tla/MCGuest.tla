------------------------------ MODULE MCGuest ------------------------------
(* Guest programs: a few instructions of each form and of each operand.    *)
EXTENDS Guest

(* rcx points at a word; r9 holds a bit pattern in both halves. *)
MCRegs == [r \in 0 .. 15 |->
             CASE r = 1 -> <<0, 2000>> [] r = 8 -> <<3, 4>> [] r = 9 -> <<-5, 6>> [] OTHER -> Zero]
MCWords == {Zero, <<0, 70>>}
MCStatuses == {0, -1073741811}      \* Success and InvalidParameter

Data == <<"data", 3000>>
MCProgram ==
    {[op |-> "nop"], [op |-> "xchg"], [op |-> "ret"], [op |-> "syscall"]}
    \cup [op : {"jmp"}, short : BOOLEAN, target : {90, 120}]
    \cup [op : {"call"}, target : {90, 120}]
    \cup [op : {"mov"}, wide : {FALSE}, reg : {0, 9}, value : {5, -3}]
    \cup [op : {"mov"}, wide : {TRUE}, reg : {0, 9}, value : {<<-7, 5>>}]
    \cup [op : {"store"}, wide : BOOLEAN, to : {<<"reg", 9>>, <<"at", 1>>}, value : {-3}]
    \cup [op : {"store"}, wide : {TRUE}, to : {<<"data", 4000>>}, value : {7}]
    \cup [op : {"lea"}, wide : BOOLEAN, reg : {0, 9}, from : {Data}]
    \cup [op : {"xor"}, wide : BOOLEAN, to : {<<"reg", 0>>, <<"at", 1>>, Data}, from : {<<"reg", 9>>}]
    \cup [op : {"xor"}, wide : BOOLEAN, to : {<<"reg", 9>>}, from : {<<"reg", 0>>, <<"at", 1>>, Data}]
    \cup [op : {"other"}, bytes : {<<102, 144>>, <<243>>, <<15, 11>>, <<72, 199, 200>>,
                                   <<72, 141, 1>>, <<72, 49, 4>>, <<72, 51, 65>>}]

(* The limits of every field.  Words of other instructions next to the     *)
(* ones decoded: BR, BLR, RETAA, B, MOVN, MOVK, ADR and BRK.               *)
MCArmWords ==
    {[op |-> "nop"], [op |-> "ret"]}
    \cup [op : {"svc", "hvc", "smc"}, imm : {0, 33, 65535}]
    \cup [op : {"bl"}, offset : {0, 4, -8, 134217724, -134217728}]
    \cup [op : {"movz"}, reg : {0, 31}, imm : {0, 4660, 65535}, shift : {0, 16, 48}]
    \cup [op : {"movz32"}, reg : {0, 31}, imm : {0, 4660, 65535}, shift : {0, 16}]
    \cup [op : {"adrp"}, reg : {0, 31}, page : {0, 1, -1, 1048575, -1048576}]
    \cup [op : {"other"}, word : {<<54815, 0>>, <<54847, 0>>, <<54879, 3071>>, <<5120, 0>>,
                                  <<37504, 0>>, <<62080, 0>>, <<4096, 0>>, <<54304, 0>>}]

(* No thread and no register value is told from another. *)
MCSymmetry == Permutations(Threads) \cup Permutations(Generations)

=============================================================================
