------------------------------ MODULE KeyQueue ------------------------------
(* What the keyboard buffer promises: a bounded queue of scancodes that    *)
(* drops the newest ones while it is full, and a reader that gets the      *)
(* others in the order they were pressed, each once.                       *)
EXTENDS Naturals, Sequences

CONSTANTS Scancodes, Capacity, Nothing

VARIABLES queue, taken      \* taken: what the reader got last

Init == queue = <<>> /\ taken = Nothing

Press(s) ==
    /\ queue' = IF Len(queue) < Capacity THEN Append(queue, s) ELSE queue
    /\ UNCHANGED taken

Take == queue # <<>> /\ taken' = Head(queue) /\ queue' = Tail(queue)

Next == Take \/ \E s \in Scancodes : Press(s)
Spec == Init /\ [][Next]_<<queue, taken>>
=============================================================================
