----------------------------- MODULE FileStore -----------------------------
(***************************************************************************)
(* What the in-memory filesystem promises to the callers of                *)
(* vfs::{open, read, write, close}: each node is a sequence of bytes of    *)
(* bounded length, each open file a cursor into one.  There are no frames, *)
(* no allocator and no sizes kept apart from the data.                     *)
(***************************************************************************)
EXTENDS Integers, Sequences

CONSTANTS
    None,               \* Option::None
    Capacity,           \* the largest file
    Handles,            \* indices of the open-file table
    Buffers,            \* buffers a caller may write
    Lengths             \* buffer lengths a caller may read into

VARIABLES
    content,            \* the bytes of each node
    cursor,             \* each open file, or None
    ret                 \* the last call and its result

vars == <<content, cursor, ret>>

Init ==
    /\ \A n \in DOMAIN content : content[n] = <<>>
    /\ cursor = [h \in Handles |-> None]
    /\ ret = [call |-> "none", value |-> None]

Open ==
    \E h \in Handles, n \in DOMAIN content, w \in BOOLEAN :
        /\ cursor[h] = None
        /\ cursor' = [cursor EXCEPT ![h] = [node |-> n, position |-> 0, writable |-> w]]
        /\ ret' = [call |-> "open", value |-> h]
        /\ UNCHANGED content

Close ==
    \E h \in Handles :
        /\ cursor[h] # None
        /\ cursor' = [cursor EXCEPT ![h] = None]
        /\ ret' = [call |-> "close", value |-> TRUE]
        /\ UNCHANGED content

(* A read returns the bytes at the cursor, cut off at the end of the file. *)
Read ==
    \E h \in Handles, n \in Lengths :
        /\ cursor[h] # None
        /\ LET data == content[cursor[h].node]
               p == cursor[h].position
               end == IF p + n < Len(data) THEN p + n ELSE Len(data)
           IN  ret' = [call |-> "read", value |-> SubSeq(data, p + 1, end)]
        /\ cursor' = [cursor EXCEPT ![h].position = @ + Len(ret'.value)]
        /\ UNCHANGED content

(* The first k bytes of buf laid over data from position p on. *)
Overlay(data, p, buf, k) ==
    [q \in 1 .. (IF p + k > Len(data) THEN p + k ELSE Len(data)) |->
        IF q > p /\ q <= p + k THEN buf[q - p] ELSE data[q]]

(* A write stores a prefix of the buffer: all of it, unless the file is    *)
(* full, or the call reports a failure.                                    *)
Write ==
    \E h \in Handles, buf \in Buffers : \E k \in 0 .. Len(buf) :
        /\ cursor[h] # None /\ cursor[h].writable
        /\ LET n == cursor[h].node
               p == cursor[h].position
           IN  /\ content' = [content EXCEPT ![n] = Overlay(@, p, buf, k)]
               /\ \/ /\ ret' = [call |-> "write", value |-> k]
                     /\ k = Len(buf) \/ p + k = Capacity
                  \/ ret' = [call |-> "failed", value |-> None]
        /\ cursor' = [cursor EXCEPT ![h].position = @ + k]

(* Calls on the name space, and calls that fail, leave the files alone. *)
Other ==
    /\ ret'.call \in {"create", "failed"}
    /\ UNCHANGED <<content, cursor>>

Next == Open \/ Close \/ Read \/ Write \/ Other

Spec == Init /\ [][Next]_vars

=============================================================================
