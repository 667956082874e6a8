----------------------------- MODULE FramePool -----------------------------
(***************************************************************************)
(* What the rest of the kernel may rely on when it calls                   *)
(* mm::frame_allocator::{init, allocate, free}: a pool of 4 KiB frames     *)
(* that hands out a free frame whenever there is one, reports None only    *)
(* when there is none, and takes back exactly what it handed out.  Nothing *)
(* is said of which frame is chosen nor of how the pool is represented.    *)
(***************************************************************************)
CONSTANTS
    None,               \* Option::None
    NoCall              \* ret when the last call was not an allocate

VARIABLES
    ready,              \* init has run
    free,               \* frames the pool can still hand out
    held,               \* frames handed out and not yet given back
    ret                 \* what the last call returned, if it was an allocate

vars == <<ready, free, held, ret>>

Init ==
    /\ ready = FALSE
    /\ free = {}
    /\ held = {}
    /\ ret = NoCall

(* init(regions): the frames of the memory map enter the pool, once. *)
Provide ==
    /\ ~ready
    /\ ready' = TRUE
    /\ UNCHANGED <<held, ret>>

(* allocate() = Some(f). *)
Grant ==
    \E f \in free :
        /\ free' = free \ {f}
        /\ held' = held \cup {f}
        /\ ret' = f
        /\ UNCHANGED ready

(* allocate() = None. *)
Refuse ==
    /\ free = {}
    /\ ret' = None
    /\ UNCHANGED <<ready, free, held>>

(* free(f) of a frame the caller holds. *)
Release ==
    \E f \in held :
        /\ held' = held \ {f}
        /\ free' = free \cup {f}
        /\ ret' = NoCall
        /\ UNCHANGED ready

Next == Provide \/ Grant \/ Refuse \/ Release

Spec == Init /\ [][Next]_vars

=============================================================================
