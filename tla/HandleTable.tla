---------------------------- MODULE HandleTable ----------------------------
(***************************************************************************)
(* The object manager's handle table, kernel/src/win32/objects.rs.         *)
(*                                                                         *)
(* allocate puts the object into the first free slot but numbers its       *)
(* handle from a counter of its own; lookup and close find the slot from   *)
(* the number.  issued, closed and wrapped are history variables: the      *)
(* handles the callers hold (allocated, and not yet closed successfully)   *)
(* and what each stands for, whether any close has succeeded, and whether  *)
(* the counter, a u32, has come round to 0.                                *)
(***************************************************************************)
EXTENDS Option, Integers, FiniteSets, FiniteSetsExt, Functions

CONSTANTS
    MAX_HANDLES,        \* slots of the table (1024)
    HANDLE_VALUES,      \* 2^32: Handle is a u32
    Objects             \* what ObjectHeader.data may hold

Kinds == {"Process", "File"}        \* the kinds this kernel allocates
Headers == [kind : Kinds, data : Objects]
Slots == 0 .. MAX_HANDLES - 1

ASSUME HandleAssumption ==
    /\ MAX_HANDLES \in Nat \ {0}
    /\ HANDLE_VALUES \in Nat /\ MAX_HANDLES < HANDLE_VALUES
    /\ None \notin Headers

VARIABLES
    table,              \* HANDLE_TABLE
    next_handle,        \* NEXT_HANDLE
    issued,             \* history: handle -> header, for the handles held
    closed,             \* history: an object was closed
    wrapped             \* history: the counter has wrapped

ht_vars == <<table, next_handle, issued, closed, wrapped>>

HtInit ==
    /\ table = [s \in Slots |-> None]
    /\ next_handle = 1
    /\ issued = <<>>
    /\ closed = FALSE
    /\ wrapped = FALSE

(* The slot lookup and close use; the wrapping_sub of handle 0 gives the   *)
(* last slot, as % does here because MAX_HANDLES divides 2^64.             *)
SlotOfUnshifted(handle) == handle % MAX_HANDLES     \* variant: no - 1
SlotOf(handle) == (handle - 1) % MAX_HANDLES

FreeSlots == {s \in Slots : table[s] = None}

Extend(f, x, y) == [z \in DOMAIN f \cup {x} |-> IF z = x THEN y ELSE f[z]]

(* fetch_add(1) on the AtomicU32, which wraps. *)
NextHandleUnmoved == next_handle            \* variant: not counted
NextHandle == (next_handle + 1) % HANDLE_VALUES

(* allocate(kind, data), with a free slot. *)
AllocateHandle(kind, data) ==
    LET header == [kind |-> kind, data |-> data]
    IN  /\ FreeSlots # {}
        /\ table' = [table EXCEPT ![Min(FreeSlots)] = header]
        /\ next_handle' = NextHandle
        /\ issued' = Extend(issued, next_handle, header)
        /\ wrapped' = (wrapped \/ next_handle' = 0)
        /\ UNCHANGED closed

(* close(handle): true if the slot held an object. *)
CloseHandle(handle) ==
    /\ table[SlotOf(handle)] # None
    /\ table' = [table EXCEPT ![SlotOf(handle)] = None]
    /\ issued' = Restrict(issued, DOMAIN issued \ {handle})
    /\ closed' = TRUE
    /\ UNCHANGED <<next_handle, wrapped>>

HtNext ==
    \/ \E header \in Headers : AllocateHandle(header.kind, header.data)
    \/ \E handle \in 0 .. HANDLE_VALUES - 1 : CloseHandle(handle)

HtSpec == HtInit /\ [][HtNext]_ht_vars

-----------------------------------------------------------------------------
(* Until the counter has wrapped, after 2^32 - 1 allocations, every handle *)
(* held is one it has passed: no number is issued twice, and 0, which      *)
(* SlotOf takes for the last slot, never is.  Afterwards allocate does     *)
(* issue 0 and numbers that are still held.                                *)
HtTypeOK ==
    /\ table \in [Slots -> Headers \cup {None}]
    /\ next_handle \in 0 .. HANDLE_VALUES - 1
    /\ DOMAIN issued \subseteq 0 .. HANDLE_VALUES - 1
    /\ ~wrapped => DOMAIN issued \subseteq 1 .. next_handle - 1
    /\ \A handle \in DOMAIN issued : issued[handle] \in Headers
    /\ closed \in BOOLEAN /\ wrapped \in BOOLEAN

(* As long as nothing was ever closed, every handle resolves to its own    *)
(* object: the slot computed from the number is the slot allocate took.    *)
ResolvesUntilFirstClose ==
    ~closed =>
        \A handle \in DOMAIN issued : table[SlotOf(handle)] = issued[handle]

(* The comment on lookup: "Look up an object by handle."  A handle that is *)
(* held resolves to the object it was allocated for; for a program, the    *)
(* file it opened is the one it reads, writes and closes.                  *)
HandlesResolve ==
    \A handle \in DOMAIN issued : table[SlotOf(handle)] = issued[handle]

=============================================================================
