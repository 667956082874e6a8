------------------------------ MODULE Registry ------------------------------
(***************************************************************************)
(* The registry, kernel/src/win32/registry.rs, on the early heap, from     *)
(* which set_value takes a copy of the path at every call and never gives  *)
(* it back.  A name is a key and a value name, sequences of ASCII          *)
(* characters; the copies are taken as intact (see MemoryHasOneOwner).     *)
(***************************************************************************)
EXTENDS EarlyMemory, Sequences

CONSTANTS
    MAX_KEYS,           \* 256
    MAX_PATH,           \* 256: bytes format_path has room for
    Names,              \* [key, value] pairs
    Data                \* types and data, cut to 256 bytes, a value is set to

ASSUME RegistryAssumption == MAX_KEYS \in Nat /\ MAX_PATH \in Nat \ {0}

VARIABLES
    registry,           \* REGISTRY: slots with a path and data
    panicked,           \* the expect in leak_str failed
    last                \* history: path -> data of the last call that returned true

registry_vars == <<registry, panicked, last>>
everything == <<all_vars, registry_vars>>

RegistryInit ==
    /\ EarlyInit
    /\ registry = [i \in 1 .. MAX_KEYS |-> None]
    /\ panicked = FALSE
    /\ last = [path \in {} |-> None]

(* format_path: key, backslash, value, cut off where the buffer ends. *)
Cut(path) == SubSeq(path, 1, Min({MAX_PATH, Len(path)}))
FormatPath(name) == Cut(name.key \o <<"\\">> \o name.value)

(* None is Rust's: no entry of the table is equal to it. *)
ASSUME EntryAssumption ==
    \A name \in Names, data \in Data : [path |-> FormatPath(name), data |-> data] # None

SlotsOf(path) == {i \in DOMAIN registry : registry[i] # None /\ registry[i].path = path}
EmptySlots == {i \in DOMAIN registry : registry[i] = None}

(* The slot with the path, else an empty one. *)
CandidatesEmptyFirst(path) ==           \* variant: the two searches swapped
    IF EmptySlots # {} THEN EmptySlots ELSE SlotsOf(path)
Candidates(path) == IF SlotsOf(path) # {} THEN SlotsOf(path) ELSE EmptySlots

(* set_value: leak_str comes first, whatever becomes of the value. *)
SetValue(name, data) ==
    LET path == FormatPath(name)
        slots == Candidates(path)
    IN  /\ AllocEarly(Len(path), 1)
        /\ IF slots = {} THEN UNCHANGED <<registry, last>>
           ELSE /\ registry' = [registry EXCEPT ![Min(slots)] = [path |-> path, data |-> data]]
                /\ last' = [p \in DOMAIN last \cup {path} |-> IF p = path THEN data ELSE last[p]]
        /\ UNCHANGED panicked

HeapExhausted(name) ==
    /\ next + Len(FormatPath(name)) > limit
    /\ panicked' = TRUE
    /\ UNCHANGED <<all_vars, registry, last>>

GetValue(path) == IF SlotsOf(path) = {} THEN None ELSE registry[Min(SlotsOf(path))].data

RegistryNext ==
    /\ ~panicked
    /\ \/ EarlyNext /\ UNCHANGED registry_vars
       \/ \E name \in Names : (\E data \in Data : SetValue(name, data)) \/ HeapExhausted(name)

RegistrySpec == RegistryInit /\ [][RegistryNext]_everything

-----------------------------------------------------------------------------
(* get_value answers, for every name, with the data of the last set_value  *)
(* that returned true for its path, and None if there was none: a value    *)
(* set again is replaced where it is, one refused by a full table leaves   *)
(* the others alone, and names cut off alike share one value.              *)
RegistryAnswers ==
    \A name \in Names :
        LET path == FormatPath(name)
        IN  GetValue(path) = IF path \in DOMAIN last THEN last[path] ELSE None

=============================================================================
