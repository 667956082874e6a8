--------------------------- MODULE VirtualMemory ---------------------------
(***************************************************************************)
(* NtAllocateVirtualMemory and NtFreeVirtualMemory, kernel/src/win32/nt.rs *)
(* allocate_virtual_memory and free_virtual_memory, over the frame pool.   *)
(***************************************************************************)
EXTENDS Frames

CONSTANTS
    PAGE,               \* 4096
    Sizes               \* region sizes programs ask for, in bytes

ASSUME VmAssumption == PAGE \in Nat \ {0} /\ Sizes \subseteq Nat

VARIABLE
    regions             \* history: regions programs hold, with their frames

vm_vars == <<free, regions>>

VmInit == free = Usable /\ regions = {}

PageCount(size) == (size + PAGE - 1) \div PAGE

(* allocate_virtual_memory: one frame at a time; the first is the base, a  *)
(* region of no pages has base 0.  When the frames run out the ones taken  *)
(* are not given back.                                                     *)
AllocateVm(size) ==
    LET taken == Lowest(PageCount(size))
    IN  /\ free' = free \ taken
        /\ IF Cardinality(taken) = PageCount(size)
           THEN regions' = regions \cup
                    {[base |-> IF taken = {} THEN 0 ELSE Min(taken),
                      size |-> size, frames |-> taken]}
           ELSE UNCHANGED regions

(* free_virtual_memory(base, size), for a region the program holds. *)
FreeVm(region) ==
    /\ free' = free \cup {f \in {region.base + i : i \in 0 .. PageCount(region.size) - 1} : Managed(f)}
    /\ regions' = regions \ {region}

VmNext ==
    \/ \E size \in Sizes : AllocateVm(size)
    \/ \E region \in regions : FreeVm(region)

VmSpec == VmInit /\ [][VmNext]_vm_vars

-----------------------------------------------------------------------------
(* The comment on free_virtual_memory: "Free virtual memory allocated by   *)
(* `allocate_virtual_memory`."  Freeing one region leaves the others, and  *)
(* memory that is not RAM, alone.                                          *)
RegionsKeepTheirFrames ==
    /\ free \subseteq Usable
    /\ \A r \in regions : r.frames \cap free = {}

=============================================================================
