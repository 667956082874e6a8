------------------------------- MODULE Frames -------------------------------
(* The frame pool as its users see it (FramePool), in the order in which   *)
(* the bitmap allocator serves it: the lowest free frame first.  Frames    *)
(* are numbered, not addressed; number 0 is the null address.              *)
EXTENDS Integers, FiniteSets, FiniteSetsExt

CONSTANT Usable         \* numbers of the frames init made available

ASSUME UsableAssumption == Usable \subseteq Nat \ {0} /\ IsFiniteSet(Usable) /\ Usable # {}

VARIABLE free           \* frames whose bit is clear

(* What n calls of allocate take; fewer than n when the pool runs dry. *)
Lowest(n) == {f \in free : Cardinality({g \in free : g < f}) < n}

(* free_frame ignores numbers outside the managed range only. *)
Managed(f) == Min(Usable) <= f /\ f <= Max(Usable)

=============================================================================
