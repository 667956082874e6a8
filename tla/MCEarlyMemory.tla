--------------------------- MODULE MCEarlyMemory ---------------------------
(* Memory maps with 8-byte frames and 4-bit words of 4 bytes, so that a    *)
(* word covers 4 frames and two words fill a frame; a heap of at least 32  *)
(* bytes.  Real blocks start at multiples of 1, 16 and a frame; here of 1, *)
(* 4 and 8.                                                                *)
EXTENDS EarlyMemory

Region(s, e, k) == [start |-> s, end |-> e, kind |-> k]

(* One region, aligned and unaligned ends; two regions around a hole; a    *)
(* reserved region below the usable ones; a bitmap of one full frame.      *)
MCMaps ==
    { {Region(16, 72, "Usable")},
      {Region(3, 45, "Usable")},
      {Region(0, 8, "Reserved"), Region(8, 36, "Usable"),
       Region(36, 50, "Reserved"), Region(50, 88, "Usable")},
      {Region(0, 62, "Usable"), Region(62, 70, "Reserved")} }

MCRequests == {[size |-> 5, align |-> 1], [size |-> 6, align |-> 4], [size |-> 8, align |-> 8]}
=============================================================================
