------------------------------ MODULE MCLoader ------------------------------
(* Tables of two entries, so sixteen virtual pages.  The bootloader maps   *)
(* page 0 (to frame 0) through frames 1 to 4.  Images have their base at   *)
(* page 8, or at page 4, below the kernel's top-level entry as user stacks *)
(* are.  Pages have two cells.                                             *)
EXTENDS Loader

Table(a, b) == [i \in {0, 1} |-> IF i = 0 THEN a ELSE b]
MCKernelTables == [f \in 1 .. 4 |->
    CASE f = 1 -> Table(2, None)
      [] f = 2 -> Table(3, None)
      [] f = 3 -> Table(4, None)
      [] OTHER -> Table(0, None)]

At(va, vsize, offset, rsize) ==
    [va |-> va, virtual_size |-> vsize, raw_offset |-> offset, raw_size |-> rsize]

(* Like the fixture: one section, with less data than memory. *)
Fixture == [len |-> 203, mz |-> TRUE, pe_offset |-> 64, signature |-> TRUE,
            machine |-> "Amd64", opt_size |-> 60, magic |-> "PE32+", image_base |-> 16,
            entry |-> 2, image_size |-> 4, sections |-> <<At(2, 2, 200, 1)>>]
(* Two sections, the first with more data than memory, at a low base. *)
TwoSections == [Fixture EXCEPT !.len = 240, !.image_base = 8, !.image_size = 6,
                               !.sections = <<At(2, 1, 230, 2), At(4, 2, 232, 1)>>]
(* A section of two pages, linked at page 20, which is page 4 to the tables. *)
TwoPages == [Fixture EXCEPT !.image_base = 40, !.sections = <<At(0, 4, 200, 3)>>]

(* Linked at page 0, which the bootloader has mapped. *)
AtPageZero == [Fixture EXCEPT !.image_base = 0, !.sections = <<At(0, 2, 200, 1)>>]

MCFiles == {Fixture, TwoSections, TwoPages, AtPageZero,
            [Fixture EXCEPT !.sections = <<At(2, 3, 200, 1)>>],     \* longer than the image
            [TwoSections EXCEPT !.sections[2].va = 2],              \* overlapping
            [Fixture EXCEPT !.len = 200],           \* cut before the section's data
            [TwoSections EXCEPT !.len = 200],       \* cut in the section table
            [Fixture EXCEPT !.len = 100],           \* cut in the optional header
            [Fixture EXCEPT !.signature = FALSE]}
=============================================================================
