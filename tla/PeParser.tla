------------------------------ MODULE PeParser ------------------------------
(***************************************************************************)
(* The PE parser, crates/pe-parser/src/lib.rs.  A file is a record of the  *)
(* header fields that the parser looks at, with the places of the headers  *)
(* and the length of the file as numbers; the file's byte at offset o, o   *)
(* past the headers, is told from others by o itself.                      *)
(***************************************************************************)
EXTENDS Option, Integers, Sequences, FiniteSetsExt

CONSTANT Panic          \* the outcome of a slice that ends past the file

Section == [va : Nat, virtual_size : Nat, raw_offset : Nat, raw_size : Nat]
PeFile == [len : Nat, mz : BOOLEAN, pe_offset : Nat, signature : BOOLEAN,
           machine : {"Amd64", "Arm64", "I386", "other"}, opt_size : Nat,
           magic : {"PE32", "PE32+", "other"}, image_base : Nat, entry : Nat,
           image_size : Nat, sections : Seq(Section)]

(* parse_pe: the length is checked up to the first eight bytes of the      *)
(* optional header; the fields read after that lie in its first sixty.     *)
HEADER_READ == 60
ParsePe(file) ==
    LET opt == file.pe_offset + 24
    IN  IF \/ file.len < 64 \/ ~file.mz
           \/ opt > file.len \/ ~file.signature
           \/ file.machine = "other"
           \/ opt + 8 > file.len
           \/ file.magic = "other"
        THEN None
        ELSE IF opt + HEADER_READ > file.len THEN Panic
        ELSE [machine |-> file.machine,
              entry_point |-> file.image_base + file.entry,
              image_base |-> file.image_base,
              image_size |-> file.image_size,
              num_sections |-> Len(file.sections),
              section_table_offset |-> opt + file.opt_size]

(* parse_section_header, of the i-th of the image's headers. *)
ParseSectionHeader(file, image, i) ==
    IF image.section_table_offset + 40 * i > file.len THEN None ELSE file.sections[i]

(* rva_to_file_offset: the first section whose raw data holds the address, *)
(* unless a header before it is cut off.                                   *)
RvaToFileOffset(file, image, rva) ==
    LET header(i) == ParseSectionHeader(file, image, i)
        decides(i) == \/ header(i) = None
                      \/ rva \in header(i).va .. header(i).va + header(i).raw_size - 1
        first == {i \in 1 .. image.num_sections : decides(i)}
    IN  IF first = {} \/ header(Min(first)) = None THEN None
        ELSE rva - header(Min(first)).va + header(Min(first)).raw_offset

=============================================================================
