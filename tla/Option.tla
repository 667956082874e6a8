------------------------------- MODULE Option -------------------------------
(* Rust's Option: None is a value that no Some(x) of these modules equals. *)
CONSTANT None
=============================================================================
