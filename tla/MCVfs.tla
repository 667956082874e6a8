------------------------------- MODULE MCVfs -------------------------------
(* A filesystem of three nodes, two open files and pages of two bytes.     *)
EXTENDS Vfs

MCNames == {"a", "long"}
MCLongNames == {"long"}
MCBuffers == {<<1>>, <<1, 1, 2>>}
=============================================================================
