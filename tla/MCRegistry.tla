----------------------------- MODULE MCRegistry -----------------------------
(* Four names with three paths, one cut off, for a table of two values;    *)
(* MCEarlyMemory has the memory maps.                                      *)
EXTENDS MCEarlyMemory, Registry, TLC

MCNames ==
    {[key |-> <<"a">>, value |-> <<"b">>], [key |-> <<"a">>, value |-> <<"c">>],
     [key |-> <<"a", "b">>, value |-> <<"c">>], [key |-> <<"a", "b">>, value |-> <<"d">>]}

MCData == Permutations(Data)
=============================================================================
