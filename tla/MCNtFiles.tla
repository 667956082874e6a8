----------------------------- MODULE MCNtFiles -----------------------------
(* Four nodes (one to create), two open files, three handle slots and four *)
(* handle numbers: the third file opened gets the number 0.                *)
EXTENDS NtFiles, TLC

FrameSymmetry == Permutations(Frames)

MCNames == {"bin", "test.exe", "a", "long"}
MCLongNames == {"long"}
MCPaths == {<<"", "bin", "test.exe">>, <<"", "">>, <<"", "a", "">>, <<"", "a">>,
            <<"", "a", "a">>, <<"long">>}
MCBuffers == {<<>>, <<2>>}
MCObjects == FileHandles \cup {ProcessObject}
=============================================================================
