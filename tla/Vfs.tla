-------------------------------- MODULE Vfs --------------------------------
(***************************************************************************)
(* The in-memory filesystem, kernel/src/vfs/mod.rs.                        *)
(*                                                                         *)
(* A path is the sequence of the parts its '/' characters separate, so     *)
(* "/bin/x" is <<"", "bin", "x">> and "/" is <<"", "">>.  A page of memory *)
(* is a function from offsets to bytes; pages start out with whatever they *)
(* held before, which is never a byte some caller wrote.  The timer does   *)
(* not preempt kernel mode and no interrupt handler enters the VFS, so a   *)
(* call is one step; frame_allocator::allocate is its pool (FramePool).    *)
(***************************************************************************)
EXTENDS Option, Integers, Sequences, FiniteSets, FiniteSetsExt, Functions

CONSTANTS
    MAX_NODES,          \* 256
    MAX_OPEN_FILES,     \* 64
    FILE_DATA_FRAMES,   \* frames per file (16)
    PAGE,               \* bytes per frame (4096)
    Names,              \* path components
    LongNames,          \* those longer than MAX_NAME_LEN
    Byte,               \* byte values callers write
    Stale,              \* what an allocated page holds before it is written
    Frames,             \* physical frames
    Buffers,            \* buffers callers write
    Lengths             \* lengths callers read

Root == 0
NodeIds == 0 .. MAX_NODES - 1
FileHandles == 0 .. MAX_OPEN_FILES - 1
FrameIndices == 0 .. FILE_DATA_FRAMES - 1
Offsets == 0 .. PAGE - 1
Capacity == FILE_DATA_FRAMES * PAGE

Nodes == [kind : {"Directory", "File"}, parent : NodeIds \cup {None},
          name : Names \cup {"/"}]
OpenFiles == [node : NodeIds, position : Nat, writable : BOOLEAN]

ASSUME VfsAssumption ==
    /\ MAX_NODES \in Nat \ {0} /\ MAX_OPEN_FILES \in Nat
    /\ FILE_DATA_FRAMES \in Nat /\ PAGE \in Nat \ {0}
    /\ LongNames \subseteq Names /\ "/" \notin Names
    /\ Buffers \subseteq Seq(Byte) /\ Lengths \subseteq Nat
    /\ None \notin Nat /\ None \notin Frames
    /\ None \notin Nodes /\ None \notin OpenFiles

VARIABLES
    nodes,              \* NODES
    file_data,          \* FILE_DATA
    file_sizes,         \* FILE_SIZES
    open_files,         \* OPEN_FILES
    memory,             \* contents of the physical frames
    free_frames,        \* frames the frame allocator can still hand out
    ret                 \* the last call and its result

data_vars == <<file_data, file_sizes, memory, free_frames>>
vfs_vars == <<nodes, file_data, file_sizes, open_files, memory, free_frames, ret>>

Returned(call, value) == [call |-> call, value |-> value]
Failed == Returned("failed", None)

(* init() creates the root; everything else is zero-initialised. *)
VfsInit ==
    /\ nodes = [i \in NodeIds |->
                  IF i = Root THEN [kind |-> "Directory", parent |-> None, name |-> "/"]
                              ELSE None]
    /\ file_data = [i \in NodeIds |-> [k \in FrameIndices |-> None]]
    /\ file_sizes = [i \in NodeIds |-> 0]
    /\ open_files = [h \in FileHandles |-> None]
    /\ memory = [f \in Frames |-> [o \in Offsets |-> Stale]]
    /\ free_frames = Frames
    /\ ret = Returned("none", None)

-----------------------------------------------------------------------------
(* Paths and the name space. *)

Children(parent, name) ==
    {i \in NodeIds : nodes[i] # None /\ nodes[i].parent = parent /\ nodes[i].name = name}

FindChild(parent, name) ==
    IF Children(parent, name) = {} THEN None ELSE Min(Children(parent, name))

(* lookup ignores empty parts wherever they stand. *)
LookupStrict(path) ==       \* variant: only a leading '/' is skipped
    LET walk[i \in 0 .. Len(path)] ==
            IF i = 0 THEN Root
            ELSE IF walk[i - 1] = None \/ (path[i] = "" /\ i = 1) THEN walk[i - 1]
            ELSE FindChild(walk[i - 1], path[i])
    IN  walk[Len(path)]
Lookup(path) ==
    LET walk[i \in 0 .. Len(path)] ==
            IF i = 0 THEN Root
            ELSE IF walk[i - 1] = None \/ path[i] = "" THEN walk[i - 1]
            ELSE FindChild(walk[i - 1], path[i])
    IN  walk[Len(path)]

FreeNodes == {i \in NodeIds : nodes[i] = None}
FreeHandles == {h \in FileHandles : open_files[h] = None}

CanCreateUnchecked(parent, name) ==     \* variant: no find_child test
    name \notin LongNames /\ FreeNodes # {}
CanCreate(parent, name) ==
    /\ name \notin LongNames
    /\ FindChild(parent, name) = None
    /\ FreeNodes # {}

(* create(parent, name, kind). *)
NodesWith(parent, name, kind) ==
    [nodes EXCEPT ![Min(FreeNodes)] = [kind |-> kind, parent |-> parent, name |-> name]]

Create(parent, name, kind) ==
    /\ IF CanCreate(parent, name)
       THEN /\ nodes' = NodesWith(parent, name, kind)
            /\ ret' = Returned("create", Min(FreeNodes))
       ELSE UNCHANGED nodes /\ ret' = Failed
    /\ UNCHANGED <<open_files, data_vars>>

-----------------------------------------------------------------------------
(* Open files. *)

IsFile(node) == nodes[node] # None /\ nodes[node].kind = "File"

OpensWith(node, writable) ==
    [open_files EXCEPT ![Min(FreeHandles)] =
        [node |-> node, position |-> 0, writable |-> writable]]

(* open(node, writable). *)
Open(node, writable) ==
    /\ IF IsFile(node) /\ FreeHandles # {}
       THEN /\ open_files' = OpensWith(node, writable)
            /\ ret' = Returned("open", Min(FreeHandles))
       ELSE UNCHANGED open_files /\ ret' = Failed
    /\ UNCHANGED <<nodes, data_vars>>

(* close(handle). *)
Close(h) ==
    /\ open_files' = [open_files EXCEPT ![h] = None]
    /\ ret' = IF open_files[h] # None THEN Returned("close", TRUE) ELSE Failed
    /\ UNCHANGED <<nodes, data_vars>>

-----------------------------------------------------------------------------
(* File data. *)

Least(a, b) == IF a < b THEN a ELSE b
Greatest(a, b) == IF a < b THEN b ELSE a

(* The byte at position q of a node; an unallocated frame reads as zero. *)
ByteAt(node, q) ==
    LET frame == file_data[node][q \div PAGE]
    IN  IF frame = None THEN 0 ELSE memory[frame][q % PAGE]

ReadEndUnclamped(node, p, n) == Least(p + n, Capacity)   \* variant: size ignored
ReadEnd(node, p, n) == Greatest(p, Least(p + n, file_sizes[node]))

(* read(handle, buf) with a buffer of n bytes. *)
Read(h, n) ==
    LET file == open_files[h]
        end == ReadEnd(file.node, file.position, n)
    IN  /\ IF file = None
           THEN UNCHANGED open_files /\ ret' = Failed
           ELSE /\ open_files' = [open_files EXCEPT ![h].position = end]
                /\ ret' = Returned("read", [i \in 1 .. end - file.position |->
                                              ByteAt(file.node, file.position + i - 1)])
        /\ UNCHANGED <<nodes, data_vars>>

(* The outcomes of calling allocate() for each missing frame index in      *)
(* turn: distinct free frames until the pool is empty, and None from then. *)
Grants(missing) ==
    {got \in [missing -> free_frames \cup {None}] :
        /\ \A j, k \in missing : got[j] = got[k] /\ got[j] # None => j = k
        /\ \A j, k \in missing : j < k /\ got[j] = None => got[k] = None
        /\ (\E k \in missing : got[k] = None) => free_frames \subseteq Range(got)}

NewSizeTruncating(node, end) == end     \* variant: the size follows the cursor
NewSizeInclusive(node, end) == Greatest(file_sizes[node], end + 1)   \* variant
NewSize(node, end) == Greatest(file_sizes[node], end)

(* Where a write ends: at its goal, or where the first missing frame would *)
(* have begun.                                                             *)
WriteEndIgnoringFailure(p, goal, failed) == goal    \* variant
WriteEnd(p, goal, failed) ==
    IF failed = {} THEN goal ELSE Greatest(p, Min(failed) * PAGE)

PoolAfterLeavingFirst(got) ==   \* variant: one granted frame stays in the pool
    free_frames \ (Range(got) \ {CHOOSE f \in Range(got) : TRUE})
PoolAfter(got) == free_frames \ Range(got)

(* The loop of write.  It stops at the capacity of a file; when no frame   *)
(* is left it gives up, but the bytes that fit before that frame are       *)
(* stored, the position has advanced and the size has grown.               *)
WriteLoop(h, buf) ==
    LET node == open_files[h].node
        p == open_files[h].position
        goal == Least(p + Len(buf), Capacity)
        missing == {k \in {q \div PAGE : q \in p .. goal - 1} : file_data[node][k] = None}
    IN  \E got \in Grants(missing) :
          LET failed == {k \in missing : got[k] = None}
              end == WriteEnd(p, goal, failed)
          IN  /\ file_data' = [file_data EXCEPT ![node] =
                     [k \in FrameIndices |-> IF k \in missing THEN got[k] ELSE @[k]]]
              /\ free_frames' = PoolAfter(got)
              /\ memory' = [f \in Frames |-> [o \in Offsets |->
                     LET hits == {q \in p .. end - 1 :
                                    file_data'[node][q \div PAGE] = f /\ q % PAGE = o}
                     IN  IF hits = {} THEN memory[f][o] ELSE buf[Min(hits) - p + 1]]]
              /\ file_sizes' = [file_sizes EXCEPT ![node] = NewSize(node, end)]
              /\ open_files' = [open_files EXCEPT ![h].position = end]
              /\ ret' = IF failed = {} THEN Returned("write", end - p) ELSE Failed

(* write(handle, buf). *)
Write(h, buf) ==
    /\ IF open_files[h] # None /\ open_files[h].writable
       THEN WriteLoop(h, buf)
       ELSE UNCHANGED <<open_files, data_vars>> /\ ret' = Failed
    /\ UNCHANGED nodes

(* Callers: win32::self_test and the NT file system calls (NtFiles). *)
VfsNext ==
    \/ \E parent \in NodeIds, name \in Names, kind \in {"Directory", "File"} :
           nodes[parent] # None /\ Create(parent, name, kind)
    \/ \E node \in NodeIds, writable \in BOOLEAN : nodes[node] # None /\ Open(node, writable)
    \/ \E h \in FileHandles : Close(h)
    \/ \E h \in FileHandles, n \in Lengths : Read(h, n)
    \/ \E h \in FileHandles, buf \in Buffers : Write(h, buf)

VfsSpec == VfsInit /\ [][VfsNext]_vfs_vars

-----------------------------------------------------------------------------
VfsTypeOK ==
    /\ nodes \in [NodeIds -> Nodes \cup {None}]
    /\ file_data \in [NodeIds -> [FrameIndices -> Frames \cup {None}]]
    /\ file_sizes \in [NodeIds -> 0 .. Capacity]
    /\ open_files \in [FileHandles -> OpenFiles \cup {None}]
    /\ memory \in [Frames -> [Offsets -> Byte \cup {Stale}]]
    /\ free_frames \subseteq Frames

(* The nodes form a tree without homonyms: every node but the root has an  *)
(* older, existing parent, and no two children of a node share a name,     *)
(* although create tests for the name and takes a slot under two separate  *)
(* locks.                                                                  *)
NameSpaceIsTree ==
    \A i \in NodeIds : nodes[i] # None /\ i # Root =>
        /\ nodes[i].parent \in 0 .. i - 1
        /\ nodes[nodes[i].parent] # None
        /\ Children(nodes[i].parent, nodes[i].name) = {i}

(* No file has a hole and no cursor is past the end of its file, whatever  *)
(* mix of writers, failed allocations and full files led here: the branch  *)
(* of read for a "Sparse unallocated frame" is never taken.                *)
NoHoles ==
    /\ \A n \in NodeIds : \A q \in 0 .. file_sizes[n] - 1 : file_data[n][q \div PAGE] # None
    /\ \A h \in FileHandles : open_files[h] # None =>
           open_files[h].position <= file_sizes[open_files[h].node]

(* A frame belongs to one place of one file, or is free. *)
FramesPrivate ==
    \A n \in NodeIds, k \in FrameIndices : file_data[n][k] # None =>
        /\ file_data[n][k] \notin free_frames
        /\ \A m \in NodeIds, j \in FrameIndices :
               file_data[m][j] = file_data[n][k] => m = n /\ j = k

(* Frames, sizes and cursors together behave as plain byte sequences: a    *)
(* read returns exactly what was last written there through any handle,    *)
(* never what a frame held before, and a failed write is a shorter one.    *)
Contents == [n \in NodeIds |-> [q \in 1 .. file_sizes[n] |-> ByteAt(n, q - 1)]]
Store == INSTANCE FileStore WITH
             content <- Contents, cursor <- open_files, Handles <- FileHandles
StoreSpec == Store!Spec

=============================================================================
