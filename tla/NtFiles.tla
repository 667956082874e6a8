------------------------------ MODULE NtFiles ------------------------------
(***************************************************************************)
(* The NT file system calls, kernel/src/win32/nt.rs: NtCreateFile,         *)
(* NtReadFile, NtWriteFile and NtClose over the VFS and the handle table.  *)
(*                                                                         *)
(* A handler runs to its end before another thread runs (see Vfs), so each *)
(* is one step, with all the table and VFS changes it makes.  The guest    *)
(* pointers are taken to be mapped; an unmapped one makes a handler return *)
(* InvalidParameter before it changes anything.                            *)
(***************************************************************************)
EXTENDS Vfs, HandleTable

CONSTANTS
    Paths,              \* paths programs pass
    Strays,             \* handle values programs pass without holding them
    ProcessObject       \* the data of the boot process's object header

nt_vars == <<vfs_vars, ht_vars>>
file_vars == <<nodes, open_files, data_vars>>

ProcessHeader == [kind |-> "Process", data |-> ProcessObject]
FileHeader(h) == [kind |-> "File", data |-> h]

ASSUME NtAssumption ==
    /\ MAX_HANDLES > MAX_OPEN_FILES             \* 1024 and 64
    /\ MAX_NODES >= 3 /\ FILE_DATA_FRAMES >= 1
    /\ Objects = FileHandles \cup {ProcessObject} /\ ProcessObject \notin FileHandles
    /\ {"bin", "test.exe"} \subseteq Names \ LongNames /\ "" \notin Names
    /\ HANDLE_VALUES > 2
    /\ Paths \subseteq Seq(Names \cup {""}) \ {<<>>}
    /\ Strays \subseteq 0 .. HANDLE_VALUES - 1

(* The state self_test leaves to the first program: /bin/test.exe holds    *)
(* the fixture (here one byte of one frame), its files are closed again,   *)
(* and create_user_process has put the process into the handle table.      *)
NtInit == \E f \in Frames, b \in Byte :
    /\ nodes = [i \in NodeIds |->
           CASE i = Root -> [kind |-> "Directory", parent |-> None, name |-> "/"]
             [] i = 1    -> [kind |-> "Directory", parent |-> Root, name |-> "bin"]
             [] i = 2    -> [kind |-> "File", parent |-> 1, name |-> "test.exe"]
             [] OTHER    -> None]
    /\ file_data = [i \in NodeIds |-> [k \in FrameIndices |->
                        IF i = 2 /\ k = 0 THEN f ELSE None]]
    /\ file_sizes = [i \in NodeIds |-> IF i = 2 THEN 1 ELSE 0]
    /\ open_files = [h \in FileHandles |-> None]
    /\ memory = [g \in Frames |-> [o \in Offsets |-> IF g = f /\ o = 0 THEN b ELSE Stale]]
    /\ free_frames = Frames \ {f}
    /\ ret = Returned("none", None)
    /\ table = [s \in Slots |-> IF s = 0 THEN ProcessHeader ELSE None]
    /\ next_handle = 2
    /\ issued = [handle \in {1} |-> ProcessHeader]
    /\ closed = FALSE /\ wrapped = FALSE

Status(status) == ret' = Returned(status, None)

-----------------------------------------------------------------------------
(* parent(path) and file_name(path) split at the last '/'; without one the *)
(* parent is "/", which lookup resolves as it resolves the empty path.     *)
Parent(path) == SubSeq(path, 1, Len(path) - 1)
FileName(path) == path[Len(path)]

(* What open_vfs_file answers before it calls open. *)
Resolution(path, create) ==
    CASE Lookup(path) # None -> IF create THEN "ObjectNameCollision" ELSE "Found"
      [] ~create -> "ObjectNameNotFound"
      [] Lookup(Parent(path)) = None -> "ObjectNameNotFound"
      [] ~CanCreate(Lookup(Parent(path)), FileName(path)) -> "InvalidParameter"
      [] OTHER -> "Created"

(* vfs::open and then objects::allocate, on the nodes left by create.  A   *)
(* node just created stays when open fails.                                *)
OpenAndAllocate(node, kind, writable) ==
    IF kind = "File" /\ FreeHandles # {}
    THEN /\ open_files' = OpensWith(node, writable)
         /\ IF FreeSlots # {}
            THEN AllocateHandle("File", Min(FreeHandles)) /\ Status("Success")
            ELSE UNCHANGED ht_vars /\ Status("InvalidParameter")
    ELSE UNCHANGED <<open_files, ht_vars>> /\ Status("InvalidParameter")

(* handle_create_file: create implies write access. *)
NtCreateFile(path, create, write) ==
    LET resolution == Resolution(path, create)
    IN  \/ /\ resolution = "Found"
           /\ OpenAndAllocate(Lookup(path), nodes[Lookup(path)].kind, write)
           /\ UNCHANGED <<nodes, data_vars>>
        \/ /\ resolution = "Created"
           /\ nodes' = NodesWith(Lookup(Parent(path)), FileName(path), "File")
           /\ OpenAndAllocate(Min(FreeNodes), "File", TRUE)
           /\ UNCHANGED data_vars
        \/ /\ resolution \notin {"Found", "Created"}
           /\ Status(resolution)
           /\ UNCHANGED <<file_vars, ht_vars>>

IsFileObject(handle) ==
    LET header == table[SlotOf(handle)] IN header # None /\ header.kind = "File"

FileOf(handle) == table[SlotOf(handle)].data

(* handle_read_file; an empty buffer succeeds whatever the handle. *)
NtReadFile(handle, n) ==
    /\ CASE n = 0 -> Status("Success") /\ UNCHANGED file_vars
         [] n > 0 /\ IsFileObject(handle) -> Read(FileOf(handle), n)
         [] OTHER -> Status("InvalidParameter") /\ UNCHANGED file_vars
    /\ UNCHANGED ht_vars

(* handle_write_file. *)
NtWriteFile(handle, buf) ==
    /\ CASE buf = <<>> -> Status("Success") /\ UNCHANGED file_vars
         [] buf # <<>> /\ IsFileObject(handle) -> Write(FileOf(handle), buf)
         [] OTHER -> Status("InvalidParameter") /\ UNCHANGED file_vars
    /\ UNCHANGED ht_vars

(* close: the VFS file first, then the handle. *)
NtCloseKeepingFile(handle) ==       \* variant: vfs::close is not called
    IF IsFileObject(handle)
    THEN CloseHandle(handle) /\ Status("Success") /\ UNCHANGED file_vars
    ELSE Status("InvalidParameter") /\ UNCHANGED <<file_vars, ht_vars>>
NtClose(handle) ==
    IF IsFileObject(handle)
    THEN /\ open_files' = [open_files EXCEPT ![FileOf(handle)] = None]
         /\ CloseHandle(handle)
         /\ Status("Success")
         /\ UNCHANGED <<nodes, data_vars>>
    ELSE Status("InvalidParameter") /\ UNCHANGED <<file_vars, ht_vars>>

Passed == DOMAIN issued \cup Strays

NtNext ==
    \/ \E path \in Paths, create, write \in BOOLEAN : NtCreateFile(path, create, write)
    \/ \E handle \in Passed, n \in Lengths : NtReadFile(handle, n)
    \/ \E handle \in Passed, buf \in Buffers : NtWriteFile(handle, buf)
    \/ \E handle \in Passed : NtClose(handle)

NtSpec == NtInit /\ [][NtNext]_nt_vars

-----------------------------------------------------------------------------
(* The two tables agree, whatever handles programs pass, stale ones and    *)
(* ones that resolve to another object included: every file object holds   *)
(* an open VFS file of its own, every open VFS file has its object, and    *)
(* the boot process keeps its slot.  So create_file never opens a file for *)
(* which no handle is left, and close's ignored vfs::close never fails.    *)
FileObjectsMatchOpenFiles ==
    /\ table[0] = ProcessHeader
    /\ \A s \in Slots \ {0} : table[s] # None =>
           \E h \in FileHandles : table[s] = FileHeader(h) /\ open_files[h] # None
    /\ \A h \in FileHandles : open_files[h] # None =>
           \E s \in Slots : table[s] = FileHeader(h)
                            /\ \A t \in Slots : table[t] = FileHeader(h) => t = s
    /\ \A h \in FileHandles : open_files[h] # None => nodes[open_files[h].node].kind = "File"

(* Every node can be found again under its path: file_name and parent, the *)
(* tests in open_vfs_file and lookup's treatment of empty parts together   *)
(* never create a node that no lookup returns.                             *)
PathOf(i) ==
    LET path[j \in NodeIds] ==
            IF j = Root \/ nodes[j] = None THEN <<>>
            ELSE Append(path[nodes[j].parent], nodes[j].name)
    IN  path[i]
EveryNodeReachable == \A i \in NodeIds : nodes[i] # None => Lookup(PathOf(i)) = i

=============================================================================
