--------------------------- MODULE NtFilesProofs ---------------------------
(***************************************************************************)
(* Proofs about the NT file system calls, for every size of the handle     *)
(* table and of the VFS and whatever handles and paths programs pass.      *)
(***************************************************************************)
EXTENDS NtFiles, VfsProofs, HandleTableProofs

(* Steps that name no prover go to the SMT solver, with this many seconds. *)
USE SMTT(30)

(* Every node is found under its path: its parent is older, so has a path  *)
(* already, and is the only node of that parent with its name.             *)
LEMMA TreeIsReachable ==
    ASSUME WellOrdered
    PROVE  NameInv => EveryNodeReachable
  <1> SUFFICES ASSUME NameInv PROVE EveryNodeReachable
    OBVIOUS
  <1> DEFINE P == Names \cup {"/"}
             N == MAX_NODES - 1
             A == Seq(P)
             Path(v) == [j \in NodeIds |->
                            IF j = Root \/ nodes[j] = None THEN <<>>
                            ELSE Append(v[nodes[j].parent], nodes[j].name)]
             g == [j \in 1 .. N |-> [x \in A |->
                      IF nodes[j] = None THEN <<>> ELSE Append(x, nodes[j].name)]]
             up == [j \in 1 .. N |-> IF nodes[j] = None THEN 0 ELSE nodes[j].parent]
  <1>1. N \in Nat /\ NodeIds = 0 .. N /\ Root = 0
    BY VfsAssumption DEF NodeIds, Root
  <1>2. \A j \in NodeIds : nodes[j] # None =>
            /\ nodes[j].name \in P
            /\ j # Root => /\ nodes[j].parent \in 0 .. j - 1 /\ nodes[nodes[j].parent] # None
                           /\ Children(nodes[j].parent, nodes[j].name) = {j}
    BY Zenon DEF NameInv, NameSpaceIsTree, Nodes
  <1>3. up \in [1 .. N -> Nat] /\ \A j \in 1 .. N : up[j] < j
    BY <1>1, <1>2
  <1>4. g \in [1 .. N -> [A -> A]]
    <2>1. ASSUME NEW j \in 1 .. N, NEW x \in A
          PROVE  (IF nodes[j] = None THEN <<>> ELSE Append(x, nodes[j].name)) \in A
      BY <1>1, <1>2
    <2> QED
      BY <2>1, Zenon
  <1>5. PICK w : Solves(w, N, A, <<>>, g, up)
    <2>0. <<>> \in A
      OBVIOUS
    <2> HIDE DEF g, up, N, A
    <2>1. Recurrence(N, A, <<>>, g, up)
      BY <1>1, <1>3, <1>4, <2>0, Zenon DEF Recurrence
    <2> QED
      BY <2>1, RecursionExists
  <1>6. w = Path(w)
    <2>1. /\ w \in [0 .. N -> A] /\ w[0] = <<>>
          /\ \A j \in 1 .. N : w[j] = g[j][w[up[j]]]
      BY <1>5, Zenon DEF Solves
    <2>2. ASSUME NEW j \in 1 .. N
          PROVE  w[j] = IF nodes[j] = None THEN <<>> ELSE Append(w[nodes[j].parent], nodes[j].name)
      <3>1. up[j] \in 0 .. N
        BY <1>1, <1>3
      <3>2. w[up[j]] \in A
        BY <2>1, <3>1, Zenon
      <3>3. up[j] = IF nodes[j] = None THEN 0 ELSE nodes[j].parent
        OBVIOUS
      <3>4. g[j][w[up[j]]] = IF nodes[j] = None THEN <<>> ELSE Append(w[up[j]], nodes[j].name)
        BY <3>2, Zenon
      <3> HIDE DEF g, up
      <3> QED
        BY <2>1, <3>3, <3>4
    <2>3. ASSUME NEW j \in NodeIds
          PROVE  w[j] = IF j = Root \/ nodes[j] = None THEN <<>>
                        ELSE Append(w[nodes[j].parent], nodes[j].name)
      <3>1. j = 0 \/ j \in 1 .. N
        BY <1>1
      <3> QED
        BY <1>1, <2>1, <2>2, <3>1, Zenon
    <2>4. w = [j \in NodeIds |-> w[j]]
      BY <1>1, <2>1, Zenon
    <2> QED
      BY <2>3, <2>4, Zenon
  <1>7. PICK u : u = Path(u) /\ \A i \in NodeIds : PathOf(i) = u[i]
    <2> DEFINE path == CHOOSE v : v = Path(v)
    <2>1. path = Path(path)
      BY <1>6, Zenon
    <2>2. \A i \in NodeIds : PathOf(i) = path[i]
      BY Zenon DEF PathOf
    <2> QED
      BY <2>1, <2>2, Zenon
  <1> DEFINE Bad == {i \in NodeIds : nodes[i] # None /\ ~(u[i] \in A /\ Lookup(u[i]) = i)}
  <1>8. SUFFICES ASSUME Bad # {} PROVE FALSE
    BY <1>7, <1>8, Zenon DEF EveryNodeReachable
  <1>9. PICK i \in Bad : \A j \in Bad : i <= j
    <2>1. Bad \in SUBSET Nat
      BY <1>1
    <2> QED
      BY <1>8, <2>1, MinIsLeast, Zenon
  <1>10. i \in NodeIds /\ nodes[i] # None
    OBVIOUS
  <1>11. CASE i = Root
    <2>1. u[i] = <<>>
      BY <1>7, <1>10, <1>11
    <2>2. <<>> \in A /\ Len(<<>>) = 0
      OBVIOUS
    <2>3. PICK v : v[0] = Root /\ Lookup(<<>>) = v[Len(<<>>)]
      BY <2>2, LookupWalk, Zenon
    <2>4. Lookup(u[i]) = i
      BY <1>11, <2>1, <2>2, <2>3, Zenon
    <2> QED
      BY <1>9, <2>1, <2>2, <2>4, Zenon
  <1>12. CASE i # Root
    <2>1. PICK m \in 0 .. i - 1 : m = nodes[i].parent
      BY <1>2, <1>10, <1>12
    <2>2. PICK name \in P : name = nodes[i].name
      BY <1>2, <1>10
    <2>3. m \in NodeIds /\ nodes[m] # None /\ Children(m, name) = {i} /\ m < i
      <3>1. m \in NodeIds /\ m < i
        BY <1>1, <1>10, <2>1
      <3>2. nodes[nodes[i].parent] # None /\ Children(nodes[i].parent, nodes[i].name) = {i}
        BY <1>2, <1>10, <1>12, Zenon
      <3> QED
        BY <2>1, <2>2, <3>1, <3>2, Zenon
    <2>4. u[m] \in A /\ Lookup(u[m]) = m
      BY <1>1, <1>9, <2>3
    <2>5. u[i] = Append(u[m], name)
      BY <1>7, <1>10, <1>12, <2>1, <2>2, Zenon
    <2>6. /\ u[i] \in A /\ Len(u[i]) = Len(u[m]) + 1 /\ u[i][Len(u[i])] = name
          /\ \A j \in 1 .. Len(u[m]) : u[i][j] = u[m][j]
      BY <2>4, <2>5
    <2>7. Lookup(u[i]) = StepTo(Lookup(u[m]), u[i][Len(u[i])])
      BY <2>4, <2>6, LookupExtends, Zenon
    <2>8. Lookup(u[i]) = StepTo(m, name)
      BY <2>4, <2>6, <2>7, Zenon
    <2>9. m # None /\ name # ""
      <3>1. None \notin Nat /\ "" \notin Names /\ "" # "/"
        BY VfsAssumption, NtAssumption, Zenon
      <3>2. m # None
        <4>1. m \in Nat
          BY <1>1, <2>3
        <4> QED
          BY <3>1, <4>1, Zenon
      <3>3. name # ""
        BY <2>2, <3>1, Zenon
      <3> QED
        BY <3>2, <3>3, Zenon
    <2>10. StepTo(m, name) = Min({i})
      BY <2>3, <2>9, Zenon DEF StepTo, FindChild
    <2>11. Min({i}) = i
      BY <1>1 DEF Min
    <2> QED
      BY <1>9, <2>6, <2>8, <2>10, <2>11, Zenon
  <1> QED
    BY <1>11, <1>12

-----------------------------------------------------------------------------
(* The two tables.  FileObjectsMatchOpenFiles is inductive with the types  *)
(* of both components, once the node of an open file is known to exist.    *)

Match ==
    /\ FileObjectsMatchOpenFiles
    /\ \A h \in FileHandles : open_files[h] # None => nodes[open_files[h].node] # None

NtInv == VfsInv /\ Inv /\ Match

(* Handlers keep the nodes there are. *)
NodesStay == \A i \in NodeIds : nodes[i] # None => nodes'[i] = nodes[i]

LEMMA HeaderFacts ==
    /\ ProcessHeader \in Headers /\ ProcessHeader # None
    /\ \A h \in FileHandles : /\ FileHeader(h) \in Headers
                              /\ FileHeader(h) # None /\ FileHeader(h) # ProcessHeader
  <1>1. Objects = FileHandles \cup {ProcessObject} /\ None \notin Headers
    BY HandleAssumption, NtAssumption, Zenon
  <1>2. ProcessHeader \in Headers /\ \A h \in FileHandles : FileHeader(h) \in Headers
    BY <1>1 DEF ProcessHeader, FileHeader, Headers, Kinds
  <1>3. \A h \in FileHandles : FileHeader(h) # ProcessHeader
    BY DEF ProcessHeader, FileHeader
  <1> QED
    BY <1>1, <1>2, <1>3

LEMMA HandleSlots == ASSUME NEW handle \in 0 .. HANDLE_VALUES - 1 PROVE SlotOf(handle) \in Slots
  <1>1. MAX_HANDLES \in Nat \ {0} /\ HANDLE_VALUES \in Nat
    BY HandleAssumption
  <1>2. \A n \in Int, m \in Nat \ {0} : n % m \in 0 .. m - 1
    BY Z3
  <1>3. handle - 1 \in Int
    BY <1>1
  <1> QED
    BY <1>1, <1>2, <1>3 DEF SlotOf, Slots

(* A handle that resolves to a file object names an open file. *)
LEMMA FileObjects ==
    ASSUME HtTypeOK, FileObjectsMatchOpenFiles, NEW s \in Slots, table[s] # None,
           table[s].kind = "File"
    PROVE  /\ s # 0 /\ table[s].data \in FileHandles
           /\ table[s] = FileHeader(table[s].data) /\ open_files[table[s].data] # None
  <1>1. s # 0
    BY DEF FileObjectsMatchOpenFiles, ProcessHeader
  <1>2. PICK h \in FileHandles : table[s] = FileHeader(h) /\ open_files[h] # None
    BY <1>1 DEF FileObjectsMatchOpenFiles
  <1>3. table[s].data = h
    BY <1>2 DEF FileHeader
  <1> QED
    BY <1>1, <1>2, <1>3

(* There are more slots for objects than open files: if every slot holds   *)
(* one of the files other than free, two hold the same.  The lemmas below  *)
(* take this as a hypothesis; it is proved, from the library, at the end.  *)
ObjectSlots == 1 .. MAX_HANDLES - 1
Crowded ==
    \A free \in FileHandles : \A f \in [ObjectSlots -> FileHandles \ {free}] :
        \E x, y \in ObjectSlots : x # y /\ f[x] = f[y]

(* So create_file finds a slot for the file it opened. *)
LEMMA SlotForEveryFile ==
    ASSUME Crowded, HtTypeOK, FileObjectsMatchOpenFiles, FreeHandles # {}
    PROVE  FreeSlots # {}
  <1> SUFFICES ASSUME FreeSlots = {} PROVE FALSE
    OBVIOUS
  <1>1. PICK free \in FileHandles : open_files[free] = None
    BY DEF FreeHandles
  <1>2. ASSUME NEW s \in ObjectSlots
        PROVE  /\ s \in Slots /\ table[s].data \in FileHandles \ {free}
               /\ table[s] = FileHeader(table[s].data) /\ open_files[table[s].data] # None
    <2>1. s \in Slots \ {0}
      BY HandleAssumption DEF Slots, ObjectSlots
    <2>2. table[s] # None
      BY <2>1 DEF FreeSlots
    <2>3. PICK h \in FileHandles : table[s] = FileHeader(h) /\ open_files[h] # None
      BY <2>1, <2>2 DEF FileObjectsMatchOpenFiles
    <2>4. table[s].data = h
      BY <2>3 DEF FileHeader
    <2> QED
      BY <1>1, <2>1, <2>3, <2>4
  <1>3. PICK f : f = [s \in ObjectSlots |-> table[s].data]
    BY Zenon
  <1>4. f \in [ObjectSlots -> FileHandles \ {free}]
    BY <1>2, <1>3
  <1>5. PICK x, y \in ObjectSlots : x # y /\ f[x] = f[y]
    BY <1>4, Zenon DEF Crowded
  <1>6. table[x].data = table[y].data
    BY <1>3, <1>5
  <1>7. table[x] = table[y] /\ table[x].data \in FileHandles
    BY <1>2, <1>6, Zenon
  <1> QED
    BY <1>2, <1>5, <1>7 DEF FileObjectsMatchOpenFiles

(* Steps that move cursors only. *)
LEMMA CursorsKeepMatch ==
    ASSUME Match, DataTypes, NodesStay, table' = table,
           \A h \in FileHandles : /\ open_files'[h] # None <=> open_files[h] # None
                                  /\ open_files[h] # None => open_files'[h].node = open_files[h].node
    PROVE  Match'
  <1>1. \A h \in FileHandles : open_files'[h] # None =>
            /\ nodes'[open_files'[h].node] = nodes[open_files[h].node]
            /\ nodes[open_files[h].node] # None
            /\ nodes[open_files[h].node].kind = "File"
    <2> SUFFICES ASSUME NEW h \in FileHandles, open_files'[h] # None
                 PROVE  /\ nodes'[open_files'[h].node] = nodes[open_files[h].node]
                        /\ nodes[open_files[h].node] # None
                        /\ nodes[open_files[h].node].kind = "File"
      OBVIOUS
    <2>1. open_files[h] # None /\ open_files'[h].node = open_files[h].node
      OBVIOUS
    <2>2. open_files[h].node \in NodeIds
      BY <2>1 DEF DataTypes, OpenFiles
    <2> QED
      BY <2>1, <2>2 DEF Match, FileObjectsMatchOpenFiles, NodesStay
  <1>2. FileObjectsMatchOpenFiles'
    BY <1>1 DEF Match, FileObjectsMatchOpenFiles
  <1> QED
    BY <1>1, <1>2 DEF Match

(* create_file's success: the new file and the new object are for each     *)
(* other.                                                                  *)
LEMMA OpenKeepsMatch ==
    ASSUME WellOrdered,
           NtInv, NodesStay, FreeHandles # {}, NEW node \in NodeIds, NEW writable \in BOOLEAN,
           nodes'[node] # None, nodes'[node].kind = "File",
           open_files' = OpensWith(node, writable),
           AllocateHandle("File", Min(FreeHandles))
    PROVE  Match'
  <1>1. FreeHandles \in SUBSET Nat /\ FreeSlots \in SUBSET Nat
    <2>1. FreeHandles \in SUBSET Nat
      BY Bounds, Zenon DEF FreeHandles
    <2>2. FreeSlots \in SUBSET Nat
      BY HandleAssumption DEF FreeSlots, Slots
    <2> QED
      BY <2>1, <2>2
  <1>2. FreeSlots # {}
    BY Zenon DEF AllocateHandle
  <1>3. Min(FreeHandles) \in FreeHandles /\ Min(FreeSlots) \in FreeSlots
    BY <1>1, <1>2, MinIsLeast
  <1>4. PICK h \in FileHandles : h = Min(FreeHandles) /\ open_files[h] = None
    BY <1>3 DEF FreeHandles
  <1>5. PICK s \in Slots : s = Min(FreeSlots) /\ table[s] = None
    BY <1>3 DEF FreeSlots
  <1>6. table' = [table EXCEPT ![s] = FileHeader(h)]
    BY <1>4, <1>5 DEF AllocateHandle, FileHeader
  <1>7. table'[s] = FileHeader(h) /\ \A t \in Slots : t # s => table'[t] = table[t]
    BY <1>6 DEF NtInv, Inv, HtTypeOK
  <1> DEFINE file == [node |-> node, position |-> 0, writable |-> writable]
  <1>8. file \in OpenFiles /\ file # None /\ file.node = node
    BY VfsAssumption DEF OpenFiles
  <1>9. open_files' = [open_files EXCEPT ![h] = file]
    BY <1>4 DEF OpensWith
  <1> HIDE DEF file
  <1>10. open_files'[h] = file /\ \A g \in FileHandles : g # h => open_files'[g] = open_files[g]
    BY <1>9, Zenon DEF NtInv, VfsInv, DataInv, DataTypes
  <1>11. \A g \in FileHandles : FileHeader(g) = FileHeader(h) => g = h
    BY DEF FileHeader
  <1>12. FileHeader(h) # ProcessHeader /\ ProcessHeader # None /\ FileHeader(h) # None
    BY HeaderFacts
  <1>13. FileObjectsMatchOpenFiles /\ \A g \in FileHandles : open_files[g] # None => nodes[open_files[g].node] # None
    BY DEF NtInv, Match
  <1>14. table[0] = ProcessHeader
    BY <1>13 DEF FileObjectsMatchOpenFiles
  <1>15. s # 0 /\ 0 \in Slots
    BY <1>5, <1>12, <1>14, HandleAssumption DEF Slots
  <1>16. table'[0] = ProcessHeader
    BY <1>7, <1>14, <1>15
  <1>17. ASSUME NEW t \in Slots PROVE table[t] # FileHeader(h)
    <2> SUFFICES ASSUME table[t] = FileHeader(h) PROVE FALSE
      OBVIOUS
    <2>1. t # 0 /\ table[t] # None
      BY <1>12, <1>14
    <2>2. PICK g \in FileHandles : table[t] = FileHeader(g) /\ open_files[g] # None
      BY <1>13, <2>1, Zenon DEF FileObjectsMatchOpenFiles
    <2> QED
      BY <1>4, <1>11, <2>2
  <1>18. ASSUME NEW t \in Slots \ {0}, table'[t] # None
         PROVE  \E g \in FileHandles : table'[t] = FileHeader(g) /\ open_files'[g] # None
    <2>1. CASE t = s
      BY <1>7, <1>8, <1>10, <2>1
    <2>2. CASE t # s
      <3>1. table'[t] = table[t]
        BY <1>7, <2>2
      <3>2. PICK g \in FileHandles : table[t] = FileHeader(g) /\ open_files[g] # None
        BY <1>13, <1>18, <3>1, Zenon DEF FileObjectsMatchOpenFiles
      <3> QED
        BY <1>4, <1>10, <3>1, <3>2, Zenon
    <2> QED
      BY <2>1, <2>2
  <1>19. ASSUME NEW g \in FileHandles, open_files'[g] # None
         PROVE  \E t \in Slots : /\ table'[t] = FileHeader(g)
                                 /\ \A r \in Slots : table'[r] = FileHeader(g) => r = t
    <2>1. CASE g = h
      BY <1>7, <1>17, <2>1
    <2>2. CASE g # h
      <3>1. open_files[g] # None
        BY <1>10, <1>19, <2>2
      <3>2. PICK t \in Slots : /\ table[t] = FileHeader(g)
                               /\ \A r \in Slots : table[r] = FileHeader(g) => r = t
        BY <1>13, <3>1, Zenon DEF FileObjectsMatchOpenFiles
      <3>3. FileHeader(g) # None /\ FileHeader(g) # FileHeader(h)
        BY <1>11, <2>2, HeaderFacts, Zenon
      <3>4. t # s
        BY <1>5, <3>2, <3>3
      <3> QED
        BY <1>7, <3>2, <3>3, <3>4
    <2> QED
      BY <2>1, <2>2
  <1>20. ASSUME NEW g \in FileHandles, open_files'[g] # None
         PROVE  nodes'[open_files'[g].node] # None /\ nodes'[open_files'[g].node].kind = "File"
    <2>1. CASE g = h
      BY <1>8, <1>10, <2>1, Zenon
    <2>2. CASE g # h
      <3>1. open_files'[g] = open_files[g] /\ open_files[g] # None
        BY <1>10, <1>20, <2>2, Zenon
      <3>2. open_files[g].node \in NodeIds
        BY <3>1 DEF NtInv, VfsInv, DataInv, DataTypes, OpenFiles
      <3> QED
        BY <1>13, <3>1, <3>2 DEF FileObjectsMatchOpenFiles, NodesStay
    <2> QED
      BY <2>1, <2>2, Zenon
  <1> QED
    BY <1>16, <1>18, <1>19, <1>20 DEF Match, FileObjectsMatchOpenFiles

(* close: the file and the object that go were for each other, whichever   *)
(* handle led to the slot.                                                 *)
LEMMA CloseKeepsMatch ==
    ASSUME NtInv, UNCHANGED nodes, NEW s \in Slots, NEW h \in FileHandles,
           table[s] = FileHeader(h),
           table' = [table EXCEPT ![s] = None],
           open_files' = [open_files EXCEPT ![h] = None]
    PROVE  Match'
  <1>1. FileObjectsMatchOpenFiles /\ \A g \in FileHandles : open_files[g] # None => nodes[open_files[g].node] # None
    BY DEF NtInv, Match
  <1>2. table[0] = ProcessHeader
    BY <1>1 DEF FileObjectsMatchOpenFiles
  <1>3. s # 0 /\ 0 \in Slots
    BY <1>2, HeaderFacts, HandleAssumption DEF Slots
  <1>4. table'[s] = None /\ \A t \in Slots : t # s => table'[t] = table[t]
    BY DEF NtInv, Inv, HtTypeOK
  <1>5. open_files'[h] = None /\ \A g \in FileHandles : g # h => open_files'[g] = open_files[g]
    BY DEF NtInv, VfsInv, DataInv, DataTypes
  <1>6. \A g \in FileHandles : FileHeader(g) = FileHeader(h) => g = h
    BY DEF FileHeader
  <1>7. open_files[h] # None
    <2>1. s \in Slots \ {0} /\ table[s] # None
      BY <1>3, HeaderFacts
    <2>2. PICK g \in FileHandles : table[s] = FileHeader(g) /\ open_files[g] # None
      BY <1>1, <2>1 DEF FileObjectsMatchOpenFiles
    <2> QED
      BY <1>6, <2>2
  <1>8. ASSUME NEW t \in Slots, table[t] = FileHeader(h) PROVE t = s
    BY <1>1, <1>7, <1>8 DEF FileObjectsMatchOpenFiles
  <1>9. ASSUME NEW t \in Slots \ {0}, table'[t] # None
        PROVE  \E g \in FileHandles : table'[t] = FileHeader(g) /\ open_files'[g] # None
    <2>1. t # s /\ table'[t] = table[t]
      BY <1>4, <1>9
    <2>2. PICK g \in FileHandles : table[t] = FileHeader(g) /\ open_files[g] # None
      BY <1>1, <1>9, <2>1, Zenon DEF FileObjectsMatchOpenFiles
    <2>3. g # h
      BY <1>8, <2>1, <2>2
    <2> QED
      BY <1>5, <2>1, <2>2, <2>3
  <1>10. ASSUME NEW g \in FileHandles, open_files'[g] # None
         PROVE  \E t \in Slots : /\ table'[t] = FileHeader(g)
                                 /\ \A r \in Slots : table'[r] = FileHeader(g) => r = t
    <2>1. g # h /\ open_files[g] # None
      BY <1>5, <1>10
    <2>2. PICK t \in Slots : /\ table[t] = FileHeader(g)
                             /\ \A r \in Slots : table[r] = FileHeader(g) => r = t
      BY <1>1, <2>1 DEF FileObjectsMatchOpenFiles
    <2>3. t # s /\ FileHeader(g) # None
      BY <1>6, <2>1, <2>2, HeaderFacts
    <2> QED
      BY <1>4, <2>2, <2>3
  <1>11. ASSUME NEW g \in FileHandles, open_files'[g] # None
         PROVE  nodes'[open_files'[g].node] # None /\ nodes'[open_files'[g].node].kind = "File"
    BY <1>1, <1>5, <1>11 DEF FileObjectsMatchOpenFiles
  <1> QED
    BY <1>2, <1>3, <1>4, <1>9, <1>10, <1>11, Zenon DEF Match, FileObjectsMatchOpenFiles

-----------------------------------------------------------------------------
(* The handlers. *)

LEMMA HandlersKeepNames == UNCHANGED nodes /\ NameInv => NameInv' /\ NodesStay
  BY DEF NameInv, FilledFromBottom, NameSpaceIsTree, Children, NodesStay

LEMMA NothingMoves == UNCHANGED <<file_vars, ht_vars>> /\ NtInv => NtInv'
  <1> SUFFICES ASSUME UNCHANGED <<file_vars, ht_vars>>, NtInv PROVE NtInv'
    OBVIOUS
  <1>1. UNCHANGED nodes /\ UNCHANGED open_files /\ UNCHANGED data_vars /\ UNCHANGED ht_vars
    BY DEF file_vars
  <1>2. NameInv'
    BY <1>1, HandlersKeepNames DEF NtInv, VfsInv
  <1>3. DataInv'
    BY <1>1, DataUntouched, Zenon DEF NtInv, VfsInv
  <1>4. Inv'
    BY <1>1, InvStays DEF NtInv
  <1>5. Match'
    BY <1>1 DEF NtInv, ht_vars, Match, FileObjectsMatchOpenFiles
  <1> QED
    BY <1>2, <1>3, <1>4, <1>5 DEF NtInv, VfsInv

LEMMA CloseKeepsNtInv ==
    ASSUME NtInv, NEW handle \in 0 .. HANDLE_VALUES - 1, NtClose(handle)
    PROVE  NtInv'
  <1>1. CASE ~IsFileObject(handle)
    BY <1>1, NothingMoves DEF NtClose
  <1>2. CASE IsFileObject(handle)
    <2>1. PICK s \in Slots : s = SlotOf(handle)
      BY HandleSlots
    <2>2. table[s] # None /\ table[s].kind = "File"
      BY <1>2, <2>1 DEF IsFileObject
    <2>3. PICK h \in FileHandles : h = table[s].data /\ table[s] = FileHeader(h)
      BY <2>2, FileObjects, Zenon DEF NtInv, Match, Inv
    <2>4. /\ open_files' = [open_files EXCEPT ![h] = None]
          /\ CloseHandle(handle) /\ UNCHANGED nodes /\ UNCHANGED data_vars
      BY <1>2, <2>1, <2>3, Zenon DEF NtClose, FileOf
    <2>5. table' = [table EXCEPT ![s] = None]
      BY <2>1, <2>4 DEF CloseHandle
    <2>6. Match'
      BY <2>3, <2>4, <2>5, CloseKeepsMatch, Zenon
    <2>7. DataInv'
      BY <2>4, CloseKeepsData, Zenon DEF NtInv, VfsInv
    <2>8. NameInv'
      BY <2>4, HandlersKeepNames DEF NtInv, VfsInv
    <2>9. Inv'
      BY <2>4, ClosePreservesInv DEF NtInv
    <2> QED
      BY <2>6, <2>7, <2>8, <2>9 DEF NtInv, VfsInv
  <1> QED
    BY <1>1, <1>2

(* A cursor that moves stays the cursor of an open file of the same node. *)
LEMMA MovedCursor ==
    ASSUME DataTypes, NEW h \in FileHandles, open_files[h] # None, NEW end \in Nat,
           open_files' = [open_files EXCEPT ![h].position = end]
    PROVE  \A g \in FileHandles :
               /\ open_files'[g] # None <=> open_files[g] # None
               /\ open_files[g] # None => open_files'[g].node = open_files[g].node
  <1> DEFINE moved == [open_files[h] EXCEPT !.position = end]
  <1>1. open_files[h] \in OpenFiles
    BY DEF DataTypes
  <1>2. moved \in OpenFiles /\ moved.node = open_files[h].node
    BY <1>1 DEF OpenFiles
  <1>3. moved # None
    BY <1>2, VfsAssumption
  <1>4. open_files' = [open_files EXCEPT ![h] = moved]
    OBVIOUS
  <1> HIDE DEF moved
  <1>5. open_files'[h] = moved /\ \A g \in FileHandles : g # h => open_files'[g] = open_files[g]
    BY <1>4 DEF DataTypes
  <1> QED
    BY <1>2, <1>3, <1>5

LEMMA ReadKeepsNtInv ==
    ASSUME NtInv, NEW handle \in 0 .. HANDLE_VALUES - 1, NEW n \in Lengths, NtReadFile(handle, n)
    PROVE  NtInv'
  <1>1. n \in Nat
    BY VfsAssumption
  <1>2. CASE ~(n > 0 /\ IsFileObject(handle))
    <2>1. UNCHANGED file_vars /\ UNCHANGED ht_vars
      BY <1>1, <1>2 DEF NtReadFile
    <2> QED
      BY <2>1, NothingMoves
  <1>3. CASE n > 0 /\ IsFileObject(handle)
    <2>1. PICK s \in Slots : s = SlotOf(handle)
      BY HandleSlots
    <2>2. table[s] # None /\ table[s].kind = "File"
      BY <1>3, <2>1 DEF IsFileObject
    <2>3. PICK h \in FileHandles : h = table[s].data /\ open_files[h] # None
      BY <2>2, FileObjects, Zenon DEF NtInv, Match, Inv
    <2>4. Read(h, n) /\ UNCHANGED ht_vars
      BY <1>1, <1>3, <2>1, <2>3 DEF NtReadFile, FileOf
    <2>5. UNCHANGED nodes
      BY <2>4 DEF Read
    <2>6. NameInv' /\ NodesStay
      BY <2>5, HandlersKeepNames DEF NtInv, VfsInv
    <2>7. DataInv'
      BY <1>1, <2>4, ReadKeepsData DEF NtInv, VfsInv
    <2>8. PICK end \in Nat : open_files' = [open_files EXCEPT ![h].position = end]
      BY <1>1, <2>3, <2>4, ReadStep, Zenon DEF Read, NtInv, VfsInv
    <2>9. Match'
      BY <2>3, <2>4, <2>6, <2>8, MovedCursor, CursorsKeepMatch, Zenon DEF NtInv, VfsInv, DataInv, ht_vars
    <2>10. Inv'
      BY <2>4, InvStays DEF NtInv
    <2> QED
      BY <2>6, <2>7, <2>9, <2>10 DEF NtInv, VfsInv
  <1> QED
    BY <1>2, <1>3

LEMMA WriteKeepsNtInv ==
    ASSUME WellOrdered,
           NtInv, NEW handle \in 0 .. HANDLE_VALUES - 1, NEW buf \in Buffers, NtWriteFile(handle, buf)
    PROVE  NtInv'
  <1>1. UNCHANGED ht_vars
    BY DEF NtWriteFile
  <1>2. CASE ~(buf # <<>> /\ IsFileObject(handle))
    <2>1. UNCHANGED file_vars
      BY <1>2 DEF NtWriteFile
    <2> QED
      BY <1>1, <2>1, NothingMoves
  <1>3. CASE buf # <<>> /\ IsFileObject(handle)
    <2>1. PICK s \in Slots : s = SlotOf(handle)
      BY HandleSlots
    <2>2. table[s] # None /\ table[s].kind = "File"
      BY <1>3, <2>1 DEF IsFileObject
    <2>3. PICK h \in FileHandles : h = table[s].data /\ open_files[h] # None
      BY <2>2, FileObjects, Zenon DEF NtInv, Match, Inv
    <2>4. Write(h, buf)
      BY <1>3, <2>1, <2>3 DEF NtWriteFile, FileOf
    <2>5. UNCHANGED nodes
      BY <2>4 DEF Write
    <2>6. CASE ~open_files[h].writable
      <3>1. UNCHANGED open_files /\ UNCHANGED data_vars
        BY <2>4, <2>6 DEF Write
      <3> QED
        BY <1>1, <2>5, <3>1, NothingMoves DEF file_vars
    <2>7. CASE open_files[h].writable
      <3>1. WriteLoop(h, buf)
        BY <2>3, <2>4, <2>7, Zenon DEF Write
      <3>2. DataInv'
        BY <2>3, <3>1, WriteKeepsData, Zenon DEF NtInv, VfsInv
      <3>3. PICK end \in Nat : open_files' = [open_files EXCEPT ![h].position = end]
        <4>1. PICK end \in Nat :
                  WriteOutcome(h, buf, open_files[h].node, open_files[h].position, end)
          BY <2>3, <3>1, WriteStep, Zenon DEF NtInv, VfsInv
        <4> QED
          BY <4>1, Zenon DEF WriteOutcome
      <3>4. NameInv' /\ NodesStay
        BY <2>5, HandlersKeepNames DEF NtInv, VfsInv
      <3>5. Match'
        BY <1>1, <2>3, <3>3, <3>4, MovedCursor, CursorsKeepMatch, Zenon DEF NtInv, VfsInv, DataInv, ht_vars
      <3>6. Inv'
        BY <1>1, InvStays DEF NtInv
      <3> QED
        BY <3>2, <3>4, <3>5, <3>6 DEF NtInv, VfsInv
    <2> QED
      BY <2>6, <2>7
  <1> QED
    BY <1>2, <1>3

(* open_vfs_file and objects::allocate, on nodes that create may have      *)
(* extended.                                                               *)
LEMMA OpenAndAllocateKeeps ==
    ASSUME WellOrdered, Crowded,
           NtInv, NameInv', NodesStay, UNCHANGED data_vars,
           NEW node \in NodeIds, NEW writable \in BOOLEAN, nodes'[node] # None,
           OpenAndAllocate(node, nodes'[node].kind, writable)
    PROVE  NtInv'
  <1>1. CASE ~(nodes'[node].kind = "File" /\ FreeHandles # {})
    <2>1. UNCHANGED open_files /\ UNCHANGED ht_vars
      BY <1>1 DEF OpenAndAllocate
    <2>2. DataInv'
      BY <2>1, DataUntouched, Zenon DEF NtInv, VfsInv
    <2>3. Inv'
      BY <2>1, InvStays DEF NtInv
    <2>4. Match'
      BY <2>1, CursorsKeepMatch DEF NtInv, VfsInv, DataInv, ht_vars
    <2> QED
      BY <2>2, <2>3, <2>4 DEF NtInv, VfsInv
  <1>2. CASE nodes'[node].kind = "File" /\ FreeHandles # {}
    <2>1. open_files' = OpensWith(node, writable)
      BY <1>2, Zenon DEF OpenAndAllocate
    <2>2. FreeSlots # {}
      BY <1>2, SlotForEveryFile, Zenon DEF NtInv, Inv, Match
    <2>3. AllocateHandle("File", Min(FreeHandles))
      BY <1>2, <2>2, Zenon DEF OpenAndAllocate
    <2>4. Match'
      BY <1>2, <2>1, <2>3, OpenKeepsMatch, Zenon
    <2>5. DataInv' /\ Min(FreeHandles) \in FreeHandles
      BY <1>2, <2>1, OpenKeepsData, Zenon DEF NtInv, VfsInv
    <2>6. PICK header \in Headers : header = FileHeader(Min(FreeHandles))
      <3>1. Min(FreeHandles) \in FileHandles
        BY <2>5, Zenon DEF FreeHandles
      <3> QED
        BY <3>1, HeaderFacts, Zenon
    <2>7. header.kind = "File" /\ header.data = Min(FreeHandles)
      BY <2>6 DEF FileHeader
    <2>8. Inv'
      <3>1. AllocateHandle(header.kind, header.data)
        BY <2>3, <2>7, Zenon
      <3> QED
        BY <3>1, AllocatePreservesInv, Zenon DEF NtInv
    <2> QED
      BY <2>4, <2>5, <2>8 DEF NtInv, VfsInv
  <1> QED
    BY <1>1, <1>2

(* parent and file_name split a path before its last part. *)
LEMMA SplitPath ==
    ASSUME NEW S, NEW path \in Seq(S), path # <<>>
    PROVE  /\ Parent(path) \in Seq(S) /\ Len(path) = Len(Parent(path)) + 1
           /\ Len(path) \in Nat /\ Len(Parent(path)) \in Nat
           /\ \A i \in 1 .. Len(Parent(path)) : path[i] = Parent(path)[i]
           /\ FileName(path) \in S
  <1>1. Len(path) \in Nat /\ Len(path) > 0 /\ \A i \in 1 .. Len(path) : path[i] \in S
    OBVIOUS
  <1>2. PICK n \in Nat : n = Len(path) - 1 /\ Len(path) = n + 1
    BY <1>1
  <1>3. SubSeq(path, 0 + 1, n) = [i \in 1 .. n - 0 |-> path[0 + i]]
    BY <1>2, SubSeqIs
  <1>4. Parent(path) = [i \in 1 .. n |-> path[i]]
    BY <1>2, <1>3 DEF Parent
  <1>5. [i \in 1 .. n |-> path[i]] \in Seq(S) /\ Len([i \in 1 .. n |-> path[i]]) = n
    BY <1>1, <1>2
  <1> QED
    BY <1>1, <1>2, <1>4, <1>5 DEF FileName

LEMMA LookupIsLive ==
    ASSUME WellOrdered,
           NameInv, NEW S, NEW path \in Seq(S) PROVE Lookup(path) \in Live
  <1>1. PICK w \in [0 .. Len(path) -> Live] : Lookup(path) = w[Len(path)]
    BY LookupWalk, Zenon
  <1>2. Len(path) \in 0 .. Len(path)
    OBVIOUS
  <1> QED
    BY <1>1, <1>2

LEMMA CreateKeepsNtInv ==
    ASSUME WellOrdered, Crowded,
           NtInv, NEW path \in Paths, NEW create \in BOOLEAN, NEW write \in BOOLEAN,
           NtCreateFile(path, create, write)
    PROVE  NtInv'
  <1>1. PICK S : S = Names \cup {""} /\ path \in Seq(S) /\ path # <<>>
    BY NtAssumption, Zenon
  <1>2. Lookup(path) \in Live
    BY <1>1, LookupIsLive, Zenon DEF NtInv, VfsInv
  <1>3. PICK parent : parent = Parent(path)
    OBVIOUS
  <1>4. /\ parent \in Seq(S) /\ Len(path) = Len(parent) + 1 /\ FileName(path) \in S
        /\ \A i \in 1 .. Len(parent) : path[i] = parent[i]
    BY <1>1, <1>3, SplitPath, Zenon
  <1>5. Lookup(parent) \in Live
    BY <1>4, LookupIsLive DEF NtInv, VfsInv
  <1>6. Lookup(path) = StepTo(Lookup(parent), FileName(path))
    <2>1. Lookup(path) = StepTo(Lookup(parent), path[Len(path)])
      BY <1>1, <1>4, LookupExtends, Zenon DEF NtInv, VfsInv
    <2> QED
      BY <2>1, Zenon DEF FileName
  <1>7. CASE Resolution(path, create) = "Found"
    <2>1. Lookup(path) # None
      BY <1>7 DEF Resolution
    <2>2. PICK node \in NodeIds : node = Lookup(path) /\ nodes[node] # None
      BY <1>2, <2>1, Zenon DEF Live
    <2>3. OpenAndAllocate(node, nodes[node].kind, write) /\ UNCHANGED nodes /\ UNCHANGED data_vars
      BY <1>7, <2>2, Zenon DEF NtCreateFile
    <2>4. NameInv' /\ NodesStay
      BY <2>3, HandlersKeepNames DEF NtInv, VfsInv
    <2>5. nodes'[node] # None /\ OpenAndAllocate(node, nodes'[node].kind, write)
      BY <2>2, <2>3
    <2> QED
      BY <2>3, <2>4, <2>5, OpenAndAllocateKeeps, Zenon
  <1>8. CASE Resolution(path, create) = "Created"
    <2>1. /\ Lookup(path) = None /\ Lookup(parent) # None
          /\ CanCreate(Lookup(parent), FileName(path))
      BY <1>3, <1>8, Zenon DEF Resolution
    <2>2. PICK dir \in NodeIds : dir = Lookup(parent) /\ nodes[dir] # None
      BY <1>5, <2>1, Zenon DEF Live
    <2>3. PICK name \in S : name = FileName(path)
      BY <1>4
    <2>4. name \in Names
      BY <1>1, <1>6, <2>1, <2>3, Zenon DEF StepTo
    <2>5. CanCreate(dir, name)
      BY <2>1, <2>2, <2>3, Zenon
    <2>6. nodes' = NodesWith(dir, name, "File") /\ UNCHANGED data_vars
          /\ OpenAndAllocate(Min(FreeNodes), "File", TRUE)
      BY <1>3, <1>8, <2>2, <2>3, Zenon DEF NtCreateFile
    <2>7. NameInv' /\ Min(FreeNodes) \in FreeNodes
      BY <2>2, <2>4, <2>5, <2>6, CreateKeepsNames DEF NtInv, VfsInv
    <2>8. PICK node \in NodeIds : node = Min(FreeNodes) /\ nodes[node] = None
      BY <2>7 DEF FreeNodes
    <2>9. nodes' = [nodes EXCEPT ![node] = [kind |-> "File", parent |-> dir, name |-> name]]
      BY <2>6, <2>8, Zenon DEF NodesWith
    <2>10. nodes'[node] = [kind |-> "File", parent |-> dir, name |-> name] /\ NodesStay
      <3>1. DOMAIN nodes = NodeIds
        BY Zenon DEF NtInv, VfsInv, NameInv
      <3> QED
        BY <2>8, <2>9, <3>1, Zenon DEF NodesStay
    <2>11. [kind |-> "File", parent |-> dir, name |-> name] \in Nodes
      BY <2>4, Zenon DEF Nodes
    <2>12. nodes'[node] # None /\ nodes'[node].kind = "File"
      <3>1. None \notin Nodes
        BY VfsAssumption
      <3> QED
        BY <2>10, <2>11, <3>1
    <2>13. OpenAndAllocate(node, nodes'[node].kind, TRUE)
      BY <2>6, <2>8, <2>12, Zenon
    <2> QED
      BY <2>6, <2>7, <2>10, <2>12, <2>13, OpenAndAllocateKeeps, Zenon
  <1>9. CASE Resolution(path, create) \notin {"Found", "Created"}
    BY <1>9, NothingMoves, Zenon DEF NtCreateFile
  <1> QED
    BY <1>7, <1>8, <1>9

-----------------------------------------------------------------------------
(* What self_test leaves. *)

LEMMA NtInitNames == NtInit => NameInv
  <1> SUFFICES ASSUME NtInit PROVE NameInv
    OBVIOUS
  <1> DEFINE root == [kind |-> "Directory", parent |-> None, name |-> "/"]
             bin == [kind |-> "Directory", parent |-> Root, name |-> "bin"]
             test == [kind |-> "File", parent |-> 1, name |-> "test.exe"]
  <1>1. MAX_NODES \in Nat /\ MAX_NODES >= 3 /\ "bin" \in Names /\ "test.exe" \in Names
        /\ None \notin Nat /\ None \notin Nodes
    BY VfsAssumption, NtAssumption, Zenon
  <1>2. 0 \in NodeIds /\ 1 \in NodeIds /\ 2 \in NodeIds /\ Root = 0 /\ NodeIds \subseteq Nat
    BY <1>1 DEF NodeIds, Root
  <1>3. root \in Nodes /\ bin \in Nodes /\ test \in Nodes
    BY <1>1, <1>2, Zenon DEF Nodes
  <1>4. root # None /\ bin # None /\ test # None
    BY <1>1, <1>3
  <1>5. /\ root.parent = None /\ bin.parent = 0 /\ test.parent = 1
        /\ bin.name = "bin" /\ test.name = "test.exe"
    BY <1>2
  <1>6. nodes = [i \in NodeIds |-> IF i = 0 THEN root ELSE IF i = 1 THEN bin
                                   ELSE IF i = 2 THEN test ELSE None]
    BY <1>2 DEF NtInit
  <1> HIDE DEF root, bin, test
  <1>7. nodes \in [NodeIds -> Nodes \cup {None}]
    BY <1>3, <1>6
  <1>8. nodes[0] = root /\ nodes[1] = bin /\ nodes[2] = test
    BY <1>2, <1>6
  <1>9. \A i \in NodeIds : nodes[i] # None <=> i \in {0, 1, 2}
    BY <1>4, <1>6
  <1>10. FilledFromBottom
    BY <1>2, <1>9 DEF FilledFromBottom
  <1>11. Children(0, "bin") = {1} /\ Children(1, "test.exe") = {2}
    <2>1. None # 0 /\ None # 1
      BY <1>1
    <2>2. Children(0, "bin") = {1}
      BY <1>2, <1>5, <1>8, <1>9, <2>1, Zenon DEF Children
    <2>3. Children(1, "test.exe") = {2}
      BY <1>2, <1>5, <1>8, <1>9, <2>1, Zenon DEF Children
    <2> QED
      BY <2>2, <2>3
  <1>12. NameSpaceIsTree
    <2> SUFFICES ASSUME NEW i \in NodeIds, nodes[i] # None, i # Root
                 PROVE  /\ nodes[i].parent \in 0 .. i - 1 /\ nodes[nodes[i].parent] # None
                        /\ Children(nodes[i].parent, nodes[i].name) = {i}
      BY Zenon DEF NameSpaceIsTree
    <2>1. i = 1 \/ i = 2
      BY <1>2, <1>9
    <2>2. CASE i = 1
      BY <1>2, <1>4, <1>5, <1>8, <1>11, <2>2
    <2>3. CASE i = 2
      BY <1>2, <1>4, <1>5, <1>8, <1>11, <2>3
    <2> QED
      BY <2>1, <2>2, <2>3, Zenon
  <1> QED
    BY <1>2, <1>4, <1>5, <1>7, <1>8, <1>10, <1>12, Zenon DEF NameInv

LEMMA NtInitData == NtInit => DataInv
  <1> SUFFICES ASSUME NtInit PROVE DataInv
    OBVIOUS
  <1>1. PICK f \in Frames, b \in Byte :
            /\ file_data = [i \in NodeIds |-> [k \in FrameIndices |->
                                IF i = 2 /\ k = 0 THEN f ELSE None]]
            /\ memory = [g \in Frames |-> [o \in Offsets |-> IF g = f /\ o = 0 THEN b ELSE Stale]]
            /\ free_frames = Frames \ {f}
    BY DEF NtInit
  <1>2. /\ file_sizes = [i \in NodeIds |-> IF i = 2 THEN 1 ELSE 0]
        /\ open_files = [h \in FileHandles |-> None]
    BY DEF NtInit
  <1>3. FILE_DATA_FRAMES \in Nat \ {0} /\ PAGE \in Nat \ {0} /\ None \notin Frames
    <2>1. FILE_DATA_FRAMES >= 1
      BY NtAssumption, Zenon
    <2> QED
      BY <2>1, VfsAssumption
  <1>4. 0 \div PAGE = 0 /\ 0 \in FrameIndices /\ NodeIds \subseteq Nat
    BY <1>3, Bounds DEF FrameIndices
  <1>5. Capacity \in Nat /\ 1 <= Capacity
    <2>1. \A i, j \in Nat \ {0} : i * j \in Nat /\ 1 <= i * j
      BY Z3
    <2> QED
      BY <1>3, <2>1 DEF Capacity
  <1>6. DataTypes
    <2>1. file_data \in [NodeIds -> [FrameIndices -> Frames \cup {None}]]
      BY <1>1
    <2>2. file_sizes \in [NodeIds -> 0 .. Capacity]
      BY <1>2, <1>5
    <2>3. memory \in [Frames -> [Offsets -> Byte \cup {Stale}]]
      BY <1>1
    <2> QED
      BY <1>1, <1>2, <2>1, <2>2, <2>3 DEF DataTypes
  <1>7. NoHoles
    <2>1. ASSUME NEW n \in NodeIds, NEW q \in 0 .. file_sizes[n] - 1
          PROVE  file_data[n][q \div PAGE] # None
      <3>1. n = 2 /\ q = 0
        BY <1>2
      <3> QED
        BY <1>1, <1>3, <1>4, <3>1
    <2> QED
      BY <1>2, <2>1, Zenon DEF NoHoles
  <1>8. FramesPrivate
    BY <1>1, <1>3 DEF FramesPrivate
  <1> QED
    BY <1>6, <1>7, <1>8 DEF DataInv

LEMMA NtInitTables == NtInit => Inv /\ Match
  <1> SUFFICES ASSUME NtInit PROVE Inv /\ Match
    OBVIOUS
  <1>1. /\ table = [s \in Slots |-> IF s = 0 THEN ProcessHeader ELSE None]
        /\ next_handle = 2 /\ issued = [handle \in {1} |-> ProcessHeader]
        /\ closed = FALSE /\ wrapped = FALSE
        /\ open_files = [h \in FileHandles |-> None]
    BY DEF NtInit
  <1>2. MAX_HANDLES \in Nat \ {0} /\ HANDLE_VALUES \in Nat /\ HANDLE_VALUES > 2
    BY HandleAssumption, NtAssumption, Zenon
  <1>3. ProcessHeader \in Headers
    BY HeaderFacts
  <1>4. DOMAIN issued = {1} /\ issued[1] = ProcessHeader
    BY <1>1
  <1>5. HtTypeOK
    <2>1. table \in [Slots -> Headers \cup {None}]
      BY <1>1, <1>3
    <2>2. next_handle \in 0 .. HANDLE_VALUES - 1 /\ DOMAIN issued \subseteq 1 .. next_handle - 1
          /\ DOMAIN issued \subseteq 0 .. HANDLE_VALUES - 1
      BY <1>1, <1>2, <1>4
    <2> QED
      BY <1>1, <1>3, <1>4, <2>1, <2>2, Zenon DEF HtTypeOK
  <1>6. Filled
    <2>1. Count = 1
      BY <1>1 DEF Count
    <2>2. \A s \in Slots : table[s] = IF s < Count THEN issued[s + 1] ELSE None
      BY <1>1, <1>2, <1>4, <2>1 DEF Slots
    <2> QED
      BY <1>2, <1>4, <2>1, <2>2 DEF Filled
  <1>7. Inv
    BY <1>1, <1>2, <1>5, <1>6 DEF Inv
  <1>8. Match
    BY <1>1, <1>2 DEF Match, FileObjectsMatchOpenFiles, Slots
  <1> QED
    BY <1>7, <1>8

(* Each system call keeps the invariant, whatever handle it is passed. *)
LEMMA NtInvInductive ==
    ASSUME WellOrdered, Crowded
    PROVE  NtInv /\ [NtNext]_nt_vars => NtInv'
  <1> SUFFICES ASSUME NtInv, [NtNext]_nt_vars PROVE NtInv'
    OBVIOUS
  <1>1. Passed \subseteq 0 .. HANDLE_VALUES - 1
    <2>1. Strays \subseteq 0 .. HANDLE_VALUES - 1
      BY NtAssumption, Zenon
    <2>2. HANDLE_VALUES \in Nat
      BY HandleAssumption
    <2>3. DOMAIN issued \subseteq 0 .. HANDLE_VALUES - 1
      BY <2>2 DEF NtInv, Inv, HtTypeOK
    <2> QED
      BY <2>1, <2>3, Zenon DEF Passed
  <1>2. CASE \E path \in Paths, create, write \in BOOLEAN : NtCreateFile(path, create, write)
    BY <1>2, CreateKeepsNtInv
  <1>3. CASE \E handle \in Passed, n \in Lengths : NtReadFile(handle, n)
    BY <1>1, <1>3, ReadKeepsNtInv
  <1>4. CASE \E handle \in Passed, buf \in Buffers : NtWriteFile(handle, buf)
    BY <1>1, <1>4, WriteKeepsNtInv
  <1>5. CASE \E handle \in Passed : NtClose(handle)
    BY <1>1, <1>5, CloseKeepsNtInv
  <1>6. CASE UNCHANGED nt_vars
    <2>1. UNCHANGED <<file_vars, ht_vars>>
      BY <1>6 DEF nt_vars, vfs_vars, ht_vars, file_vars, data_vars
    <2> QED
      BY <2>1, NothingMoves
  <1> QED
    BY <1>2, <1>3, <1>4, <1>5, <1>6 DEF NtNext

-----------------------------------------------------------------------------
(* The library, and the theorems that rest on it. *)

LOCAL INSTANCE FiniteSetTheorems

(* MAX_HANDLES > MAX_OPEN_FILES. *)
LEMMA CrowdedHolds == Crowded
  <1> SUFFICES ASSUME NEW free \in FileHandles, NEW f \in [ObjectSlots -> FileHandles \ {free}]
               PROVE  \E x, y \in ObjectSlots : x # y /\ f[x] = f[y]
    BY Zenon DEF Crowded
  <1>1. /\ MAX_HANDLES \in Nat /\ MAX_OPEN_FILES \in Nat
        /\ MAX_HANDLES > MAX_OPEN_FILES /\ MAX_OPEN_FILES > 0
    <2>1. MAX_HANDLES \in Nat /\ MAX_OPEN_FILES \in Nat /\ MAX_HANDLES > MAX_OPEN_FILES
      BY HandleAssumption, VfsAssumption, NtAssumption, Zenon
    <2> QED
      BY <2>1 DEF FileHandles
  <1>2. IsFiniteSet(ObjectSlots) /\ Cardinality(ObjectSlots) = MAX_HANDLES - 1
    <2>1. 1 \in Int /\ MAX_HANDLES - 1 \in Int
      BY <1>1
    <2>2. /\ IsFiniteSet(ObjectSlots)
          /\ Cardinality(ObjectSlots) = IF 1 > MAX_HANDLES - 1 THEN 0 ELSE MAX_HANDLES - 1 - 1 + 1
      BY <2>1, FS_Interval, Zenon DEF ObjectSlots
    <2> QED
      BY <1>1, <2>2
  <1>3. IsFiniteSet(FileHandles) /\ Cardinality(FileHandles) = MAX_OPEN_FILES
    <2>1. 0 \in Int /\ MAX_OPEN_FILES - 1 \in Int
      BY <1>1
    <2>2. /\ IsFiniteSet(FileHandles)
          /\ Cardinality(FileHandles) = IF 0 > MAX_OPEN_FILES - 1 THEN 0 ELSE MAX_OPEN_FILES - 1 - 0 + 1
      BY <2>1, FS_Interval, Zenon DEF FileHandles
    <2> QED
      BY <1>1, <2>2
  <1>4. /\ IsFiniteSet(FileHandles \ {free})
        /\ Cardinality(FileHandles \ {free}) = Cardinality(FileHandles) - 1
    BY <1>3, FS_RemoveElement, Zenon
  <1>5. Cardinality(FileHandles \ {free}) < Cardinality(ObjectSlots)
    BY <1>1, <1>2, <1>3, <1>4
  <1> QED
    BY <1>2, <1>4, <1>5, FS_PigeonHole, Zenon

LEMMA NtInvAlways == NtSpec => []NtInv
  <1>1. NtInit => NtInv
    BY NtInitNames, NtInitData, NtInitTables DEF NtInv, VfsInv
  <1> QED
    BY <1>1, NtInvInductive, WellOrderedHolds, CrowdedHolds, PTL DEF NtSpec

(* Whatever handles programs pass to NtReadFile, NtWriteFile and NtClose,  *)
(* file objects and open VFS files correspond one to one, and              *)
(* objects::allocate never fails after vfs::open succeeded.                *)
THEOREM TablesMatch == NtSpec => []FileObjectsMatchOpenFiles
  <1>1. NtInv => FileObjectsMatchOpenFiles
    BY Zenon DEF NtInv, Match
  <1> QED
    BY <1>1, NtInvAlways, PTL

(* lookup finds every node NtCreateFile creates, whatever empty parts the  *)
(* paths had.                                                              *)
THEOREM NodesReachable == NtSpec => []EveryNodeReachable
  <1>1. NtInv => EveryNodeReachable
    BY TreeIsReachable, WellOrderedHolds DEF NtInv, VfsInv
  <1> QED
    BY <1>1, NtInvAlways, PTL

(* Through the system calls too, the name space stays a tree, no file has  *)
(* a hole and no two places of files share a frame.                        *)
THEOREM VfsSafeUnderNt == NtSpec => [](NameSpaceIsTree /\ NoHoles /\ FramesPrivate)
  <1>1. NtInv => NameSpaceIsTree /\ NoHoles /\ FramesPrivate
    BY Zenon DEF NtInv, VfsInv, NameInv, DataInv
  <1> QED
    BY <1>1, NtInvAlways, PTL

(* As long as no program closed a file, each handle NtCreateFile returned  *)
(* resolves to the object it was issued for.                               *)
THEOREM NtHandlesResolve == NtSpec => []ResolvesUntilFirstClose
  <1>1. NtInv => ResolvesUntilFirstClose
    BY FilledResolves DEF NtInv
  <1> QED
    BY <1>1, NtInvAlways, PTL

=============================================================================
