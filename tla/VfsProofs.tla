----------------------------- MODULE VfsProofs -----------------------------
(***************************************************************************)
(* Proofs about the filesystem for every number of nodes, open files and   *)
(* frames, every page size, and whatever is written: the name space is a   *)
(* tree, files have no holes and share no frames, and frames, sizes and    *)
(* cursors together implement FileStore.                                   *)
(***************************************************************************)
EXTENDS Vfs, TLAPS

(* Steps that name no prover go to the SMT solver, with this many seconds. *)
USE SMTT(30)

(* Every non-empty set of naturals has a least element.  The lemmas below  *)
(* take this as a hypothesis; the library proves it at the end.            *)
WellOrdered == \A T \in SUBSET Nat : T # {} => \E x \in T : \A y \in T : x <= y

(* So Min is the least element. *)
LEMMA MinIsLeast ==
    ASSUME WellOrdered, NEW T \in SUBSET Nat, T # {}
    PROVE  Min(T) \in T /\ \A y \in T : Min(T) <= y
  BY Zenon DEF WellOrdered, Min

-----------------------------------------------------------------------------
(* The name space.  NameSpaceIsTree is not inductive: that a new node is   *)
(* younger than its parent needs that the slots in use are the first ones. *)

FilledFromBottom ==
    \A i, j \in NodeIds : i < j /\ nodes[j] # None => nodes[i] # None

NameInv ==
    /\ nodes \in [NodeIds -> Nodes \cup {None}]
    /\ nodes[Root] # None /\ nodes[Root].parent = None
    /\ FilledFromBottom
    /\ NameSpaceIsTree

LEMMA InitNames == VfsInit => NameInv
  <1> SUFFICES ASSUME VfsInit PROVE NameInv
    OBVIOUS
  <1> DEFINE root == [kind |-> "Directory", parent |-> None, name |-> "/"]
  <1>1. Root \in NodeIds /\ root \in Nodes /\ root # None
    BY VfsAssumption DEF Root, NodeIds, Nodes
  <1> HIDE DEF root
  <1>2. nodes = [i \in NodeIds |-> IF i = Root THEN root ELSE None]
    BY DEF VfsInit, root
  <1>3. nodes \in [NodeIds -> Nodes \cup {None}]
    BY <1>1, <1>2
  <1>4. nodes[Root] # None /\ nodes[Root].parent = None
    BY <1>1, <1>2 DEF root
  <1>5. \A i \in NodeIds : nodes[i] # None => i = Root
    BY <1>2
  <1>6. FilledFromBottom
    BY <1>5 DEF FilledFromBottom, NodeIds, Root
  <1> QED
    BY <1>3, <1>4, <1>5, <1>6 DEF NameInv, NameSpaceIsTree

(* create's success: the node is new, younger than its parent and the only *)
(* child of that name.                                                     *)
LEMMA CreateKeepsNames ==
    ASSUME WellOrdered,
           NameInv, NEW parent \in NodeIds, nodes[parent] # None,
           NEW name \in Names, NEW kind \in {"Directory", "File"},
           CanCreate(parent, name), nodes' = NodesWith(parent, name, kind)
    PROVE  NameInv' /\ Min(FreeNodes) \in FreeNodes
  <1> DEFINE new == Min(FreeNodes)
             node == [kind |-> kind, parent |-> parent, name |-> name]
  <1>1. NodeIds \subseteq Nat /\ FreeNodes \in SUBSET Nat
    BY VfsAssumption DEF NodeIds, FreeNodes
  <1>2. new \in FreeNodes /\ \A i \in FreeNodes : new <= i
    BY <1>1, MinIsLeast DEF CanCreate
  <1>3. new \in NodeIds /\ nodes[new] = None
    BY <1>2 DEF FreeNodes
  <1>4. node \in Nodes /\ node # None
    BY VfsAssumption DEF Nodes
  <1> HIDE DEF new
  <1>5. nodes' = [nodes EXCEPT ![new] = node]
    BY DEF NodesWith, new
  <1>6. nodes'[new] = node /\ \A i \in NodeIds : i # new => nodes'[i] = nodes[i]
    BY <1>3, <1>5 DEF NameInv
  <1>7. node.parent = parent /\ node.name = name
    OBVIOUS
  <1> HIDE DEF node
  <1>8. \A i \in NodeIds : i < new => nodes[i] # None
    BY <1>1, <1>2, <1>3 DEF FreeNodes
  <1>9. parent < new
    BY <1>1, <1>2, <1>3 DEF NameInv, FilledFromBottom
  <1>10. nodes' \in [NodeIds -> Nodes \cup {None}]
    BY <1>3, <1>4, <1>5 DEF NameInv
  <1>11. nodes'[Root] # None /\ nodes'[Root].parent = None
    BY <1>1, <1>3, <1>6, VfsAssumption DEF NameInv, NodeIds, Root
  <1>12. FilledFromBottom'
    BY <1>1, <1>3, <1>4, <1>6, <1>8 DEF NameInv, FilledFromBottom, NodeIds
  <1>13. Children(parent, name) = {}
    <2>1. Children(parent, name) \in SUBSET Nat
      BY <1>1, Zenon DEF Children
    <2> QED
      BY <2>1, MinIsLeast, VfsAssumption DEF CanCreate, FindChild
  <1>14. NameSpaceIsTree'
    <2> SUFFICES ASSUME NEW i \in NodeIds, nodes'[i] # None, i # Root
                 PROVE  /\ nodes'[i].parent \in 0 .. i - 1
                        /\ nodes'[nodes'[i].parent] # None
                        /\ Children(nodes[i].parent, nodes[i].name)' = {i}
      BY DEF NameSpaceIsTree
    <2>1. CASE i = new
      <3>1. nodes'[i].parent = parent /\ nodes'[i].name = name
        BY <1>6, <1>7, <2>1
      <3>2. nodes'[parent] = nodes[parent]
        BY <1>1, <1>3, <1>6, <1>9
      <3>3. Children(nodes[i].parent, nodes[i].name)'
              = {j \in NodeIds : nodes'[j] # None /\ nodes'[j].parent = parent /\ nodes'[j].name = name}
        BY <3>1 DEF Children, NodeIds
      <3>4. \A j \in NodeIds : j # new => ~(nodes'[j] # None /\ nodes'[j].parent = parent /\ nodes'[j].name = name)
        BY <1>6, <1>13 DEF Children
      <3>5. Children(nodes[i].parent, nodes[i].name)' = {i}
        BY <1>3, <1>4, <1>6, <1>7, <2>1, <3>3, <3>4
      <3>6. parent \in 0 .. i - 1
        BY <1>1, <1>3, <1>9, <2>1
      <3> QED
        BY <3>1, <3>2, <3>5, <3>6
    <2>2. CASE i # new
      <3>1. nodes'[i] = nodes[i]
        BY <1>6, <2>2
      <3>2. /\ nodes[i].parent \in 0 .. i - 1
            /\ nodes[nodes[i].parent] # None
            /\ Children(nodes[i].parent, nodes[i].name) = {i}
        BY <3>1 DEF NameInv, NameSpaceIsTree
      <3> DEFINE up == nodes[i].parent
                 label == nodes[i].name
      <3>3. up \in NodeIds /\ up # new
        <4>1. up \in Nat /\ up < i /\ i < MAX_NODES /\ MAX_NODES \in Nat
          BY <3>2, VfsAssumption DEF NodeIds
        <4>2. nodes[up] # None
          BY <3>2
        <4> HIDE DEF up
        <4> QED
          BY <1>3, <4>1, <4>2 DEF NodeIds
      <3>4. nodes'[up] # None
        BY <1>6, <3>2, <3>3
      <3>5. ~(up = parent /\ label = name)
        BY <1>13, <3>2
      <3>6. Children(nodes[i].parent, nodes[i].name)'
              = {j \in NodeIds : nodes'[j] # None /\ nodes'[j].parent = up /\ nodes'[j].name = label}
        BY <3>1 DEF Children, NodeIds
      <3>7. {j \in NodeIds : nodes[j] # None /\ nodes[j].parent = up /\ nodes[j].name = label} = {i}
        BY <3>2 DEF Children
      <3> HIDE DEF up, label
      <3>8. {j \in NodeIds : nodes'[j] # None /\ nodes'[j].parent = up /\ nodes'[j].name = label} = {i}
        BY <1>3, <1>6, <1>7, <3>5, <3>7
      <3> QED
        BY <3>1, <3>2, <3>4, <3>6, <3>8 DEF up
    <2> QED
      BY <2>1, <2>2
  <1> QED
    BY <1>2, <1>10, <1>11, <1>12, <1>14 DEF NameInv, new

-----------------------------------------------------------------------------
(* File data.  That a size or a cursor is within bounds needs NoHoles and  *)
(* the other way round, so types, NoHoles and FramesPrivate are one        *)
(* inductive invariant.                                                    *)

DataTypes ==
    /\ file_data \in [NodeIds -> [FrameIndices -> Frames \cup {None}]]
    /\ file_sizes \in [NodeIds -> 0 .. Capacity]
    /\ open_files \in [FileHandles -> OpenFiles \cup {None}]
    /\ memory \in [Frames -> [Offsets -> Byte \cup {Stale}]]
    /\ free_frames \subseteq Frames

DataInv == DataTypes /\ NoHoles /\ FramesPrivate

LEMMA Bounds ==
    /\ MAX_NODES \in Nat /\ FILE_DATA_FRAMES \in Nat /\ PAGE \in Nat /\ PAGE > 0
    /\ Capacity \in Nat
    /\ NodeIds \subseteq Nat /\ FrameIndices \subseteq Nat /\ FileHandles \subseteq Nat
  <1>1. \A m, n \in Nat : m * n \in Nat
    OBVIOUS
  <1> QED
    BY <1>1, VfsAssumption DEF Capacity, NodeIds, FrameIndices, FileHandles

(* A position is a frame index and an offset. *)
LEMMA Places ==
    /\ \A q \in Nat : /\ q \div PAGE \in Nat /\ q % PAGE \in Offsets
                      /\ (q \div PAGE) * PAGE \in Nat /\ (q \div PAGE) * PAGE <= q
                      /\ q < Capacity => q \div PAGE \in FrameIndices
    /\ \A q, r \in Nat : q \div PAGE = r \div PAGE /\ q % PAGE = r % PAGE => q = r
    /\ \A q, k \in Nat : q \div PAGE >= k => q >= k * PAGE
    /\ \A j, k \in Nat : j <= k => j * PAGE <= k * PAGE /\ k * PAGE \in Nat
  <1>1. \A q, P, n \in Nat : P > 0 =>
            /\ q \div P \in Nat /\ q % P \in 0 .. P - 1
            /\ (q \div P) * P \in Nat /\ (q \div P) * P <= q
            /\ q < n * P => q \div P < n
            /\ q \div P >= n => q >= n * P
    OBVIOUS
  <1>2. \A q, r, P \in Nat : P > 0 /\ q \div P = r \div P /\ q % P = r % P => q = r
    OBVIOUS
  <1>3. \A j, k, P \in Nat : j <= k => j * P <= k * P /\ k * P \in Nat
    OBVIOUS
  <1> QED
    BY <1>1, <1>2, <1>3, VfsAssumption DEF Capacity, Offsets, FrameIndices

(* What a frame allocation in the loop of write yields. *)
LEMMA GrantFacts ==
    ASSUME NEW missing \in SUBSET FrameIndices, NEW got \in Grants(missing)
    PROVE  /\ got \in [missing -> free_frames \cup {None}]
           /\ \A j, k \in missing : got[j] = got[k] /\ got[j] # None => j = k
           /\ PoolAfter(got) \subseteq free_frames
           /\ \A k \in missing : got[k] \notin PoolAfter(got)
  BY DEF Grants, PoolAfter, Range

(* One write, whatever it found allocated and whatever it was granted: it  *)
(* ends at end, and every byte before that has a frame.                    *)
WriteOutcome(h, buf, node, p, end) ==
    /\ end \in Nat /\ p <= end /\ end <= Capacity /\ end <= p + Len(buf)
    /\ file_data' \in [NodeIds -> [FrameIndices -> Frames \cup {None}]]
    /\ \A n \in NodeIds : n # node => file_data'[n] = file_data[n]
    /\ \A k \in FrameIndices : file_data[node][k] # None => file_data'[node][k] = file_data[node][k]
    /\ \A k \in FrameIndices : file_data[node][k] = None /\ file_data'[node][k] # None
           => file_data'[node][k] \in free_frames \ free_frames'
    /\ \A j, k \in FrameIndices : /\ file_data[node][j] = None /\ file_data[node][k] = None
                                  /\ file_data'[node][j] = file_data'[node][k]
                                  /\ file_data'[node][j] # None
           => j = k
    /\ free_frames' \subseteq free_frames
    /\ \A q \in p .. end - 1 : file_data'[node][q \div PAGE] # None
    /\ memory' = [f \in Frames |-> [o \in Offsets |->
           LET hits == {q \in p .. end - 1 : file_data'[node][q \div PAGE] = f /\ q % PAGE = o}
           IN  IF hits = {} THEN memory[f][o] ELSE buf[Min(hits) - p + 1]]]
    /\ file_sizes' = [file_sizes EXCEPT ![node] = Greatest(file_sizes[node], end)]
    /\ open_files' = [open_files EXCEPT ![h].position = end]
    /\ \/ ret' = Returned("write", end - p) /\ (end = p + Len(buf) \/ end = Capacity)
       \/ ret' = Failed

LEMMA WriteStep ==
    ASSUME WellOrdered,
           DataInv, NEW h \in FileHandles, open_files[h] # None, NEW buf \in Buffers,
           WriteLoop(h, buf)
    PROVE  /\ open_files[h].node \in NodeIds /\ open_files[h].position \in Nat
           /\ open_files[h].position <= file_sizes[open_files[h].node]
           /\ file_sizes[open_files[h].node] \in 0 .. Capacity
           /\ Len(buf) \in Nat /\ \A i \in 1 .. Len(buf) : buf[i] \in Byte
           /\ \E end \in Nat : WriteOutcome(h, buf, open_files[h].node, open_files[h].position, end)
  <1> DEFINE node == open_files[h].node
             p == open_files[h].position
  <1>1. open_files[h] \in OpenFiles
    BY DEF DataInv, DataTypes
  <1>2. node \in NodeIds /\ p \in Nat
    BY <1>1 DEF OpenFiles
  <1>3. p <= file_sizes[node] /\ file_sizes[node] \in 0 .. Capacity
    BY <1>2 DEF DataInv, DataTypes, NoHoles
  <1>4. Len(buf) \in Nat /\ \A i \in 1 .. Len(buf) : buf[i] \in Byte
    BY VfsAssumption
  <1> DEFINE goal == Least(p + Len(buf), Capacity)
             missing == {k \in {q \div PAGE : q \in p .. goal - 1} : file_data[node][k] = None}
  <1>5. /\ goal \in Nat /\ p <= goal /\ goal <= Capacity /\ goal <= p + Len(buf)
        /\ goal = p + Len(buf) \/ goal = Capacity
    BY <1>2, <1>3, <1>4, Bounds DEF Least
  <1> HIDE DEF goal
  <1>6. \A q \in p .. goal - 1 : q \in Nat /\ q < Capacity /\ q < goal
    BY <1>2, <1>5, Bounds
  <1>7. ASSUME NEW k \in missing
        PROVE  k \in FrameIndices /\ k * PAGE < goal /\ file_data[node][k] = None
    <2>1. PICK q \in p .. goal - 1 : k = q \div PAGE
      OBVIOUS
    <2>2. k \in FrameIndices /\ k * PAGE \in Nat /\ k * PAGE <= q
      BY <1>6, <2>1, Places, Zenon
    <2> QED
      BY <1>5, <1>6, <2>1, <2>2
  <1>8. ASSUME NEW q \in p .. goal - 1
        PROVE  /\ q \div PAGE \in FrameIndices
               /\ q \div PAGE \in missing \/ file_data[node][q \div PAGE] # None
    BY <1>6, Places, Zenon
  <1>9. PICK got \in Grants(missing) :
          LET failed == {k \in missing : got[k] = None}
              end == WriteEnd(p, goal, failed)
          IN  /\ file_data' = [file_data EXCEPT ![node] =
                     [k \in FrameIndices |-> IF k \in missing THEN got[k] ELSE @[k]]]
              /\ free_frames' = PoolAfter(got)
              /\ memory' = [f \in Frames |-> [o \in Offsets |->
                     LET hits == {q \in p .. end - 1 :
                                    file_data'[node][q \div PAGE] = f /\ q % PAGE = o}
                     IN  IF hits = {} THEN memory[f][o] ELSE buf[Min(hits) - p + 1]]]
              /\ file_sizes' = [file_sizes EXCEPT ![node] = NewSize(node, end)]
              /\ open_files' = [open_files EXCEPT ![h].position = end]
              /\ ret' = IF failed = {} THEN Returned("write", end - p) ELSE Failed
    BY Zenon DEF WriteLoop, goal
  <1> HIDE DEF missing, node, p
  <1> DEFINE failed == {k \in missing : got[k] = None}
             end == WriteEnd(p, goal, failed)
  <1>10. /\ got \in [missing -> free_frames \cup {None}]
         /\ \A j, k \in missing : got[j] = got[k] /\ got[j] # None => j = k
         /\ PoolAfter(got) \subseteq free_frames
         /\ \A k \in missing : got[k] \notin PoolAfter(got)
    BY <1>7, <1>9, GrantFacts, Zenon
  <1>11. /\ end \in Nat /\ p <= end /\ end <= goal
         /\ failed = {} => end = goal
         /\ \A k \in failed, q \in p .. end - 1 : q < k * PAGE
    <2>1. CASE failed = {}
      BY <1>2, <1>5, <2>1 DEF WriteEnd
    <2>2. CASE failed # {}
      <3>1. failed \in SUBSET Nat
        BY <1>7, Bounds, Zenon
      <3>2. Min(failed) \in failed /\ \A k \in failed : Min(failed) <= k
        BY <2>2, <3>1, MinIsLeast, Zenon
      <3> DEFINE m == Min(failed)
      <3>3. m \in Nat /\ m * PAGE \in Nat /\ m * PAGE < goal
        BY <1>7, <3>1, <3>2, Places, Zenon
      <3>4. \A k \in failed : k \in Nat /\ m <= k
        BY <3>1, <3>2, Zenon
      <3>5. end = Greatest(p, m * PAGE)
        BY <2>2 DEF WriteEnd
      <3> HIDE DEF m, failed, end
      <3>6. \A k \in failed : m * PAGE <= k * PAGE /\ k * PAGE \in Nat
        BY <3>3, <3>4, Places
      <3> QED
        BY <1>2, <1>5, <2>2, <3>3, <3>5, <3>6 DEF Greatest
    <2> QED
      BY <2>1, <2>2, Zenon
  <1>12. /\ file_data' = [file_data EXCEPT ![node] =
                [k \in FrameIndices |-> IF k \in missing THEN got[k] ELSE file_data[node][k]]]
         /\ free_frames' = PoolAfter(got)
         /\ memory' = [f \in Frames |-> [o \in Offsets |->
                LET hits == {q \in p .. end - 1 :
                               file_data'[node][q \div PAGE] = f /\ q % PAGE = o}
                IN  IF hits = {} THEN memory[f][o] ELSE buf[Min(hits) - p + 1]]]
         /\ file_sizes' = [file_sizes EXCEPT ![node] = Greatest(file_sizes[node], end)]
         /\ open_files' = [open_files EXCEPT ![h].position = end]
         /\ ret' = IF failed = {} THEN Returned("write", end - p) ELSE Failed
    BY <1>9, Zenon DEF NewSize
  <1>13. \A k \in missing : k \in failed \/ got[k] # None
    OBVIOUS
  <1> HIDE DEF failed, end
  <1>14. file_data \in [NodeIds -> [FrameIndices -> Frames \cup {None}]] /\ free_frames \subseteq Frames
    BY DEF DataInv, DataTypes
  <1>15. \A n \in NodeIds : n # node => file_data'[n] = file_data[n]
    BY <1>2, <1>12, <1>14
  <1>16. file_data'[node] = [k \in FrameIndices |-> IF k \in missing THEN got[k] ELSE file_data[node][k]]
    BY <1>2, <1>12, <1>14
  <1>17. file_data' \in [NodeIds -> [FrameIndices -> Frames \cup {None}]]
    BY <1>2, <1>10, <1>12, <1>14
  <1>18. \A k \in FrameIndices : k \in missing => file_data[node][k] = None
    BY <1>7
  <1>19. \A k \in FrameIndices : file_data[node][k] # None => file_data'[node][k] = file_data[node][k]
    BY <1>16, <1>18
  <1>20. \A k \in FrameIndices : file_data[node][k] = None /\ file_data'[node][k] # None
             => k \in missing /\ file_data'[node][k] = got[k]
    BY <1>16
  <1>21. \A k \in FrameIndices : file_data[node][k] = None /\ file_data'[node][k] # None
             => file_data'[node][k] \in free_frames \ free_frames'
    BY <1>10, <1>12, <1>20
  <1>22. \A j, k \in FrameIndices : /\ file_data[node][j] = None /\ file_data[node][k] = None
                                    /\ file_data'[node][j] = file_data'[node][k]
                                    /\ file_data'[node][j] # None
             => j = k
    BY <1>10, <1>20
  <1>23. \A q \in p .. end - 1 : file_data'[node][q \div PAGE] # None
    <2> SUFFICES ASSUME NEW q \in p .. end - 1 PROVE file_data'[node][q \div PAGE] # None
      OBVIOUS
    <2>1. q \in p .. goal - 1 /\ q \in Nat
      BY <1>2, <1>5, <1>11
    <2>2. q \div PAGE \in FrameIndices /\ (q \div PAGE \in missing \/ file_data[node][q \div PAGE] # None)
      BY <1>8, <2>1
    <2>3. q \div PAGE \notin failed
      BY <1>11, <2>1, Places
    <2> QED
      BY <1>13, <1>16, <1>18, <2>2, <2>3
  <1>24. \/ ret' = Returned("write", end - p) /\ (end = p + Len(buf) \/ end = Capacity)
         \/ ret' = Failed
    BY <1>5, <1>11, <1>12
  <1>25. end \in Nat /\ p <= end /\ end <= Capacity /\ end <= p + Len(buf)
    BY <1>2, <1>4, <1>5, <1>11, Bounds
  <1>26. free_frames' \subseteq free_frames
    BY <1>10, <1>12
  <1>27. WriteOutcome(h, buf, node, p, end)
    BY <1>12, <1>15, <1>17, <1>19, <1>21, <1>22, <1>23, <1>24, <1>25, <1>26, Zenon DEF WriteOutcome
  <1> QED
    BY <1>2, <1>3, <1>4, <1>25, <1>27 DEF node, p

(* A position that is written lies in the buffer. *)
LEMMA InBuffer ==
    ASSUME NEW from \in Nat, NEW until \in Nat, NEW n \in Nat, until <= from + n,
           NEW at \in from .. until - 1
    PROVE  at - from + 1 \in 1 .. n
  OBVIOUS

LEMMA WriteKeepsData ==
    ASSUME WellOrdered,
           DataInv, NEW h \in FileHandles, open_files[h] # None, NEW buf \in Buffers,
           WriteLoop(h, buf)
    PROVE  DataInv'
  <1> DEFINE node == open_files[h].node
             p == open_files[h].position
  <1>1. /\ node \in NodeIds /\ p \in Nat /\ p <= file_sizes[node] /\ file_sizes[node] \in 0 .. Capacity
        /\ Len(buf) \in Nat /\ \A i \in 1 .. Len(buf) : buf[i] \in Byte
    BY WriteStep
  <1>2. PICK end \in Nat : WriteOutcome(h, buf, node, p, end)
    BY WriteStep
  <1>3. open_files[h] \in OpenFiles
    BY DEF DataInv, DataTypes
  <1> DEFINE opened == [open_files[h] EXCEPT !.position = end]
  <1>4. /\ opened \in OpenFiles /\ opened.node = node /\ opened.position = end
        /\ open_files' = [open_files EXCEPT ![h] = opened]
    BY <1>2, <1>3, Zenon DEF OpenFiles, WriteOutcome
  <1> HIDE DEF node, p, opened
  <1>5. file_sizes[node] \in Nat /\ end \in Nat /\ end <= Capacity /\ p <= end /\ Capacity \in Nat
    BY <1>1, <1>2, Bounds DEF WriteOutcome
  <1> DEFINE size == Greatest(file_sizes[node], end)
  <1>6. size \in 0 .. Capacity /\ file_sizes[node] <= size /\ end <= size
        /\ (size = end \/ size = file_sizes[node])
    BY <1>1, <1>5 DEF Greatest
  <1>7. file_sizes' = [file_sizes EXCEPT ![node] = size]
    BY <1>2 DEF WriteOutcome
  <1> HIDE DEF size
  <1>8. file_sizes'[node] = size /\ \A n \in NodeIds : n # node => file_sizes'[n] = file_sizes[n]
    BY <1>1, <1>7 DEF DataInv, DataTypes
  <1>9. open_files'[h] = opened /\ \A g \in FileHandles : g # h => open_files'[g] = open_files[g]
    BY <1>4 DEF DataInv, DataTypes
  <1>10. DataTypes'
    <2>1. file_data' \in [NodeIds -> [FrameIndices -> Frames \cup {None}]] /\ free_frames' \subseteq Frames
      BY <1>2 DEF WriteOutcome, DataInv, DataTypes
    <2>2. file_sizes' \in [NodeIds -> 0 .. Capacity]
      BY <1>1, <1>6, <1>7 DEF DataInv, DataTypes
    <2>3. open_files' \in [FileHandles -> OpenFiles \cup {None}]
      BY <1>4 DEF DataInv, DataTypes
    <2>4. memory' \in [Frames -> [Offsets -> Byte \cup {Stale}]]
      <3> DEFINE hits(f, o) == {q \in p .. end - 1 : file_data'[node][q \div PAGE] = f /\ q % PAGE = o}
                 byte(f, o) == IF hits(f, o) = {} THEN memory[f][o] ELSE buf[Min(hits(f, o)) - p + 1]
      <3>1. memory' = [f \in Frames |-> [o \in Offsets |-> byte(f, o)]]
        BY <1>2, Zenon DEF WriteOutcome
      <3>2. ASSUME NEW f \in Frames, NEW o \in Offsets PROVE byte(f, o) \in Byte \cup {Stale}
        <4>1. CASE hits(f, o) = {}
          BY <4>1 DEF DataInv, DataTypes
        <4>2. CASE hits(f, o) # {}
          <5>1. hits(f, o) \in SUBSET Nat
            BY <1>1
          <5>2. Min(hits(f, o)) \in p .. end - 1
            BY <4>2, <5>1, MinIsLeast, Zenon
          <5>3. end <= p + Len(buf)
            BY <1>2 DEF WriteOutcome
          <5>4. p \in Nat /\ Len(buf) \in Nat
            BY <1>1
          <5>5. Min(hits(f, o)) - p + 1 \in 1 .. Len(buf)
            BY <1>5, <5>2, <5>3, <5>4, InBuffer, Zenon
          <5> QED
            BY <1>1, <4>2, <5>5, Zenon
        <4> QED
          BY <4>1, <4>2, Zenon
      <3> HIDE DEF byte
      <3> QED
        BY <3>1, <3>2
    <2> QED
      BY <2>1, <2>2, <2>3, <2>4 DEF DataTypes
  <1>11. NoHoles'
    <2>1. ASSUME NEW n \in NodeIds, NEW q \in 0 .. file_sizes'[n] - 1
          PROVE  file_data'[n][q \div PAGE] # None
      <3>1. CASE n # node
        BY <1>2, <1>8, <3>1 DEF WriteOutcome, DataInv, NoHoles
      <3>2. CASE n = node
        <4>1. q \in Nat /\ q < size
          BY <1>6, <1>8, <3>2
        <4>2. CASE q < file_sizes[node]
          <5>1. q < Capacity
            BY <1>1, <1>5, <4>1, <4>2
          <5>2. q \div PAGE \in FrameIndices
            BY <4>1, <5>1, Places
          <5>3. file_data[node][q \div PAGE] # None
            BY <1>1, <4>1, <4>2 DEF DataInv, NoHoles
          <5> QED
            BY <1>2, <3>2, <5>2, <5>3 DEF WriteOutcome
        <4>3. CASE ~(q < file_sizes[node])
          <5>1. q \in p .. end - 1
            BY <1>1, <1>5, <1>6, <4>1, <4>3
          <5> QED
            BY <1>2, <3>2, <5>1 DEF WriteOutcome
        <4> QED
          BY <4>2, <4>3
      <3> QED
        BY <3>1, <3>2
    <2>2. ASSUME NEW g \in FileHandles, open_files'[g] # None
          PROVE  open_files'[g].position <= file_sizes'[open_files'[g].node]
      <3>1. CASE g = h
        BY <1>4, <1>6, <1>8, <1>9, <3>1
      <3>2. CASE g # h
        <4>1. open_files'[g] = open_files[g] /\ open_files[g] \in OpenFiles
          BY <1>9, <2>2, <3>2 DEF DataInv, DataTypes
        <4> DEFINE m == open_files[g].node
                   r == open_files[g].position
        <4>2. m \in NodeIds /\ r \in Nat
          BY <4>1 DEF OpenFiles
        <4>3. r <= file_sizes[m] /\ file_sizes[m] \in 0 .. Capacity
          BY <2>2, <4>1, <4>2 DEF DataInv, DataTypes, NoHoles
        <4> HIDE DEF m, r
        <4>4. r <= file_sizes'[m]
          BY <1>5, <1>6, <1>8, <4>2, <4>3
        <4> QED
          BY <4>1, <4>4 DEF m, r
      <3> QED
        BY <3>1, <3>2
    <2> QED
      BY <2>1, <2>2 DEF NoHoles, NodeIds, FileHandles
  <1>12. FramesPrivate'
    <2> SUFFICES ASSUME NEW n \in NodeIds, NEW k \in FrameIndices, file_data'[n][k] # None
                 PROVE  /\ file_data'[n][k] \notin free_frames'
                        /\ \A m \in NodeIds, j \in FrameIndices :
                               file_data'[m][j] = file_data'[n][k] => m = n /\ j = k
      BY DEF FramesPrivate, NodeIds, FrameIndices
    <2> DEFINE Old(m, j) == file_data[m][j] # None
    <2>1. \A m \in NodeIds, j \in FrameIndices :
              file_data'[m][j] # None =>
                  \/ Old(m, j) /\ file_data'[m][j] = file_data[m][j]
                  \/ m = node /\ ~Old(m, j) /\ file_data'[m][j] \in free_frames \ free_frames'
      BY <1>2 DEF WriteOutcome
    <2>2. \A m \in NodeIds, j \in FrameIndices : Old(m, j) =>
              /\ file_data[m][j] \notin free_frames
              /\ \A l \in NodeIds, i \in FrameIndices :
                     file_data[l][i] = file_data[m][j] => l = m /\ i = j
      BY DEF DataInv, FramesPrivate
    <2>3. \A j, i \in FrameIndices :
              ~Old(node, j) /\ ~Old(node, i) /\ file_data'[node][j] = file_data'[node][i]
                  /\ file_data'[node][j] # None => j = i
      BY <1>2 DEF WriteOutcome
    <2>4. free_frames' \subseteq free_frames
      BY <1>2 DEF WriteOutcome
    <2> QED
      BY <2>1, <2>2, <2>3, <2>4
  <1> QED
    BY <1>10, <1>11, <1>12 DEF DataInv

(* What changes neither files nor open files keeps both alike. *)
LEMMA DataUntouched ==
    ASSUME DataInv, UNCHANGED open_files, UNCHANGED data_vars
    PROVE  DataInv'
  <1>1. UNCHANGED <<file_data, file_sizes, memory, free_frames>>
    BY Zenon DEF data_vars
  <1>2. /\ file_data' = file_data /\ file_sizes' = file_sizes /\ memory' = memory
        /\ free_frames' = free_frames
    BY <1>1
  <1>3. DataTypes'
    BY <1>2, Zenon DEF DataInv, DataTypes
  <1>4. NoHoles'
    BY <1>2 DEF DataInv, NoHoles
  <1>5. FramesPrivate'
    BY <1>2 DEF DataInv, FramesPrivate
  <1> QED
    BY <1>3, <1>4, <1>5, Zenon DEF DataInv

LEMMA InitData == VfsInit => DataInv
  <1> SUFFICES ASSUME VfsInit PROVE DataInv
    OBVIOUS
  <1>1. \A n \in NodeIds : file_sizes[n] = 0
    BY DEF VfsInit
  <1>2. \A n \in NodeIds, k \in FrameIndices : file_data[n][k] = None
    BY DEF VfsInit
  <1>3. \A h \in FileHandles : open_files[h] = None
    BY DEF VfsInit
  <1>4. DataTypes
    BY Bounds DEF VfsInit, DataTypes
  <1>5. NoHoles
    BY <1>1, <1>3 DEF NoHoles
  <1> QED
    BY <1>2, <1>4, <1>5 DEF DataInv, FramesPrivate

(* A change of the open files that leaves every cursor within its file. *)
LEMMA CursorsKeepData ==
    ASSUME DataInv, UNCHANGED data_vars,
           NEW h \in FileHandles, NEW file \in OpenFiles \cup {None},
           open_files' = [open_files EXCEPT ![h] = file],
           file # None => file.position <= file_sizes[file.node]
    PROVE  DataInv'
  <1>1. /\ file_data' = file_data /\ file_sizes' = file_sizes
        /\ memory' = memory /\ free_frames' = free_frames
    BY DEF data_vars
  <1>2. open_files'[h] = file /\ \A g \in FileHandles : g # h => open_files'[g] = open_files[g]
    BY DEF DataInv, DataTypes
  <1>3. open_files' \in [FileHandles -> OpenFiles \cup {None}]
    BY DEF DataInv, DataTypes
  <1>4. DataTypes'
    BY <1>1, <1>3 DEF DataInv, DataTypes
  <1>5. NoHoles'
    BY <1>1, <1>2 DEF DataInv, NoHoles
  <1>6. FramesPrivate'
    BY <1>1 DEF DataInv, FramesPrivate
  <1> QED
    BY <1>4, <1>5, <1>6 DEF DataInv

LEMMA OpenKeepsData ==
    ASSUME WellOrdered,
           DataInv, UNCHANGED data_vars, NEW node \in NodeIds, NEW writable \in BOOLEAN,
           FreeHandles # {}, open_files' = OpensWith(node, writable)
    PROVE  DataInv' /\ Min(FreeHandles) \in FreeHandles
  <1> DEFINE file == [node |-> node, position |-> 0, writable |-> writable]
  <1>1. FreeHandles \in SUBSET Nat
    BY Bounds, Zenon DEF FreeHandles
  <1>2. Min(FreeHandles) \in FreeHandles
    BY <1>1, MinIsLeast
  <1>3. Min(FreeHandles) \in FileHandles
    BY <1>2 DEF FreeHandles
  <1>4. file \in OpenFiles /\ file.position <= file_sizes[file.node]
    BY Bounds DEF OpenFiles, DataInv, DataTypes
  <1> QED
    BY <1>2, <1>3, <1>4, CursorsKeepData, Zenon DEF OpensWith

LEMMA CloseKeepsData ==
    ASSUME DataInv, UNCHANGED data_vars, NEW h \in FileHandles,
           open_files' = [open_files EXCEPT ![h] = None]
    PROVE  DataInv'
  BY CursorsKeepData, Zenon

(* A read moves the cursor to end, which is within the file. *)
LEMMA ReadStep ==
    ASSUME DataInv, NEW h \in FileHandles, open_files[h] # None, NEW n \in Nat
    PROVE  LET node == open_files[h].node
               p == open_files[h].position
               end == ReadEnd(node, p, n)
           IN  /\ open_files[h] \in OpenFiles /\ node \in NodeIds /\ p \in Nat
               /\ file_sizes[node] \in 0 .. Capacity /\ p <= file_sizes[node]
               /\ end = Least(p + n, file_sizes[node])
               /\ end \in Nat /\ p <= end /\ end <= file_sizes[node]
  <1> DEFINE node == open_files[h].node
             p == open_files[h].position
  <1>1. open_files[h] \in OpenFiles
    BY DEF DataInv, DataTypes
  <1>2. node \in NodeIds /\ p \in Nat
    BY <1>1 DEF OpenFiles
  <1>3. p <= file_sizes[node] /\ file_sizes[node] \in 0 .. Capacity
    BY <1>2 DEF DataInv, DataTypes, NoHoles
  <1> HIDE DEF node, p
  <1>4. file_sizes[node] \in Nat
    BY <1>3, Bounds
  <1>5. /\ ReadEnd(node, p, n) = Least(p + n, file_sizes[node])
        /\ ReadEnd(node, p, n) \in Nat
        /\ p <= ReadEnd(node, p, n) /\ ReadEnd(node, p, n) <= file_sizes[node]
    BY <1>2, <1>3, <1>4 DEF ReadEnd, Least, Greatest
  <1> QED
    BY <1>1, <1>2, <1>3, <1>5, Zenon DEF node, p

LEMMA ReadKeepsData ==
    ASSUME DataInv, NEW h \in FileHandles, NEW n \in Nat, Read(h, n)
    PROVE  DataInv'
  <1>1. UNCHANGED data_vars
    BY DEF Read
  <1>2. CASE open_files[h] = None
    <2>1. open_files' = [open_files EXCEPT ![h] = None]
      BY <1>2 DEF Read, DataInv, DataTypes
    <2> QED
      BY <1>1, <2>1, CloseKeepsData, Zenon
  <1>3. CASE open_files[h] # None
    <2> DEFINE file == open_files[h]
               end == ReadEnd(file.node, file.position, n)
               moved == [file EXCEPT !.position = end]
    <2>1. /\ file \in OpenFiles /\ end \in Nat /\ end <= file_sizes[file.node]
      BY <1>3, ReadStep, Zenon
    <2>2. open_files' = [open_files EXCEPT ![h] = moved]
      BY <1>3 DEF Read
    <2>3. moved \in OpenFiles /\ moved.position <= file_sizes[moved.node]
      BY <2>1 DEF OpenFiles
    <2> QED
      BY <1>1, <2>2, <2>3, CursorsKeepData, Zenon
  <1> QED
    BY <1>2, <1>3

-----------------------------------------------------------------------------
(* Paths.  lookup's loop is a recursive function; the next lemma gives it  *)
(* a value, for the loop of lookup and for the paths of the nodes: each    *)
(* entry is computed from an earlier one.                                  *)

Recurrence(N, A, a, g, up) ==
    /\ N \in Nat /\ a \in A /\ g \in [1 .. N -> [A -> A]]
    /\ up \in [1 .. N -> Nat] /\ \A j \in 1 .. N : up[j] < j
Solves(w, N, A, a, g, up) ==
    /\ w \in [0 .. N -> A] /\ w[0] = a
    /\ \A j \in 1 .. N : w[j] = g[j][w[up[j]]]

LEMMA RecursionExists ==
    ASSUME WellOrdered,
           NEW N, NEW A, NEW a, NEW g, NEW up, Recurrence(N, A, a, g, up)
    PROVE  \E w : Solves(w, N, A, a, g, up)
  <1> USE DEF Recurrence
  <1> DEFINE Good(w, n) ==
                 /\ w \in [0 .. n -> A] /\ w[0] = a
                 /\ \A j \in 1 .. n : w[j] = g[j][w[up[j]]]
             Bad == {n \in 0 .. N : ~\E w : Good(w, n)}
  <1>1. SUFFICES ASSUME Bad # {} PROVE FALSE
    <2> HIDE DEF Good
    <2>1. N \in 0 .. N
      OBVIOUS
    <2>2. PICK w : Good(w, N)
      BY <1>1, <2>1, Zenon
    <2> QED
      BY <2>2, Zenon DEF Good, Solves
  <1>2. PICK n \in Bad : \A m \in Bad : n <= m
    <2>1. Bad \in SUBSET Nat
      OBVIOUS
    <2> QED
      BY <1>1, <2>1, MinIsLeast, Zenon
  <1>3. n \in 0 .. N /\ ~\E w : Good(w, n)
    BY Zenon
  <1>4. CASE n = 0
    <2> DEFINE w == [i \in 0 .. 0 |-> a]
    <2>1. Good(w, 0)
      OBVIOUS
    <2> QED
      BY <1>3, <1>4, <2>1, Zenon
  <1>5. CASE n > 0
    <2>1. n - 1 \in 0 .. N /\ ~(n <= n - 1)
      BY <1>3, <1>5
    <2>2. PICK w : Good(w, n - 1)
      <3> HIDE DEF Good
      <3> QED
        BY <1>2, <2>1, Zenon
    <2> DEFINE v == [i \in 0 .. n |-> IF i = n THEN g[n][w[up[n]]] ELSE w[i]]
    <2>3. n \in 1 .. N /\ up[n] \in 0 .. n - 1
      BY <1>3, <1>5
    <2>4. w[up[n]] \in A
      BY <2>2, <2>3
    <2>5. g[n][w[up[n]]] \in A
      BY <2>3, <2>4
    <2>6. v \in [0 .. n -> A] /\ v[0] = a
      BY <1>5, <2>2, <2>3, <2>5
    <2>7. ASSUME NEW j \in 1 .. n PROVE v[j] = g[j][v[up[j]]]
      <3>1. j \in 1 .. N /\ up[j] \in 0 .. j - 1
        BY <2>3
      <3>2. v[up[j]] = w[up[j]]
        BY <2>3, <3>1
      <3>3. CASE j = n
        BY <3>2, <3>3
      <3>4. CASE j # n
        <4>1. j \in 1 .. n - 1
          BY <2>3, <3>4
        <4>2. w[j] = g[j][w[up[j]]]
          BY <2>2, <4>1
        <4>3. v[j] = w[j]
          BY <2>3, <4>1
        <4> QED
          BY <3>2, <4>2, <4>3, Zenon
      <3> QED
        BY <3>3, <3>4, Zenon
    <2> HIDE DEF v
    <2> QED
      BY <1>3, <2>6, <2>7, Zenon
  <1> QED
    BY <1>3, <1>4, <1>5

(* Two functions that agree at 0 and step by step agree. *)
InStep(v, w, N) ==
    /\ N \in Nat /\ v[0] = w[0]
    /\ \A j \in 1 .. N : v[j - 1] = w[j - 1] => v[j] = w[j]

LEMMA AgreeStepwise ==
    ASSUME WellOrdered,
           NEW N, NEW v, NEW w, InStep(v, w, N) PROVE \A i \in 0 .. N : v[i] = w[i]
  <1> USE DEF InStep
  <1> DEFINE Bad == {i \in 0 .. N : v[i] # w[i]}
  <1>1. SUFFICES ASSUME Bad # {} PROVE FALSE
    BY <1>1
  <1>2. Bad \in SUBSET Nat
    OBVIOUS
  <1>3. PICK i \in Bad : \A j \in Bad : i <= j
    BY <1>1, <1>2, MinIsLeast, Zenon
  <1>4. i \in 1 .. N
    OBVIOUS
  <1>5. i - 1 \in 0 .. N /\ ~(i <= i - 1)
    BY <1>4
  <1>6. v[i - 1] = w[i - 1]
    BY <1>3, <1>5
  <1> QED
    BY <1>3, <1>4, <1>6

(* What lookup's loop has reached after each part of the path: a node that *)
(* exists, or None.                                                        *)
Live == {i \in NodeIds : nodes[i] # None} \cup {None}
StepTo(x, part) == IF x = None \/ part = "" THEN x ELSE FindChild(x, part)

LEMMA StepStaysLive ==
    ASSUME WellOrdered,
           NEW x \in Live, NEW part PROVE StepTo(x, part) \in Live
  <1>1. Children(x, part) \in SUBSET Nat /\ Children(x, part) \subseteq Live
    BY Bounds, Zenon DEF Children, Live
  <1>2. Children(x, part) # {} => Min(Children(x, part)) \in Live
    BY <1>1, MinIsLeast
  <1> QED
    BY <1>2, Zenon DEF StepTo, FindChild, Live

Walkable(A, a, S, F, path) == a \in A /\ F \in [A -> [S -> A]] /\ path \in Seq(S)
Walks(w, A, a, F, path) ==
    /\ w \in [0 .. Len(path) -> A] /\ w[0] = a
    /\ \A j \in 1 .. Len(path) : w[j] = F[w[j - 1]][path[j]]

LEMMA WalkExists ==
    ASSUME WellOrdered,
           NEW A, NEW a, NEW S, NEW F, NEW path, Walkable(A, a, S, F, path)
    PROVE  \E w : Walks(w, A, a, F, path)
  <1> USE DEF Walkable
  <1>0. PICK N \in Nat : N = Len(path) /\ \A j \in 1 .. N : path[j] \in S
    OBVIOUS
  <1> DEFINE g == [j \in 1 .. N |-> [x \in A |-> F[x][path[j]]]]
             up == [j \in 1 .. N |-> j - 1]
  <1>1. g \in [1 .. N -> [A -> A]]
    BY <1>0
  <1>2. up \in [1 .. N -> Nat] /\ \A j \in 1 .. N : up[j] < j
    OBVIOUS
  <1>3. PICK w \in [0 .. N -> A] : w[0] = a /\ \A j \in 1 .. N : w[j] = g[j][w[up[j]]]
    <2> HIDE DEF g, up
    <2>1. Recurrence(N, A, a, g, up)
      BY <1>1, <1>2 DEF Recurrence
    <2>2. \E w : Solves(w, N, A, a, g, up)
      BY <2>1, RecursionExists
    <2> QED
      BY <2>2, Zenon DEF Solves
  <1>4. ASSUME NEW j \in 1 .. N PROVE w[j] = F[w[j - 1]][path[j]]
    <2>1. up[j] = j - 1 /\ w[j - 1] \in A
      OBVIOUS
    <2> QED
      BY <1>3, <2>1, Zenon
  <1> QED
    BY <1>0, <1>3, <1>4, Zenon DEF Walks

LEMMA LookupWalk ==
    ASSUME WellOrdered,
           NameInv, NEW S, NEW path \in Seq(S)
    PROVE  \E w \in [0 .. Len(path) -> Live] :
               /\ w[0] = Root
               /\ \A j \in 1 .. Len(path) : w[j] = StepTo(w[j - 1], path[j])
               /\ Lookup(path) = w[Len(path)]
  <1>1. PICK N \in Nat : N = Len(path) /\ \A j \in 1 .. N : path[j] \in S
    OBVIOUS
  <1>2. PICK A : A = Live
    OBVIOUS
  <1>3. PICK F : F = [x \in A |-> [s \in S |-> StepTo(x, s)]]
    BY Zenon
  <1>4. Root \in A
    BY <1>2, VfsAssumption DEF Live, NameInv, Root, NodeIds
  <1>5. F \in [A -> [S -> A]]
    BY <1>2, <1>3, StepStaysLive, Zenon
  <1>6. PICK w \in [0 .. N -> A] : w[0] = Root /\ \A j \in 1 .. N : w[j] = F[w[j - 1]][path[j]]
    <2>1. Walkable(A, Root, S, F, path)
      BY <1>4, <1>5 DEF Walkable
    <2>2. \E w : Walks(w, A, Root, F, path)
      BY <2>1, WalkExists
    <2> QED
      BY <1>1, <2>2 DEF Walks
  <1> DEFINE Body(v) == [i \in 0 .. Len(path) |->
                            IF i = 0 THEN Root
                            ELSE IF v[i - 1] = None \/ path[i] = "" THEN v[i - 1]
                            ELSE FindChild(v[i - 1], path[i])]
  <1>7. ASSUME NEW j \in 1 .. N PROVE w[j] = StepTo(w[j - 1], path[j])
    <2>1. w[j - 1] \in A /\ path[j] \in S
      BY <1>1
    <2>2. F[w[j - 1]][path[j]] = StepTo(w[j - 1], path[j])
      BY <1>3, <2>1, Zenon
    <2> QED
      BY <1>6, <2>2
  <1>8. w = Body(w)
    <2>1. ASSUME NEW i \in 0 .. N
          PROVE  w[i] = IF i = 0 THEN Root
                        ELSE IF w[i - 1] = None \/ path[i] = "" THEN w[i - 1]
                        ELSE FindChild(w[i - 1], path[i])
      <3>1. i = 0 \/ i \in 1 .. N
        OBVIOUS
      <3> QED
        BY <1>6, <1>7, <3>1, Zenon DEF StepTo
    <2>2. w = [i \in 0 .. N |-> w[i]]
      OBVIOUS
    <2> QED
      BY <1>1, <2>1, <2>2, Zenon
  <1>9. PICK u : u = Body(u) /\ Lookup(path) = u[Len(path)]
    <2> DEFINE walk == CHOOSE v : v = Body(v)
    <2>1. walk = Body(walk)
      BY <1>8, Zenon
    <2>2. Lookup(path) = walk[Len(path)]
      BY Zenon DEF Lookup
    <2> QED
      BY <2>1, <2>2, Zenon
  <1>10. u[0] = w[0]
    <2>1. 0 \in 0 .. Len(path)
      BY <1>1
    <2>2. u[0] = Root
      BY <1>9, <2>1, Zenon
    <2> QED
      BY <1>6, <2>2
  <1>11. ASSUME NEW j \in 1 .. N, u[j - 1] = w[j - 1] PROVE u[j] = w[j]
    <2>1. j \in 0 .. Len(path) /\ j # 0
      BY <1>1
    <2>2. u[j] = StepTo(u[j - 1], path[j])
      BY <1>9, <2>1, Zenon DEF StepTo
    <2> QED
      BY <1>7, <1>11, <2>2, Zenon
  <1>12. \A i \in 0 .. N : u[i] = w[i]
    <2>1. InStep(u, w, N)
      BY <1>10, <1>11 DEF InStep
    <2> QED
      BY <2>1, AgreeStepwise
  <1>13. Lookup(path) = w[N]
    BY <1>1, <1>9, <1>12, Zenon
  <1> QED
    BY <1>1, <1>2, <1>6, <1>7, <1>13, Zenon

(* lookup of a path is one step from lookup of the path without its last   *)
(* part, and stays there when that part is empty.                          *)
LEMMA LookupExtends ==
    ASSUME WellOrdered,
           NameInv, NEW S, NEW p \in Seq(S), NEW q \in Seq(S), Len(q) = Len(p) + 1,
           \A i \in 1 .. Len(p) : q[i] = p[i]
    PROVE  Lookup(q) = StepTo(Lookup(p), q[Len(q)])
  <1>1. PICK v \in [0 .. Len(p) -> Live] :
            /\ v[0] = Root
            /\ \A j \in 1 .. Len(p) : v[j] = StepTo(v[j - 1], p[j])
            /\ Lookup(p) = v[Len(p)]
    BY LookupWalk, Zenon
  <1>2. PICK w \in [0 .. Len(q) -> Live] :
            /\ w[0] = Root
            /\ \A j \in 1 .. Len(q) : w[j] = StepTo(w[j - 1], q[j])
            /\ Lookup(q) = w[Len(q)]
    BY LookupWalk, Zenon
  <1>3. \A j \in 1 .. Len(p) : v[j - 1] = w[j - 1] => v[j] = w[j]
    <2> SUFFICES ASSUME NEW j \in 1 .. Len(p), v[j - 1] = w[j - 1] PROVE v[j] = w[j]
      OBVIOUS
    <2>1. j \in 1 .. Len(q)
      OBVIOUS
    <2>2. v[j] = StepTo(v[j - 1], p[j]) /\ w[j] = StepTo(w[j - 1], q[j]) /\ q[j] = p[j]
      BY <1>1, <1>2, <2>1, Zenon
    <2> QED
      BY <2>2, Zenon
  <1>4. \A i \in 0 .. Len(p) : v[i] = w[i]
    <2>1. InStep(v, w, Len(p))
      BY <1>1, <1>2, <1>3 DEF InStep
    <2> QED
      BY <2>1, AgreeStepwise
  <1>5. v[Len(p)] = w[Len(p)]
    BY <1>4
  <1>6. Len(q) \in 1 .. Len(q) /\ Len(q) - 1 = Len(p)
    OBVIOUS
  <1>7. w[Len(q)] = StepTo(w[Len(q) - 1], q[Len(q)])
    BY <1>2, <1>6, Zenon
  <1> QED
    BY <1>1, <1>2, <1>5, <1>6, <1>7, Zenon

-----------------------------------------------------------------------------
(* The invariant of the filesystem. *)

VfsInv == NameInv /\ DataInv

LEMMA VfsInvInductive ==
    ASSUME WellOrdered
    PROVE  VfsInv /\ [VfsNext]_vfs_vars => VfsInv'
  <1> SUFFICES ASSUME VfsInv, [VfsNext]_vfs_vars PROVE VfsInv'
    OBVIOUS
  <1> USE DEF VfsInv
  <1>1. UNCHANGED nodes => NameInv'
    BY DEF NameInv, FilledFromBottom, NameSpaceIsTree, Children
  <1>2. UNCHANGED <<open_files, data_vars>> => DataInv'
    BY DataUntouched
  <1>3. ASSUME NEW parent \in NodeIds, NEW name \in Names, NEW kind \in {"Directory", "File"},
               nodes[parent] # None, Create(parent, name, kind)
        PROVE  VfsInv'
    <2>1. NameInv'
      BY <1>1, <1>3, CreateKeepsNames DEF Create
    <2> QED
      BY <1>2, <1>3, <2>1 DEF Create
  <1>4. ASSUME NEW node \in NodeIds, NEW writable \in BOOLEAN, Open(node, writable)
        PROVE  VfsInv'
    <2>1. UNCHANGED nodes /\ UNCHANGED data_vars
      BY <1>4 DEF Open
    <2>2. DataInv'
      BY <1>2, <1>4, <2>1, OpenKeepsData DEF Open
    <2> QED
      BY <1>1, <2>1, <2>2
  <1>5. ASSUME NEW h \in FileHandles, Close(h) PROVE VfsInv'
    BY <1>1, <1>5, CloseKeepsData, Zenon DEF Close
  <1>6. ASSUME NEW h \in FileHandles, NEW n \in Lengths, Read(h, n) PROVE VfsInv'
    <2>1. n \in Nat /\ UNCHANGED nodes
      BY <1>6, VfsAssumption DEF Read
    <2> QED
      BY <1>1, <1>6, <2>1, ReadKeepsData
  <1>7. ASSUME NEW h \in FileHandles, NEW buf \in Buffers, Write(h, buf) PROVE VfsInv'
    BY <1>1, <1>2, <1>7, WriteKeepsData DEF Write
  <1>8. CASE UNCHANGED vfs_vars
    BY <1>1, <1>2, <1>8 DEF vfs_vars, data_vars
  <1> QED
    BY <1>3, <1>4, <1>5, <1>6, <1>7, <1>8 DEF VfsNext

-----------------------------------------------------------------------------
(* Frames, sizes and cursors implement plain byte sequences. *)

(* The contents of a node are a sequence as long as the node's size. *)
LEMMA ContentFacts ==
    ASSUME DataInv, NEW n \in NodeIds
    PROVE  /\ file_sizes[n] \in Nat
           /\ Contents[n] = [q \in 1 .. file_sizes[n] |-> Contents[n][q]]
           /\ \A q \in 1 .. file_sizes[n] : Contents[n][q] = ByteAt(n, q - 1)
           /\ Len(Contents[n]) = file_sizes[n]
  <1>1. file_sizes[n] \in Nat
    BY Bounds DEF DataInv, DataTypes
  <1>2. Contents[n] = [q \in 1 .. file_sizes[n] |-> ByteAt(n, q - 1)]
    BY DEF Contents
  <1> QED
    BY <1>1, <1>2

(* A step that leaves the data alone leaves the contents alone. *)
LEMMA DataGivesContents == UNCHANGED data_vars => UNCHANGED Contents
  BY DEF Contents, ByteAt, data_vars

(* What a write leaves at place q of node n: its own byte where it wrote,  *)
(* and what was there everywhere else.  A frame that another byte shares   *)
(* would show here.                                                        *)
LEMMA WriteRefines ==
    ASSUME WellOrdered,
           DataInv, DataInv', NEW h \in FileHandles, open_files[h] # None,
           open_files[h].writable, NEW buf \in Buffers, WriteLoop(h, buf)
    PROVE  Store!Write
  <1>1. PICK node \in NodeIds, p \in Nat : node = open_files[h].node /\ p = open_files[h].position
    BY WriteStep, Zenon
  <1>2. PICK end \in Nat : /\ WriteOutcome(h, buf, node, p, end)
                           /\ p <= file_sizes[node] /\ Len(buf) \in Nat
    BY <1>1, WriteStep, Zenon
  <1> DEFINE k == end - p
  <1>3. k \in 0 .. Len(buf) /\ p + k = end
    BY <1>2 DEF WriteOutcome
  <1>4. \/ ret' = Returned("write", k) /\ (k = Len(buf) \/ p + k = Capacity)
        \/ ret' = Failed
    <2>1. \/ ret' = Returned("write", end - p) /\ (end = p + Len(buf) \/ end = Capacity)
          \/ ret' = Failed
      BY <1>2, Zenon DEF WriteOutcome
    <2>2. (end = p + Len(buf) => k = Len(buf)) /\ (end = Capacity => p + k = Capacity)
      BY <1>2, <1>3
    <2> QED
      BY <2>1, <2>2, Zenon
  <1>5. open_files' = [open_files EXCEPT ![h].position = @ + k]
    BY <1>1, <1>2, <1>3, Zenon DEF WriteOutcome
  <1>6. file_sizes' = [file_sizes EXCEPT ![node] = Greatest(file_sizes[node], end)]
    BY <1>2 DEF WriteOutcome
  <1>7. /\ Contents' = [n \in NodeIds |-> Contents'[n]]
        /\ Contents = [n \in NodeIds |-> Contents[n]]
        /\ \A n \in NodeIds : Contents'[n] = [q \in 1 .. file_sizes'[n] |-> Contents'[n][q]]
    BY Zenon DEF Contents
  <1> HIDE DEF k
  <1>8. ASSUME NEW n \in NodeIds, NEW q \in 1 .. file_sizes'[n]
        PROVE  IF n = node /\ q > p /\ q <= end
               THEN Contents'[n][q] = buf[q - p]
               ELSE q <= file_sizes[n] /\ Contents'[n][q] = Contents[n][q]
    <2> DEFINE r == q - 1
               slot == r \div PAGE
               o == r % PAGE
               frame == file_data'[n][slot]
    <2>1. /\ file_sizes[n] \in Nat /\ file_sizes[n] <= Capacity /\ file_sizes'[n] \in Nat
          /\ file_sizes'[n] <= Capacity /\ Capacity \in Nat
      BY Bounds DEF DataInv, DataTypes
    <2>2. r \in Nat /\ r < file_sizes'[n] /\ r < Capacity /\ q = r + 1 /\ r \in 0 .. file_sizes'[n] - 1
      BY <2>1
    <2>3. Contents'[n][q] = IF frame = None THEN 0 ELSE memory'[frame][o]
      BY Zenon DEF Contents, ByteAt
    <2> HIDE DEF r
    <2>4. slot \in FrameIndices /\ o \in Offsets
      BY <2>2, Places
    <2>5. frame # None /\ frame \in Frames
      BY <2>2, <2>4 DEF DataInv, DataTypes, NoHoles
    <2>6. end <= Capacity
      BY <1>2 DEF WriteOutcome
    <2>7. ASSUME NEW i \in p .. end - 1, file_data'[node][i \div PAGE] = frame, i % PAGE = o
          PROVE  n = node /\ i = r
      <3>1. i \in Nat /\ i < Capacity
        <4> HIDE DEF frame, slot, o
        <4> QED
          BY <2>1, <2>6
      <3>2. i \div PAGE \in FrameIndices
        BY <3>1, Places
      <3>3. file_data'[node][i \div PAGE] = file_data'[n][slot] /\ file_data'[n][slot] # None
        BY <2>5, <2>7, Zenon
      <3>4. i % PAGE = r % PAGE
        BY <2>7, Zenon
      <3>5. FramesPrivate'
        BY Zenon DEF DataInv
      <3> HIDE DEF frame, o
      <3>6. n = node /\ i \div PAGE = slot
        <4> HIDE DEF slot
        <4> QED
          BY <2>4, <3>2, <3>3, <3>5, Zenon DEF FramesPrivate
      <3> QED
        BY <2>2, <3>1, <3>4, <3>6, Places
    <2> DEFINE hits == {i \in p .. end - 1 : file_data'[node][i \div PAGE] = frame /\ i % PAGE = o}
    <2>8. memory'[frame][o] = IF hits = {} THEN memory[frame][o] ELSE buf[Min(hits) - p + 1]
      BY <1>2, <2>4, <2>5, Zenon DEF WriteOutcome
    <2>9. \A i \in hits : i \in p .. end - 1 /\ n = node /\ i = r
      BY <2>7, Zenon
    <2>10. CASE n = node /\ q > p /\ q <= end
      <3>1. r \in p .. end - 1
        BY <2>2, <2>10
      <3>2. hits = {r}
        <4>1. r \in hits
          BY <2>10, <3>1, Zenon
        <4> HIDE DEF hits
        <4> QED
          BY <2>9, <4>1, Zenon
      <3>3. Min(hits) = r
        BY <2>2, <3>2 DEF Min
      <3>4. Contents'[n][q] = buf[r - p + 1]
        BY <2>3, <2>5, <2>8, <3>2, <3>3, Zenon
      <3>5. r - p + 1 = q - p
        BY <2>2
      <3> QED
        BY <2>10, <3>4, <3>5
    <2>11. CASE ~(n = node /\ q > p /\ q <= end)
      <3>1. hits = {}
        <4> HIDE DEF hits
        <4> SUFFICES ASSUME NEW i \in hits PROVE FALSE
          BY Zenon
        <4>1. i \in p .. end - 1 /\ n = node /\ i = r
          BY <2>9, Zenon
        <4>2. q > p /\ q <= end
          BY <2>2, <4>1
        <4> QED
          BY <2>11, <4>1, <4>2, Zenon
      <3>2. r < file_sizes[n]
        <4> HIDE DEF hits, frame, slot, o
        <4>1. file_sizes' = [file_sizes EXCEPT ![node] = Greatest(file_sizes[node], end)]
          BY <1>2 DEF WriteOutcome
        <4>2. CASE n # node
          BY <2>2, <4>1, <4>2 DEF DataInv, DataTypes
        <4>3. CASE n = node
          <5>1. file_sizes'[n] = Greatest(file_sizes[n], end)
            BY <4>1, <4>3, Zenon DEF DataInv, DataTypes
          <5>2. CASE end <= file_sizes[n]
            BY <1>2, <2>1, <2>2, <5>1, <5>2 DEF Greatest
          <5>3. CASE end > file_sizes[n]
            <6>1. file_sizes'[n] = end
              BY <1>2, <2>1, <5>1, <5>3, Zenon DEF Greatest
            <6>2. q <= end
              BY <1>2, <2>2, <6>1
            <6>3. ~(q > p)
              BY <2>11, <4>3, <6>2, Zenon
            <6> QED
              <7>1. q <= p /\ p <= file_sizes[n]
                BY <1>1, <1>2, <4>3, <6>3
              <7> QED
                BY <2>1, <2>2, <7>1
          <5> QED
            BY <1>2, <2>1, <5>2, <5>3
        <4> QED
          BY <4>2, <4>3
      <3>3. file_data[n][slot] # None
        <4>1. r \in 0 .. file_sizes[n] - 1
          BY <2>1, <2>2, <3>2
        <4> QED
          BY <4>1, Zenon DEF DataInv, NoHoles
      <3>4. frame = file_data[n][slot]
        BY <1>2, <2>4, <3>3 DEF WriteOutcome
      <3>5. q \in 1 .. file_sizes[n]
        BY <2>1, <2>2, <3>2
      <3>6. Contents[n][q] = memory[frame][o]
        <4>1. Contents[n][q] = ByteAt(n, r)
          BY <3>5, ContentFacts, Zenon DEF r
        <4> QED
          BY <3>3, <3>4, <4>1, Zenon DEF ByteAt
      <3>7. q <= file_sizes[n]
        BY <2>1, <3>5
      <3>8. Contents'[n][q] = Contents[n][q]
        BY <2>3, <2>5, <2>8, <3>1, <3>6, Zenon
      <3> QED
        BY <2>11, <3>7, <3>8
    <2> QED
      BY <2>10, <2>11, Zenon
  <1>9. ASSUME NEW n \in NodeIds, n # node PROVE Contents'[n] = Contents[n]
    <2>1. file_sizes'[n] = file_sizes[n]
      BY <1>6, <1>9, Zenon DEF DataInv, DataTypes
    <2> QED
      BY <1>7, <1>8, <1>9, <2>1, ContentFacts
  <1>10. Contents'[node] = Store!Overlay(Contents[node], p, buf, k)
    <2>1. file_sizes'[node] = Greatest(file_sizes[node], end) /\ file_sizes[node] \in Nat
      BY <1>1, <1>6, ContentFacts, Zenon DEF DataInv, DataTypes
    <2>2. file_sizes'[node] = IF p + k > Len(Contents[node]) THEN p + k ELSE Len(Contents[node])
      BY <1>1, <1>3, <2>1, ContentFacts, Zenon DEF Greatest
    <2>3. Contents'[node] = [q \in 1 .. file_sizes'[node] |->
                                IF q > p /\ q <= p + k THEN buf[q - p] ELSE Contents[node][q]]
      BY <1>1, <1>3, <1>7, <1>8, Zenon
    <2> QED
      BY <2>2, <2>3, Zenon DEF Store!Overlay
  <1>11. Contents' = [Contents EXCEPT ![node] = Store!Overlay(@, p, buf, k)]
    BY <1>7, <1>9, <1>10
  <1> QED
    BY <1>1, <1>3, <1>4, <1>5, <1>11, Zenon DEF Store!Write, Returned, Failed

(* The bytes p + 1 to e of a sequence. *)
LEMMA SubSeqIs ==
    ASSUME NEW s, NEW p \in Nat, NEW e \in Nat, p <= e
    PROVE  SubSeq(s, p + 1, e) = [i \in 1 .. e - p |-> s[p + i]]
  <1> DEFINE S == {s[i] : i \in p + 1 .. e}
             t == SubSeq(s, p + 1, e)
  <1>1. \A i \in p + 1 .. e : s[i] \in S
    OBVIOUS
  <1>2. p + 1 \in Int /\ e \in Int
    OBVIOUS
  <1> HIDE DEF S
  <1>3. /\ t \in Seq(S) /\ Len(t) = (IF p + 1 <= e THEN e - (p + 1) + 1 ELSE 0)
        /\ \A i \in 1 .. e - (p + 1) + 1 : t[i] = s[p + 1 + i - 1]
    BY <1>1, <1>2
  <1> HIDE DEF t
  <1>4. Len(t) = e - p /\ e - (p + 1) + 1 = e - p
    BY <1>3
  <1>5. \A i \in 1 .. e - p : p + 1 + i - 1 = p + i
    OBVIOUS
  <1>6. t = [i \in 1 .. e - p |-> t[i]]
    BY <1>3, <1>4
  <1>7. \A i \in 1 .. e - p : t[i] = s[p + i]
    BY <1>3, <1>4, <1>5, Zenon
  <1> QED
    BY <1>6, <1>7 DEF t

LEMMA ReadRefines ==
    ASSUME DataInv, NEW h \in FileHandles, open_files[h] # None, NEW n \in Lengths, Read(h, n)
    PROVE  Store!Read
  <1> DEFINE node == open_files[h].node
             p == open_files[h].position
             end == ReadEnd(node, p, n)
             data == Contents[node]
             bytes == [i \in 1 .. end - p |-> ByteAt(node, p + i - 1)]
  <1>1. n \in Nat
    BY VfsAssumption, Zenon
  <1>2. /\ node \in NodeIds /\ p \in Nat /\ end = Least(p + n, file_sizes[node])
        /\ end \in Nat /\ p <= end /\ end <= file_sizes[node]
    BY <1>1, ReadStep, Zenon
  <1>3. /\ ret' = Returned("read", bytes)
        /\ open_files' = [open_files EXCEPT ![h].position = end]
        /\ UNCHANGED data_vars
    BY Zenon DEF Read
  <1> HIDE DEF node, p, end
  <1>4. /\ file_sizes[node] \in Nat /\ Len(data) = file_sizes[node]
        /\ data = [q \in 1 .. file_sizes[node] |-> data[q]]
        /\ \A q \in 1 .. file_sizes[node] : data[q] = ByteAt(node, q - 1)
    BY <1>2, ContentFacts, Zenon
  <1> HIDE DEF data
  <1>5. end = IF p + n < Len(data) THEN p + n ELSE Len(data)
    BY <1>1, <1>2, <1>4 DEF Least
  <1>6. \A i \in 1 .. end - p : data[p + i] = ByteAt(node, p + i - 1)
    <2> SUFFICES ASSUME NEW i \in 1 .. end - p PROVE data[p + i] = ByteAt(node, p + i - 1)
      OBVIOUS
    <2>1. PICK j \in 1 .. file_sizes[node] : j = p + i
      BY <1>2, <1>4
    <2>2. data[j] = ByteAt(node, j - 1)
      BY <1>4, Zenon
    <2>3. j - 1 = p + i - 1
      BY <1>2, <2>1
    <2>4. ByteAt(node, j - 1) = ByteAt(node, p + i - 1)
      BY <2>3, Zenon
    <2> QED
      BY <2>1, <2>2, <2>4, Zenon
  <1>7. bytes = SubSeq(data, p + 1, end)
    <2>1. \A i \in 1 .. end - p : bytes[i] = data[p + i]
      BY <1>6, Zenon
    <2>2. bytes = [i \in 1 .. end - p |-> bytes[i]]
      BY Zenon
    <2> HIDE DEF bytes
    <2>3. bytes = [i \in 1 .. end - p |-> data[p + i]]
      BY <2>1, <2>2
    <2> QED
      BY <1>2, <2>3, SubSeqIs
  <1>8. Len(bytes) = end - p
    BY <1>2
  <1>9. open_files' = [open_files EXCEPT ![h].position = @ + Len(ret'.value)]
    <2>1. ret'.value = bytes
      BY <1>3 DEF Returned
    <2>2. p + Len(ret'.value) = end
      BY <1>2, <1>8, <2>1
    <2> HIDE DEF bytes
    <2> QED
      BY <1>3, <2>2, Zenon DEF p
  <1>10. UNCHANGED Contents
    BY <1>3, DataGivesContents
  <1> QED
    BY <1>3, <1>5, <1>7, <1>9, <1>10, Zenon DEF Store!Read, Returned, node, p, data

(* The empty filesystem is the empty store. *)
LEMMA InitIsStoreInit == VfsInit /\ VfsInv => Store!Init
  <1> SUFFICES ASSUME VfsInit, VfsInv PROVE Store!Init
    OBVIOUS
  <1>1. DOMAIN Contents = NodeIds
    BY DEF Contents
  <1>2. ASSUME NEW n \in NodeIds PROVE Contents[n] = <<>>
    <2>1. file_sizes[n] = 0
      BY DEF VfsInit
    <2>2. Contents[n] = [q \in 1 .. 0 |-> ByteAt(n, q - 1)]
      BY <2>1 DEF Contents
    <2> QED
      BY <2>2
  <1> QED
    BY <1>1, <1>2 DEF VfsInit, Store!Init, Returned

(* Every operation of the filesystem is one of the store. *)
LEMMA StepIsStoreStep ==
    ASSUME WellOrdered
    PROVE  VfsInv /\ VfsInv' /\ [VfsNext]_vfs_vars => [Store!Next]_(Store!vars)
  <1> SUFFICES ASSUME VfsInv, VfsInv', [VfsNext]_vfs_vars PROVE [Store!Next]_(Store!vars)
    OBVIOUS
  <1> USE DEF VfsInv
  <1>1. UNCHANGED data_vars => UNCHANGED Contents
    BY DataGivesContents
  <1>2. Failed.call = "failed"
    BY DEF Failed, Returned
  <1>3. UNCHANGED <<open_files, data_vars>> /\ ret' = Failed => Store!Other
    BY <1>1, <1>2 DEF Store!Other
  <1>4. ASSUME NEW parent \in NodeIds, NEW name \in Names, NEW kind \in {"Directory", "File"},
               Create(parent, name, kind)
        PROVE  Store!Other
    <2>1. ret'.call \in {"create", "failed"}
      BY <1>2, <1>4 DEF Create, Returned
    <2>2. UNCHANGED open_files /\ UNCHANGED data_vars
      BY <1>4 DEF Create
    <2> QED
      BY <1>1, <2>1, <2>2 DEF Store!Other
  <1>5. ASSUME NEW node \in NodeIds, NEW writable \in BOOLEAN, Open(node, writable)
        PROVE  Store!Open \/ Store!Other
    <2>1. UNCHANGED data_vars /\ UNCHANGED Contents
      BY <1>1, <1>5 DEF Open
    <2>2. CASE ~(IsFile(node) /\ FreeHandles # {})
      BY <1>3, <1>5, <2>1, <2>2 DEF Open
    <2>3. CASE IsFile(node) /\ FreeHandles # {}
      <3> DEFINE h == Min(FreeHandles)
      <3>1. open_files' = OpensWith(node, writable) /\ ret' = Returned("open", h)
        BY <1>5, <2>3 DEF Open
      <3>2. h \in FreeHandles
        BY <2>1, <2>3, <3>1, OpenKeepsData
      <3>3. h \in FileHandles /\ open_files[h] = None
        BY <3>2 DEF FreeHandles
      <3>4. open_files' = [open_files EXCEPT ![h] =
                              [node |-> node, position |-> 0, writable |-> writable]]
        BY <3>1 DEF OpensWith
      <3>5. node \in DOMAIN Contents
        BY DEF Contents
      <3> HIDE DEF h
      <3> QED
        BY <2>1, <3>1, <3>3, <3>4, <3>5, Zenon DEF Store!Open, Returned
    <2> QED
      BY <2>2, <2>3
  <1>6. ASSUME NEW h \in FileHandles, Close(h) PROVE Store!Close \/ Store!Other
    <2>1. UNCHANGED data_vars /\ UNCHANGED Contents
      BY <1>1, <1>6 DEF Close
    <2>2. CASE open_files[h] = None
      <3>1. UNCHANGED open_files
        BY <1>6, <2>2 DEF Close, DataInv, DataTypes
      <3> QED
        BY <1>3, <1>6, <2>1, <2>2, <3>1 DEF Close
    <2>3. CASE open_files[h] # None
      BY <1>6, <2>1, <2>3, Zenon DEF Close, Store!Close, Returned
    <2> QED
      BY <2>2, <2>3
  <1>7. ASSUME NEW h \in FileHandles, NEW n \in Lengths, Read(h, n)
        PROVE  Store!Read \/ Store!Other
    BY <1>3, <1>7, ReadRefines DEF Read
  <1>8. ASSUME NEW h \in FileHandles, NEW buf \in Buffers, Write(h, buf)
        PROVE  Store!Write \/ Store!Other
    BY <1>3, <1>8, WriteRefines DEF Write
  <1>9. CASE UNCHANGED vfs_vars
    BY <1>1, <1>9 DEF vfs_vars, data_vars, Store!vars
  <1> QED
    BY <1>4, <1>5, <1>6, <1>7, <1>8, <1>9 DEF VfsNext, Store!Next

-----------------------------------------------------------------------------
(* The library, and the theorems that rest on it. *)

LOCAL INSTANCE WellFoundedInduction

LEMMA WellOrderedHolds == WellOrdered
  <1> SUFFICES ASSUME NEW T \in SUBSET Nat, T # {}
               PROVE  \E x \in T : \A y \in T : x <= y
    BY Zenon DEF WellOrdered
  <1>1. PICK x \in T : \A y \in T : ~(<<y, x>> \in OpToRel(<, Nat))
    BY NatLessThanWellFounded, WFMin, Zenon
  <1>2. \A y \in T : ~(y < x)
    BY <1>1, Zenon DEF OpToRel
  <1> QED
    BY <1>2

LEMMA VfsInvAlways == VfsSpec => []VfsInv
  <1>1. VfsInit => VfsInv
    BY InitNames, InitData DEF VfsInv
  <1> QED
    BY <1>1, VfsInvInductive, WellOrderedHolds, PTL DEF VfsSpec

(* Nodes, frames, sizes, cursors and memory keep their types through every *)
(* create, open, close, read and write; no size exceeds the capacity.      *)
THEOREM VfsTypeCorrect == VfsSpec => []VfsTypeOK
  <1>1. VfsInv => VfsTypeOK
    BY Zenon DEF VfsInv, NameInv, DataInv, DataTypes, VfsTypeOK
  <1> QED
    BY <1>1, VfsInvAlways, PTL

(* create keeps the nodes a tree rooted at "/" in which a name identifies  *)
(* a child.                                                                *)
THEOREM NamesFormATree == VfsSpec => []NameSpaceIsTree
  <1>1. VfsInv => NameSpaceIsTree
    BY Zenon DEF VfsInv, NameInv
  <1> QED
    BY <1>1, VfsInvAlways, PTL

(* read never takes its branch for an unallocated frame: below a file's    *)
(* size every byte has a frame, and no cursor is past the size, whatever   *)
(* allocations failed in write.                                            *)
THEOREM FilesHaveNoHoles == VfsSpec => []NoHoles
  <1>1. VfsInv => NoHoles
    BY DEF VfsInv, DataInv
  <1> QED
    BY <1>1, VfsInvAlways, PTL

(* The frames write obtains are in one place of one file only, and are     *)
(* never handed out again.                                                 *)
THEOREM FilesShareNoFrames == VfsSpec => []FramesPrivate
  <1>1. VfsInv => FramesPrivate
    BY DEF VfsInv, DataInv
  <1> QED
    BY <1>1, VfsInvAlways, PTL

(* open, read, write and close behave as operations on plain byte          *)
(* sequences with cursors: a read returns what was last written there      *)
(* through any handle, and a failed write is a shorter one.                *)
THEOREM VfsImplementsFileStore == VfsSpec => StoreSpec
  <1>1. VfsInit => VfsInv
    BY InitNames, InitData DEF VfsInv
  <1> QED
    BY <1>1, InitIsStoreInit, StepIsStoreStep, WellOrderedHolds, VfsInvAlways, PTL
       DEF VfsSpec, StoreSpec, Store!Spec

=============================================================================
