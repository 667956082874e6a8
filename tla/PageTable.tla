----------------------------- MODULE PageTable -----------------------------
(***************************************************************************)
(* The x86_64 page tables, kernel/src/mm/page_table.rs: four levels in     *)
(* physical memory, built by PageTable::new and map, read by translate.    *)
(*                                                                         *)
(* Addresses are page numbers.  ENTRIES is the number of entries of a      *)
(* table, so a virtual page number has four digits in base ENTRIES.  An    *)
(* entry that is present holds a frame number, plus NX where bit 63 is     *)
(* set; the other flag bits lie in the page offset and are masked off.     *)
(*                                                                         *)
(* The operations are functions of the machine, the record of the four     *)
(* variables that they change, so that a caller can make several of them   *)
(* in one step; at is the table they have come to, None when they failed.  *)
(***************************************************************************)
EXTENDS Option, Frames

CONSTANTS
    ENTRIES,            \* 512
    KernelRoot,         \* KERNEL_CR3
    KernelTables,       \* the bootloader's tables: frame -> index -> entry
    NX,                 \* weight of bit 63, above every frame number
    Stale               \* an entry of a frame that held other data before

Digits == 0 .. ENTRIES - 1
Physical == 0 .. NX - 1
Entry == Nat \cup {None}

(* How many pages an entry of a table stands for, by level: 0 for the      *)
(* tables of pages, 3 for the top-level ones.                              *)
Span(level) == CASE level = 0 -> 1
                 [] level = 1 -> ENTRIES
                 [] level = 2 -> ENTRIES * ENTRIES
                 [] level = 3 -> ENTRIES * ENTRIES * ENTRIES
PageLimit == ENTRIES * Span(3)
Pages == 0 .. PageLimit - 1

ASSUME PageTableAssumption ==
    /\ ENTRIES \in Nat \ {0} /\ NX \in Nat \ {0}
    /\ Usable \subseteq Physical /\ DOMAIN KernelTables \subseteq Physical \ Usable
    /\ KernelRoot \in DOMAIN KernelTables
    /\ KernelTables \in [DOMAIN KernelTables -> [Digits -> Entry]]
    /\ Stale \in Entry /\ None \notin Nat

(* The bootloader's tables have four levels, without large pages and       *)
(* without an entry that leads back to a table of the same or a higher     *)
(* level; a table that no entry leads to has level 4.                      *)
BootLevels ==
    {level \in [DOMAIN KernelTables -> 0 .. 4] :
        /\ \A t \in DOMAIN KernelTables : level[t] = 3 <=> t = KernelRoot
        /\ \A t \in DOMAIN KernelTables, i \in Digits :
              level[t] \in 1 .. 3 /\ KernelTables[t][i] # None
                  => /\ KernelTables[t][i] \in DOMAIN KernelTables
                     /\ level[KernelTables[t][i]] = level[t] - 1
        /\ \A t \in DOMAIN KernelTables : level[t] < 3 =>
              \E u \in DOMAIN KernelTables, i \in Digits :
                  level[u] = level[t] + 1 /\ KernelTables[u][i] = t}

ASSUME BootAssumption == BootLevels # {}

VARIABLES
    memory,             \* table frame -> index -> entry
    roots,              \* roots PageTable::new returned
    mapped              \* history: what map was given, the latest per page; under
                        \* KernelRoot where the tables are shared by all roots

pt_vars == <<free, memory, roots, mapped>>

Machine == [free |-> free, memory |-> memory, roots |-> roots, mapped |-> mapped, at |-> None]

Becomes(m) == free' = m.free /\ memory' = m.memory /\ roots' = m.roots /\ mapped' = m.mapped

PtInit ==
    /\ memory = [f \in Usable \cup DOMAIN KernelTables |->
                   IF f \in DOMAIN KernelTables THEN KernelTables[f]
                   ELSE [i \in Digits |-> Stale]]
    /\ free = Usable
    /\ roots = {}
    /\ mapped = {}

(* What new() copies from the kernel's top-level table: all of it. *)
UpperEntries(m) ==              \* variant: the higher half only
    [i \in Digits |-> IF 2 * i >= ENTRIES THEN m.memory[KernelRoot][i] ELSE None]
CurrentEntries(m) ==            \* variant: of the latest process, not the kernel
    m.memory[IF m.roots = {} THEN KernelRoot ELSE Max(m.roots)]
CopiedEntries(m) == m.memory[KernelRoot]

(* new(): zeroed, then the whole of the kernel's top-level table copied.   *)
(* Without a frame it returns None and changes nothing.                    *)
New(m) ==
    LET root == Min(m.free)
    IN  IF m.free = {} THEN [m EXCEPT !.at = None]
        ELSE [m EXCEPT !.free = @ \ {root}, !.memory[root] = CopiedEntries(m),
                       !.roots = @ \cup {root}, !.at = root]

-----------------------------------------------------------------------------
(* Address bits above those of the top-level index play no part. *)
Index(virt, level) == (virt \div Span(level)) % ENTRIES

(* What a table that was just allocated holds. *)
ZeroedTable == [i \in Digits |-> None]

(* next_table(at, index, true). *)
NextTable(m, index) ==
    IF m.at = None THEN m
    ELSE IF m.memory[m.at][index] # None THEN [m EXCEPT !.at = m.memory[m.at][index]]
    ELSE IF m.free = {} THEN [m EXCEPT !.at = None]
    ELSE LET frame == Min(m.free)
         IN  [m EXCEPT !.memory[m.at][index] = frame, !.memory[frame] = ZeroedTable,
                       !.free = @ \ {frame}, !.at = frame]

(* map(virt, phys, flags): tables allocated before one is missing stay. *)
MapPage(m, root, virt, entry) ==
    LET table == NextTable(NextTable(NextTable([m EXCEPT !.at = root],
                     Index(virt, 3)), Index(virt, 2)), Index(virt, 1))
        page == virt % PageLimit
        owner == IF m.memory[KernelRoot][Index(virt, 3)] = None THEN root ELSE KernelRoot
        others == {r \in m.mapped : ~(r.root = owner /\ r.virt = page)}
    IN  IF table.at = None THEN table
        ELSE [table EXCEPT !.memory[table.at][Index(virt, 0)] = entry,
                           !.mapped = others \cup
                                {[root |-> owner, virt |-> page, entry |-> entry]}]

(* map_region(virt, phys, pages, flags): stops at the first page that      *)
(* cannot be mapped.                                                       *)
MapRegion(m, root, virt, phys, pages) ==
    LET walk[i \in 0 .. pages] ==
            IF i = 0 THEN [m EXCEPT !.at = root]
            ELSE IF walk[i - 1].at = None THEN walk[i - 1]
            ELSE MapPage(walk[i - 1], root, virt + i - 1, phys + i - 1)
    IN  walk[pages]

-----------------------------------------------------------------------------
(* translate(virt): of the last entry only the offset bits are masked off. *)
Walk(tables, root, virt) ==
    LET down(t, level) == IF t = None THEN None ELSE tables[t][Index(virt, level)]
        pt == down(down(down(root, 3), 2), 1)
    IN  IF pt = None THEN None ELSE tables[pt][Index(virt, 0)]
Translate(root, virt) == Walk(memory, root, virt)

Private(virt) == memory[KernelRoot][Index(virt, 3)] = None

(* Below a top-level entry the kernel does not use, a page translates to   *)
(* what this process last mapped there and to nothing else: no table is    *)
(* shared or reused, none starts with old contents, and running out of     *)
(* frames in the middle of a walk or a region breaks no other page.        *)
PrivateMappingsHold ==
    \A root \in roots, v \in Pages : Private(v) =>
        LET mine == {r \in mapped : r.root = root /\ r.virt = v}
        IN  IF mine = {} THEN Translate(root, v) = None
            ELSE \A r \in mine : Translate(root, v) = r.entry

(* Below the kernel's own top-level entries the tables are shared: a page  *)
(* there translates in every address space, old or new, to what the        *)
(* bootloader mapped, until map is called for that very page; from then on *)
(* it translates to what was mapped last, in every address space and       *)
(* whichever process it was mapped for.  The comment in new() that the     *)
(* lower half can "be replaced with per-process user mappings" is wrong    *)
(* for these pages.                                                        *)
SharedPagesAsLastMapped ==
    \A root \in roots \cup {KernelRoot}, v \in Pages : ~Private(v) =>
        LET latest == {r \in mapped : r.root = KernelRoot /\ r.virt = v}
        IN  IF latest = {} THEN Translate(root, v) = Walk(KernelTables, KernelRoot, v)
            ELSE \A r \in latest : Translate(root, v) = r.entry

=============================================================================
