------------------------------- MODULE Loader -------------------------------
(***************************************************************************)
(* Programs in memory: create_user_process (kernel/src/win32/nt.rs) with   *)
(* load_pe and all it calls (win32/loader.rs), create_thread's user stack  *)
(* (win32/scheduler.rs), and the regions of VirtualMemory, over one frame  *)
(* pool and one set of page tables.  Page sizes and addresses are scaled   *)
(* to PAGE; an address is a cell number.                                   *)
(***************************************************************************)
EXTENDS PageTable, VirtualMemory, PeParser

CONSTANTS
    Files,              \* the program files
    HEAP,               \* early-heap allocations that can succeed
    STACK_PAGES,        \* USER_STACK_SIZE / 4096
    USER_STACK_VIRT,    \* its virtual page
    HEAP_PAGE,          \* the first page of the early heap
    MaxRegions          \* bound: regions programs hold at a time

ASSUME LoaderAssumption ==
    /\ Files \subseteq PeFile
    /\ HEAP \in Nat /\ STACK_PAGES \in Nat /\ USER_STACK_VIRT \in Nat /\ HEAP_PAGE \in Nat

VARIABLES
    ram,                \* cell of a usable frame -> 0, a file offset, Stale, or
                        \* None in a frame that serves as page table
    processes,          \* the processes, each with the file it was loaded from
    heap,               \* early-heap allocations left
    lost,               \* history: frames of loads that failed
    stopped             \* None; "panicked"; "strayed": memory was overwritten

vars == <<free, memory, roots, mapped, regions, ram, processes, heap, lost, stopped>>

LdInit ==
    /\ PtInit
    /\ regions = {}
    /\ ram = [c \in {f * PAGE + i : f \in Usable, i \in 0 .. PAGE - 1} |-> Stale]
    /\ processes = {}
    /\ heap = HEAP
    /\ lost = {}
    /\ stopped = None

-----------------------------------------------------------------------------
(* allocate_contiguous(pages): the lowest frames one by one.  At the first *)
(* that does not follow the one before, or when none is left, it gives up  *)
(* and keeps what it took.                                                 *)
AnyFrames(pages) ==             \* variant: not checked to be contiguous
    IF pages = 0 \/ Cardinality(free) < pages THEN [base |-> None, taken |-> Lowest(pages)]
    ELSE [base |-> Min(free), taken |-> Lowest(pages)]
AllocateContiguous(pages) ==
    LET run == Max({k \in 0 .. pages : \A i \in 0 .. k - 1 : Min(free) + i \in free})
    IN  IF pages = 0 \/ free = {} THEN [base |-> None, taken |-> {}]
        ELSE IF run = pages THEN [base |-> Min(free), taken |-> Lowest(pages)]
        ELSE [base |-> None, taken |-> Lowest(run + 1)]

(* How much of a section map_section copies from the file. *)
CopySize(section) == Min({section.raw_size, section.virtual_size})

(* map_section: the copy is left out when it would read past the file, the *)
(* rest of the section is zeroed, and one page is mapped, with bit 63 set. *)
(* Nothing bounds a section by the image; see Strays.                      *)
FillSection(cells, file, section, base) ==
    LET dest == base * PAGE + section.va
        copied == IF section.raw_offset + CopySize(section) <= file.len
                  THEN dest .. dest + CopySize(section) - 1 ELSE {}
        zeroed == dest + CopySize(section) .. dest + section.virtual_size - 1
    IN  [c \in DOMAIN cells |-> IF c \in copied THEN c - dest + section.raw_offset
                                ELSE IF c \in zeroed THEN 0 ELSE cells[c]]

MapSection(m, root, image, section, base) ==
    IF root = None THEN m
    ELSE MapPage(m, root, (image.image_base + section.va) \div PAGE,
                 base + section.va \div PAGE + NX)

(* load_into_process, once it has its frames: the region is zeroed, then   *)
(* the sections are placed until a header is cut off.                      *)
KeptRegion(cells, base, pages) == cells         \* variant: write_bytes dropped
ZeroRegion(cells, base, pages) ==
    [c \in DOMAIN cells |->
        IF c \in base * PAGE .. (base + pages) * PAGE - 1 THEN 0 ELSE cells[c]]

LoadIntoProcess(file, image, base, m) ==
    LET root == m.at
        load[i \in 0 .. image.num_sections] ==
            LET before == load[i - 1]
                section == ParseSectionHeader(file, image, i)
            IN  IF i = 0 THEN [ok |-> TRUE, m |-> m,
                               ram |-> ZeroRegion(ram, base, PageCount(image.image_size))]
                ELSE IF ~before.ok \/ section = None THEN [before EXCEPT !.ok = FALSE]
                ELSE [ok |-> TRUE,
                      m |-> MapSection(before.m, root, image, section, base),
                      ram |-> FillSection(before.ram, file, section, base)]
    IN  load[image.num_sections]

(* A section with a header, none before it cut off, that reaches past the  *)
(* image's frames.  It is written all the same, over whatever lies there:  *)
(* the page table New just made, another image, the kernel.                *)
Strays(file, image) ==
    \E i \in 1 .. image.num_sections :
        /\ ParseSectionHeader(file, image, i) # None
        /\ file.sections[i].virtual_size > 0
        /\ file.sections[i].va + file.sections[i].virtual_size > PageCount(image.image_size) * PAGE

(* The cells of the frames that have become page tables. *)
TablesWritten(cells, tables) ==
    [c \in DOMAIN cells |-> IF c \div PAGE \in tables THEN None ELSE cells[c]]

-----------------------------------------------------------------------------
(* create_user_process and load_pe, by how far they get.  The buffer for   *)
(* the file, and then the Process, come from the early heap.               *)
NotLoaded(left, stop) ==
    /\ heap' = left
    /\ stopped' = stop
    /\ UNCHANGED <<free, memory, roots, mapped, regions, ram, processes, lost>>

NotContiguous(taken) ==
    /\ heap' = heap - 2
    /\ free' = free \ taken
    /\ lost' = lost \cup taken
    /\ UNCHANGED <<memory, roots, mapped, regions, ram, processes, stopped>>

NewProcess(file, image, base, root) ==
    [file |-> file, image |-> image, base |-> base, root |-> root]

(* stored says whether the object table had a slot for the process: if not *)
(* the image stays where it is, and nobody can find it.                    *)
Placed(file, image, frames, stored) ==
    LET m == New([Machine EXCEPT !.free = @ \ frames.taken])
        load == LoadIntoProcess(file, image, frames.base, m)
    IN  /\ Becomes(load.m)
        /\ ram' = TablesWritten(load.ram, (free \ frames.taken) \ load.m.free)
        /\ heap' = heap - 2
        /\ IF load.ok /\ stored
           THEN /\ processes' = processes \cup {NewProcess(file, image, frames.base, m.at)}
                /\ UNCHANGED lost
           ELSE lost' = lost \cup frames.taken /\ UNCHANGED processes
        /\ UNCHANGED <<regions, stopped>>

(* A call that strays ends the model: of memory nothing is known after it. *)
CreateUserProcess(file, stored) ==
    LET image == ParsePe(file)
        frames == AllocateContiguous(PageCount(image.image_size))
    IN  CASE heap = 0 -> NotLoaded(0, None)
          [] heap > 0 /\ image = Panic -> NotLoaded(heap - 1, "panicked")
          [] heap > 0 /\ image = None -> NotLoaded(heap - 1, None)
          [] heap = 1 /\ image \notin {None, Panic} -> NotLoaded(0, None)
          [] heap > 1 /\ image \notin {None, Panic} ->
                IF frames.base = None THEN NotContiguous(frames.taken)
                ELSE IF Strays(file, image) THEN NotLoaded(heap - 2, "strayed")
                ELSE Placed(file, image, frames, stored)

(* create_thread: a kernel stack and a user stack; the user stack is       *)
(* mapped at its fixed address, and a failure to map it is not noticed.    *)
CreateThread(process) ==
    /\ heap' = IF heap < 2 THEN 0 ELSE heap - 2
    /\ IF heap < 2 \/ process.root = None THEN UNCHANGED pt_vars
       ELSE Becomes(MapRegion(Machine, process.root, USER_STACK_VIRT,
                              HEAP_PAGE + heap * STACK_PAGES, STACK_PAGES))
    /\ ram' = TablesWritten(ram, free \ free')
    /\ UNCHANGED <<regions, processes, lost, stopped>>

(* The calls of VirtualMemory, which touch no table and no image. *)
VirtualMemoryCall ==
    /\ \/ Cardinality(regions) < MaxRegions /\ \E size \in Sizes : AllocateVm(size)
       \/ \E region \in regions : FreeVm(region)
    /\ UNCHANGED <<memory, roots, mapped, ram, processes, heap, lost, stopped>>

LdNext ==
    /\ stopped = None
    /\ \/ \E file \in Files, stored \in BOOLEAN : CreateUserProcess(file, stored)
       \/ \E process \in processes : CreateThread(process)
       \/ VirtualMemoryCall

LdSpec == LdInit /\ [][LdNext]_vars

-----------------------------------------------------------------------------
(* Frames that serve as page tables: those reached from a root through     *)
(* less than four levels.                                                  *)
Tables ==
    LET below(ts) == ts \cup UNION {{memory[t][i] : i \in Digits} \ {None} : t \in ts}
    IN  below(below(below(roots \cup {KernelRoot})))

ImageFrames(p) == p.base .. p.base + PageCount(p.image.image_size) - 1

(* Every frame has one user, whatever fails on the way: it is free, or in  *)
(* one region, or in the image of one process, or a page table, or lost to *)
(* a load that failed (allocate_contiguous and load_into_process give      *)
(* nothing back); nothing else is ever lost.                               *)
FramesAccounted ==
    LET users == {<<free>>, <<Tables \cap Usable>>, <<lost>>}
                 \cup {<<r.frames, r>> : r \in regions}
                 \cup {<<ImageFrames(p), p>> : p \in processes}
    IN  /\ UNION {u[1] : u \in users} = Usable
        /\ \A u, v \in users : u[1] \cap v[1] # {} => u = v

(* As long as every section loaded lay within its image (Strays), each     *)
(* cell of each section of a process holds what the file has there, found  *)
(* with the parser's own rva_to_file_offset, or zero where the file has no *)
(* data for it: no later load and no page table, of its own or of another  *)
(* process, is written there.  Of a file whose sections overlap nothing is *)
(* said: its later sections overwrite the earlier ones.                    *)
SectionCells(s) == s.va .. s.va + Max({s.virtual_size, s.raw_size}) - 1
Apart(sections) ==
    \A i, j \in DOMAIN sections :
        i # j => SectionCells(sections[i]) \cap SectionCells(sections[j]) = {}

ImageInPlace ==
    \A p \in processes : Apart(p.file.sections) => \A i \in 1 .. p.image.num_sections :
        LET s == p.file.sections[i]
            whole == s.raw_offset + Min({s.raw_size, s.virtual_size}) <= p.file.len
        IN  \A rva \in s.va .. s.va + s.virtual_size - 1 :
                LET offset == RvaToFileOffset(p.file, p.image, rva)
                IN  ram[p.base * PAGE + rva] = IF whole /\ offset # None THEN offset ELSE 0

=============================================================================
