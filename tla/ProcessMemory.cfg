SPECIFICATION LdSpec
CONSTANTS
    ENTRIES = 2
    Usable = {10, 11, 12, 13, 14, 15, 17, 18, 19, 20, 21, 22}
    KernelRoot = 1
    KernelTables <- MCKernelTables
    NX = 100
    Stale = 17
    None = None
    Panic = Panic
    PAGE = 2
    Sizes = {0, 2}
    Files <- MCFiles
    HEAP = 6
    STACK_PAGES = 2
    USER_STACK_VIRT = 2
    HEAP_PAGE = 40
    MaxRegions = 2
INVARIANTS
    PrivateMappingsHold
    SharedPagesAsLastMapped
    FramesAccounted
    ImageInPlace
\* A panic of parse_pe and a section longer than its image stop the model.
CHECK_DEADLOCK FALSE
