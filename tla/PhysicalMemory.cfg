SPECIFICATION RegistrySpec
CONSTANTS
    FRAME_SIZE = 8
    BITMAP_WORD_BITS = 4
    WORD_BYTES = 4
    None = None
    NoCall = NoCall
    MemoryMaps <- MCMaps
    MIN_HEAP = 32
    Requests <- MCRequests
    MaxBlocks = 3
    MAX_KEYS = 2
    MAX_PATH = 3
    Names <- MCNames
    Data = {d1, d2}
SYMMETRY MCData
INVARIANTS
    TypeOK
    FramesConserved
    HeapBlocksSeparate
    RegistryAnswers
PROPERTY
    PoolSpec
\* The panic of leak_str stops the kernel.
CHECK_DEADLOCK FALSE
