SPECIFICATION EarlySpec
CONSTANTS
    FRAME_SIZE = 8
    BITMAP_WORD_BITS = 4
    WORD_BYTES = 4
    None = None
    NoCall = NoCall
    MemoryMaps <- MCMaps
    MIN_HEAP = 32
    Requests <- MCRequests
    MaxBlocks = 4
INVARIANT
    MemoryHasOneOwner
