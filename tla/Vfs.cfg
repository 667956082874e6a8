SPECIFICATION VfsSpec
CONSTANTS
    MAX_NODES = 3
    MAX_OPEN_FILES = 2
    FILE_DATA_FRAMES = 2
    PAGE = 2
    Names <- MCNames
    LongNames <- MCLongNames
    Byte = {1, 2}
    Stale = 9
    Frames = {1, 2}
    Buffers <- MCBuffers
    Lengths = {3}
    None = None
INVARIANTS
    VfsTypeOK
    NameSpaceIsTree
    NoHoles
    FramesPrivate
PROPERTY
    StoreSpec
