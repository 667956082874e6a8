SPECIFICATION NtSpec
CONSTANTS
    MAX_NODES = 4
    MAX_OPEN_FILES = 2
    FILE_DATA_FRAMES = 1
    PAGE = 1
    Names <- MCNames
    LongNames <- MCLongNames
    Byte = {2}
    Stale = 9
    Frames = {f1, f2}
    Buffers <- MCBuffers
    Lengths = {0, 1}
    MAX_HANDLES = 3
    HANDLE_VALUES = 4
    Objects <- MCObjects
    Paths <- MCPaths
    Strays = {}
    ProcessObject = process
    None = None
INVARIANT
    HandlesResolve
SYMMETRY FrameSymmetry
CHECK_DEADLOCK FALSE
