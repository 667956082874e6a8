SPECIFICATION VmSpec
CONSTANTS
    PAGE = 2
    Usable = {1, 2, 3, 4}
    Sizes = {1, 3}
INVARIANT
    RegionsKeepTheirFrames
