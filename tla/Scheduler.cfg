SPECIFICATION SchedSpec
CONSTANTS
    MAX_THREADS = 3
    Roots = {r1}
    None = None
INVARIANTS
    SchedTypeOK
    UntilFirstYield
    OnlyInitialisedThreads
PROPERTIES
    ExitedStaysExited
    FifoSpec
CHECK_DEADLOCK FALSE
