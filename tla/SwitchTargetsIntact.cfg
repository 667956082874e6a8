SPECIFICATION SchedSpec
CONSTANTS
    MAX_THREADS = 1
    Roots = {r1}
    None = None
INVARIANT
    SwitchTargetsIntact
CHECK_DEADLOCK FALSE
