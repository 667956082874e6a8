SPECIFICATION GuestSpec
CONSTANTS
    Threads = {t1, t2}
    Generations = {g1, g2, g3}
    None = None
    Program <- MCProgram
    Entry = 100
    Top = 1000
    Regs <- MCRegs
    Words <- MCWords
    Statuses <- MCStatuses
    MaxSteps = 3
    ArmWords <- MCArmWords
SYMMETRY MCSymmetry
INVARIANTS
    OtherRegistersPreserved
    RunsLikeTheProcessor
    
    DecodersAgree
    
\* A stopped interpreter, or an AArch64 host with an AArch64 guest, halts.
CHECK_DEADLOCK FALSE
