SPECIFICATION Spec
CONSTANTS
    PROCS_MAX = 4
    NFRAMES = 32
    MAX_TRACKED_ALLOCS = 23
    CodePages = 1
    StackPages = 1
    Gap = 1
    MaxHeap = 2
    MaxBelow = 2
    KernelTables = 1
    TableSpan = 6
    Forkers = {1}
    Execers = {2, 3}
    Growers = {2}
INVARIANTS
    NoSharedFrames
    NothingForgotten
    ReapReclaims
CHECK_DEADLOCK FALSE
