SPECIFICATION Spec
CONSTANTS
    PROCS_MAX = 4
    NFRAMES = 40
    MAX_TRACKED_ALLOCS = 40
    CodePages = 1
    StackPages = 1
    Gap = 1
    MaxHeap = 2
    MaxBelow = 0
    KernelTables = 1
    TableSpan = 6
    Forkers = {1, 2}
    Execers = {2}
    Growers = {}
INVARIANTS
    NoSharedFrames
CHECK_DEADLOCK FALSE
