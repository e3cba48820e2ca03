CONSTANTS
    NPAGES = 4
    MAX_BLOCK = 2
    Pids = {0, 1, 2}
    MAX_TRACKED_ALLOCS = 3
    SIZE_MOD = 4
SPECIFICATION Spec
INVARIANTS
    TypeOK
    FreeListSound
    PagesAccountedFor
    TrackerSound
PROPERTIES
    ImplementsPool
CHECK_DEADLOCK FALSE
