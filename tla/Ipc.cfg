CONSTANTS
    PROCS_MAX = 4
    MAX_MSG_SIZE = 2
    Sizes = {1, 2, 3}
    BufSizes = {1, 4}
    MaxMsgs = 2
SPECIFICATION Spec
INVARIANTS
    TypeOK
    InboxConserves
CHECK_DEADLOCK FALSE
