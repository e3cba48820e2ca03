CONSTANTS
    MAXLINE = 5
    MAX_ARGS = 2
    MAX_ARG_LENGTH = 5
    PTR = 2
    Letters = {"a", "b"}
    Refused <- MCRefused
    WORD = 64
    INT = 16
    TAR_BLOCK_SIZE = 4
    PAGE_SIZE = 4
    ADDRESSES = 64
    USER_BASE = 8
    kernel_base = 12
    Days <- MCDays
    Seconds = {0, 79199, 79200, 86399}
    MaxKeys = 5
    Stacks = {8, 10, 12, 14}
    MaxValue = 4
SPECIFICATION Spec
INVARIANTS
    DatesAgree
    TypedReachesMain
    ProgramLoaded
    CopyLands
    NumbersReadBack
CHECK_DEADLOCK FALSE
