CONSTANTS
    PROCS_MAX = 4
    ExitCodes = {1}
    Argcs = {2}
    UserPtr = 9
    TickPoints = {"entry", "code", "spin"}
    NestedTicks = FALSE
SPECIFICATION FairSpec
PROPERTY NoStarvation
CHECK_DEADLOCK FALSE
