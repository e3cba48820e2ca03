CONSTANTS
    PROCS_MAX = 3
    ExitCodes = {1}
    Argcs = {2}
    UserPtr = 9
    TickPoints = {"entry", "code", "ret", "spin"}
    NestedTicks = FALSE
SPECIFICATION Spec
INVARIANT ForkReturn
CHECK_DEADLOCK FALSE
