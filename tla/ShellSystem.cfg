CONSTANTS
    PROCS_MAX = 4
    ExitCodes = {0, 1}
    Argcs = {1, 2}
    UserPtr = 9
    TickPoints = {"entry", "code", "ecall", "ret", "spin", "wild"}
    NestedTicks = TRUE
SPECIFICATION ShellFairSpec
INVARIANTS
    ShellTypeOK
    OneCommandAtATime
    ReadUndisturbed
    
    NoOrphans
PROPERTIES
    
    ZombiesReaped
CHECK_DEADLOCK FALSE
