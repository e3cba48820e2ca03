CONSTANTS
    PROCS_MAX = 4
    ExitCodes = {1}
    Argcs = {2}
    UserPtr = 9
    TickPoints = {"entry", "code", "ecall", "ret", "spin", "wild"}
    NestedTicks = TRUE
SPECIFICATION Spec
INVARIANTS
    TypeOK
    RunningIsCurrent
    CountMatches
    SchedulableHasFrame
    ZombieOnlySpins
    StatusOfReaped
    ChildToldZero
PROPERTIES
    ImplementsLife
CHECK_DEADLOCK FALSE
