CONSTANTS
    Procs = {idle, p1, p2}
    Idle = idle
    Tables = {t0, t1, t2, t3}
SPECIFICATION Spec
INVARIANTS
    NoFault
    TableIsOwn
    OnlyReadLeavesSum
