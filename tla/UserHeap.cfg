\* Headers of 16 bytes as in the C code, pages of 32 bytes: a block may end inside
\* a page, at its end, or span two, and growth that needs a fifth page runs out of memory.
\* A restarted sbrk() asks for one byte (argc = 1), so the breaks may drift by more than a page.
CONSTANTS
    heap_start = 64
    PAGE_SIZE = 32
    BLOCK_SIZE = 16
    Frames = 4
    Requests = {1, 20, 44}
    argc = 1
SPECIFICATION Spec
INVARIANTS BlocksApart BlocksMapped NothingLost
PROPERTY ImplementsStore
CHECK_DEADLOCK FALSE
