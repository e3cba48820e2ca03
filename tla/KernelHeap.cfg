\* Headers of 24 bytes as in the C code; room for one to five blocks, requests
\* below, at and above the alignment.
CONSTANTS
    heap_start = 64
    heap_end = 224
    BLOCK_SIZE = 24
    Requests = {0, 8, 20, 40}
SPECIFICATION Spec
INVARIANTS Tiles Usable
PROPERTY ImplementsStore
