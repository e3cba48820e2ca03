----------------------------- MODULE HeapStore -----------------------------
(***************************************************************************)
(* What malloc and free promise a program: an extent of memory that is     *)
(* handed out overlaps none the program still holds.  Nothing is said      *)
(* about headers, free lists or where memory comes from.  KernelHeap       *)
(* (kernel/heap.c) and UserHeap (user/lib/malloc.c over sbrk) implement it.*)
(***************************************************************************)
EXTENDS Integers

VARIABLE live           \* the extents [ptr, len] the program holds

Apart(x, y) ==
    /\ x.ptr # y.ptr
    /\ x.ptr + x.len <= y.ptr \/ y.ptr + y.len <= x.ptr

Init == live = {}

\* The program obtains an extent, aligned to eight bytes.
Malloc(x) ==
    /\ x.ptr % 8 = 0
    /\ \A y \in live : Apart(x, y)
    /\ live' = live \cup {x}

\* The program gives one back.
Free(x) == live' = live \ {x}

Next ==
    \/ \E x \in live' : Malloc(x)
    \/ \E x \in live : Free(x)

StoreSpec == Init /\ [][Next]_live
=============================================================================
