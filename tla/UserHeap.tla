------------------------------ MODULE UserHeap ------------------------------
(***************************************************************************)
(* The heap of a user program: malloc and free of user/lib/malloc.c over   *)
(* sbrk of user/lib/sbrk.c and sys_sbrk of kernel/syscall.c.               *)
(*                                                                         *)
(* Two variables hold the program break: heap_end of sbrk.c (lib_end),     *)
(* which starts at __user_heap_start, and p->heap_end of the kernel        *)
(* (kern_end), which starts a page above it because the first heap page is *)
(* mapped when the process is created.  free_list is a list of free blocks *)
(* only; used blocks are known to the program alone (`used`, with len, the *)
(* size asked for, as history).  Blocks are never joined again.            *)
(* Programs free only what malloc gave them, once.  malloc is the only     *)
(* caller of sbrk, so increments are positive.                             *)
(*                                                                         *)
(* Between the moment the increment is in a0 and the ecall, a timer        *)
(* interrupt may switch to another process; user_return() resumes this one *)
(* with its argc in a0, and sys_sbrk() then moves the kernel's break by    *)
(* argc while the library moves its own by the increment.  What it returns *)
(* is only compared with 0, so a tick behind the ecall changes nothing.    *)
(* `missing' counts the bytes the kernel's break has fallen behind.        *)
(* A header written to a page that is not mapped is a page fault, which    *)
(* trap_handler() answers with PANIC.                                      *)
(***************************************************************************)
EXTENDS Integers, Sequences, FiniteSets

CONSTANTS heap_start,   \* __user_heap_start
          PAGE_SIZE,
          BLOCK_SIZE,   \* sizeof(block_t)
          Frames,       \* the heap pages the kernel can supply before it panics
          Requests,     \* the sizes the program asks for
          argc          \* of the process

ASSUME UserHeapAssumption ==
    /\ heap_start \in Nat
    /\ PAGE_SIZE \in Nat \ {0}
    /\ heap_start % PAGE_SIZE = 0 /\ heap_start % 8 = 0
    /\ BLOCK_SIZE \in Nat \ {0} /\ BLOCK_SIZE % 8 = 0
    /\ Frames \in Nat \ {0}
    /\ Requests \subseteq Nat
    /\ argc \in Nat

VARIABLES free_list,    \* the free blocks, from the head of the list
          used,         \* the blocks the program holds
          lib_end,      \* heap_end of user/lib/sbrk.c
          kern_end,     \* heap_end of the process
          mapped,       \* addresses of the mapped heap pages
          call,         \* malloc() at the ecall of sbrk(): its argument, and a0
          missing,      \* history: increments of sbrk() minus those of sys_sbrk()
          panicked      \* no memory left, or a page fault

vars == <<free_list, used, lib_end, kern_end, mapped, call, missing, panicked>>

Block == [addr : Nat, size : Nat, len : Nat]
NoCall == [len |-> 0, a0 |-> -1]

ALIGN8(x) == ((x + 7) \div 8) * 8

PGROUNDUP(a) == ((a + PAGE_SIZE - 1) \div PAGE_SIZE) * PAGE_SIZE

Init ==
    /\ free_list = <<>>
    /\ used = {}
    /\ lib_end = heap_start
    /\ kern_end = heap_start + PAGE_SIZE
    /\ mapped = {heap_start}
    /\ call = NoCall
    /\ missing = 0
    /\ panicked = FALSE

\* The page of address a is mapped.
Mapped(a) == a - (a % PAGE_SIZE) \in mapped

\* The two words of a block's header are `size' and, eight bytes further, `next'.
Writable(addr) == Mapped(addr) /\ Mapped(addr + 8)

FirstFit(i, n) ==
    /\ free_list[i].size >= n
    /\ \A j \in 1 .. i - 1 : free_list[j].size < n

\* The block is cut if a header and eight bytes are left over.
Splits(b, n) == b.size >= n + BLOCK_SIZE + 8

\* Variant: the header of the block that is cut is forgotten.
Rest_inside(b, n) == [addr |-> b.addr + n, size |-> b.size - n, len |-> 0]

\* Variant: the eight bytes the test above asks for are left out.
Rest_short(b, n) ==
    [addr |-> b.addr + BLOCK_SIZE + n, size |-> b.size - n - BLOCK_SIZE - 8, len |-> 0]

\* What is left of a block when n bytes are cut off.
Rest(b, n) ==
    [addr |-> b.addr + BLOCK_SIZE + n, size |-> b.size - n - BLOCK_SIZE, len |-> 0]

\* malloc(r) cuts the first block that is large enough; what is left of it takes
\* its place in the list.
malloc_split(r, i) ==
    LET n == ALIGN8(r)
        b == free_list[i]
    IN  /\ FirstFit(i, n) /\ Splits(b, n)
        /\ Writable(Rest(b, n).addr)
        /\ free_list' = [free_list EXCEPT ![i] = Rest(b, n)]
        /\ used' = used \cup {[addr |-> b.addr, size |-> n, len |-> r]}
        /\ UNCHANGED <<lib_end, kern_end, mapped, call, missing, panicked>>

\* Variant: the block stays on the list.
Without_none(i) == free_list

\* The list without position i.
Without(i) ==
    [k \in 1 .. Len(free_list) - 1 |->
        IF k < i THEN free_list[k] ELSE free_list[k + 1]]

\* malloc(r) takes the first block that is large enough off the list.
malloc_whole(r, i) ==
    LET n == ALIGN8(r)
        b == free_list[i]
    IN  /\ FirstFit(i, n) /\ ~Splits(b, n)
        /\ free_list' = Without(i)
        /\ used' = used \cup {[addr |-> b.addr, size |-> b.size, len |-> r]}
        /\ UNCHANGED <<lib_end, kern_end, mapped, call, missing, panicked>>

\* Variant: the last page is mapped only if it is needed in full.
NewPages_full(old, new) ==
    {a \in PGROUNDUP(old) .. new - PAGE_SIZE : a % PAGE_SIZE = 0}

\* The pages sys_sbrk() maps when it moves the break from old to new.
NewPages(old, new) ==
    {a \in PGROUNDUP(old) .. new - 1 : a % PAGE_SIZE = 0}

\* What malloc() asks sbrk() for.
Increment(n) == n + BLOCK_SIZE

\* malloc(r) finds nothing on the list and calls sbrk(), up to the ecall.
malloc_sbrk(r) ==
    LET n == ALIGN8(r)
    IN  /\ \A i \in DOMAIN free_list : free_list[i].size < n
        /\ call' = [len |-> r, a0 |-> Increment(n)]
        /\ UNCHANGED <<free_list, used, lib_end, kern_end, mapped, missing, panicked>>

\* A tick at the ecall: another process runs, and user_return() loads argc.
timer_switch ==
    /\ call # NoCall
    /\ call' = [call EXCEPT !.a0 = argc]
    /\ UNCHANGED <<free_list, used, lib_end, kern_end, mapped, missing, panicked>>

\* The pages sys_sbrk() maps now, and the heap's pages after it.
Wanted == NewPages(kern_end, kern_end + call.a0)
Grown  == mapped \cup Wanted

\* sys_sbrk() moves the kernel's break by a0; behind the ecall sbrk() moves the
\* library's by the increment and malloc() writes the size of the new block.
sys_sbrk ==
    LET n == ALIGN8(call.len)
    IN  /\ call # NoCall
        /\ Cardinality(mapped) + Cardinality(Wanted) <= Frames
        /\ lib_end - (lib_end % PAGE_SIZE) \in Grown
        /\ kern_end' = kern_end + call.a0
        /\ mapped' = Grown
        /\ lib_end' = lib_end + Increment(n)
        /\ missing' = missing + (Increment(n) - call.a0)
        /\ used' = used \cup {[addr |-> lib_end, size |-> n, len |-> call.len]}
        /\ call' = NoCall
        /\ UNCHANGED <<free_list, panicked>>

\* The kernel has no page left, and alloc_pages() does not return, or the new
\* block's header is not on a mapped page.
sys_sbrk_panic ==
    /\ call # NoCall
    /\ \/ Cardinality(mapped) + Cardinality(Wanted) > Frames
       \/ lib_end - (lib_end % PAGE_SIZE) \notin Grown
    /\ panicked' = TRUE
    /\ UNCHANGED <<free_list, used, lib_end, kern_end, mapped, call, missing>>

\* free() links the block in at the head of the list.
free(b) ==
    /\ Mapped(b.addr + 8)
    /\ free_list' = << [b EXCEPT !.len = 0] >> \o free_list
    /\ used' = used \ {b}
    /\ UNCHANGED <<lib_end, kern_end, mapped, call, missing, panicked>>

\* malloc() cuts a block, or free() links one, whose header is not mapped.
page_fault ==
    /\ \/ \E r \in Requests, i \in DOMAIN free_list :
             LET n == ALIGN8(r)
             IN  /\ FirstFit(i, n) /\ Splits(free_list[i], n)
                 /\ ~Writable(Rest(free_list[i], n).addr)
       \/ \E b \in used : ~Mapped(b.addr + 8)
    /\ panicked' = TRUE
    /\ UNCHANGED <<free_list, used, lib_end, kern_end, mapped, call, missing>>

\* The program is at its next call of malloc() or free().
Library ==
    /\ call = NoCall
    /\ \/ \E r \in Requests, i \in DOMAIN free_list :
             malloc_split(r, i) \/ malloc_whole(r, i)
       \/ \E r \in Requests : malloc_sbrk(r)
       \/ \E b \in used : free(b)
       \/ page_fault

Next ==
    /\ ~panicked
    /\ Library \/ timer_switch \/ sys_sbrk \/ sys_sbrk_panic

Spec == Init /\ [][Next]_vars

-----------------------------------------------------------------------------
\* Types.
TypeOK ==
    /\ free_list \in Seq(Block)
    /\ used \subseteq Block
    /\ lib_end \in Nat /\ kern_end \in Nat
    /\ mapped \subseteq Nat
    /\ call \in [len : Requests, a0 : Nat] \cup {NoCall}
    /\ missing \in Int
    /\ panicked \in BOOLEAN

End(b) == b.addr + BLOCK_SIZE + b.size

Apart(a, b) == End(a) <= b.addr \/ End(b) <= a.addr

\* No two blocks overlap, header or payload, whether on the list or with the
\* program: a header malloc() writes into a block it cuts, or the link free()
\* writes, never lands in memory the program uses.
BlocksApart ==
    /\ \A i, j \in DOMAIN free_list : i # j => Apart(free_list[i], free_list[j])
    /\ \A i \in DOMAIN free_list : \A b \in used : Apart(free_list[i], b)
    /\ \A a, b \in used : a # b => Apart(a, b)

Blocks == {free_list[i] : i \in DOMAIN free_list} \cup used

\* The library and the kernel advance their breaks separately and start from
\* different values.  All pages below the kernel's break are mapped, every block
\* lies below the library's, and the page the kernel starts ahead makes up for what
\* restarted calls of sbrk() failed to add: as long as that is no more than a page,
\* no access to a block faults.
BlocksMapped ==
    /\ kern_end + missing = lib_end + PAGE_SIZE
    /\ \A a \in heap_start .. kern_end - 1 : Mapped(a)
    /\ \A b \in Blocks : heap_start <= b.addr /\ End(b) <= lib_end
    /\ missing <= PAGE_SIZE => \A b \in Blocks : \A a \in b.addr .. End(b) - 1 : Mapped(a)

\* Memory obtained from sbrk() is never lost: the blocks cover everything below
\* the library's break, through all cuts and frees.
NothingLost ==
    /\ lib_end > heap_start => \E b \in Blocks : b.addr = heap_start
    /\ \A b \in Blocks : End(b) = lib_end \/ \E c \in Blocks : c.addr = End(b)

\* Refinement mapping: the payloads of the used blocks, as long as asked for.
Live == {[ptr |-> b.addr + BLOCK_SIZE, len |-> b.len] : b \in used}

Store == INSTANCE HeapStore WITH live <- Live

\* The library implements HeapStore: no sequence of malloc() and free() hands out
\* memory that overlaps an extent the program holds.
ImplementsStore == Store!StoreSpec
=============================================================================
