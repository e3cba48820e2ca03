----------------------------- MODULE KernelHeap -----------------------------
(***************************************************************************)
(* The kernel's heap, kernel/heap.c: first fit over one list of blocks     *)
(* that starts at __heap_start and holds used and free blocks alike.       *)
(*                                                                         *)
(* `list` is the chain of headers from free_list along next.  A header has *)
(* the block's address, the size of its payload and its free flag; len is  *)
(* history: what the caller of malloc asked for (0 in a free block).       *)
(* Callers free only what malloc gave them, once.  Sizes stay far below    *)
(* 2^64, so that ALIGN8 does not wrap.                                     *)
(***************************************************************************)
EXTENDS Integers, Sequences

CONSTANTS heap_start,   \* __heap_start
          heap_end,     \* __heap_end
          BLOCK_SIZE,   \* sizeof(Block)
          Requests      \* the sizes callers ask for

ASSUME KernelHeapAssumption ==
    /\ heap_start \in Nat /\ heap_start % 8 = 0
    /\ heap_end \in Nat
    /\ BLOCK_SIZE \in Nat \ {0} /\ BLOCK_SIZE % 8 = 0
    /\ heap_start + BLOCK_SIZE <= heap_end
    /\ Requests \subseteq Nat

VARIABLES list,         \* the blocks in the order of the chain
          refused       \* the last call of malloc returned NULL

vars == <<list, refused>>

Block == [addr : Nat, size : Nat, free : BOOLEAN, len : Nat]

\* Variant: the request is rounded down.
ALIGN8_down(x) == (x \div 8) * 8

ALIGN8(x) == ((x + 7) \div 8) * 8

\* heap_init(): one free block.
Init ==
    /\ list = << [addr |-> heap_start, size |-> heap_end - heap_start - BLOCK_SIZE,
                  free |-> TRUE, len |-> 0] >>
    /\ refused = FALSE

\* Variant: the free flag is not looked at.
Fits_any(b, n) == b.size >= n

\* A block malloc stops at.
Fits(b, n) == b.free /\ b.size >= n

FirstFit(i, n) ==
    /\ Fits(list[i], n)
    /\ \A j \in 1 .. i - 1 : ~Fits(list[j], n)

\* The block is worth splitting: a header and eight bytes are left over.
Splits(b, n) == b.size >= n + BLOCK_SIZE + 8

\* What is left of a block when n bytes are cut off.
Rest(b, n) ==
    [addr |-> b.addr + BLOCK_SIZE + n, size |-> b.size - n - BLOCK_SIZE,
     free |-> TRUE, len |-> 0]

\* The list with b inserted behind position i.
InsertAfter(s, i, b) ==
    [k \in 1 .. Len(s) + 1 |->
        IF k <= i THEN s[k] ELSE IF k = i + 1 THEN b ELSE s[k - 1]]

\* The list without position i + 1.
RemoveAfter(s, i) ==
    [k \in 1 .. Len(s) - 1 |-> IF k <= i THEN s[k] ELSE s[k + 1]]

\* malloc(r) finds a block at position i and cuts it.
malloc_split(r, i) ==
    LET n == ALIGN8(r)
        b == list[i]
    IN  /\ FirstFit(i, n) /\ Splits(b, n)
        /\ list' = InsertAfter([list EXCEPT ![i] = [addr |-> b.addr, size |-> n,
                                                    free |-> FALSE, len |-> r]],
                               i, Rest(b, n))
        /\ refused' = FALSE

\* malloc(r) takes the block at position i as it is.
malloc_whole(r, i) ==
    LET n == ALIGN8(r)
        b == list[i]
    IN  /\ FirstFit(i, n) /\ ~Splits(b, n)
        /\ list' = [list EXCEPT ![i] = [addr |-> b.addr, size |-> b.size,
                                        free |-> FALSE, len |-> r]]
        /\ refused' = FALSE

\* No block is large enough.
malloc_null(r) ==
    /\ \A i \in DOMAIN list : ~Fits(list[i], ALIGN8(r))
    /\ refused' = TRUE
    /\ UNCHANGED list

\* Variant: the header of the absorbed block is not counted.
Merged_noheader(b, c) == b.size + c.size

\* The size of b once it has absorbed its successor c.
Merged(b, c) == b.size + BLOCK_SIZE + c.size

\* block->next && block->next->free
FreeNext(i) == i < Len(list) /\ list[i + 1].free

\* free() of the block at position i, which has no free successor.
free_only(i) ==
    /\ ~list[i].free
    /\ ~FreeNext(i)
    /\ list' = [list EXCEPT ![i] = [addr |-> @.addr, size |-> @.size,
                                    free |-> TRUE, len |-> 0]]
    /\ UNCHANGED refused

\* free() of the block at position i, which absorbs its free successor.
free_merge(i) ==
    /\ ~list[i].free
    /\ FreeNext(i)
    /\ list' = RemoveAfter([list EXCEPT ![i] =
                                [addr |-> @.addr, size |-> Merged(@, list[i + 1]),
                                 free |-> TRUE, len |-> 0]], i)
    /\ UNCHANGED refused

Next ==
    \/ \E r \in Requests, i \in DOMAIN list : malloc_split(r, i) \/ malloc_whole(r, i)
    \/ \E r \in Requests : malloc_null(r)
    \/ \E i \in DOMAIN list : free_only(i) \/ free_merge(i)

Spec == Init /\ [][Next]_vars

-----------------------------------------------------------------------------
\* Types.
TypeOK ==
    /\ list \in Seq(Block)
    /\ refused \in BOOLEAN

End(b) == b.addr + BLOCK_SIZE + b.size

\* The blocks tile the heap: the chain starts at __heap_start, each block begins
\* where the one before it ends, the last one ends at __heap_end.  Without this
\* the split in malloc() or the merge in free() would lose memory, or write a
\* header into somebody's payload, after some sequence of calls.
Tiles ==
    /\ list # <<>>
    /\ list[1].addr = heap_start
    /\ \A i \in 1 .. Len(list) - 1 : End(list[i]) = list[i + 1].addr
    /\ End(list[Len(list)]) = heap_end

\* Every payload malloc() hands out is aligned to eight bytes and has the size
\* asked for, whatever was split and merged before.
Usable ==
    \A i \in DOMAIN list :
        /\ (list[i].addr + BLOCK_SIZE) % 8 = 0
        /\ list[i].len <= list[i].size

\* Refinement mapping: the payloads of the used blocks, as long as asked for.
Live == {[ptr |-> list[i].addr + BLOCK_SIZE, len |-> list[i].len] :
            i \in {k \in DOMAIN list : ~list[k].free}}

Store == INSTANCE HeapStore WITH live <- Live

\* kernel/heap.c implements HeapStore: no sequence of malloc() and free() hands
\* out memory that overlaps an extent somebody still holds.
ImplementsStore == Store!StoreSpec
=============================================================================
