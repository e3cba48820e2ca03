------------------------------ MODULE PagePool ------------------------------
(***************************************************************************)
(* What a page allocator promises its clients: a page that is handed out   *)
(* was not handed out already, and a page that is given back was handed    *)
(* out.  Nothing is said about which page is chosen, about free lists or   *)
(* about book-keeping; PageAlloc, the model of kernel/page.c, implements   *)
(* this specification.                                                     *)
(***************************************************************************)
EXTENDS Naturals

CONSTANT Page           \* the frames between __free_ram and __free_ram_end

VARIABLE allocated      \* the frames clients may use

PoolInit == allocated = {}

\* A client obtains a set of frames nobody else has.
Grant(S) ==
    /\ S # {}
    /\ S \cap allocated = {}
    /\ allocated' = allocated \cup S

\* A client gives one of the frames it has back.
Release(p) ==
    /\ p \in allocated
    /\ allocated' = allocated \ {p}

PoolNext ==
    \/ \E S \in SUBSET Page : Grant(S)
    \/ \E p \in Page : Release(p)

PoolSpec == PoolInit /\ [][PoolNext]_allocated
=============================================================================
