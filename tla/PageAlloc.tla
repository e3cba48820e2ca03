----------------------------- MODULE PageAlloc -----------------------------
(***************************************************************************)
(* The physical page allocator (kernel/page.c, include/page.h) and the     *)
(* allocation tracker it drives (kernel/alloc-tracker.c).                  *)
(*                                                                         *)
(* Frames are numbered 1..NPAGES; 0 is the null address that ends the free *)
(* list.  The free list is threaded through the first word of each free    *)
(* frame; here it is the sequence of frames from the head.  The loops of   *)
(* free_pages_range and free_all_tracked_for_pid take one step per         *)
(* iteration; nothing else can run meanwhile (`op' holds the loop that is  *)
(* under way), because the kernel runs them with interrupts off.           *)
(*                                                                         *)
(* `blocks' and `lost' are history: what the callers of alloc_pages still  *)
(* hold, and the frames whose only handle was dropped.                     *)
(***************************************************************************)
EXTENDS Integers, Sequences, FiniteSets, FiniteSetsExt, Functions

CONSTANTS
    NPAGES,              \* frames between __free_ram and __free_ram_end
    MAX_BLOCK,           \* largest n passed to alloc_pages
    Pids,                \* values of current_proc->pid; 0 is the kernel/idle
    MAX_TRACKED_ALLOCS,  \* entries of alloc_table
    SIZE_MOD             \* size_t arithmetic is modulo SIZE_MOD

ASSUME PageAllocAssumption ==
    /\ NPAGES \in Nat \ {0}
    /\ MAX_BLOCK \in Nat \ {0}
    /\ Pids \subseteq Nat
    /\ MAX_TRACKED_ALLOCS \in Nat \ {0}
    /\ SIZE_MOD \in Nat \ {0, 1}

Page  == 1..NPAGES
Entry == 1..MAX_TRACKED_ALLOCS

VARIABLES
    free_list,           \* free frames, head first
    next_paddr,          \* bump pointer: the first frame never handed out
    g_free_pages,        \* the counter sys_sysinfo reports
    alloc_table,         \* the tracker's entries
    alloc_table_count,   \* the tracker's counter
    op,                  \* the freeing loop under way
    panicked,            \* PANIC("out of memory") was reached
    blocks, lost         \* history: allocations held, frames leaked

vars == <<free_list, next_paddr, g_free_pages, alloc_table,
          alloc_table_count, op, panicked, blocks, lost>>

EntryType == [used : BOOLEAN, pa : 0..NPAGES, npages : 0..1, owner : Pids \cup {0}]
Block     == [pa : Page, n : 1..MAX_BLOCK, owner : Pids]

NoLoop    == [kind |-> "none", pa |-> 0, n |-> 0, i |-> 0, pid |-> 0]
LoopType  == [kind : {"none", "range", "sweep"}, pa : 0..NPAGES, n : 0..MAX_BLOCK,
              i : Nat, pid : Pids \cup {0}]

NullEntry == [used |-> FALSE, pa |-> 0, npages |-> 0, owner |-> 0]

Frames(b) == b.pa .. (b.pa + b.n - 1)
Held      == UNION {Frames(b) : b \in blocks}

Init ==
    /\ free_list = <<>>
    /\ next_paddr = 1
    /\ g_free_pages = 0
    /\ alloc_table = [i \in Entry |-> NullEntry]
    /\ alloc_table_count = 0
    /\ op = NoLoop
    /\ panicked = FALSE
    /\ blocks = {}
    /\ lost = {}

-----------------------------------------------------------------------------
(* The tracker.  Both scans stop at the first matching entry.  What an      *)
(* unused entry still holds is never read: an unused entry is NullEntry.    *)

Unused(t) == {i \in Entry : ~t[i].used}

track_alloc(t, pa, npages, owner) ==
    IF Unused(t) = {} THEN t
    ELSE [t EXCEPT ![Min(Unused(t))] =
             [used |-> TRUE, pa |-> pa, npages |-> npages, owner |-> owner]]

\* By how much track_alloc raises alloc_table_count.
tracked_by(t) == IF Unused(t) = {} THEN 0 ELSE 1

Matches(t, pa, npages) ==
    {i \in Entry : t[i].used /\ t[i].pa = pa /\ t[i].npages = npages}

\* Variant: the scan compares only the first entry.
track_free_first_only(t, pa, npages) ==
    IF 1 \notin Matches(t, pa, npages) THEN t
    ELSE [t EXCEPT ![1] = NullEntry]

track_free(t, pa, npages) ==
    IF Matches(t, pa, npages) = {} THEN t
    ELSE [t EXCEPT ![Min(Matches(t, pa, npages))] = NullEntry]

\* By how much track_free lowers alloc_table_count.
untracked_by(t, pa, npages) == IF Matches(t, pa, npages) = {} THEN 0 ELSE 1

-----------------------------------------------------------------------------
(* Allocation                                                              *)

\* alloc_pages(n): the frames from pa on were obtained for a process pid.
Obtain(pa, n, pid) ==
    /\ alloc_table' = track_alloc(alloc_table, pa, 1, pid)
    /\ alloc_table_count' =
          (alloc_table_count + tracked_by(alloc_table)) % SIZE_MOD
    /\ blocks' = blocks \cup {[pa |-> pa, n |-> n, owner |-> pid]}
    /\ UNCHANGED <<op, lost>>

\* Variant: the counter of free pages is not lowered.
alloc_free_list_uncounted(pid) ==
    /\ op.kind = "none" /\ ~panicked
    /\ free_list # <<>>
    /\ free_list' = Tail(free_list)
    /\ Obtain(Head(free_list), 1, pid)
    /\ UNCHANGED <<g_free_pages, next_paddr, panicked>>

\* alloc_pages(1) with a non-empty free list: the head is taken.
alloc_free_list(pid) ==
    /\ op.kind = "none" /\ ~panicked
    /\ free_list # <<>>
    /\ free_list' = Tail(free_list)
    /\ g_free_pages' = g_free_pages - 1
    /\ Obtain(Head(free_list), 1, pid)
    /\ UNCHANGED <<next_paddr, panicked>>

\* Variant: the bump pointer advances one frame whatever n is.
alloc_bump_one(n, pid) ==
    /\ op.kind = "none" /\ ~panicked
    /\ n = 1 => free_list = <<>>
    /\ next_paddr + n - 1 <= NPAGES
    /\ next_paddr' = next_paddr + 1
    /\ Obtain(next_paddr, n, pid)
    /\ UNCHANGED <<free_list, g_free_pages, panicked>>

\* Variant: the end of memory is compared one frame too late.
alloc_bump_past(n, pid) ==
    /\ op.kind = "none" /\ ~panicked
    /\ n = 1 => free_list = <<>>
    /\ next_paddr + n - 1 <= NPAGES + 1
    /\ next_paddr' = next_paddr + n
    /\ Obtain(next_paddr, n, pid)
    /\ UNCHANGED <<free_list, g_free_pages, panicked>>

\* alloc_pages(n) from the bump pointer: one frame when the free list is
\* empty, several frames always, whatever the free list holds.
alloc_bump(n, pid) ==
    /\ op.kind = "none" /\ ~panicked
    /\ n = 1 => free_list = <<>>
    /\ next_paddr + n - 1 <= NPAGES
    /\ next_paddr' = next_paddr + n
    /\ Obtain(next_paddr, n, pid)
    /\ UNCHANGED <<free_list, g_free_pages, panicked>>

\* The bump pointer would pass __free_ram_end.  The single-page path has
\* advanced it by then.
alloc_panic(n) ==
    /\ op.kind = "none" /\ ~panicked
    /\ n = 1 => free_list = <<>>
    /\ next_paddr + n - 1 > NPAGES
    /\ panicked' = TRUE
    /\ next_paddr' = IF n = 1 THEN next_paddr + 1 ELSE next_paddr
    /\ UNCHANGED <<free_list, g_free_pages, alloc_table, alloc_table_count,
                   op, blocks, lost>>

-----------------------------------------------------------------------------
(* Freeing                                                                 *)

\* free_page(pa): the frame becomes the head of the list.  Nothing checks
\* that it was not on the list already.
Push(pa) ==
    /\ free_list' = <<pa>> \o free_list
    /\ g_free_pages' = g_free_pages + 1

\* Variant: the tracker is not told.
free_page_untold(pa) ==
    /\ op.kind = "none" /\ ~panicked
    /\ Push(pa)
    /\ blocks' = {b \in blocks : b.pa # pa}
    /\ UNCHANGED <<alloc_table, alloc_table_count, next_paddr, op, panicked, lost>>

\* The owner of a single page gives it back.
free_page(pa) ==
    /\ op.kind = "none" /\ ~panicked
    /\ alloc_table' = track_free(alloc_table, pa, 1)
    /\ alloc_table_count' =
          (alloc_table_count - untracked_by(alloc_table, pa, 1)) % SIZE_MOD
    /\ Push(pa)
    /\ blocks' = {b \in blocks : b.pa # pa}
    /\ UNCHANGED <<next_paddr, op, panicked, lost>>

\* free_pages_range(pa, npages) is entered with the image of a process.
free_pages_range(pa, npages) ==
    /\ op.kind = "none" /\ ~panicked
    /\ op' = [kind |-> "range", pa |-> pa, n |-> npages, i |-> 0, pid |-> 0]
    /\ UNCHANGED <<free_list, next_paddr, g_free_pages, alloc_table,
                   alloc_table_count, panicked, blocks, lost>>

\* Variant: the loop stops one page early.
free_pages_range_step_short ==
    /\ op.kind = "range" /\ op.i < op.n
    /\ LET t1 == track_free(alloc_table, op.pa, 1)
       IN  /\ alloc_table' = track_free(t1, op.pa + op.i, 1)
           /\ alloc_table_count' =
                 (alloc_table_count - untracked_by(alloc_table, op.pa, 1)
                                    - untracked_by(t1, op.pa + op.i, 1)) % SIZE_MOD
    /\ Push(op.pa + op.i)
    /\ op' = IF op.i + 1 >= op.n - 1 THEN NoLoop ELSE [op EXCEPT !.i = @ + 1]
    /\ blocks' = {b \in blocks : b.pa # op.pa + op.i} \cup
                 {[pa |-> b.pa + 1, n |-> b.n - 1, owner |-> b.owner] :
                    b \in {c \in blocks : c.pa = op.pa + op.i /\ c.n > 1 /\ op.i + 2 < op.n}}
    /\ UNCHANGED <<next_paddr, panicked, lost>>

\* One iteration: track_free(pa, 1) with the first address of the range,
\* then free_page(pa + i).  What is left of the block is a shorter block.
free_pages_range_step ==
    /\ op.kind = "range" /\ op.i < op.n
    /\ LET t1 == track_free(alloc_table, op.pa, 1)
       IN  /\ alloc_table' = track_free(t1, op.pa + op.i, 1)
           /\ alloc_table_count' =
                 (alloc_table_count - untracked_by(alloc_table, op.pa, 1)
                                    - untracked_by(t1, op.pa + op.i, 1)) % SIZE_MOD
    /\ Push(op.pa + op.i)
    /\ op' = IF op.i + 1 = op.n THEN NoLoop ELSE [op EXCEPT !.i = @ + 1]
    /\ blocks' = {b \in blocks : b.pa # op.pa + op.i} \cup
                 {[pa |-> b.pa + 1, n |-> b.n - 1, owner |-> b.owner] :
                    b \in {c \in blocks : c.pa = op.pa + op.i /\ c.n > 1}}
    /\ UNCHANGED <<next_paddr, panicked, lost>>

\* free_all_tracked_for_pid(pid) is entered.
free_all_tracked_for_pid(pid) ==
    /\ op.kind = "none" /\ ~panicked
    /\ op' = [kind |-> "sweep", pa |-> 0, n |-> 0, i |-> 1, pid |-> pid]
    /\ UNCHANGED <<free_list, next_paddr, g_free_pages, alloc_table,
                   alloc_table_count, panicked, blocks, lost>>

\* Where the sweep goes after entry op.i.
SweepOn == op' = IF op.i = MAX_TRACKED_ALLOCS THEN NoLoop
                 ELSE [op EXCEPT !.i = @ + 1]

\* An entry that is unused or belongs to another process is passed over.
sweep_skip ==
    /\ op.kind = "sweep"
    /\ ~(alloc_table[op.i].used /\ alloc_table[op.i].owner = op.pid)
    /\ SweepOn
    /\ UNCHANGED <<free_list, next_paddr, g_free_pages, alloc_table,
                   alloc_table_count, panicked, blocks, lost>>

\* An entry of the process: free_page on its page (npages is always 1), which
\* untracks it once, and then the entry is cleared and counted off again.
\* Of a block only the first page has an entry; the rest is lost.
sweep_free ==
    /\ op.kind = "sweep"
    /\ alloc_table[op.i].used /\ alloc_table[op.i].owner = op.pid
    /\ LET pa == alloc_table[op.i].pa
       IN  /\ alloc_table' = [track_free(alloc_table, pa, 1) EXCEPT ![op.i] = NullEntry]
           /\ alloc_table_count' =
                 (alloc_table_count - untracked_by(alloc_table, pa, 1) - 1) % SIZE_MOD
           /\ Push(pa)
           /\ blocks' = {b \in blocks : b.pa # pa}
           /\ lost' = lost \cup
                 UNION {Frames(b) \ {pa} : b \in {c \in blocks : c.pa = pa}}
    /\ SweepOn
    /\ UNCHANGED <<next_paddr, panicked>>

-----------------------------------------------------------------------------
(* The callers: sys_fork, sys_exec, sys_sbrk, map_page and the process      *)
(* creators allocate; they free only what they obtained; free_proc sweeps   *)
(* the pages of a process that is not the kernel.                           *)

Next ==
    \/ \E pid \in Pids : alloc_free_list(pid)
    \/ \E n \in 1..MAX_BLOCK, pid \in Pids : alloc_bump(n, pid)
    \/ \E n \in 1..MAX_BLOCK : alloc_panic(n)
    \/ \E b \in blocks : b.n = 1 /\ free_page(b.pa)
    \/ \E b \in blocks : free_pages_range(b.pa, b.n)
    \/ free_pages_range_step
    \/ \E pid \in Pids \ {0} : free_all_tracked_for_pid(pid)
    \/ sweep_skip
    \/ sweep_free

Spec == Init /\ [][Next]_vars

-----------------------------------------------------------------------------
(* Properties                                                               *)

\* The type of the allocator's state: the bump pointer never passes the end of
\* memory except on the way to a panic, and every list and table holds frames.
TypeOK ==
    /\ free_list \in Seq(Page)
    /\ next_paddr \in 1..(NPAGES + 2)
    /\ g_free_pages \in Int
    /\ alloc_table \in [Entry -> EntryType]
    /\ alloc_table_count \in 0..(SIZE_MOD - 1)
    /\ op \in LoopType
    /\ panicked \in BOOLEAN
    /\ blocks \subseteq Block
    /\ lost \subseteq Page

\* No frame is on the free list twice, and none that a caller still holds (or
\* has lost) is on it: alloc_pages never hands the same frame to two callers,
\* even when pages come back through free_page, through free_pages_range and
\* through the tracker's sweep (page.c has no check for a double free).
FreeListSound ==
    /\ IsInjective(free_list)
    /\ Range(free_list) \cap (Held \cup lost) = {}

\* Every frame below the bump pointer is on the free list, held by a caller, or
\* was lost by a sweep: no path through the allocator drops a frame.  g_free_pages,
\* which sys_sysinfo reports, counts the free ones, on every path that moves one.
PagesAccountedFor ==
    /\ {p \in Page : p < next_paddr} = Range(free_list) \cup Held \cup lost
    /\ g_free_pages = Len(free_list)

\* Every active entry of the tracker stands for a different allocation that is
\* still outstanding, so that a sweep frees nothing twice.
TrackerSound ==
    /\ \A i \in Entry : alloc_table[i].used =>
          \E b \in blocks : b.pa = alloc_table[i].pa /\ b.owner = alloc_table[i].owner
    /\ \A i, j \in Entry :
          alloc_table[i].used /\ alloc_table[j].used
             /\ alloc_table[i].pa = alloc_table[j].pa => i = j

\* Refinement mapping: frames held or lost are the allocated ones.
Pool == INSTANCE PagePool WITH allocated <- Held \cup lost

\* The allocator of page.c implements PagePool: whatever mix of free list, bump
\* pointer and sweep serves a request, it grants frames that nobody has.
ImplementsPool == Pool!PoolSpec
=============================================================================
