------------------------------ MODULE ProcMem ------------------------------
(***************************************************************************)
(* The memory of processes: which frames fork, exec, sbrk and free_proc    *)
(* obtain and give back (kernel/process.c, kernel/syscall.c, the image     *)
(* loader of kernel/elf-loader.c), through the page tables of              *)
(* kernel/page.c and under the owners the tracker records.                 *)
(*                                                                         *)
(* It composes the life of processes (module Process) with the allocator   *)
(* (module PageAlloc), each reduced to what matters here: a system call is *)
(* one step, any process may call next, and the free list is a set.  Frames*)
(* are interchangeable, so the lowest free frame stands for the head of    *)
(* the list.  The tracker drops the record of an allocation that finds     *)
(* alloc_table full.                                                       *)
(*                                                                         *)
(* The user pages of an address space are numbered in the order of their   *)
(* addresses, from USER_BASE: code and data, the stack, one page above its *)
(* top, a gap, the heap.  The image that user.ld lays out ends with the    *)
(* stack: its pages are mapped once with the image and then again, over    *)
(* the first entries, with the stack.                                      *)
(***************************************************************************)
EXTENDS Integers, FiniteSets, FiniteSetsExt, Functions

CONSTANTS
    PROCS_MAX,       \* slots of procs[]
    NFRAMES,         \* frames left when kernel_main creates idle
    MAX_TRACKED_ALLOCS,  \* entries of alloc_table
    CodePages,       \* pages of a program below __user_stack_bottom
    StackPages,      \* pages from __user_stack_bottom to __user_stack_top
    Gap,             \* pages between the one above the stack and the heap
    MaxHeap,         \* bound: pages sbrk may grow the heap to
    MaxBelow,        \* bound: pages below its start sbrk may lower heap_end to
    KernelTables,    \* page tables needed for the identity map, root included
    TableSpan,       \* user pages one table of the lowest level covers
    Forkers, Execers, Growers    \* the processes that call fork, exec, sbrk

Procs     == 0 .. (PROCS_MAX - 1)
idle_proc == 0
shell     == 1
NoProc    == -1

ImagePages == CodePages + StackPages        \* __user_stack_top is behind them
HeapStart  == ImagePages + 1 + Gap          \* the heap begins behind this page

ASSUME ProcMemAssumption ==
    /\ PROCS_MAX \in Nat /\ PROCS_MAX > 2
    /\ {NFRAMES, CodePages, StackPages, MaxHeap, KernelTables, TableSpan}
          \subseteq Nat \ {0}
    /\ Gap \in Nat /\ MAX_TRACKED_ALLOCS \in Nat
    /\ MaxBelow \in 0 .. HeapStart
    /\ Forkers \cup Execers \cup Growers \subseteq Procs \ {idle_proc}

Frame     == 1..NFRAMES
UserPages == 1 .. (HeapStart + MaxHeap)
Untracked == -1
Pid(p)    == IF p = idle_proc THEN 0 ELSE p + 1

VARIABLES
    mem,             \* the allocator and the tracker
    life, parent,    \* fields of procs[]: state, parent,
    heap_end,        \* in pages from the start of the heap,
    page_table,      \* the user pages it maps, each to its frame,
    tables,          \* the frames that hold its tables,
    image,           \* image_pa and image_npages,
    tf_page,         \* the frame of tf when fork allocated it
    panicked,
    lost             \* history: allocated frames to which no pointer leads

vars == <<mem, life, parent, heap_end, page_table, tables, image, tf_page,
          panicked, lost>>

-----------------------------------------------------------------------------
(* The allocator as a function of its state                                 *)

\* `unseen' is history: frames handed out while alloc_table was full.
NoMem == [free |-> {}, next |-> 1, twice |-> {}, unseen |-> {},
          owner |-> [f \in Frame |-> Untracked]]

Rank(S, x)   == Cardinality({y \in S : y < x})
Lowest(S, k) == {x \in S : Rank(S, x) < k}

\* The frames k calls of alloc_pages(1) return: free ones first.
Singles(m, k) ==
    LET old == Lowest(m.free, k)
    IN  old \cup (m.next .. (m.next + k - Cardinality(old) - 1))

Tracked(m, S, pid) == [f \in Frame |-> IF f \in S THEN pid ELSE m.owner[f]]

\* The frames of S that track_alloc() finds an entry for, in the order in which
\* they are handed out.
Entries(m)   == {f \in Frame : m.owner[f] # Untracked}
Seen(m, S)   == {f \in S : Cardinality(Entries(m)) + Rank(S, f) < MAX_TRACKED_ALLOCS}
Unseen(m, S) == S \ Seen(m, S)

AllocSingles(m, k, pid) ==
    LET got == Singles(m, k)
    IN  [m EXCEPT !.free   = @ \ got,
                  !.next   = @ + Cardinality(got \ m.free),
                  !.owner  = Tracked(m, Seen(m, got), pid),
                  !.unseen = @ \cup Unseen(m, got)]

\* The frames of alloc_pages(n); more than one never come from the free list.
Block(m, n) == IF n = 1 THEN Singles(m, 1) ELSE m.next .. (m.next + n - 1)

\* alloc_pages(n) tracks the first frame of a block only.
AllocBlock(m, n, pid) ==
    IF n = 1 THEN AllocSingles(m, 1, pid)
    ELSE [m EXCEPT !.next   = @ + n,
                   !.owner  = Tracked(m, Seen(m, {m.next}), pid),
                   !.unseen = @ \cup Unseen(m, {m.next})]

\* free_page() of each frame of S.
FreeFrames(m, S) ==
    [m EXCEPT !.free   = @ \cup S,
              !.owner  = Tracked(m, S, Untracked),
              !.unseen = @ \ S,
              !.twice  = @ \cup (S \cap m.free)]

\* free_all_tracked_for_pid()
Sweep(m, pid) == FreeFrames(m, {f \in Frame : m.owner[f] = pid})

\* No allocation so far has passed the end of memory (PANIC otherwise).
Fits(m) == m.next <= NFRAMES + 1

-----------------------------------------------------------------------------
(* Address spaces                                                           *)

\* map_page() allocates a table for every span of user pages it meets first.
TablesFor(pages) == KernelTables + Cardinality({v \div TableSpan : v \in pages})

\* An address space for a set of user pages, of which the k above the code are
\* mapped twice: the memory afterwards, the frames of its tables, the mapping, and
\* the frames whose entries map_page() overwrote.  pid is that of current_proc.
NewSpace(m, pages, k, pid) ==
    LET tabs  == Singles(m, TablesFor(pages))
        m1    == AllocSingles(m, TablesFor(pages), pid)
        leaf  == Singles(m1, Cardinality(pages) + k)
        under == {f \in leaf : Rank(leaf, f) \in CodePages .. (CodePages + k - 1)}
        kept  == leaf \ under
    IN  [mem    |-> AllocSingles(m1, Cardinality(pages) + k, pid),
         tables |-> tabs,
         map    |-> [v \in pages |-> CHOOSE f \in kept : Rank(kept, f) = Rank(pages, v)],
         under  |-> under]

\* The last page below the larger of heap_end and the top of the stack.
LastPage(p) == IF heap_end[p] + HeapStart > ImagePages THEN heap_end[p] + HeapStart ELSE ImagePages

\* The user pages of a process up to that page (and one page more: the loop of
\* process_free_userspace() includes its end), which unmap_page() takes out of
\* the table, and the frames they had.
Unmapped(p) == {v \in DOMAIN page_table[p] : v <= LastPage(p) + 1}
Leaves(p, pages) == {page_table[p][v] : v \in pages}

\* free_pagetable(): the user pages still mapped, then the tables; and the root.
free_pagetable(m, p, pages) == FreeFrames(FreeFrames(m, Leaves(p, pages)), tables[p])

process_free_userspace(m, p) ==
    free_pagetable(FreeFrames(m, Leaves(p, Unmapped(p))), p,
                   DOMAIN page_table[p] \ Unmapped(p))

\* The pages of a new program: the image with the stack, the page above it (the
\* loop that maps the stack includes its end) and the first page of the heap.
Fresh == 1 .. (ImagePages + 1) \cup {HeapStart + 1}

\* exec_process() and create_init_process() build the same address space, and map
\* the stack over the pages the image has there.
create_init_process(m, pid) == NewSpace(m, Fresh, StackPages, pid)
exec_process(m, pid)        == NewSpace(m, Fresh, StackPages, pid)

\* The block extract_flat_binary_from_elf() builds the image in.
flat_image(m, pid) == AllocBlock(m, ImagePages, pid)

Forgotten(S, kind, p) == {[frame |-> f, kind |-> kind, by |-> p] : f \in S}

\* kernel_main created idle and shell; its current_proc was NULL, then idle.
Init ==
    LET i == create_init_process(flat_image(NoMem, 0), 0)
        s == create_init_process(flat_image(i.mem, 0), 0)
        boot(a, b, none) ==
            [p \in Procs |-> CASE p = idle_proc -> a [] p = shell -> b [] OTHER -> none]
    IN  /\ Fits(s.mem)
        /\ mem = s.mem
        /\ life = boot("ALIVE", "ALIVE", "UNUSED")
        /\ parent = boot(NoProc, idle_proc, NoProc)
        /\ heap_end = boot(1, 1, 0)
        /\ page_table = boot(i.map, s.map, <<>>)
        /\ tables = boot(i.tables, s.tables, {})
        /\ image = boot(Block(NoMem, ImagePages), Block(i.mem, ImagePages), {})
        /\ tf_page = boot({}, {}, {})
        /\ panicked = FALSE
        /\ lost = Forgotten(i.under, "stack", idle_proc)
                    \cup Forgotten(s.under, "stack", shell)

-----------------------------------------------------------------------------
(* System calls                                                             *)

Calls(p) == ~panicked /\ p # idle_proc /\ life[p] = "ALIVE"

\* The history after frames S lost their last pointer, in memory m.
Forget(m, S, kind, p) ==
    {l \in lost : l.frame \notin m.free} \cup Forgotten(S \ m.free, kind, p)

FreeSlots == {p \in Procs : life[p] = "UNUSED"}

\* walk_page() finds a frame for these user pages.
Mapped(p) == DOMAIN page_table[p]

\* The user pages fork copies: those mapped below heap_end or the top of the stack.
Copied(p) == {v \in Mapped(p) : v <= LastPage(p)}

\* Variant: the child inherits the image of its parent.
ChildImage_inherited(p) == image[p]

\* alloc_free_proc() resets image_pa, and fork does not set it.
ChildImage(p) == {}

\* The memory of fork: the trap frame and an address space, all of it allocated
\* while the parent is current_proc.
Fork(p) == NewSpace(AllocSingles(mem, 1, Pid(p)), Copied(p), 0, Pid(p))

sys_fork(p) ==
    /\ Calls(p) /\ p \in Forkers
    /\ FreeSlots # {}
    /\ LET child == Min(FreeSlots)
           new   == Fork(p)
       IN  /\ Fits(new.mem)
           /\ mem' = new.mem
           /\ life' = [life EXCEPT ![child] = "ALIVE"]
           /\ parent' = [parent EXCEPT ![child] = p]
           /\ heap_end' = [heap_end EXCEPT ![child] = heap_end[p]]
           /\ page_table' = [page_table EXCEPT ![child] = new.map]
           /\ tables' = [tables EXCEPT ![child] = new.tables]
           /\ image' = [image EXCEPT ![child] = ChildImage(p)]
           /\ tf_page' = [tf_page EXCEPT ![child] = Singles(mem, 1)]
    /\ UNCHANGED <<panicked, lost>>

\* The memory of exec: the buffer for the arguments, the old address space
\* given back, the new image, the new address space, the buffer given back.
Exec(p) ==
    LET argv == Singles(mem, 1)
        m1   == process_free_userspace(AllocSingles(mem, 1, Pid(p)), p)
        new  == exec_process(flat_image(m1, Pid(p)), Pid(p))
    IN  [mem    |-> FreeFrames(new.mem, argv),
         tables |-> new.tables,
         map    |-> new.map,
         under  |-> new.under,
         image  |-> Block(m1, ImagePages)]

\* tf moves to the PCB: the page fork allocated for it is forgotten.  So are the
\* image of a program that itself calls exec, and the image's frames that the new
\* stack is mapped over.
sys_exec(p) ==
    /\ Calls(p) /\ p \in Execers
    /\ LET new == Exec(p)
       IN  /\ Fits(new.mem)
           /\ mem' = new.mem
           /\ page_table' = [page_table EXCEPT ![p] = new.map]
           /\ tables' = [tables EXCEPT ![p] = new.tables]
           /\ image' = [image EXCEPT ![p] = new.image]
           /\ lost' = Forget(new.mem, tf_page[p], "tf", p)
                        \cup Forget(new.mem, image[p], "image", p)
                        \cup Forget(new.mem, new.under, "stack", p)
    /\ heap_end' = [heap_end EXCEPT ![p] = 1]
    /\ tf_page' = [tf_page EXCEPT ![p] = {}]
    /\ UNCHANGED <<life, parent, panicked>>

\* The memory of a growing sbrk: a page, and the tables it is the first to need.
Tables(p, v) == TablesFor(Mapped(p) \cup {v}) - Cardinality(tables[p])
NextPage(p)  == HeapStart + heap_end[p] + 1
Grow(p) ==
    AllocSingles(AllocSingles(mem, 1, Pid(p)), Tables(p, NextPage(p)), Pid(p))

\* A positive increment maps one more page, over the old entry if there is one.
sbrk_grow(p) ==
    /\ Calls(p) /\ p \in Growers
    /\ heap_end[p] < MaxHeap
    /\ LET v    == NextPage(p)
           m1   == AllocSingles(mem, 1, Pid(p))
           old  == {page_table[p][w] : w \in Mapped(p) \cap {v}}
       IN  /\ Fits(Grow(p))
           /\ mem' = Grow(p)
           /\ page_table' = [page_table EXCEPT ![p] =
                                [w \in DOMAIN @ \cup {v} |->
                                    IF w = v THEN CHOOSE f \in Singles(mem, 1) : TRUE
                                    ELSE @[w]]]
           /\ tables' = [tables EXCEPT ![p] = @ \cup Singles(m1, Tables(p, v))]
           /\ lost' = Forget(Grow(p), old, "heap", p)
    /\ heap_end' = [heap_end EXCEPT ![p] = @ + 1]
    /\ UNCHANGED <<life, parent, image, tf_page, panicked>>

\* A negative increment only moves heap_end, below the start of the heap too.
sbrk_shrink(p) ==
    /\ Calls(p) /\ p \in Growers
    /\ heap_end[p] > -MaxBelow
    /\ heap_end' = [heap_end EXCEPT ![p] = @ - 1]
    /\ UNCHANGED <<mem, life, parent, page_table, tables, image, tf_page, panicked, lost>>

sys_exit(p) ==
    /\ Calls(p)
    /\ life' = [life EXCEPT ![p] = "ZOMBIE"]
    /\ UNCHANGED <<mem, parent, heap_end, page_table, tables, image, tf_page, panicked, lost>>

\* Variant: the image is not given back.
FreeProc_noimage(c) == Sweep(process_free_userspace(mem, c), Pid(c))

\* Variant: what the process still owns is not swept.
FreeProc_nosweep(c) == process_free_userspace(FreeFrames(mem, image[c]), c)

\* The memory of free_proc(): image, address space, and the sweep.
FreeProc(c) == Sweep(process_free_userspace(FreeFrames(mem, image[c]), c), Pid(c))

\* sys_wait() of p finds its first zombie child and frees it.
free_proc(p) ==
    /\ Calls(p)
    /\ LET dead == {c \in Procs : life[c] = "ZOMBIE" /\ parent[c] = p}
           c    == Min(dead)
           m    == FreeProc(c)
       IN  /\ dead # {}
           /\ mem' = m
           /\ life' = [life EXCEPT ![c] = "UNUSED"]
           /\ parent' = [parent EXCEPT ![c] = NoProc]
           /\ heap_end' = [heap_end EXCEPT ![c] = 0]
           /\ page_table' = [page_table EXCEPT ![c] = <<>>]
           /\ tables' = [tables EXCEPT ![c] = {}]
           /\ image' = [image EXCEPT ![c] = {}]
           /\ tf_page' = [tf_page EXCEPT ![c] = {}]
           /\ lost' = {[l EXCEPT !.by = IF @ = c THEN NoProc ELSE @] :
                          l \in Forget(m, tf_page[c], "tf", c)}
    /\ UNCHANGED panicked

\* An allocation of fork, exec or sbrk passes the end of memory.
out_of_memory(p) ==
    /\ Calls(p)
    /\ \/ p \in Forkers /\ FreeSlots # {} /\ ~Fits(Fork(p).mem)
       \/ p \in Execers /\ ~Fits(Exec(p).mem)
       \/ p \in Growers /\ heap_end[p] < MaxHeap /\ ~Fits(Grow(p))
    /\ panicked' = TRUE
    /\ UNCHANGED <<mem, life, parent, heap_end, page_table, tables, image, tf_page, lost>>

Next == \E p \in Procs :
    \/ sys_fork(p) \/ sys_exec(p) \/ sbrk_grow(p) \/ sbrk_shrink(p)
    \/ sys_exit(p) \/ free_proc(p) \/ out_of_memory(p)

Spec == Init /\ [][Next]_vars

-----------------------------------------------------------------------------
(* Properties                                                               *)

Uses(p) == Range(page_table[p]) \cup tables[p] \cup image[p] \cup tf_page[p]
InUse   == {p \in Procs : life[p] # "UNUSED"}
AllUsed == UNION {Uses(p) : p \in InUse}

\* Types, and what the tables of a process number: as many as its pages need.
TypeOK ==
    /\ mem.free \subseteq Frame
    /\ mem.next \in 1 .. (NFRAMES + 1)
    /\ mem.owner \in [Frame -> {Untracked} \cup {Pid(p) : p \in Procs}]
    /\ life \in [Procs -> {"UNUSED", "ALIVE", "ZOMBIE"}]
    /\ parent \in [Procs -> Procs \cup {NoProc}]
    /\ heap_end \in [Procs -> (-MaxBelow) .. MaxHeap]
    /\ \A p \in Procs :
          /\ DOMAIN page_table[p] \subseteq UserPages
          /\ Uses(p) \subseteq 1 .. (mem.next - 1)
          /\ p \in InUse => Cardinality(tables[p]) = TablesFor(DOMAIN page_table[p])
    /\ panicked \in BOOLEAN

\* A process never shares a frame with another one or with the free list, uses
\* none for two purposes, and no frame is freed twice: whatever fork, exec, sbrk
\* and wait allocate and free under the pids the tracker records, the pages a
\* process maps stay its own until it is reaped.
NoSharedFrames ==
    /\ mem.twice = {}
    /\ \A p \in InUse :
          /\ Uses(p) \cap mem.free = {}
          /\ Cardinality(Uses(p)) =
                Cardinality(DOMAIN page_table[p]) + Cardinality(tables[p])
                  + Cardinality(image[p]) + Cardinality(tf_page[p])
          /\ \A q \in InUse \ {p} : Uses(p) \cap Uses(q) = {}

\* Every frame ever handed out is free, used by a process, or one that
\* create_init_process(), exec, sbrk or free_proc() is known to forget (a trap frame,
\* an image, what was mapped where the stack or the heap is mapped again): nothing
\* else leaks.
NothingForgotten ==
    1 .. (mem.next - 1) = mem.free \cup AllUsed \cup {l.frame : l \in lost}

\* When wait() has reaped a process, what it forgot is back on the free list,
\* except frames tracked under a process that is still there (the page fork took
\* for the trap frame, for one, which is the parent's) and frames the tracker never
\* knew: the tail of an image replaced by a second exec, and whatever was handed
\* out while alloc_table was full.
ReapReclaims ==
    \A l \in lost : l.by = NoProc =>
        \/ \E p \in InUse : mem.owner[l.frame] = Pid(p)
        \/ mem.owner[l.frame] = Untracked /\ (l.kind = "image" \/ l.frame \in mem.unseen)

=============================================================================
