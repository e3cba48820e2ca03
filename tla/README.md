# Novix RISC-V 64 OS: a TLA+ model

This directory holds a formal model of the operating system in `src/`: a small
single-hart RISC-V kernel in C (traps, a page allocator with an ownership tracker,
up to eight processes, fork/exec/exit/wait, a timer-driven scheduler, one-message
inboxes, two heaps) and the shell that runs on it.  The modules are checked with TLC on small
instances; the central invariants are proved with TLAPS for every value of the
constants.

## 1. The system

| component | state | operations |
|---|---|---|
| page allocator, `kernel/page.c` | free list threaded through free frames, bump pointer `next_paddr`, `g_free_pages` | `alloc_pages`, `free_page`, `free_pages_range` |
| allocation tracker, `kernel/alloc-tracker.c` | `alloc_table`, `alloc_table_count` | `track_alloc`, `track_free`, `free_all_tracked_for_pid` |
| process table, `kernel/process.c` | `procs[]`: state, parent, exit code, trap frame, page table, image, inbox; `process_count` | `alloc_free_proc`, `create_init_process`, `exec_process`, `free_proc` |
| address spaces, `kernel/page.c`, `process.c` | three levels of page tables for each process | `map_page`, `unmap_page`, `free_pagetable`, `process_free_userspace` |
| scheduler, `kernel/scheduler.c` | `current_proc` | `yield` |
| traps, `kernel/trap.c`, `kernel/user.c` | the saved registers of each process | `trap_handler`, `user_return` |
| system calls, `kernel/syscall.c` | - | `sys_read`, `sys_fork`, `sys_exec`, `sys_exit`, `sys_wait`, `sys_sbrk`, `sys_ipc_send`, `sys_ipc_recv`, and calls that print or copy out |
| timer, `kernel/timer.c` | the pending tick | `timer_init` |
| shell, `user/shell.c` | its position in the read, fork, exec, wait loop | - |
| IPC, `kernel/syscall.c`, `user/lib/ipc.c` | one inbox per slot | `ipc_send`, `ipc_recv` |
| boot, `kernel/kernel.c` | creates idle and shell, then calls `yield` | `kernel_main` |
| kernel heap, `kernel/heap.c` | one list of used and free blocks | `malloc`, `free` |
| user heap, `user/lib/malloc.c`, `sbrk.c` | a list of free blocks; the program break, once in the library and once in the kernel | `malloc`, `free`, `sbrk` |
| access to user memory, `kernel/syscall.c`, `user.c`, `include/page.h` | SUM, satp | `enable_sum`, `disable_sum`, `switch_pagetable`, `restore_pagetable`, `copy_to_user` |
| tar file system, ELF loader, arguments, dates, printing | none: functions of their input | `tarfs_lookup`, `extract_flat_binary_from_elf`, `setup_user_arguments`, `compute_datetime`, `kvnprintf`, `uart_printf` |
| init server, device registers | see section 8 | |

How they meet: a process enters the kernel by an ecall or a timer interrupt; the
trap path saves its registers and calls a system call or `yield()`.  `yield()` does
not return to its caller when it picks another process: it leaves the kernel through
`user_return()`, and the process that left starts again from its saved frame.  fork,
exec, sbrk and `free_proc()` allocate and free pages; every page is tracked under
the pid of whoever is `current_proc` at that moment, and `free_proc()` ends with a
sweep over what the tracker has for the dead pid.  `free_proc()` runs inside the
parent's `sys_wait()`.

What is hard about it:

- *Interrupts.*  `user_return()` sets `a0`/`a1` on every resumption; a blocked `wait`
  or `read` is executed again from its ecall instead of being continued; the sweep
  turns interrupts on in the middle of `sys_wait()`.
- *Scheduling.*  The scan always starts at slot 1 and treats the caller differently
  according to `process_count`.
- *Ownership.*  A page can be freed by three routes (image range, page table, sweep),
  and the owner the tracker records for a child's pages is the parent.  The image a
  program is linked to contains its stack, and the kernel maps the stack over it.
- *Two copies.*  The library and the kernel each keep the program break; SUM and satp
  are global, and a system call that yields finds them as other calls left them.
- *Limits.*  A full process table, a full tracker (8192 entries for up to 16384 frames), the end of memory, an occupied
  inbox, the ends of a line, a stack, a page and a buffer.

`PROJECT.json` lists these as hazards, each at its line with the properties that
would catch it going wrong.

What makes each component correct: the allocator never hands a frame to two holders
and forgets none; the tracker's entries stand for outstanding allocations; a slot
follows its life cycle and only the process on the hart is RUNNING; fork tells the
child that it is one; a zombie is reaped and its memory returns; an accepted message is
delivered once; the prompt comes back; heap blocks never overlap and are never lost;
the kernel touches user memory only through the caller's own table with SUM set; what
is typed reaches `main()`, and a program lies where it was linked.

## 2. Modules

| module | models |
|---|---|
| `PagePool` | abstract specification: a set of frames, granted and taken back |
| `PageAlloc` | the allocator and the tracker, one step per loop iteration |
| `ProcessLife` | abstract specification: processes are forked, exit, and are reaped by their parent |
| `Process` | process table, scheduler, traps, timer, process system calls |
| `ShellSystem` | `Process` with the shell as the user program, under fair scheduling |
| `ProcMem` | life of processes composed with memory: which frames each call obtains, maps, forgets and gives back |
| `Ipc` | inboxes, send and receive |
| `HeapStore` | abstract specification of both heaps: extents handed out never overlap |
| `KernelHeap` | `kernel/heap.c` |
| `UserHeap` | `user/lib/malloc.c` over `sbrk` and `sys_sbrk` |
| `UserAccess` | SUM, the active page table and the accesses of every system call |
| `Calendar`, `CommandLine`, `Format`, `TarFs`, `UserMemory` | the pure computations, as operators, with a reference definition of each |
| `Library`, `MCLibrary` | runs the five on bounded sets of inputs and compares |
| `PageAllocProofs`, `ProcMemProofs`, `IpcProofs`, `KernelHeapProofs`, `UserHeapProofs` | theorems about the module of that name |
| `ProcessProofs` | theorems about `Process` and `ShellSystem` |
| `UserAccessProofs` | theorems about `UserAccess` and `UserMemory` |
| `SetLemmas` | that `Min` and `Max` return the least and the greatest element, which the proofs share |

Definitions carry the name of the function they model; `PROJECT.json` ("map") gives
the source lines of each.  A definition marked "Variant" is a wrong version of the
definition below it, used to confirm that a property notices the difference; no
specification uses one.

**PageAlloc.**  Frames are numbers.  `free_list` is the list from its head,
`next_paddr` the bump pointer.  The loops of `free_pages_range` and of the sweep take
one step per iteration, with `op` as the loop variable, since the invariants
must hold between iterations.  `blocks` and `lost` are history: what callers hold,
and the frames a sweep forgot (a block of n pages is tracked as one page, so its
other frames are lost when its owner is swept).  Assumption: a caller frees only
what it obtained; `ProcMem` examines that for the callers in the kernel.

**ProcessLife.**  A slot is unused, alive or a zombie, and knows its parent's slot.
Three steps: somebody alive forks a child into an unused slot, somebody alive other than
idle becomes a zombie, or a zombie is reaped by its parent, who is alive.  `Process` and
`ProcMem` model the same calls from two sides and both implement it.  Since a parent is a
slot, the children of a process that was reaped pass to the next process of its slot, as in
`free_proc()`; in the booted system (`NoOrphans`) nobody is reaped before its children.

**Process.**  A position in user code is reduced to what the kernel can tell apart
(the head of the module lists the positions).  `cpu` is the register state of the
process on the hart, `tf` the saved frames.  A system call is one step, because the
kernel runs with interrupts off, except where `sys_read` waits for a key and where
the sweep has switched interrupts on inside `sys_wait`.  From there on `free_proc()` is
taken apart: the child is still a zombie (mode "reap"), its slot is free but
`process_count` not yet lowered ("freed", left by `free_proc_count`), `free_proc()` has
returned ("reaped"); a tick may strike in each.  `TickPoints` are the
positions where a tick may arrive, `NestedTicks` says whether one may arrive inside
`sys_wait`; the passing runs allow all of them.  A wait without children, a fault, and a nested trap over a stack in use
are the end states "hung", "panic" and "corrupt".

**ShellSystem.**  Adds the shell's place in its loop (`upc`) and replaces arbitrary
user code by the shell and by commands that run and exit.  Reading and splitting a
line is reduced to: there is a command, or there is none.  Ticks strike everywhere, as in
`Process`; `disturbed` is history and records whether one of the three fatal ticks of
section 4 has struck.

**ProcMem.**  The allocator is a function of its state, so that an operation of the
kernel is a composition of allocations and frees in the order of the code.  An
address space is a function from numbered user pages to frames plus the set of
frames that hold its tables; `TablesFor` says how many tables `map_page` needs.  The
pages are those of `user.ld`, in the order of their addresses: code, stack, the page
above the stack that the loop maps too, a gap, the heap.  Image and stack overlap as they
do in the linker script: `NewSpace` maps code and stack with the frames of the image, then
maps the stack again, and the frames whose entries are overwritten are `under`.  The
tracker is the owner of each frame; it has `MAX_TRACKED_ALLOCS` entries and drops the
record of an allocation that finds it full (`Seen`).  A negative sbrk moves `heap_end`
below the start of the heap as well, which changes what fork copies and what is unmapped
before the table is freed (`LastPage`); `MaxBelow` keeps it from going below `USER_BASE`.
`lost` is history: frames no pointer leads to any more, why, and which process lost
them; so is `unseen`, the frames handed out while the tracker was full.

**Ipc.**  One step per system call; any process may call next.  What a message says
is its number.  `accepted` and `taken` are history.

**KernelHeap.**  `list` is the chain of headers; each has address, size and free flag,
and `len`, history: the size asked for.  `malloc` is three actions (the first block
that fits is split, is taken whole, or there is none), `free` two (with and without a
free successor to absorb).  Addresses are real: header sizes and alignment are those
of the code.

**UserHeap.**  `free_list` is the library's list, head first; `used` the blocks the
program holds, which the library does not know.  `lib_end` and `kern_end` are the two
program breaks, `mapped` the pages the kernel has mapped.  When nothing on the list
fits, `malloc` runs up to the ecall of `sbrk` (`malloc_sbrk`, with the increment in
`call.a0`).  There a tick may switch to another process, and `user_return()` resumes this
one with `argc` in `a0` (`timer_switch`); then `sys_sbrk` adds what is in `a0` to the
kernel's break and the library adds its increment to its own.  `missing` is history, the
bytes by which the kernel's break has been set back.  A header written to a page that is
not mapped ends the run (`page_fault`, `sys_sbrk_panic`).

**UserAccess.**  The kernel is a machine with a list of statements still to execute
(`todo`), taken in order from the code of the system call; each statement is an
action.  So every point between two statements is a state, and a `yield()` in the
middle of a call drops the rest of it if it switches.  The loop of `sys_read` is unrolled
character by character (`uart_getc`), so a read may have any length.  Which process is picked and
which zombie is reaped is left open, which allows more than the scheduler does.

**Library.**  Its state is one input and, after one step, what the code computes from
it.  `Calendar` writes an epoch as days and seconds; `CommandLine` follows the keys
through the line editor, `strtok`, the shell's checks, the copy in `sys_exec` and the
stack of the new program, byte by byte; `TarFs` has the scan of a tar archive,
`UserMemory` the flat image of an ELF file and `copy_to_user`, `Format` the conversions
of numbers.

## 3. Runs

Passing runs:

| run | instance | shows |
|---|---|---|
| `page_alloc` | 4 frames, blocks of 1 or 2, 3 owners, 3 tracker entries, counter modulo 4 | free list without duplicates or held frames; every frame below the bump pointer accounted for and `g_free_pages` exact; tracker entries sound; implements `PagePool` |
| `process` | 4 slots, arbitrary programs, ticks everywhere, inside `sys_wait` too | one RUNNING process; `process_count` at least the slots in use and above them by no more than the waits a tick caught, a frame for whatever can be scheduled, zombies make no calls, a status reported is that of the child reaped, the child reads 0 from fork; implements `ProcessLife` |
| `shell` | 4 slots, shell and commands, ticks everywhere, inside `sys_wait` too, fairness | up to the first fatal tick (section 4): the shell stays the shell; one command at a time; `read` never interrupted by another process; no process outlives its parent, so no slot inherits the children of its last owner; no hang or panic; the prompt returns and zombies are reaped, unless a fatal tick strikes |
| `proc_mem` | 4 slots, 32 frames, 23 tracker entries, images of one page of code and one of stack, heap from 2 pages below its start to 2 above | no frame shared, used for two things or freed twice; no frame forgotten except those listed; what reaping returns |
| `ipc` | 4 slots, messages of 1 to 3 bytes, inbox of 2, 2 messages | accepted messages are taken once, in order, by the process they were sent to |
| `kernel_heap` | 160 bytes, headers of 24, requests of 0, 8, 20, 40 bytes | blocks tile the heap; payloads aligned and large enough; implements `HeapStore` |
| `user_heap` | pages of 32 bytes, headers of 16, four pages, requests of 1, 20, 44 bytes, ticks at the ecall with `argc` 1 | blocks apart, nothing lost, and on mapped pages while the kernel's break was set back by at most a page; implements `HeapStore` |
| `user_access` | idle and two processes, four tables, reads of any length | no kernel access without SUM or through another table; the hart never on a freed table; only `read` leaves SUM set |
| `library` | see bounds | dates, command lines, loading, copies and numbers agree with their references |

Runs that refute what a document or a comment says (see "findings"):

| run | what happens |
|---|---|
| `fork_return` | a tick between the return from fork and the use of `a0` makes the parent take the child's branch |
| `round_robin` | two processes in the lower slots alternate and a third starves |
| `grandchild` | reaping a process frees the pages its own child runs on |

*Bounds.*  Four frames and three tracker entries suffice for a full tracker, an
exhausted memory, blocks next to each other, and a sweep that meets entries of its
own, of others and of none.  Four slots are idle, shell and two more: enough for a
full table, for a child with siblings or children, and for two runnable processes
besides the caller.  In `ProcMem` 32 frames let two commands live side by side,
reuse each other's frames after a reap, and then run out of memory inside fork, exec
and sbrk; 23 tracker entries hold the boot and one forked child but not the program it execs, so
records are dropped and, after a reap, kept again (`grandchild` has 40 frames and room for all);
one code page and one stack page let the stack overwrite an entry of each new image;
`MaxHeap` 2 with `TableSpan` 6 makes one growth need a new table, and `MaxBelow` 2 brings
`heap_end` down to the top of the stack; `Execers`
and `Growers` keep the runs small, `Forkers` distinguishes the programs of the
repository (only the shell forks) from arbitrary ones.  `MaxMsgs` bounds the history
of `Ipc`.  The heaps keep the header sizes of the code; the kernel heap has room for
one to five blocks, and the requests fall below, on and above the alignment, so every
outcome of the split test occurs; in the user heap blocks end inside a page, at its end
and in the next one, the fifth page is refused, and a few restarted calls move the breaks
apart by more than a page.  `UserAccess` needs a table to
spare while exec holds two; its reads are not bounded.  `Library` takes the first four years and the turns of 2000, 2096, 2100 and
2104 (`MCDays`), at seconds on both sides of the time-zone carry; all
sequences of up to five keys on a line of four characters with stacks too small and
large enough; archives of up to three files with sizes below, at and above a block;
pairs of program headers of any alignment within two pages; page tables of three pages
with copies across their borders and into kernel space; all values of a 6-bit word,
with an int of 4 bits.  `CHECK_DEADLOCK FALSE` is set because the kernel really stops: `PANIC`
loops, and so does a wait without children; in `Library` each input is computed once.
`KernelHeap` and `UserAccess` never stop, and are checked for deadlock.

*Fairness.*  A tick stays pending until user mode lets it in: strong fairness of the
tick in user mode (`TickStep`).  Between two ticks (`TIMER_INTERVAL`) the process on the
hart executes many instructions, and the kernel runs a call to its end, so what a process
can do in slice after slice it does: strong fairness of the steps of each process (`Runs`).
Nested ticks are not fair, they only may happen.  In `ShellSystem` nobody
has to press a key; in the run for `NoStarvation` keys are pressed (weak fairness of
`Input`), which only removes counterexamples.

## 4. Ticks the shell does not survive

`ShellSystem` lets the timer strike at every point.  Three of these ticks break the
protocol between shell and kernel; `disturbed` records them, and no others:

- a switch at the ecall of exec.  `user_return()` loads `argc` into `a0`, and the call is
  then made with 0 or a small number for the name of the file;
- a switch behind the fork of the parent, before `a0` is read.  The shell reads its `argc`,
  0, and takes itself for the child: `fork_return` shows it, and the shell then execs and
  is the command;
- any tick inside `sys_wait`, after the sweep in `free_all_tracked_for_pid()` turned
  interrupts on.  It saves a frame over the kernel stack in use and, if it switches, resumes
  the process inside the kernel later (`nested_tick_switch`, and the end state "corrupt").
  If it strikes before `process_count` is lowered the counter stays one too high
  (`CountMatches` bounds the damage by the number of such ticks).

The safety properties say what holds up to the first of the three; the liveness properties
say that the prompt comes back or one of the three strikes.  Their content is that all other
ticks are harmless: at and behind the ecalls of read, wait and exit, at that of fork, behind the
fork of the child (whose `argc` is 0, `ChildToldZero`), behind an exec that failed, and
in code.  A wait that was interrupted at its ecall, or had to block, is executed again with
`argc` for its status pointer, so a program that passed a pointer gets no status
(`sys_wait_found` reports one only when the pointer survived; `StatusOfReaped` says that
what it then reports is right).  What keeps the shell away from the other weak spots is its
discipline, one child at a time and a wait for each: `yield()` has at most two candidates,
`read` is called only when no child exists, and `wait` only when one does.  After a fatal
tick the model goes on with what the code does, and nothing is claimed.

## 5. Memory of processes

`ProcMem` gives the account of what the kernel loses.  `NothingForgotten` says
that a frame once handed out is free, used, or in `lost`, and the kinds of `lost` are:

- "stack": `create_init_process()` and `exec_process()` map the image, which `user.ld` ends with the
  stack, and then the stack again; `map_page()` overwrites the entries without a look at
  them.  With the sizes of the repository that is 16 frames for every program started (32 image pages and 17
  stack pages, `virtio_console.log`).  They are tracked under the process that called exec,
  and come back when it is reaped; those of idle and shell are tracked under pid 0 and
  never do;
- "tf": fork takes a page for the child's trap frame
  while the parent is `current_proc`, exec moves the trap frame into the PCB, and
  nobody frees the page until the shell itself is reaped.  This happens with every command;
- "image": the block a second exec replaces, of which only the first frame is tracked;
- "heap": what was mapped where sbrk maps again after a negative increment.  If the
  increments went below the start of the heap, that may be the page above the stack.

`ReapReclaims` says what is still in `lost` after a process was reaped: frames tracked
under a process that is still there, the untracked tail of a replaced image, and frames
that were handed out while the tracker was full.  The last can happen: `alloc_table` has 8192
entries and RAM 16384 frames, and a record that is dropped is not made up for later.
Since a block of several
pages never comes from the free list, each exec also moves the bump pointer, and a
long session ends with "out of memory" (`out_of_memory`), however much is free.

`NoSharedFrames` holds when only the shell forks, which is proved, and fails when
commands fork (`grandchild`).

## 6. Access to user memory, heaps and computations

`UserAccess` settles what a reader of `syscall.c` must wonder about: `sys_read` yields
with SUM set and `sys_exec` returns early without clearing it.  The second is closed by
`handle_syscall`; the first is not, and a refused `read`, or one that yielded to another
process, leaves SUM set in user mode (`OnlyReadLeavesSum` names it as the only
culprit).  No call depends on the bit being clear, and none finds it cleared when it
needs it (`NoFault`): `read` either keeps the hart or is started again.

In the user heap the program break of the library starts one page behind the kernel's.
That page is never needed by calls that go through undisturbed, and it is what makes the
scheme work: the page of the library's break is always mapped, and the spare page also
makes up for calls of sbrk that a tick at the ecall turned into `sbrk(argc)`, as long as
these have set the kernel's break back by no more than a page (`BlocksMapped`).  Beyond that
malloc writes a header to a page that is not mapped, and the kernel panics; the model
reaches that state, so the bound is the true one.  Freed blocks are cut but never
joined, so a program may run out of memory with most of its heap free; `NothingLost`
says the memory is still on the list.

`TypedReachesMain` carries two facts of the code as they are: an erase on an empty line
is stored as a character, and a refused name can be started with a space before it,
because the shell compares the line and not the command.  `NumbersReadBack` carries a
third: a field of `uart_putpad` is one character narrower than asked for.

A message of one byte leaves its inbox and is reported as -1, so `ipc_recv` waits on;
`InboxConserves` counts it as taken.

## 7. Proofs

All theorems hold for any constants that satisfy the module's named assumption
(`PageAllocAssumption`, `ProcessAssumption`, `ProcMemAssumption`, `IpcAssumption`,
`KernelHeapAssumption`, `UserHeapAssumption`, `UserAccessAssumption`,
`UserMemoryAssumption`); where a theorem has
a further hypothesis, it is named below with what happens without it.

- `PageAllocProofs`: `TypeCorrect`, `NoDoubleFree`, `NoFrameForgotten`,
  `TrackerCorrect`, `Refinement`.  The inductive invariant `IInv`
  is the conjunction of the checked invariants with three facts they need: held
  blocks are pairwise apart (`Apart`) and apart from lost frames, without which a
  freed page could still be held; the tracker agrees with the blocks in the middle of a
  loop as well (`TrackerOK`); and what a loop under way has still to free is a block
  that is held (`LoopOK`), without which a later iteration could free a page twice.  `Refinement` maps held and lost frames to the granted ones of
  `PagePool`.
- `ProcessProofs`: `TypeCorrect`, `OneRunning`, `CountIsBounded`, `FrameForEveryone`,
  `ZombiesAreDead`, `LivesRefine`.  `IInv` adds to the checked invariants that the
  hart's and all schedulable frames are real (`FramesHold`), that a call in progress
  is at its ecall and the child being reaped is a zombie (`CallInProgress`), and that
  idle stays at its first instruction and so never exits (`IdleStays`).  `LivesRefine`
  shows that every step of `Process` is a step of `ProcessLife` or none.  `sys_wait` picks
  the zombie before the sweep and releases the slot after it, with a tick possible in
  between; that the one who releases it is then still the parent, and alive, is why
  `CallInProgress` also says whose child is being reaped.  `CountIsBounded` needs
  `CountInv`: between the two steps of `free_proc()` the counter is one too high, and a process
  a tick caught in there is put aside and RUNNABLE (`KernelFrames`), so that it is counted
  as caught exactly as long as its frame says so; the rest is cardinality of the slots in use.
  `ReportsReaped` needs `StatusFresh`: the status of a process stays untouched while it
  is in its code or at an ecall, on the hart or off it, because a blocked wait is
  executed again and must not find an old value.  `ChildReadsZero` needs `ForkPending`: a
  child that has not returned from fork stands behind the ecall, on the hart or off it, and its
  `argc` is 0, the value `user_return()` loads however often it is preempted there.  That
  holds for a slot of any past because `alloc_free_proc()` clears it, also when a tick kept
  `free_proc()` from doing so.  All these theorems cover arbitrary
  programs and ticks everywhere.
- `ProcessProofs`, second part: `ShellImplementsProcess` (the booted system is a run of
  `Process`), `ShellStaysShell`, `NeverTwoCommands`, `NoCharacterLost`,
  `ShellNeverStops`, `NobodyOrphaned`.  They have no hypothesis on where ticks strike: each
  says what holds up to the first fatal tick of section 4.  What is inductive is
  `ShellInv`: `IInv`, and `SInv` unless `disturbed`, which nothing resets.
  `SInv` describes the whole state of an undisturbed system, for any size of the process
  table: the slots that are taken (`TableShape`), where the shell and its command can be
  and with which registers, resting where a switch may leave them or calling on the hart
  (`ShellPhase`, `CommandPhase`), and what
  the kernel is doing for whom (`ModePhase`).  It rules out the weak spots of section 4
  one by one.
- `ProcMemProofs`: `FramesDivided`, `FramesNeverShared`, `NothingElseLeaks`,
  `ReapedMemoryReturns`, for any sizes of memory, tracker, image, stack, heap and process table,
  and programs that exec, grow and shrink at will, the shell included.  They assume
  `Forkers \subseteq {shell}`; `grandchild` shows why.  The invariant `MInv` says that the
  frames handed out are divided among the processes and the forgotten ones (`Divided`),
  that a process uses each of its frames once and has as many tables as its pages need
  (`SpaceOK`), and whose pid the tracker may hold for a frame (`Owned`, `Accounted`): that
  of the process itself, of the shell or of idle, or none because the tracker was full
  (`Mark` and `Hidden`).  The last part is what makes the sweep
  of `free_proc()` safe: every process in the table but idle and shell is a child of
  shell (`Family`), so the pid swept is in no other process's entries.  Each
  call of the allocator moves a set of frames over the border between free and handed
  out (`Got`, `Gave`), and an operation of the kernel is proved as a chain of such moves.
  That a new address space gives each page a frame of its own rests on counting
  (`RankGrows` to `InOrder`), and that the frames under a stack are apart from those that
  stay mapped on a count of the slice of ranks they have (`SliceCounted`, `Layout`).
  `SameLife` needs none of this: whatever forks, `ProcMem` implements `ProcessLife`, so the
  processes whose memory it follows live as those of `Process` do.
- `UserAccessProofs`: `AccessesAllowed`, `HartOnOwnTable`, `SumLeftByReadOnly`, for any
  number of processes and tables and reads of any length.  The code of a call is a
  concatenation of blocks, and a block leaves the table it found and sets SUM before it
  needs it; both survive concatenation (`BlocksCompose`).  `IInv` says what is left of
  them in the middle of a call: which table is active, given the statements still to
  execute (`ActiveTable`), and that SUM is set now or will be before the next access
  (`SumAhead`), and will be cleared unless the call is a read (`SumBehind`).
- `UserAccessProofs`, second part: `CopyArrives` and `ProgramAsLinked`, what `CopyLands` and
  the ELF half of `ProgramLoaded` compare on a few pages, as facts about the operators of
  `UserMemory` for every input.  A page table has an entry for every user address
  (`UserTable`), and no user page is in frame 0, which `walkaddr()` returns for a failure.
  Program headers are those a linker makes (`WellFormed`) and end a page or more below the
  last address (`Headers`); beyond it the sums of `extract_flat_binary_from_elf()` wrap.
  Every input of the `library` run satisfies these, or is outside what the property says.
- `IpcProofs`: `TypeCorrect` and `NoMessageLost`; `InboxConserves` is inductive with
  `TypeOK`.
- `KernelHeapProofs`: `TypeCorrect`, `BlocksTile`, `AlwaysUsable`, `Refinement`.  `IInv`
  is `TypeOK`, `Tiles` and `Usable` with `Ordered`: of two blocks, the earlier one ends
  before the later begins.  `Tiles` speaks of neighbours only; that a new extent is apart
  from *every* held one, which the refinement needs, follows from `Ordered`.
- `UserHeapProofs`: `TypeCorrect`, `NoOverlap`, `AlwaysMapped`, `NoByteLost`,
  `Refinement`.  `IInv` is `TypeOK`, `BlocksApart`, `NothingLost`, the
  alignment and size of payloads (`Usable`) and `Extent`: the kernel's break plus what is
  missing is a page above the library's, every page below it is mapped, and the blocks lie
  below the library's.  `SpareCovers` derives `BlocksMapped` from it, for any page size that
  divides the heap's start and ticks at any ecall.

Only model-checked: the liveness properties of `ShellSystem`, since fairness is out of
the prover's reach, and the properties of `Library` other than those two facts: what the
scan of an archive, the tokens of a line, the layout of arguments, the digits of a number
and the loops over years compute is defined by recursion, and needs induction over the
input.

## 8. Not modelled, and the plan

Not modelled: the init server (its start is commented out in `kernel_main`; its fork,
exec and wait calls are among those of the arbitrary programs in `Process`), device
registers and the SBI calls, the search of an ELF symbol table (the addresses it
returns are parameters), `strip_elf_extension`, and functions that only print.  Page
tables are counted in `ProcMem` and looked up in `UserMemory`, not built entry by entry.

Done: `PageAlloc`, `Process`, `ShellSystem`, `ProcMem`, `Ipc`, both heaps and `UserAccess`,
with their proofs; `ProcessLife`, implemented by `Process` and by `ProcMem`; `Library`.

Left: the link between the set of free frames in `ProcMem` and the list of `PageAlloc`, as
a refinement.  A step of `ProcMem` is a whole call, which frees and obtains frames, so it
is several steps of `PageAlloc`; the refinement needs a `ProcMem` that stops in between.
