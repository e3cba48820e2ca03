------------------------------ MODULE Process ------------------------------
(***************************************************************************)
(* Processes, scheduling and traps: the process table of kernel/process.c, *)
(* yield() of kernel/scheduler.c, the trap path of kernel/trap.c and       *)
(* kernel/user.c, and the process system calls of kernel/syscall.c (fork,  *)
(* exec, exit, wait, yield, read).  Memory is in PageAlloc.                *)
(*                                                                         *)
(* A process is its slot in procs[]; slot 0 is idle, slot 1 the process    *)
(* the kernel starts (shell).  `cpu' is the user-mode state of the process *)
(* on the hart, `tf' the trap frames.  A position in user code is reduced  *)
(* to what the kernel can tell apart:                                      *)
(*   entry   first instruction of the image (USER_BASE)                    *)
(*   code    somewhere in the program, argument registers dead             *)
(*   ecall   at an ecall, the arguments of system call `sys' loaded        *)
(*   ret     behind an ecall, a0 not yet read                              *)
(*   spin    the loop in exit() of user/lib/syscall.c                      *)
(*   wild    an address of the previous image                              *)
(*   kernel  an address of the kernel (only in a frame saved there)        *)
(* The frame of the process on the hart is rewritten by its next trap      *)
(* before anything reads it; until then its contents are `cpu'.            *)
(*                                                                         *)
(* The kernel runs with interrupts off, so a system call is one step,      *)
(* except where it waits for input (mode "reading") and after              *)
(* free_all_tracked_for_pid() switched interrupts on in the middle of      *)
(* free_proc(), called by sys_wait: modes "reap" (the child is still a     *)
(* zombie), "freed" (its slot is free, process_count not lowered yet) and  *)
(* "reaped" (free_proc() has returned).                                    *)
(***************************************************************************)
EXTENDS Integers, FiniteSets, FiniteSetsExt

CONSTANTS
    PROCS_MAX,      \* slots of procs[] (8 in the source)
    ExitCodes,      \* arguments of exit()
    Argcs,          \* arguments of exec(): its argc
    UserPtr,        \* a valid pointer into the caller's memory
    TickPoints,     \* positions at which a timer interrupt may arrive
    NestedTicks     \* whether one may arrive inside sys_wait

Calls  == {"fork", "exec", "exit", "wait", "yield", "read"}
Points == {"entry", "code", "ecall", "ret", "spin", "wild", "kernel", "live", "null"}

ASSUME ProcessAssumption ==
    /\ PROCS_MAX \in Nat /\ PROCS_MAX > 2
    /\ ExitCodes \subseteq Int
    /\ Argcs \subseteq Nat
    /\ UserPtr \in Nat \ {0}
    /\ UserPtr \notin Argcs
    /\ {"entry", "code", "spin"} \subseteq TickPoints
    /\ TickPoints \subseteq {"entry", "code", "ecall", "ret", "spin", "wild"}
    /\ NestedTicks \in BOOLEAN

Procs     == 0 .. (PROCS_MAX - 1)
idle_proc == 0
shell     == 1
NoProc    == -1                      \* a NULL struct process *
NoStatus  == -1                      \* contents of an int nobody has written

States == {"UNUSED", "RUNNABLE", "RUNNING", "ZOMBIE"}
Modes  == {"boot", "user", "reading", "reap", "freed", "reaped", "hung", "panic", "corrupt"}
Regs   == [at : Points, sys : Calls \cup {"none"}, a0 : Int, a1 : Int]

VARIABLES
    state, parent, exit_code, argc, tf,      \* fields of procs[]
    current_proc, process_count,
    cpu,             \* registers of the process on the hart
    mode,            \* where the hart is
    reaping,         \* the child sys_wait is freeing
    wstatus,         \* the int each process passes to wait()
    forked           \* history: children that have not returned from fork yet

vars == <<state, parent, exit_code, argc, tf, current_proc, process_count,
          cpu, mode, reaping, wstatus, forked>>

\* pid of a slot in use; the kernel sets the pid of idle to 0.
Pid(p) == IF p = idle_proc THEN 0 ELSE p + 1

At(where)   == [at |-> where, sys |-> "none", a0 |-> 0, a1 |-> 0]
NoFrame     == At("null")            \* tf == NULL
Live        == At("live")            \* the frame of the process on the hart

\* exec sets argv_ptr only when argc > 1; fork and free_proc leave 0.
argv_ptr(n) == IF n > 1 THEN UserPtr ELSE 0

\* kernel_main after it created idle and shell, about to call yield().
Init ==
    /\ state = [p \in Procs |-> IF p \in {idle_proc, shell} THEN "RUNNABLE" ELSE "UNUSED"]
    /\ parent = [p \in Procs |-> IF p = shell THEN idle_proc ELSE NoProc]
    /\ exit_code = [p \in Procs |-> 0]
    /\ argc = [p \in Procs |-> 0]
    /\ tf = [p \in Procs |-> IF p \in {idle_proc, shell} THEN At("entry") ELSE NoFrame]
    /\ current_proc = idle_proc
    /\ process_count = 2
    /\ cpu = At("entry")
    /\ mode = "boot"
    /\ reaping = NoProc
    /\ wstatus = [p \in Procs |-> NoStatus]
    /\ forked = {}

-----------------------------------------------------------------------------
(* yield()                                                                  *)

\* The frame trap_vector and trap_handler save on every trap.
Saved == [tf EXCEPT ![current_proc] = cpu]

\* Variant: whatever the state of the process that leaves, it becomes runnable.
Demote_any(st) == [st EXCEPT ![current_proc] = "RUNNABLE"]

\* Variant: the process that leaves keeps its state.
Demote_none(st) == st

\* A running process becomes runnable; a zombie stays one.
Demote(st) ==
    IF st[current_proc] = "RUNNING" THEN [st EXCEPT ![current_proc] = "RUNNABLE"] ELSE st

Candidates(st, count) ==
    {p \in Procs \ {idle_proc} :
        st[p] = "RUNNABLE" /\ (count = 2 \/ p # current_proc)}

\* The first candidate of the table, idle when there is none.
NextProc(st, count) ==
    IF Candidates(st, count) = {} THEN idle_proc ELSE Min(Candidates(st, count))

\* user_return(): the saved frame, with argc and argv_ptr in a0 and a1.
user_return(frame, n) == [frame EXCEPT !.a0 = n, !.a1 = argv_ptr(n)]

\* yield() finds another process: it never returns to its caller.
yield_switch(st, frames, count) ==
    LET st1  == Demote(st)
        next == NextProc(st1, count)
    IN  /\ next # current_proc
        /\ state' = [st1 EXCEPT ![next] =
                        IF st1[next] = "RUNNABLE" THEN "RUNNING" ELSE st1[next]]
        /\ current_proc' = next
        /\ tf' = [frames EXCEPT ![next] = Live]
        /\ cpu' = user_return(frames[next], argc[next])
        /\ mode' = "user"

\* yield() picks the process that called it and returns.
yield_stay(st, count) ==
    /\ NextProc(Demote(st), count) = current_proc
    /\ state' = Demote(st)
    /\ UNCHANGED <<tf, current_proc>>

\* kernel_main calls yield(): switch_context_sp() to user_entry() of the shell.
boot ==
    /\ mode = "boot"
    /\ yield_switch(state, tf, process_count)
    /\ UNCHANGED <<parent, exit_code, argc, process_count, reaping, wstatus, forked>>

\* A timer interrupt in user mode.
timer_switch ==
    /\ mode = "user" /\ cpu.at \in TickPoints
    /\ yield_switch(state, Saved, process_count)
    /\ UNCHANGED <<parent, exit_code, argc, process_count, reaping, wstatus, forked>>

timer_stay ==
    /\ mode = "user" /\ cpu.at \in TickPoints
    /\ yield_stay(state, process_count)
    /\ UNCHANGED <<parent, exit_code, argc, process_count, cpu, mode, reaping,
                   wstatus, forked>>

-----------------------------------------------------------------------------
(* User code.  idle only waits for interrupts.                              *)

\* The program reads its arguments, or a return value and the status.
UserStep ==
    /\ mode = "user" /\ current_proc # idle_proc
    /\ cpu.at \in {"entry", "ret"}
    /\ cpu' = At("code")
    /\ forked' = IF cpu.sys = "fork" THEN forked \ {current_proc} ELSE forked
    /\ wstatus' = [wstatus EXCEPT ![current_proc] = NoStatus]
    /\ UNCHANGED <<state, parent, exit_code, argc, tf, current_proc,
                   process_count, mode, reaping>>

\* The wrappers of user/lib/syscall.c load a0 and a1.
Load(s, a0, a1) ==
    /\ mode = "user" /\ current_proc # idle_proc
    /\ cpu.at = "code"
    /\ cpu' = [at |-> "ecall", sys |-> s, a0 |-> a0, a1 |-> a1]
    /\ UNCHANGED <<state, parent, exit_code, argc, tf, current_proc,
                   process_count, mode, reaping, wstatus, forked>>

Wrapper(s) ==
    CASE s = "exit" -> \E code \in ExitCodes : Load(s, code, 0)
      [] s = "wait" -> Load(s, UserPtr, 0)
      [] s = "exec" -> Load(s, UserPtr, UserPtr)
      [] s = "read" -> Load(s, 0, UserPtr)
      [] OTHER      -> Load(s, 0, 0)

\* An instruction fetch from a kernel page, or whatever a wild jump meets, is
\* an unexpected trap: PANIC.
UserFault ==
    /\ mode = "user" /\ cpu.at \in {"kernel", "wild"}
    /\ mode' = "panic"
    /\ UNCHANGED <<state, parent, exit_code, argc, tf, current_proc,
                   process_count, cpu, reaping, wstatus, forked>>

-----------------------------------------------------------------------------
(* System calls.  Each is entered with cpu at the ecall; the return value   *)
(* goes to a0 and the program continues behind the ecall.                   *)

Ecall(s) == mode = "user" /\ cpu.at = "ecall" /\ cpu.sys = s

\* A frame behind the ecall with the return value in a0.
Returned(frame, val) == [frame EXCEPT !.at = "ret", !.a0 = val]

Return(val) ==
    /\ cpu' = Returned(cpu, val)
    /\ mode' = "user"

\* An access through a pointer that is not one: page fault in the kernel.
KernelFault ==
    /\ mode' = "panic"
    /\ UNCHANGED <<state, parent, exit_code, argc, tf, current_proc, process_count,
                   cpu, reaping, wstatus, forked>>

FreeSlots == {p \in Procs : state[p] = "UNUSED"}

sys_fork_fail ==
    /\ Ecall("fork")
    /\ FreeSlots = {}
    /\ Return(-1)
    /\ UNCHANGED <<state, parent, exit_code, argc, tf, current_proc, process_count,
                   reaping, wstatus, forked>>

\* Variant: the slot is taken as free_proc() left it, argc is not cleared.
sys_fork_uncleared ==
    /\ Ecall("fork")
    /\ FreeSlots # {}
    /\ LET child == Min(FreeSlots)
       IN  /\ state' = [state EXCEPT ![child] = "RUNNABLE"]
           /\ parent' = [parent EXCEPT ![child] = current_proc]
           /\ exit_code' = [exit_code EXCEPT ![child] = 0]
           /\ tf' = [tf EXCEPT ![child] = Returned(cpu, 0)]
           /\ wstatus' = [wstatus EXCEPT ![child] = wstatus[current_proc]]
           /\ forked' = forked \cup {child}
           /\ Return(Pid(child))
    /\ process_count' = process_count + 1
    /\ UNCHANGED <<argc, current_proc, reaping>>

\* Variant: what alloc_free_proc() returned is not checked.
sys_fork_unchecked ==
    /\ Ecall("fork")
    /\ LET child == IF FreeSlots = {} THEN NoProc ELSE Min(FreeSlots)
       IN  /\ state' = [state EXCEPT ![child] = "RUNNABLE"]
           /\ parent' = [parent EXCEPT ![child] = current_proc]
           /\ exit_code' = [exit_code EXCEPT ![child] = 0]
           /\ argc' = [argc EXCEPT ![child] = 0]
           /\ tf' = [tf EXCEPT ![child] = Returned(cpu, 0)]
           /\ wstatus' = [wstatus EXCEPT ![child] = wstatus[current_proc]]
           /\ forked' = forked \cup {child}
           /\ Return(Pid(child))
    /\ process_count' = process_count + 1
    /\ UNCHANGED <<current_proc, reaping>>

\* alloc_free_proc() takes the first unused slot and clears it; the child gets a
\* copy of the frame (a0 = 0, behind the ecall) and of the memory.
sys_fork ==
    /\ Ecall("fork")
    /\ FreeSlots # {}
    /\ LET child == Min(FreeSlots)
       IN  /\ state' = [state EXCEPT ![child] = "RUNNABLE"]
           /\ parent' = [parent EXCEPT ![child] = current_proc]
           /\ exit_code' = [exit_code EXCEPT ![child] = 0]
           /\ argc' = [argc EXCEPT ![child] = 0]
           /\ tf' = [tf EXCEPT ![child] = Returned(cpu, 0)]
           /\ wstatus' = [wstatus EXCEPT ![child] = wstatus[current_proc]]
           /\ forked' = forked \cup {child}
           /\ Return(Pid(child))
    /\ process_count' = process_count + 1
    /\ UNCHANGED <<current_proc, reaping>>

\* The program name is read through a0.
sys_exec_fault ==
    /\ Ecall("exec") /\ cpu.a0 # UserPtr
    /\ KernelFault

\* tarfs_lookup() finds no such file.
sys_exec_fail ==
    /\ Ecall("exec") /\ cpu.a0 = UserPtr
    /\ Return(-1)
    /\ UNCHANGED <<state, parent, exit_code, argc, tf, current_proc, process_count,
                   reaping, wstatus, forked>>

\* exec_process() builds the new image and marks the caller running; the frame
\* is reset to the entry of the image, argc is stored, and yield() is called.
Execed == [state EXCEPT ![current_proc] = "RUNNING"]
Reset  == [tf EXCEPT ![current_proc] = At("entry")]

sys_exec_switch(n) ==
    /\ Ecall("exec") /\ cpu.a0 = UserPtr
    /\ yield_switch(Execed, Reset, process_count)
    /\ argc' = [argc EXCEPT ![current_proc] = n]
    /\ wstatus' = [wstatus EXCEPT ![current_proc] = NoStatus]
    /\ UNCHANGED <<parent, exit_code, process_count, reaping, forked>>

\* yield() returns: trap_handler continues behind the old ecall, in the new
\* image.
sys_exec_stay(n) ==
    /\ Ecall("exec") /\ cpu.a0 = UserPtr
    /\ yield_stay(Execed, process_count)
    /\ argc' = [argc EXCEPT ![current_proc] = n]
    /\ wstatus' = [wstatus EXCEPT ![current_proc] = NoStatus]
    /\ cpu' = At("wild")
    /\ UNCHANGED <<parent, exit_code, process_count, mode, reaping, forked>>

\* Variant: the system call returns into the program instead of the loop.
sys_exit_returns ==
    /\ Ecall("exit")
    /\ state' = [state EXCEPT ![current_proc] = "ZOMBIE"]
    /\ exit_code' = [exit_code EXCEPT ![current_proc] = cpu.a0]
    /\ Return(0)
    /\ UNCHANGED <<parent, argc, tf, current_proc, process_count, reaping, wstatus, forked>>

\* The caller becomes a zombie and goes on in exit()'s loop until the timer.
sys_exit ==
    /\ Ecall("exit")
    /\ state' = [state EXCEPT ![current_proc] = "ZOMBIE"]
    /\ exit_code' = [exit_code EXCEPT ![current_proc] = cpu.a0]
    /\ cpu' = At("spin")
    /\ UNCHANGED <<parent, argc, tf, current_proc, process_count, mode, reaping,
                   wstatus, forked>>

sys_yield_switch ==
    /\ Ecall("yield")
    /\ yield_switch(state, Saved, process_count)
    /\ UNCHANGED <<parent, exit_code, argc, process_count, reaping, wstatus, forked>>

sys_yield_stay ==
    /\ Ecall("yield")
    /\ yield_stay(state, process_count)
    /\ Return(0)
    /\ UNCHANGED <<parent, exit_code, argc, process_count, reaping, wstatus, forked>>

\* Variant: any child will do.
Zombies_any == {p \in Procs : parent[p] = current_proc}

\* Variant: anybody's child will do.
Zombies_anyones == {p \in Procs : state[p] = "ZOMBIE"}

\* Children of the caller that have exited.

Zombies == {p \in Procs : state[p] = "ZOMBIE" /\ parent[p] = current_proc}

\* The exit code is stored through a bad pointer.
sys_wait_fault ==
    /\ Ecall("wait") /\ Zombies # {}
    /\ cpu.a0 \notin {0, UserPtr}
    /\ KernelFault

\* Variant: the caller's own exit code is stored.
sys_wait_found_own ==
    /\ Ecall("wait") /\ Zombies # {}
    /\ cpu.a0 \in {0, UserPtr}
    /\ LET p == Min(Zombies)
       IN  /\ wstatus' = IF cpu.a0 = UserPtr
                         THEN [wstatus EXCEPT ![current_proc] = exit_code[current_proc]]
                         ELSE wstatus
           /\ tf' = [tf EXCEPT ![p] = NoFrame]
           /\ reaping' = p
    /\ mode' = "reap"
    /\ UNCHANGED <<state, parent, exit_code, argc, current_proc, process_count,
                   cpu, forked>>

\* A zombie is found: status is written unless the pointer is NULL, and
\* free_proc() gives the memory back, up to free_all_tracked_for_pid(), which
\* leaves interrupts on.
sys_wait_found ==
    /\ Ecall("wait") /\ Zombies # {}
    /\ cpu.a0 \in {0, UserPtr}
    /\ LET p == Min(Zombies)
       IN  /\ wstatus' = IF cpu.a0 = UserPtr
                         THEN [wstatus EXCEPT ![current_proc] = exit_code[p]]
                         ELSE wstatus
           /\ tf' = [tf EXCEPT ![p] = NoFrame]
           /\ reaping' = p
    /\ mode' = "reap"
    /\ UNCHANGED <<state, parent, exit_code, argc, current_proc, process_count,
                   cpu, forked>>

\* free_proc() goes on with interrupts on: first the slot is unused.
free_proc ==
    /\ mode = "reap"
    /\ state' = [state EXCEPT ![reaping] = "UNUSED"]
    /\ mode' = "freed"
    /\ UNCHANGED <<parent, exit_code, argc, tf, current_proc, process_count, cpu,
                   reaping, wstatus, forked>>

\* Variant: the counter is left alone.
free_proc_count_never ==
    /\ mode = "freed"
    /\ parent' = [parent EXCEPT ![reaping] = NoProc]
    /\ argc' = [argc EXCEPT ![reaping] = 0]
    /\ mode' = "reaped"
    /\ UNCHANGED <<process_count, state, exit_code, tf, current_proc, cpu, reaping,
                   wstatus, forked>>

\* Then its fields are cleared, which nobody reads in an unused slot, and at last
\* process_count is lowered.  Parent pointers of the child's own children stay.
free_proc_count ==
    /\ mode = "freed"
    /\ parent' = [parent EXCEPT ![reaping] = NoProc]
    /\ argc' = [argc EXCEPT ![reaping] = 0]
    /\ process_count' = process_count - 1
    /\ mode' = "reaped"
    /\ UNCHANGED <<state, exit_code, tf, current_proc, cpu, reaping, wstatus, forked>>

\* sys_wait() returns the pid and the trap ends.
sys_wait_return ==
    /\ mode = "reaped"
    /\ Return(Pid(reaping))
    /\ reaping' = NoProc
    /\ UNCHANGED <<state, parent, exit_code, argc, tf, current_proc,
                   process_count, wstatus, forked>>

\* No zombie yet: the caller gives up the hart.  It resumes at the ecall.
sys_wait_switch ==
    /\ Ecall("wait") /\ Zombies = {}
    /\ yield_switch(state, Saved, process_count)
    /\ UNCHANGED <<parent, exit_code, argc, process_count, reaping, wstatus, forked>>

\* No zombie and nobody else: the loop of sys_wait() runs forever with
\* interrupts off.
sys_wait_stay ==
    /\ Ecall("wait") /\ Zombies = {}
    /\ yield_stay(state, process_count)
    /\ mode' = "hung"
    /\ UNCHANGED <<parent, exit_code, argc, process_count, cpu, reaping, wstatus,
                   forked>>

\* A timer interrupt between enable_interrupts() and the end of sys_wait().  The
\* frame is saved on the kernel stack the system call is using; the process is
\* left with a frame that points into the kernel.
nested_tick_switch ==
    /\ NestedTicks /\ mode \in {"reap", "freed", "reaped"}
    /\ yield_switch(state, [tf EXCEPT ![current_proc] = At("kernel")], process_count)
    /\ reaping' = NoProc
    /\ UNCHANGED <<parent, exit_code, argc, process_count, wstatus, forked>>

\* yield() returns to a system call whose stack has been overwritten.
nested_tick_stay ==
    /\ NestedTicks /\ mode \in {"reap", "freed", "reaped"}
    /\ yield_stay(state, process_count)
    /\ mode' = "corrupt"
    /\ UNCHANGED <<parent, exit_code, argc, process_count, cpu, reaping, wstatus,
                   forked>>

sys_read_invalid ==
    /\ Ecall("read") /\ (cpu.a0 # 0 \/ cpu.a1 = 0)
    /\ Return(-1)
    /\ UNCHANGED <<state, parent, exit_code, argc, tf, current_proc, process_count,
                   reaping, wstatus, forked>>

\* uart_getc() is polled with interrupts off.
sys_read_poll ==
    /\ Ecall("read") /\ cpu.a0 = 0 /\ cpu.a1 # 0
    /\ mode' = "reading"
    /\ UNCHANGED <<state, parent, exit_code, argc, tf, current_proc, process_count,
                   cpu, reaping, wstatus, forked>>

\* A newline ends the read of one character at once.
sys_read_newline ==
    /\ mode = "reading"
    /\ Return(1)
    /\ UNCHANGED <<state, parent, exit_code, argc, tf, current_proc,
                   process_count, reaping, wstatus, forked>>

\* Any other character is stored and then yield() is called.
sys_read_char_stay ==
    /\ mode = "reading"
    /\ yield_stay(state, process_count)
    /\ Return(1)
    /\ UNCHANGED <<parent, exit_code, argc, process_count, reaping, wstatus, forked>>

sys_read_char_switch ==
    /\ mode = "reading"
    /\ yield_switch(state, Saved, process_count)
    /\ UNCHANGED <<parent, exit_code, argc, process_count, reaping, wstatus, forked>>

-----------------------------------------------------------------------------
Timer  == timer_switch \/ timer_stay
Nested == nested_tick_switch \/ nested_tick_stay
Exec   == sys_exec_fault \/ sys_exec_fail
          \/ \E n \in Argcs : sys_exec_switch(n) \/ sys_exec_stay(n)
Wait   == sys_wait_fault \/ sys_wait_found \/ free_proc \/ free_proc_count
          \/ sys_wait_return \/ sys_wait_switch \/ sys_wait_stay
Read   == sys_read_invalid \/ sys_read_poll
Input  == sys_read_newline \/ sys_read_char_stay \/ sys_read_char_switch

\* What the kernel does when the process on the hart traps.
Kernel == sys_fork_fail \/ sys_fork \/ Exec \/ sys_exit
          \/ sys_yield_switch \/ sys_yield_stay \/ Wait \/ Read

Next ==
    \/ boot \/ Timer \/ Nested
    \/ UserStep \/ (\E s \in Calls : Wrapper(s)) \/ UserFault
    \/ Kernel \/ Input

Spec == Init /\ [][Next]_vars

\* A tick stays pending until user mode lets it in, so it is taken if user mode is
\* reached again and again; an ecall traps; user code runs on; keys are pressed.
Fairness ==
    /\ WF_vars(boot) /\ SF_vars(Timer)
    /\ WF_vars(Kernel) /\ WF_vars(UserStep) /\ WF_vars(Input)

FairSpec == Spec /\ Fairness

-----------------------------------------------------------------------------
(* Properties                                                               *)

\* The type of the process table and of the hart; fork never returns a child
\* outside the table.
TypeOK ==
    /\ state \in [Procs -> States]
    /\ parent \in [Procs -> Procs \cup {NoProc}]
    /\ exit_code \in [Procs -> Int]
    /\ argc \in [Procs -> Nat]
    /\ tf \in [Procs -> Regs]
    /\ current_proc \in Procs
    /\ process_count \in Int
    /\ cpu \in Regs
    /\ mode \in Modes
    /\ reaping \in Procs \cup {NoProc}
    /\ wstatus \in [Procs -> Int]
    /\ forked \subseteq Procs

\* Only the process on the hart is RUNNING: every path out of a process (timer,
\* yield, a blocked wait or read, exec, an interrupt inside sys_wait) demotes it.
RunningIsCurrent == \A p \in Procs : state[p] = "RUNNING" => p = current_proc

InUse == {p \in Procs : state[p] # "UNUSED"}

\* Processes that are in, or were switched away from, the part of sys_wait() that
\* runs with interrupts on and has not lowered the counter.
Caught ==
    {p \in Procs : tf[p].at = "kernel"}
    \cup {p \in {current_proc} : mode \in {"freed", "corrupt"} \/ cpu.at = "kernel"}

\* process_count, on which yield() decides whether the caller may be picked
\* again, is never below the number of slots in use, and above it by at most one for
\* each process a tick caught inside sys_wait() before free_proc() lowered it: as long
\* as no tick strikes there, it is exact.
CountMatches ==
    /\ Cardinality(InUse) <= process_count
    /\ process_count <= Cardinality(InUse) + Cardinality(Caught)

\* Whatever yield() can pick has a trap frame to return through, and idle, its
\* last resort, is always there.
SchedulableHasFrame ==
    /\ \A p \in Procs : state[p] \in {"RUNNABLE", "RUNNING"} => tf[p] # NoFrame
    /\ state[idle_proc] \in {"RUNNABLE", "RUNNING"}

\* The process on the hart is never a slot that was freed; if it is a zombie it
\* is in exit()'s loop and makes no further system call.
ZombieOnlySpins ==
    /\ state[current_proc] # "UNUSED"
    /\ state[current_proc] = "ZOMBIE" => cpu.at = "spin"

\* The stage of life of a slot: whether it is scheduled makes no difference.
Stage(st) == IF st \in {"RUNNABLE", "RUNNING"} THEN "ALIVE" ELSE st

Stages == [p \in Procs |-> Stage(state[p])]

\* The parent of an unused slot means nothing: free_proc() clears it after the state.
Parents == [p \in Procs |-> IF state[p] = "UNUSED" THEN NoProc ELSE parent[p]]

Life == INSTANCE ProcessLife WITH
    Slot <- Procs, NoSlot <- NoProc, Root <- idle_proc, First <- shell,
    life <- Stages, parent <- Parents

\* The life cycle: a zombie is never scheduled again, a slot is freed only as a
\* zombie, by a wait of its living parent, and only fork brings it back, for a caller
\* that is alive.  Nothing else, no tick inside sys_wait, no exec of a process that
\* yield() did not leave, makes, ends or frees a process.
ImplementsLife == Life!LifeSpec

\* kernel/syscall.c:127-128: fork returns 0 in the child and the child's pid in
\* the parent, whatever happens between the return and the use of a0.
ForkReturn ==
    mode = "user" /\ cpu.at = "ret" /\ cpu.sys = "fork" =>
        (cpu.a0 = 0 <=> current_proc \in forked)

\* The half of that which the code keeps, whenever a tick strikes: the child is told
\* 0.  user_return() puts argc of the slot over the return value, and the slot may have
\* belonged to a program with arguments, even one whose free_proc() a tick cut short.
ChildToldZero ==
    mode = "user" /\ cpu.at = "ret" /\ cpu.sys = "fork" /\ current_proc \in forked =>
        cpu.a0 = 0

\* When wait is about to return a pid, the caller's int holds the exit code of that
\* very child or, if the call blocked and was restarted without its pointer, is
\* untouched: no other child's code, no code of an earlier process of the slot.
StatusOfReaped ==
    mode \in {"reap", "freed", "reaped"} =>
        wstatus[current_proc] \in {NoStatus, exit_code[reaping]}

Stopped == mode \in {"hung", "panic", "corrupt"}

\* docs/scheduling-context-switching.pdf promises "a working round-robin
\* scheduler": a runnable process gets the hart, as long as the system runs.
NoStarvation ==
    \A p \in Procs \ {idle_proc} :
        (state[p] = "RUNNABLE") ~> (current_proc = p \/ Stopped)
=============================================================================
