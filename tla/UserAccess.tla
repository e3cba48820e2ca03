---------------------------- MODULE UserAccess ----------------------------
(***************************************************************************)
(* How the kernel reaches user memory: the SUM bit of sstatus, the active  *)
(* page table (satp) and the page tables of the processes, under the       *)
(* system calls of kernel/syscall.c, the logging of kernel/user.c, timer   *)
(* ticks and yield().                                                      *)
(*                                                                         *)
(* A system call is the sequence of the statements that touch this state;  *)
(* `todo' is what the kernel has still to execute, empty in user mode.     *)
(* The statements are:                                                     *)
(*   enable_sum, disable_sum             the bit                           *)
(*   user                                an access through a user pointer  *)
(*   uart_getc                           the loop of sys_read              *)
(*   switch_pagetable, restore_pagetable around every log and sbi call     *)
(*   activate_kernel, activate_own       set_active_pagetable()            *)
(*   free_userspace, exec_process        the address space exec replaces   *)
(*   fork, free_proc, zombie             life of a slot                    *)
(*   yield                               yield(), may return               *)
(*   block                               yield() in a wait without zombie  *)
(* yield() does not come back to a call it switched away from: that process*)
(* starts again in user mode (module Process has the frames).  Which       *)
(* process is picked is left open, and a wait may reap any zombie.         *)
(* Any number of logs in a row is one: each restores what it found.        *)
(* The interrupts that free_proc() lets in (alloc-tracker.c:93) are left to*)
(* module Process, where such a tick ends in a frame inside the kernel.    *)
(***************************************************************************)
EXTENDS Integers, Sequences

Kernel == "kernel_pagetable"
NULL   == "NULL"

CONSTANTS
    Procs,           \* slots of procs[]
    Idle,            \* the process that makes no system calls
    Tables           \* frames that hold root page tables

ASSUME UserAccessAssumption ==
    /\ Idle \in Procs
    /\ Kernel \notin Tables /\ NULL \notin Tables

VARIABLES
    state,           \* procs[].state, RUNNABLE and RUNNING taken together
    page_table,      \* procs[].page_table
    current_proc,
    satp,            \* the active page table
    old_satp,        \* the local of the log under way
    sum,             \* SSTATUS_SUM
    todo,            \* statements left of the system call
    call,            \* the system call they belong to
    enabledBy,       \* history: the call that last set SUM
    fault            \* a page fault in the kernel: PANIC

vars == <<state, page_table, current_proc, satp, old_satp, sum, todo, call,
          enabledBy, fault>>

UserMode == todo = <<>>

\* The shell (any process but idle) in user mode after the boot; user_entry() wrote
\* sstatus, so SUM is clear.
Init ==
    /\ current_proc \in Procs \ {Idle}
    /\ state = [p \in Procs |-> IF p \in {Idle, current_proc} THEN "READY" ELSE "UNUSED"]
    /\ \E t, u \in Tables :
          /\ t # u
          /\ page_table = [p \in Procs |-> IF p = Idle THEN t
                                           ELSE IF p = current_proc THEN u ELSE NULL]
          /\ satp = u
    /\ old_satp = NULL
    /\ sum = FALSE
    /\ todo = <<>>
    /\ call = "none" /\ enabledBy = "none"
    /\ fault = FALSE

-----------------------------------------------------------------------------
(* The code of the system calls                                             *)

\* log_user() works on the kernel's page table.
log_user == <<"switch_pagetable", "restore_pagetable">>

\* An access between enable_sum() and disable_sum().
Guarded == <<"enable_sum", "user", "disable_sum">>

yield == log_user \o <<"yield">>

\* fd, buf or len is refused.
sys_read_refused == <<"enable_sum">>

\* The loop of sys_read() waits for its first character.
sys_read == <<"enable_sum", "uart_getc">>

\* Variant: the bit is cleared while another process may run.
Char_closed(newline, full) ==
    <<"user">> \o (IF newline THEN <<>> ELSE <<"disable_sum">> \o yield)
             \o (IF newline \/ full THEN <<"disable_sum">> ELSE <<"uart_getc">>)

\* A character is stored; unless it is a newline, yield() follows.  A newline or a
\* full buffer ends the loop.
Char(newline, full) ==
    <<"user">> \o (IF newline THEN <<>> ELSE yield)
             \o (IF newline \/ full THEN <<"disable_sum">> ELSE <<"uart_getc">>)

\* Variant: a write is not closed.
sys_write_open == <<"enable_sum", "user">>

sys_write == Guarded

\* handle_syscall() sets SUM, and so does sys_exec() to read name and arguments.
ReadArguments == <<"enable_sum", "enable_sum", "user", "disable_sum">>

\* The name is not in the archive: sys_exec() returns with SUM set, and
\* handle_syscall() clears it.
sys_exec_fail == ReadArguments

\* setup_user_arguments() writes the strings and the array to the new stack.
setup_user_arguments(argc) == IF argc > 1 THEN log_user \o Guarded \o Guarded ELSE <<>>

\* Variant: the old address space is freed while it is active.
sys_exec_in_place(argc) ==
    ReadArguments \o <<"free_userspace", "exec_process", "activate_own">>
    \o setup_user_arguments(argc) \o log_user \o yield \o <<"disable_sum">>

\* The address space is replaced with the kernel's table active.
ReplaceSpace == <<"activate_kernel", "free_userspace", "exec_process", "activate_own">>

\* Name and arguments are read, the address space is replaced, the arguments are
\* written to the new one.
sys_exec(argc) ==
    ReadArguments \o ReplaceSpace
    \o setup_user_arguments(argc) \o log_user \o yield \o <<"disable_sum">>

sys_fork == <<"fork">> \o log_user

sys_exit == log_user \o <<"zombie">>

\* A zombie is found; the status pointer is NULL or not.
sys_wait(status) ==
    log_user \o (IF status THEN Guarded ELSE <<>>) \o <<"free_proc">> \o log_user

sys_wait_block == log_user \o log_user \o <<"block">>

\* The message is copied under SUM, then logged.
sys_log == Guarded \o log_user

sys_ipc == log_user \o Guarded \o log_user

sys_tarfs_exists == Guarded

\* copy_to_user() of sysinfo and time writes through physical addresses, and logs;
\* so do refused and empty ipc calls, and sbrk does neither.
NoAccess == log_user

-----------------------------------------------------------------------------
(* A system call begins                                                     *)

Begin(name, code) ==
    /\ UserMode /\ ~fault
    /\ todo' = code /\ call' = name
    /\ UNCHANGED <<state, page_table, current_proc, satp, old_satp, sum, enabledBy, fault>>

\* Zombies; whose children they are is left open.
Reapable == {p \in Procs : state[p] = "ZOMBIE"}

\* Only a live process other than idle calls; a zombie spins until the tick.
Calls == state[current_proc] = "READY" /\ current_proc # Idle

handle_syscall ==
    /\ Calls
    /\ \/ Begin("read", sys_read_refused)
       \/ Begin("read", sys_read)
       \/ Begin("write", sys_write)
       \/ Begin("yield", yield)
       \/ Begin("fork", sys_fork)
       \/ Begin("exec", sys_exec_fail)
       \/ \E argc \in 1..2 : Begin("exec", sys_exec(argc))
       \/ Begin("exit", sys_exit)
       \/ Reapable # {} /\ \E status \in BOOLEAN : Begin("wait", sys_wait(status))
       \/ Begin("wait", sys_wait_block)
       \/ Begin("log", sys_log)
       \/ Begin("ipc", sys_ipc)
       \/ Begin("exists", sys_tarfs_exists)
       \/ Begin("other", NoAccess)

\* A timer interrupt in user mode: sbi_set_timer() on the kernel's table, yield().
timer == Begin("tick", log_user \o yield)

-----------------------------------------------------------------------------
(* The statements                                                           *)

\* The kernel executes the next statement of the call.
Execute(stmt) ==
    /\ ~UserMode /\ ~fault
    /\ Head(todo) = stmt
    /\ UNCHANGED call

Done == todo' = Tail(todo)

enable_sum ==
    /\ Execute("enable_sum") /\ Done
    /\ sum' = TRUE
    /\ enabledBy' = call
    /\ UNCHANGED <<state, page_table, current_proc, satp, old_satp, fault>>

disable_sum ==
    /\ Execute("disable_sum") /\ Done
    /\ sum' = FALSE
    /\ UNCHANGED <<state, page_table, current_proc, satp, old_satp, enabledBy, fault>>

\* A user pointer is good with SUM set and the caller's own table active.
Reachable == sum /\ satp = page_table[current_proc]

user_access ==
    /\ Execute("user") /\ Done
    /\ fault' = ~Reachable
    /\ UNCHANGED <<state, page_table, current_proc, satp, old_satp, sum, enabledBy>>

\* A key was pressed: the loop of sys_read() is unrolled by one character.
uart_getc(newline, full) ==
    /\ Execute("uart_getc")
    /\ todo' = Char(newline, full)
    /\ UNCHANGED <<state, page_table, current_proc, satp, old_satp, sum, enabledBy, fault>>

switch_pagetable ==
    /\ Execute("switch_pagetable") /\ Done
    /\ old_satp' = satp
    /\ satp' = Kernel
    /\ UNCHANGED <<state, page_table, current_proc, sum, enabledBy, fault>>

restore_pagetable ==
    /\ Execute("restore_pagetable") /\ Done
    /\ satp' = old_satp
    /\ old_satp' = NULL
    /\ UNCHANGED <<state, page_table, current_proc, sum, enabledBy, fault>>

activate_kernel ==
    /\ Execute("activate_kernel") /\ Done
    /\ satp' = Kernel
    /\ UNCHANGED <<state, page_table, current_proc, old_satp, sum, enabledBy, fault>>

activate_own ==
    /\ Execute("activate_own") /\ Done
    /\ satp' = page_table[current_proc]
    /\ UNCHANGED <<state, page_table, current_proc, old_satp, sum, enabledBy, fault>>

\* process_free_userspace() ends with page_table = NULL.
free_userspace ==
    /\ Execute("free_userspace") /\ Done
    /\ page_table' = [page_table EXCEPT ![current_proc] = NULL]
    /\ UNCHANGED <<state, current_proc, satp, old_satp, sum, enabledBy, fault>>

FreeTables == Tables \ {page_table[p] : p \in Procs}

exec_process ==
    /\ Execute("exec_process") /\ Done
    /\ \E root \in FreeTables : page_table' = [page_table EXCEPT ![current_proc] = root]
    /\ UNCHANGED <<state, current_proc, satp, old_satp, sum, enabledBy, fault>>

\* A free slot gets a table of its own; with none, or no memory, nothing changes
\* that this module keeps.
fork ==
    /\ Execute("fork") /\ Done
    /\ \/ \E child \in Procs, root \in FreeTables :
              /\ state[child] = "UNUSED"
              /\ state' = [state EXCEPT ![child] = "READY"]
              /\ page_table' = [page_table EXCEPT ![child] = root]
       \/ UNCHANGED <<state, page_table>>
    /\ UNCHANGED <<current_proc, satp, old_satp, sum, enabledBy, fault>>

zombie ==
    /\ Execute("zombie") /\ Done
    /\ state' = [state EXCEPT ![current_proc] = "ZOMBIE"]
    /\ UNCHANGED <<page_table, current_proc, satp, old_satp, sum, enabledBy, fault>>

free_proc ==
    /\ Execute("free_proc") /\ Done
    /\ \E p \in Reapable :
          /\ state' = [state EXCEPT ![p] = "UNUSED"]
          /\ page_table' = [page_table EXCEPT ![p] = NULL]
    /\ UNCHANGED <<current_proc, satp, old_satp, sum, enabledBy, fault>>

yield_stay ==
    /\ Execute("yield") /\ Done
    /\ state[current_proc] = "READY"
    /\ UNCHANGED <<state, page_table, current_proc, satp, old_satp, sum, enabledBy, fault>>

\* Nothing of the call is left but the logs and user_return(), which keeps SUM.
yield_switch(next) ==
    /\ Execute("yield") \/ Execute("block")
    /\ state[next] = "READY" /\ next # current_proc
    /\ satp' = page_table[next] /\ current_proc' = next
    /\ todo' = log_user
    /\ UNCHANGED <<state, page_table, old_satp, sum, enabledBy, fault>>

Statement ==
    \/ enable_sum \/ disable_sum \/ user_access
    \/ switch_pagetable \/ restore_pagetable \/ activate_kernel \/ activate_own
    \/ free_userspace \/ exec_process \/ fork \/ zombie \/ free_proc
    \/ (\E newline, full \in BOOLEAN : uart_getc(newline, full))
    \/ yield_stay \/ (\E next \in Procs : yield_switch(next))

Next == handle_syscall \/ timer \/ Statement

Spec == Init /\ [][Next]_vars

-----------------------------------------------------------------------------
(* Properties                                                               *)

\* Every access of the kernel through a user pointer is made with SUM set and the
\* caller's own page table active, however the call was interrupted: no call relies
\* on SUM after a yield() that may have cleared it, or on a table that was replaced.
NoFault == ~fault

\* The hart never runs on a page table that was freed, nor on another process's:
\* exec leaves the old one before it frees it, wait frees only tables of processes
\* that are not on the hart, a log restores what it found.
TableIsOwn ==
    /\ satp \in {Kernel, page_table[current_proc]}
    /\ UserMode => satp = page_table[current_proc]

\* Of all system calls only read leaves SUM set in user mode (syscall.c:71 and
\* :80); exec's early return is closed by handle_syscall(), and no interrupt or
\* restart keeps another call from its disable_sum().
OnlyReadLeavesSum == UserMode /\ sum => enabledBy = "read"
=============================================================================
