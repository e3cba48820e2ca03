-------------------------------- MODULE Ipc --------------------------------
(***************************************************************************)
(* Messages between processes: sys_ipc_send and sys_ipc_recv of            *)
(* kernel/syscall.c, the loop around the latter in user/lib/ipc.c, and the *)
(* inbox each slot of procs[] holds (include/process.h).                   *)
(*                                                                         *)
(* A slot is created by fork, which clears the inbox with the rest of the  *)
(* PCB, and freed by free_proc(), which leaves the inbox as it is.  A      *)
(* system call is one step: the kernel runs with interrupts off.  Which    *)
(* process runs when is left open here (module Process has the scheduler). *)
(* What a message says is abstracted to its number; what an inbox without *)
(* a pending message still holds is never read, so it is Empty.            *)
(***************************************************************************)
EXTENDS Integers, Sequences, FiniteSets, FiniteSetsExt

CONSTANTS
    PROCS_MAX,       \* slots of procs[]
    MAX_MSG_SIZE,    \* bytes an inbox holds
    Sizes,           \* sizes passed to ipc_send
    BufSizes,        \* sizes of the buffers passed to ipc_recv
    MaxMsgs          \* bound: messages accepted in a run

ASSUME IpcAssumption ==
    /\ PROCS_MAX \in Nat /\ PROCS_MAX > 1
    /\ MAX_MSG_SIZE \in Nat
    /\ Sizes \subseteq Nat /\ BufSizes \subseteq Nat
    /\ MaxMsgs \in Nat

Procs    == 0 .. (PROCS_MAX - 1)
DestPids == -1 .. (PROCS_MAX + 1)    \* what a program may pass as dest_pid

VARIABLES
    life,            \* what became of each slot: its process calls, or is gone
    inbox,           \* procs[].inbox
    at,              \* in its own code, or in the loop of ipc_recv()
    ret,             \* what the last system call of this module returned
    panicked,
    count,           \* messages accepted so far
    accepted,        \* history of each process: messages sent to it with success,
    taken            \* and removed from its inbox

vars == <<life, inbox, at, ret, panicked, count, accepted, taken>>

NULL  == -1
Empty == [pending |-> FALSE, id |-> 0, size |-> 0, sender |-> 0]
Inbox == [pending : BOOLEAN, id : Nat, size : 0..MAX_MSG_SIZE, sender : 0..PROCS_MAX]

\* kernel_main sets the pid of idle, slot 0, to 0.
Pid(p) == IF p = 0 THEN 0 ELSE p + 1

\* The slot of a pid, NULL when there is none.
get_proc_by_pid(pid) == IF pid <= 0 \/ pid > PROCS_MAX THEN NULL ELSE pid - 1

\* idle and the first process, created at boot with an inbox of zeros (bss).
Init ==
    /\ life = [p \in Procs |-> IF p < 2 THEN "ALIVE" ELSE "UNUSED"]
    /\ inbox = [p \in Procs |-> Empty]
    /\ at = [p \in Procs |-> "run"]
    /\ ret = 0
    /\ panicked = FALSE
    /\ count = 0
    /\ accepted = [p \in Procs |-> <<>>]
    /\ taken = [p \in Procs |-> <<>>]

\* idle makes no system calls.
Calls(p) == ~panicked /\ p # 0 /\ life[p] = "ALIVE"

-----------------------------------------------------------------------------
(* The life of a slot                                                       *)

FreeSlots == {p \in Procs : life[p] = "UNUSED"}

\* Variant: the fields of the slot are not reset.
fork_dirty(p) ==
    /\ Calls(p) /\ at[p] = "run"
    /\ FreeSlots # {}
    /\ LET child == Min(FreeSlots)
       IN  /\ life' = [life EXCEPT ![child] = "ALIVE"]
           /\ at' = [at EXCEPT ![child] = "run"]
           /\ ret' = Pid(child)
           /\ accepted' = [accepted EXCEPT ![child] = <<>>]
           /\ taken' = [taken EXCEPT ![child] = <<>>]
    /\ UNCHANGED <<inbox, panicked, count>>

\* alloc_free_proc() takes the first unused slot and clears it.
fork(p) ==
    /\ Calls(p) /\ at[p] = "run"
    /\ FreeSlots # {}
    /\ LET child == Min(FreeSlots)
       IN  /\ life' = [life EXCEPT ![child] = "ALIVE"]
           /\ inbox' = [inbox EXCEPT ![child] = Empty]
           /\ at' = [at EXCEPT ![child] = "run"]
           /\ ret' = Pid(child)
           /\ accepted' = [accepted EXCEPT ![child] = <<>>]
           /\ taken' = [taken EXCEPT ![child] = <<>>]
    /\ UNCHANGED <<panicked, count>>

exit(p) ==
    /\ Calls(p) /\ at[p] = "run"
    /\ life' = [life EXCEPT ![p] = "ZOMBIE"]
    /\ UNCHANGED <<inbox, at, ret, panicked, count, accepted, taken>>

\* The parent's wait: the slot is free again, the inbox is not touched.
free_proc(p) ==
    /\ ~panicked /\ life[p] = "ZOMBIE"
    /\ life' = [life EXCEPT ![p] = "UNUSED"]
    /\ UNCHANGED <<inbox, at, ret, panicked, count, accepted, taken>>

-----------------------------------------------------------------------------
(* sys_ipc_send                                                             *)

Invalid(dest_pid) == dest_pid < 0 \/ dest_pid >= PROCS_MAX

\* A return value and nothing else.
Answer(val) ==
    /\ ret' = val
    /\ UNCHANGED <<life, inbox, at, panicked, count, accepted, taken>>

send_invalid(p, dest_pid) ==
    /\ Calls(p) /\ at[p] = "run"
    /\ Invalid(dest_pid)
    /\ Answer(-1)

\* pid 0 passes the range check and has no slot.
send_panic(p, dest_pid) ==
    /\ Calls(p) /\ at[p] = "run"
    /\ ~Invalid(dest_pid) /\ get_proc_by_pid(dest_pid) = NULL
    /\ panicked' = TRUE
    /\ UNCHANGED <<life, inbox, at, ret, count, accepted, taken>>

\* The message is too large, or the inbox holds one that was not received yet.
send_refused(p, dest_pid, size) ==
    /\ Calls(p) /\ at[p] = "run"
    /\ ~Invalid(dest_pid) /\ get_proc_by_pid(dest_pid) # NULL
    /\ size > MAX_MSG_SIZE \/ inbox[get_proc_by_pid(dest_pid)].pending
    /\ Answer(-2)

\* Variant: the size is not compared with MAX_MSG_SIZE.
sys_ipc_send_unbounded(p, dest_pid, size) ==
    /\ Calls(p) /\ at[p] = "run"
    /\ ~Invalid(dest_pid) /\ get_proc_by_pid(dest_pid) # NULL
    /\ count < MaxMsgs
    /\ LET dest == get_proc_by_pid(dest_pid)
       IN  /\ ~inbox[dest].pending
           /\ inbox' = [inbox EXCEPT ![dest] =
                 [pending |-> TRUE, id |-> count + 1, size |-> size, sender |-> Pid(p)]]
           /\ accepted' = [accepted EXCEPT ![dest] = Append(@, count + 1)]
    /\ count' = count + 1
    /\ ret' = 0
    /\ UNCHANGED <<life, at, panicked, taken>>

\* The message is copied to the inbox of the slot, whatever became of its process.
sys_ipc_send(p, dest_pid, size) ==
    /\ Calls(p) /\ at[p] = "run"
    /\ ~Invalid(dest_pid) /\ get_proc_by_pid(dest_pid) # NULL
    /\ size <= MAX_MSG_SIZE
    /\ count < MaxMsgs
    /\ LET dest == get_proc_by_pid(dest_pid)
       IN  /\ ~inbox[dest].pending
           /\ inbox' = [inbox EXCEPT ![dest] =
                 [pending |-> TRUE, id |-> count + 1, size |-> size, sender |-> Pid(p)]]
           /\ accepted' = [accepted EXCEPT ![dest] = Append(@, count + 1)]
    /\ count' = count + 1
    /\ ret' = 0
    /\ UNCHANGED <<life, at, panicked, taken>>

-----------------------------------------------------------------------------
(* ipc_recv                                                                 *)

\* No message: ipc_recv() calls again.
recv_empty(p) ==
    /\ Calls(p)
    /\ ~inbox[p].pending
    /\ ret' = -1
    /\ at' = [at EXCEPT ![p] = "recv"]
    /\ UNCHANGED <<life, inbox, panicked, count, accepted, taken>>

\* Bytes that fit the buffer.
copy_size(p, max_size) == IF inbox[p].size > max_size THEN max_size ELSE inbox[p].size

\* The message leaves the inbox.  One byte is reported as -1, which ipc_recv()
\* takes for an empty inbox, so the program never sees it.
sys_ipc_recv(p, max_size) ==
    /\ Calls(p)
    /\ inbox[p].pending
    /\ inbox' = [inbox EXCEPT ![p] = Empty]
    /\ taken' = [taken EXCEPT ![p] = Append(@, inbox[p].id)]
    /\ IF copy_size(p, max_size) = 1
       THEN /\ ret' = -1
            /\ at' = [at EXCEPT ![p] = "recv"]
       ELSE /\ ret' = copy_size(p, max_size)
            /\ at' = [at EXCEPT ![p] = "run"]
    /\ UNCHANGED <<life, panicked, count, accepted>>

-----------------------------------------------------------------------------
Send(p) ==
    \E dest_pid \in DestPids :
        \/ send_invalid(p, dest_pid) \/ send_panic(p, dest_pid)
        \/ \E size \in Sizes : send_refused(p, dest_pid, size) \/ sys_ipc_send(p, dest_pid, size)

Recv(p) == recv_empty(p) \/ \E max_size \in BufSizes : sys_ipc_recv(p, max_size)

Next == \E p \in Procs : fork(p) \/ exit(p) \/ free_proc(p) \/ Send(p) \/ Recv(p)

Spec == Init /\ [][Next]_vars

-----------------------------------------------------------------------------
(* Properties                                                               *)

\* The type of the inboxes; sys_ipc_send keeps their size within MAX_MSG_SIZE.
TypeOK ==
    /\ life \in [Procs -> {"UNUSED", "ALIVE", "ZOMBIE"}]
    /\ inbox \in [Procs -> Inbox]
    /\ at \in [Procs -> {"run", "recv"}]
    /\ ret \in Int
    /\ panicked \in BOOLEAN
    /\ count \in Nat
    /\ accepted \in [Procs -> Seq(Nat)]
    /\ taken \in [Procs -> Seq(Nat)]

Waiting(p) == IF inbox[p].pending THEN <<inbox[p].id>> ELSE <<>>

\* Every message sys_ipc_send accepted for a process, since fork made it, was
\* taken once and in order or still waits in its inbox: no message is overwritten
\* by another sender, taken twice, or left over from the slot's last process.
InboxConserves == \A p \in Procs : accepted[p] = taken[p] \o Waiting(p)
=============================================================================
