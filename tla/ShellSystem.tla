---------------------------- MODULE ShellSystem ----------------------------
(***************************************************************************)
(* The system as it boots: the kernel of module Process running the shell  *)
(* (user/shell.c) and the commands it starts.  The kernel's steps are      *)
(* those of Process; here user code is no longer arbitrary but follows the *)
(* shell's loop, and a command runs and ends in exit().                    *)
(*                                                                         *)
(* upc[p] is where the program of process p is:                            *)
(*   prompt  reading a line          parent  forked, about to wait         *)
(*   line    a line to execute       child   the copy, about to exec       *)
(*   cmd     a command's main()      failed  exec returned                 *)
(*                                                                         *)
(* Timer interrupts strike anywhere.  Three strokes break the protocol of  *)
(* shell and kernel: a switch at the ecall of exec, whose pointer is then  *)
(* argc; a switch behind the fork of the parent, whose pid is then argc;   *)
(* any tick inside sys_wait.  The history variable `disturbed' records     *)
(* that one of them has happened; what follows it is part of the model,    *)
(* but the protocol's promises hold only up to it.  Every other tick (at   *)
(* or behind any other ecall, in the child behind fork, in user code) must *)
(* leave them alone.                                                       *)
(***************************************************************************)
EXTENDS Process

VARIABLES upc, disturbed

shellVars == <<vars, upc, disturbed>>

Places == {"prompt", "line", "parent", "child", "failed", "cmd"}

ShellInit ==
    /\ Init
    /\ upc = [p \in Procs |-> "prompt"]
    /\ disturbed = FALSE

\* The program of the process on the hart goes on at `place'.
GoTo(place) == upc' = [upc EXCEPT ![current_proc] = place]

\* Kernel steps that leave memory and program of every process alone.
KernelStep ==
    /\ \/ boot \/ UserFault
       \/ sys_fork_fail \/ sys_exec_fault \/ sys_exec_fail \/ sys_exit
       \/ Wait \/ Read \/ Input
    /\ UNCHANGED <<upc, disturbed>>

\* The hart is where user_return() spoils a register the program or the kernel
\* is about to read: the pid fork returned, the file name for exec.
AtRisk ==
    \/ cpu.at = "ret" /\ cpu.sys = "fork" /\ current_proc \notin forked
    \/ cpu.at = "ecall" /\ cpu.sys = "exec"

\* A tick in user mode.
TickStep ==
    /\ \/ timer_switch /\ disturbed' = (disturbed \/ AtRisk)
       \/ timer_stay /\ UNCHANGED disturbed
    /\ UNCHANGED upc

\* A tick inside sys_wait.
NestedStep ==
    /\ Nested
    /\ disturbed' = TRUE
    /\ UNCHANGED upc

\* fork copies the memory of the parent, so the child is at the same place.
ForkStep ==
    /\ sys_fork
    /\ upc' = [upc EXCEPT ![Min(FreeSlots)] = upc[current_proc]]
    /\ UNCHANGED disturbed

\* exec replaces the program.
ExecStep ==
    /\ \E n \in Argcs : sys_exec_switch(n) \/ sys_exec_stay(n)
    /\ GoTo("cmd")
    /\ UNCHANGED disturbed

\* main() starts.
Start ==
    /\ UserStep /\ cpu.at = "entry"
    /\ UNCHANGED upc

\* One character was read: the line is complete, or the shell reads on.  A return
\* value other than 1 is ignored.
AfterRead ==
    /\ UserStep /\ cpu.at = "ret" /\ cpu.sys = "read"
    /\ IF cpu.a0 = 1 THEN GoTo("line") \/ UNCHANGED upc ELSE UNCHANGED upc

\* Variant: the shell does not tell the child from the parent.
AfterFork_swapped ==
    /\ UserStep /\ cpu.at = "ret" /\ cpu.sys = "fork"
    /\ GoTo(IF cpu.a0 >= 0 THEN "child" ELSE "prompt")

\* The value fork returned decides who the process takes itself for.
AfterFork ==
    /\ UserStep /\ cpu.at = "ret" /\ cpu.sys = "fork"
    /\ GoTo(IF cpu.a0 = 0 THEN "child" ELSE IF cpu.a0 > 0 THEN "parent" ELSE "prompt")

AfterExec ==
    /\ UserStep /\ cpu.at = "ret" /\ cpu.sys = "exec"
    /\ GoTo("failed")

AfterWait ==
    /\ UserStep /\ cpu.at = "ret" /\ cpu.sys = "wait"
    /\ GoTo("prompt")

\* Variant: the shell does not wait for its command.
ShellCall_nowait(s) ==
    /\ Wrapper(s)
    /\ \/ s = "read" /\ upc[current_proc] \in {"prompt", "parent"} /\ GoTo("prompt")
       \/ s = "fork" /\ upc[current_proc] = "line"   /\ UNCHANGED upc
       \/ s = "exec" /\ upc[current_proc] = "child"  /\ UNCHANGED upc
       \/ s = "exit" /\ upc[current_proc] \in {"cmd", "failed"} /\ UNCHANGED upc

\* The system calls of the shell and, for a command, exit().
ShellCall(s) ==
    /\ Wrapper(s)
    /\ \/ s = "read" /\ upc[current_proc] = "prompt"
       \/ s = "fork" /\ upc[current_proc] = "line"
       \/ s = "exec" /\ upc[current_proc] = "child"
       \/ s = "wait" /\ upc[current_proc] = "parent"
       \/ s = "exit" /\ upc[current_proc] \in {"cmd", "failed"}
    /\ UNCHANGED upc

\* An empty line, a built-in, or a name that is not in the tar file.
NoCommand ==
    /\ mode = "user" /\ cpu.at = "code"
    /\ upc[current_proc] = "line"
    /\ GoTo("prompt")
    /\ UNCHANGED vars

UserProgram ==
    /\ \/ Start \/ AfterRead \/ AfterFork \/ AfterExec \/ AfterWait
       \/ (\E s \in Calls : ShellCall(s)) \/ NoCommand
    /\ UNCHANGED disturbed

ShellNext ==
    KernelStep \/ TickStep \/ NestedStep \/ ForkStep \/ ExecStep \/ UserProgram

ShellSpec == ShellInit /\ [][ShellNext]_shellVars

\* What the process on the hart does, in user mode or in the kernel, unless it waits
\* for a key.
Runs == mode # "reading" /\ (KernelStep \/ ForkStep \/ ExecStep \/ UserProgram)

\* A tick stays pending until user mode lets it in.  Between two ticks
\* (TIMER_INTERVAL) the process on the hart executes instructions, so what a process
\* can do in slice after slice it does.  Nobody has to press a key.
ShellFairness ==
    /\ SF_shellVars(TickStep)
    /\ \A p \in Procs : SF_shellVars(current_proc = p /\ Runs)

ShellFairSpec == ShellSpec /\ ShellFairness

-----------------------------------------------------------------------------
(* Properties                                                               *)

\* The process the kernel started stays the shell, as long as none of the three
\* fatal ticks has struck: only its copies become commands.
ShellTypeOK ==
    /\ TypeOK
    /\ upc \in [Procs -> Places] /\ disturbed \in BOOLEAN
    /\ ~disturbed => upc[shell] \in {"prompt", "line", "parent"}

\* The scheduler of scheduler.c is written for idle, shell and one command: until a
\* fatal tick the shell never has a second child, so the scan never passes a process
\* over.
OneCommandAtATime == ~disturbed => process_count <= 3

\* While the shell waits for a key no other process is left, so the yield() in
\* sys_read returns and no character is dropped, until a fatal tick.
ReadUndisturbed ==
    ~disturbed /\ mode = "reading" => current_proc = shell /\ process_count = 2

\* The shell waits only for a child that exists and execs only in the child, so
\* without a fatal tick it never meets the endless loop of sys_wait, a panic or an
\* overwritten kernel stack.
ShellKeepsRunning == ~disturbed => ~Stopped /\ state[shell] \in {"RUNNABLE", "RUNNING"}

\* Until a fatal tick every process has a parent that is alive and can wait for it:
\* nobody is left behind by a parent that was reaped, as free_proc() leaves children to
\* whoever gets its slot next.
NoOrphans ==
    ~disturbed =>
        \A p \in Procs \ {idle_proc} :
            state[p] # "UNUSED" =>
                parent[p] \in Procs /\ state[parent[p]] \in {"RUNNABLE", "RUNNING"}

\* Once the shell has started a command the prompt comes back, or a fatal tick
\* strikes.
PromptReturns ==
    (upc[shell] = "parent" /\ ~disturbed) ~> (upc[shell] = "prompt" \/ disturbed)

\* Every process that exited is reaped and its slot is free again, or a fatal tick
\* strikes.
ZombiesReaped ==
    \A p \in Procs : (state[p] = "ZOMBIE" /\ ~disturbed) ~> (state[p] = "UNUSED" \/ disturbed)

=============================================================================
