--------------------------- MODULE ProcessProofs ---------------------------
(***************************************************************************)
(* Proofs about modules Process and ShellSystem, for every number of       *)
(* slots, every set of exit codes and argument counts, and every choice of *)
(* the points at which the timer may interrupt.                            *)
(*                                                                         *)
(* The argument rests on two lemmas about yield(), which every path out of *)
(* a process goes through: what it leaves behind when it switches, and     *)
(* when it returns to its caller.                                          *)
(***************************************************************************)
EXTENDS ShellSystem, SetLemmas

-----------------------------------------------------------------------------
(* The inductive invariant                                                  *)

Schedulable == {"RUNNABLE", "RUNNING"}

\* Every frame that can be returned through holds a position in a program, and
\* so does the hart.
FramesHold ==
    /\ cpu.at # "null"
    /\ \A p \in Procs : state[p] \in Schedulable => tf[p].at # "null"

\* A system call that is interrupted or waits is still at its ecall, and the child
\* that sys_wait() is freeing is a zombie of the caller until free_proc() has marked
\* its slot unused.
CallInProgress ==
    /\ mode \in {"reading", "reap", "freed", "reaped"} => cpu.at = "ecall"
    /\ mode = "freed" => reaping \in Procs /\ state[reaping] = "UNUSED"
    /\ mode = "reap" =>
          reaping \in Procs /\ state[reaping] = "ZOMBIE" /\ parent[reaping] = current_proc

\* idle never leaves its first instruction, so it never exits.
IdleStays ==
    /\ state[idle_proc] \in Schedulable
    /\ current_proc = idle_proc => cpu.at = "entry"
    /\ current_proc # idle_proc => tf[idle_proc].at = "entry"
    /\ mode = "boot" => current_proc = idle_proc /\ tf[idle_proc].at = "entry"

IInv ==
    /\ TypeOK
    /\ RunningIsCurrent
    /\ ZombieOnlySpins
    /\ FramesHold
    /\ CallInProgress
    /\ IdleStays

-----------------------------------------------------------------------------
(* Lemmas about the scan of the process table                               *)

\* yield() picks idle or a runnable process of the table.
LEMMA NextProcIsRunnable ==
    ASSUME NEW st \in [Procs -> States], NEW count
    PROVE  /\ NextProc(st, count) \in Procs
           /\ NextProc(st, count) = idle_proc \/ st[NextProc(st, count)] = "RUNNABLE"
<1>1. CASE Candidates(st, count) = {}
  BY <1>1, ProcessAssumption DEF NextProc, Procs, idle_proc
<1>2. CASE Candidates(st, count) # {}
  <2>1. Candidates(st, count) \in SUBSET Nat
    BY ProcessAssumption DEF Candidates, Procs
  <2>2. NextProc(st, count) \in Candidates(st, count)
    BY <1>2, <2>1, MinIsElement DEF NextProc
  <2> QED
    BY <2>2 DEF Candidates
<1> QED
  BY <1>1, <1>2

\* alloc_free_proc() finds a slot of the table that nobody uses.
LEMMA TakenSlot ==
    ASSUME FreeSlots # {}
    PROVE  Min(FreeSlots) \in Procs /\ state[Min(FreeSlots)] = "UNUSED"
<1>1. FreeSlots \in SUBSET Nat
  BY ProcessAssumption DEF FreeSlots, Procs
<1>2. Min(FreeSlots) \in FreeSlots
  BY <1>1, MinIsElement
<1> QED
  BY <1>2 DEF FreeSlots

\* Registers stay registers when arguments or a return value are put into them.
LEMMA UserReturnRegs ==
    ASSUME NEW f \in Regs, NEW n \in Nat
    PROVE  user_return(f, n) \in Regs /\ user_return(f, n).at = f.at
<1>1. argv_ptr(n) \in Int /\ n \in Int
  BY ProcessAssumption DEF argv_ptr
<1>2. user_return(f, n) \in Regs
  BY <1>1 DEF user_return, Regs
<1>3. user_return(f, n).at = f.at
  BY <1>1 DEF user_return, Regs
<1> QED
  BY <1>2, <1>3

\* Registers stay registers when a system call returns a value in a0.
LEMMA ReturnedRegs ==
    ASSUME NEW f \in Regs, NEW n \in Int
    PROVE  Returned(f, n) \in Regs /\ Returned(f, n).at = "ret"
<1>1. Returned(f, n) \in Regs
  BY DEF Returned, Regs, Points
<1>2. Returned(f, n).at = "ret"
  BY DEF Returned, Regs
<1> QED
  BY <1>1, <1>2

\* A frame that only has a position is a frame.
LEMMA AtRegs ==
    ASSUME NEW w \in Points
    PROVE  At(w) \in Regs /\ At(w).at = w
  BY DEF At, Regs

\* After Demote() no process is RUNNING, if only the caller could be, and the
\* slots in use are the same.
LEMMA DemoteLeavesNoneRunning ==
    ASSUME NEW st \in [Procs -> States], current_proc \in Procs,
           \A p \in Procs : st[p] = "RUNNING" => p = current_proc
    PROVE  /\ Demote(st) \in [Procs -> States]
           /\ \A p \in Procs : Demote(st)[p] # "RUNNING"
           /\ \A p \in Procs : /\ st[p] \in Schedulable <=> Demote(st)[p] \in Schedulable
                               /\ st[p] \notin Schedulable => Demote(st)[p] = st[p]
  BY DEF Demote, States, Schedulable

\* What yield() leaves behind when it switches: one process is RUNNING, the one
\* on the hart; it has a frame; idle is at its entry; no slot was taken or freed.
LEMMA YieldSwitch ==
    ASSUME NEW st \in [Procs -> States], NEW frames \in [Procs -> Regs], NEW count,
           current_proc \in Procs, argc \in [Procs -> Nat],
           \A p \in Procs : st[p] = "RUNNING" => p = current_proc,
           \A p \in Procs : st[p] \in Schedulable => frames[p].at # "null",
           st[idle_proc] \in Schedulable,
           frames[idle_proc].at = "entry",
           yield_switch(st, frames, count)
    PROVE  /\ state' \in [Procs -> States]
           /\ tf' \in [Procs -> Regs]
           /\ current_proc' \in Procs
           /\ cpu' \in Regs
           /\ mode' = "user"
           /\ RunningIsCurrent'
           /\ ZombieOnlySpins'
           /\ FramesHold'
           /\ IdleStays'
           /\ \A p \in Procs : /\ st[p] \in Schedulable <=> state'[p] \in Schedulable
                               /\ st[p] \notin Schedulable => state'[p] = st[p]
<1> DEFINE st1  == Demote(st)
           next == NextProc(st1, count)
<1>1. /\ st1 \in [Procs -> States]
      /\ \A p \in Procs : st1[p] # "RUNNING"
      /\ \A p \in Procs : /\ st[p] \in Schedulable <=> st1[p] \in Schedulable
                          /\ st[p] \notin Schedulable => st1[p] = st[p]
  BY DemoteLeavesNoneRunning
<1>2. /\ next \in Procs
      /\ next = idle_proc \/ st1[next] = "RUNNABLE"
  BY <1>1, NextProcIsRunnable
<1>3. idle_proc \in Procs
  BY ProcessAssumption DEF idle_proc, Procs
<1>4. st1[next] = "RUNNABLE"
  BY <1>1, <1>2, <1>3 DEF Schedulable
<1>5. /\ state' = [st1 EXCEPT ![next] = "RUNNING"]
      /\ current_proc' = next
      /\ tf' = [frames EXCEPT ![next] = Live]
      /\ cpu' = user_return(frames[next], argc[next])
      /\ mode' = "user"
  BY <1>4 DEF yield_switch
<1> HIDE DEF st1, next
<1>6. frames[next] \in Regs /\ argc[next] \in Nat
  BY <1>2
<1>7. cpu' \in Regs /\ cpu'.at = frames[next].at
  BY <1>5, <1>6, UserReturnRegs
<1>8. Live \in Regs /\ Live.at = "live"
  BY DEF Live, At, Regs, Points
<1>9. /\ state' \in [Procs -> States]
      /\ tf' \in [Procs -> Regs]
      /\ current_proc' \in Procs
  BY <1>1, <1>2, <1>5, <1>8 DEF States
<1>10. \A p \in Procs : /\ st[p] \in Schedulable <=> state'[p] \in Schedulable
                        /\ st[p] \notin Schedulable => state'[p] = st[p]
  BY <1>1, <1>2, <1>4, <1>5 DEF Schedulable
<1>11. RunningIsCurrent'
  BY <1>1, <1>2, <1>5 DEF RunningIsCurrent
<1>12. ZombieOnlySpins'
  BY <1>1, <1>2, <1>5 DEF ZombieOnlySpins
<1>13. FramesHold'
  <2>1. cpu'.at # "null"
    BY <1>1, <1>2, <1>4, <1>7 DEF Schedulable
  <2>2. \A p \in Procs : state'[p] \in Schedulable => tf'[p].at # "null"
    BY <1>5, <1>8, <1>10, <1>2
  <2> QED
    BY <2>1, <2>2 DEF FramesHold
<1>14. IdleStays'
  BY <1>2, <1>3, <1>5, <1>7, <1>10 DEF IdleStays
<1> QED
  BY <1>5, <1>7, <1>9, <1>10, <1>11, <1>12, <1>13, <1>14

\* When yield() returns to its caller the caller is runnable, and nothing else
\* has changed.
LEMMA YieldStay ==
    ASSUME NEW st \in [Procs -> States], NEW count,
           current_proc \in Procs,
           \A p \in Procs : st[p] = "RUNNING" => p = current_proc,
           st[idle_proc] \in Schedulable,
           yield_stay(st, count)
    PROVE  /\ state' \in [Procs -> States]
           /\ \A p \in Procs : state'[p] # "RUNNING"
           /\ state'[current_proc] \in Schedulable
           /\ tf' = tf /\ current_proc' = current_proc
           /\ \A p \in Procs : /\ st[p] \in Schedulable <=> state'[p] \in Schedulable
                               /\ st[p] \notin Schedulable => state'[p] = st[p]
<1>1. /\ state' = Demote(st) /\ tf' = tf /\ current_proc' = current_proc
      /\ NextProc(Demote(st), count) = current_proc
  BY DEF yield_stay
<1>2. /\ Demote(st) \in [Procs -> States]
      /\ \A p \in Procs : Demote(st)[p] # "RUNNING"
      /\ \A p \in Procs : /\ st[p] \in Schedulable <=> Demote(st)[p] \in Schedulable
                          /\ st[p] \notin Schedulable => Demote(st)[p] = st[p]
  BY DemoteLeavesNoneRunning
<1>3. current_proc = idle_proc \/ Demote(st)[current_proc] = "RUNNABLE"
  BY <1>1, <1>2, NextProcIsRunnable
<1> QED
  BY <1>1, <1>2, <1>3 DEF Schedulable

-----------------------------------------------------------------------------
(* Steps of three shapes keep the invariant                                 *)

\* The fields that scheduling does not touch keep their types.
RestTyped ==
    /\ parent \in [Procs -> Procs \cup {NoProc}]
    /\ exit_code \in [Procs -> Int]
    /\ argc \in [Procs -> Nat]
    /\ process_count \in Int
    /\ reaping \in Procs \cup {NoProc}
    /\ wstatus \in [Procs -> Int]
    /\ forked \subseteq Procs

\* A step that ends in a switch.
LEMMA SwitchKeeps ==
    ASSUME IInv, NEW st \in [Procs -> States], NEW frames \in [Procs -> Regs], NEW count,
           \A p \in Procs : st[p] = "RUNNING" => p = current_proc,
           \A p \in Procs : st[p] \in Schedulable => frames[p].at # "null",
           st[idle_proc] \in Schedulable,
           frames[idle_proc].at = "entry",
           yield_switch(st, frames, count),
           RestTyped'
    PROVE  IInv'
<1>1. current_proc \in Procs /\ argc \in [Procs -> Nat]
  BY DEF IInv, TypeOK
<1>2. /\ state' \in [Procs -> States]
      /\ tf' \in [Procs -> Regs]
      /\ current_proc' \in Procs
      /\ cpu' \in Regs
      /\ mode' = "user"
      /\ RunningIsCurrent' /\ ZombieOnlySpins' /\ FramesHold' /\ IdleStays'
  BY <1>1, YieldSwitch
<1>3. TypeOK'
  BY <1>2 DEF TypeOK, RestTyped, Modes
<1>4. CallInProgress'
  BY <1>2 DEF CallInProgress
<1> QED
  BY <1>2, <1>3, <1>4 DEF IInv

\* A step in which yield() returns.
LEMMA StayKeeps ==
    ASSUME IInv, NEW st \in [Procs -> States], NEW count,
           \A p \in Procs : st[p] = "RUNNING" => p = current_proc,
           \A p \in Procs : st[p] \in Schedulable => tf[p].at # "null",
           st[idle_proc] \in Schedulable,
           yield_stay(st, count),
           cpu' \in Regs, cpu'.at # "null",
           current_proc = idle_proc => cpu'.at = "entry",
           mode' \in {"user", "hung", "corrupt"},
           RestTyped'
    PROVE  IInv'
<1>1. current_proc \in Procs /\ tf \in [Procs -> Regs] /\ IdleStays
  BY DEF IInv, TypeOK
<1>2. /\ state' \in [Procs -> States]
      /\ \A p \in Procs : state'[p] # "RUNNING"
      /\ state'[current_proc] \in Schedulable
      /\ tf' = tf /\ current_proc' = current_proc
      /\ \A p \in Procs : /\ st[p] \in Schedulable <=> state'[p] \in Schedulable
                          /\ st[p] \notin Schedulable => state'[p] = st[p]
  BY <1>1, YieldStay
<1>3. TypeOK'
  BY <1>1, <1>2 DEF TypeOK, RestTyped, Modes
<1>4. RunningIsCurrent' /\ ZombieOnlySpins'
  BY <1>2 DEF RunningIsCurrent, ZombieOnlySpins, Schedulable
<1>5. FramesHold'
  BY <1>2 DEF FramesHold
<1>6. CallInProgress'
  BY DEF CallInProgress
<1>7. IdleStays'
  <2>1. idle_proc \in Procs
    BY ProcessAssumption DEF idle_proc, Procs
  <2> QED
    BY <1>1, <1>2, <2>1 DEF IdleStays
<1> QED
  BY <1>3, <1>4, <1>5, <1>6, <1>7 DEF IInv

\* A step that leaves the process table's states and frames alone.
LEMMA QuietKeeps ==
    ASSUME IInv, UNCHANGED <<state, tf, current_proc>>,
           cpu' \in Regs, cpu'.at # "null",
           current_proc = idle_proc => cpu' = cpu,
           state[current_proc] = "ZOMBIE" => cpu' = cpu,
           mode' \in Modes \ {"boot"},
           CallInProgress',
           RestTyped'
    PROVE  IInv'
<1>1. TypeOK'
  BY DEF IInv, TypeOK, RestTyped
<1>2. RunningIsCurrent' /\ ZombieOnlySpins' /\ FramesHold' /\ IdleStays'
  BY DEF IInv, RunningIsCurrent, ZombieOnlySpins, FramesHold, IdleStays
<1> QED
  BY <1>1, <1>2 DEF IInv

\* The caller of a system call is neither idle nor a zombie.
LEMMA CallerIsAlive ==
    ASSUME IInv, cpu.at \in {"ecall", "code", "ret"}
    PROVE  /\ current_proc # idle_proc
           /\ state[current_proc] \in Schedulable
           /\ tf[idle_proc].at = "entry"
<1>1. current_proc # idle_proc
  BY DEF IInv, IdleStays
<1>2. current_proc \in Procs /\ state[current_proc] \in States
  BY DEF IInv, TypeOK
<1> QED
  BY <1>1, <1>2 DEF IInv, IdleStays, ZombieOnlySpins, States, Schedulable

\* The frame saved on a trap is sound, and idle's stays at its entry.
LEMMA SavedFrames ==
    ASSUME IInv
    PROVE  /\ Saved \in [Procs -> Regs]
           /\ \A p \in Procs : state[p] \in Schedulable => Saved[p].at # "null"
           /\ Saved[idle_proc].at = "entry"
<1>1. idle_proc \in Procs
  BY ProcessAssumption DEF idle_proc, Procs
<1>2. /\ tf \in [Procs -> Regs] /\ cpu \in Regs /\ current_proc \in Procs
      /\ FramesHold /\ IdleStays
  BY DEF IInv, TypeOK
<1> QED
  BY <1>1, <1>2 DEF Saved, FramesHold, IdleStays

-----------------------------------------------------------------------------
(* The invariant is inductive                                               *)

\* The invariant holds when kernel_main() calls yield().
LEMMA InitIInv == Init => IInv
<1> SUFFICES ASSUME Init PROVE IInv
  OBVIOUS
<1>1. /\ idle_proc \in Procs /\ shell \in Procs /\ idle_proc # shell
      /\ "entry" \in Points /\ "null" \in Points
  BY ProcessAssumption DEF idle_proc, shell, Procs, Points
<1>2. /\ At("entry") \in Regs /\ At("entry").at = "entry"
      /\ NoFrame \in Regs
  BY <1>1, AtRegs DEF NoFrame
<1>3. state = [p \in Procs |-> IF p \in {idle_proc, shell} THEN "RUNNABLE" ELSE "UNUSED"]
  BY DEF Init
<1>4. tf = [p \in Procs |-> IF p \in {idle_proc, shell} THEN At("entry") ELSE NoFrame]
  BY DEF Init
<1>5. TypeOK
  <2>1. state \in [Procs -> States]
    BY <1>3 DEF States
  <2>2. tf \in [Procs -> Regs]
    BY <1>2, <1>4
  <2>3. parent \in [Procs -> Procs \cup {NoProc}]
    BY <1>1 DEF Init
  <2>4. cpu \in Regs
    BY <1>2 DEF Init
  <2> QED
    BY <1>1, <2>1, <2>2, <2>3, <2>4 DEF Init, TypeOK, Modes, NoProc, NoStatus
<1>6. RunningIsCurrent
  BY <1>3 DEF RunningIsCurrent
<1>7. ZombieOnlySpins
  BY <1>1, <1>3 DEF ZombieOnlySpins, Init
<1>8. FramesHold
  <2>1. cpu.at # "null"
    BY <1>2 DEF Init
  <2>2. ASSUME NEW p \in Procs, state[p] \in Schedulable
        PROVE  tf[p].at # "null"
    BY <1>2, <1>3, <1>4, <2>2 DEF Schedulable
  <2> QED
    BY <2>1, <2>2 DEF FramesHold
<1>9. CallInProgress
  BY DEF CallInProgress, Init
<1>10. IdleStays
  BY <1>1, <1>2, <1>3, <1>4 DEF IdleStays, Init, Schedulable
<1> QED
  BY <1>5, <1>6, <1>7, <1>8, <1>9, <1>10 DEF IInv

\* Every step of user code, kernel and timer keeps the invariant.
LEMMA NextIInv == IInv /\ [Next]_vars => IInv'
<1> SUFFICES ASSUME IInv, [Next]_vars PROVE IInv'
  OBVIOUS
<1> USE DEF RestTyped
<1>t. /\ state \in [Procs -> States] /\ tf \in [Procs -> Regs] /\ cpu \in Regs
      /\ mode \in Modes /\ current_proc \in Procs /\ RestTyped
  BY DEF IInv, TypeOK
<1>r. \A p \in Procs : state[p] = "RUNNING" => p = current_proc
  BY DEF IInv, RunningIsCurrent
<1>f. /\ cpu.at # "null"
      /\ \A p \in Procs : state[p] \in Schedulable => tf[p].at # "null"
  BY DEF IInv, FramesHold
<1>i. state[idle_proc] \in Schedulable /\ idle_proc \in Procs
  BY ProcessAssumption DEF IInv, IdleStays, idle_proc, Procs
<1>s. /\ Saved \in [Procs -> Regs]
      /\ \A p \in Procs : state[p] \in Schedulable => Saved[p].at # "null"
      /\ Saved[idle_proc].at = "entry"
  BY SavedFrames
<1>p. \A p \in Procs \cup {NoProc} : Pid(p) \in Int
  BY ProcessAssumption DEF Pid, Procs, NoProc, idle_proc
<1>z. \A v \in Int : Returned(cpu, v) \in Regs /\ Returned(cpu, v).at = "ret"
  BY <1>t, ReturnedRegs
<1>1. CASE boot
  <2>1. tf[idle_proc].at = "entry"
    BY <1>1 DEF boot, IInv, IdleStays
  <2> QED
    BY <1>1, <1>t, <1>r, <1>f, <1>i, <2>1, SwitchKeeps DEF boot
<1>2. CASE timer_switch
  BY <1>2, <1>t, <1>r, <1>i, <1>s, SwitchKeeps DEF timer_switch
<1>3. CASE timer_stay
  <2>1. current_proc = idle_proc => cpu.at = "entry"
    BY DEF IInv, IdleStays
  <2> QED
    BY <1>3, <1>t, <1>r, <1>f, <1>i, <2>1, StayKeeps DEF timer_stay
<1>4. CASE UserStep
  <2>1. state[current_proc] # "ZOMBIE"
    BY <1>4 DEF UserStep, IInv, ZombieOnlySpins
  <2>2. cpu' \in Regs /\ cpu'.at = "code"
    BY <1>4, AtRegs DEF UserStep, Points
  <2>3. CallInProgress'
    BY <1>4 DEF UserStep, CallInProgress
  <2>4. RestTyped'
    BY <1>4, <1>t DEF UserStep, NoStatus
  <2> QED
    BY <1>4, <2>1, <2>2, <2>3, <2>4, QuietKeeps DEF UserStep, Modes
<1>5. ASSUME NEW s \in Calls, Wrapper(s)
      PROVE  IInv'
  <2>1. ASSUME NEW a0 \in Int, NEW a1 \in Int, Load(s, a0, a1)
        PROVE  IInv'
    <3>1. cpu' \in Regs /\ cpu'.at = "ecall"
      BY <2>1 DEF Load, Regs, Points
    <3>2. state[current_proc] # "ZOMBIE"
      BY <2>1 DEF Load, IInv, ZombieOnlySpins
    <3> QED
      BY <2>1, <3>1, <3>2, <1>t, QuietKeeps DEF Load, Modes, CallInProgress
  <2> QED
    BY <1>5, <2>1, ProcessAssumption DEF Wrapper
<1>6. CASE UserFault
  BY <1>6, <1>t, <1>f, QuietKeeps DEF UserFault, Modes, CallInProgress
<1>e. ASSUME NEW s, Ecall(s)
      PROVE  /\ mode = "user" /\ cpu.at = "ecall"
             /\ current_proc # idle_proc
             /\ state[current_proc] \in Schedulable
             /\ tf[idle_proc].at = "entry"
  BY <1>e, CallerIsAlive DEF Ecall
<1>k. ASSUME KernelFault PROVE IInv'
  BY <1>k, <1>t, <1>f, QuietKeeps DEF KernelFault, Modes, CallInProgress
\* A system call that returns at once.
<1>v. ASSUME NEW v \in Int, Return(v), current_proc # idle_proc,
             state[current_proc] \in Schedulable,
             UNCHANGED <<state, tf, current_proc>>, RestTyped'
      PROVE  IInv'
  <2>1. cpu' \in Regs /\ cpu'.at = "ret" /\ mode' = "user"
    BY <1>v, <1>z DEF Return
  <2>2. state[current_proc] # "ZOMBIE" /\ CallInProgress' /\ mode' \in Modes \ {"boot"}
    BY <1>v, <2>1 DEF Schedulable, CallInProgress, Modes
  <2> QED
    BY <1>v, <2>1, <2>2, QuietKeeps
<1>7. CASE sys_fork_fail
  BY <1>7, <1>e, <1>t, <1>v DEF sys_fork_fail
<1>8. CASE sys_fork
  <2> DEFINE child == Min(FreeSlots)
  <2>1. child \in Procs /\ state[child] = "UNUSED"
    BY <1>8, TakenSlot DEF sys_fork
  <2>2. /\ state' = [state EXCEPT ![child] = "RUNNABLE"]
        /\ parent' = [parent EXCEPT ![child] = current_proc]
        /\ exit_code' = [exit_code EXCEPT ![child] = 0]
        /\ argc' = [argc EXCEPT ![child] = 0]
        /\ tf' = [tf EXCEPT ![child] = Returned(cpu, 0)]
        /\ wstatus' = [wstatus EXCEPT ![child] = wstatus[current_proc]]
        /\ forked' = forked \cup {child}
        /\ cpu' = Returned(cpu, Pid(child)) /\ mode' = "user"
        /\ process_count' = process_count + 1
        /\ current_proc' = current_proc /\ reaping' = reaping
    BY <1>8 DEF sys_fork, Return
  <2> HIDE DEF child
  <2>3. /\ Returned(cpu, 0) \in Regs /\ Returned(cpu, 0).at = "ret"
        /\ cpu' \in Regs /\ cpu'.at = "ret"
    BY <2>1, <2>2, <1>p, <1>z
  <2>4. /\ current_proc # idle_proc /\ state[current_proc] \in Schedulable
        /\ tf[idle_proc].at = "entry"
    BY <1>8, <1>e DEF sys_fork
  <2>5. child # current_proc /\ child # idle_proc
    BY <2>1, <2>4, <1>i DEF Schedulable
  <2>6. TypeOK'
    BY <2>1, <2>2, <2>3, <1>t DEF TypeOK, States, Modes
  <2>7. RunningIsCurrent' /\ ZombieOnlySpins'
    BY <2>1, <2>2, <2>4, <2>5, <1>t, <1>r DEF RunningIsCurrent, ZombieOnlySpins, Schedulable
  <2>8. FramesHold'
    BY <2>1, <2>2, <2>3, <1>f, <1>t DEF FramesHold
  <2>9. IdleStays' /\ CallInProgress'
    BY <2>1, <2>2, <2>4, <2>5, <1>i, <1>t DEF IdleStays, CallInProgress
  <2> QED
    BY <2>6, <2>7, <2>8, <2>9 DEF IInv
<1>9. CASE sys_exec_fault
  BY <1>9, <1>k DEF sys_exec_fault
<1>10. CASE sys_exec_fail
  BY <1>10, <1>e, <1>t, <1>v DEF sys_exec_fail
<1>x. ASSUME Ecall("exec")
      PROVE  /\ Execed \in [Procs -> States]
             /\ \A p \in Procs : Execed[p] = "RUNNING" => p = current_proc
             /\ \A p \in Procs : Execed[p] \in Schedulable => tf[p].at # "null"
             /\ Execed[idle_proc] \in Schedulable
             /\ Reset \in [Procs -> Regs]
             /\ \A p \in Procs : Execed[p] \in Schedulable => Reset[p].at # "null"
             /\ Reset[idle_proc].at = "entry"
  <2>1. /\ current_proc # idle_proc /\ state[current_proc] \in Schedulable
        /\ tf[idle_proc].at = "entry"
    BY <1>x, <1>e
  <2>2. At("entry") \in Regs /\ At("entry").at = "entry"
    BY AtRegs DEF Points
  <2>3. /\ Execed \in [Procs -> States]
        /\ \A p \in Procs : Execed[p] = "RUNNING" => p = current_proc
        /\ \A p \in Procs : Execed[p] \in Schedulable <=> state[p] \in Schedulable
    BY <2>1, <1>t, <1>r DEF Execed, States, Schedulable
  <2>4. Reset \in [Procs -> Regs]
    BY <2>2, <1>t DEF Reset
  <2> QED
    BY <2>1, <2>2, <2>3, <2>4, <1>f, <1>i, <1>t DEF Reset
<1>11. ASSUME NEW n \in Argcs, sys_exec_switch(n)
       PROVE  IInv'
  <2>1. RestTyped'
    BY <1>11, <1>t, ProcessAssumption DEF sys_exec_switch, NoStatus
  <2> QED
    BY <1>11, <1>x, <2>1, SwitchKeeps DEF sys_exec_switch
<1>12. ASSUME NEW n \in Argcs, sys_exec_stay(n)
       PROVE  IInv'
  <2>1. RestTyped'
    BY <1>12, <1>t, ProcessAssumption DEF sys_exec_stay, NoStatus
  <2>2. cpu' \in Regs /\ cpu'.at = "wild"
    BY <1>12, AtRegs DEF sys_exec_stay, Points
  <2>3. current_proc # idle_proc /\ mode' = "user"
    BY <1>12, <1>e DEF sys_exec_stay
  <2> QED
    BY <1>12, <1>x, <2>1, <2>2, <2>3, StayKeeps DEF sys_exec_stay
<1>13. CASE sys_exit
  <2>1. /\ state' = [state EXCEPT ![current_proc] = "ZOMBIE"]
        /\ exit_code' = [exit_code EXCEPT ![current_proc] = cpu.a0]
        /\ cpu' = At("spin")
        /\ UNCHANGED <<parent, argc, tf, current_proc, process_count, mode, reaping,
                       wstatus, forked>>
    BY <1>13 DEF sys_exit
  <2>2. /\ current_proc # idle_proc /\ mode = "user"
        /\ state[current_proc] \in Schedulable /\ tf[idle_proc].at = "entry"
    BY <1>13, <1>e DEF sys_exit
  <2>3. cpu' \in Regs /\ cpu'.at = "spin" /\ cpu.a0 \in Int
    BY <2>1, <1>t, AtRegs DEF Points, Regs
  <2>4. TypeOK'
    BY <2>1, <2>3, <1>t DEF TypeOK, States
  <2>5. RunningIsCurrent' /\ ZombieOnlySpins'
    BY <2>1, <2>3, <1>t, <1>r DEF RunningIsCurrent, ZombieOnlySpins
  <2>6. FramesHold'
    BY <2>1, <2>3, <1>t, <1>f DEF FramesHold, Schedulable
  <2>7. IdleStays' /\ CallInProgress'
    BY <2>1, <2>2, <1>i, <1>t DEF IdleStays, CallInProgress
  <2> QED
    BY <2>4, <2>5, <2>6, <2>7 DEF IInv
<1>14. CASE sys_yield_switch
  BY <1>14, <1>t, <1>r, <1>i, <1>s, SwitchKeeps DEF sys_yield_switch
<1>15. CASE sys_yield_stay
  <2>1. cpu' \in Regs /\ cpu'.at = "ret" /\ mode' = "user"
    BY <1>15, <1>z DEF sys_yield_stay, Return
  <2>2. current_proc # idle_proc
    BY <1>15, <1>e DEF sys_yield_stay
  <2> QED
    BY <1>15, <1>t, <1>r, <1>f, <1>i, <2>1, <2>2, StayKeeps DEF sys_yield_stay
<1>16. CASE sys_wait_fault
  BY <1>16, <1>k DEF sys_wait_fault
<1>17. CASE sys_wait_found
  <2> DEFINE p == Min(Zombies)
  <2>1. p \in Procs /\ state[p] = "ZOMBIE" /\ parent[p] = current_proc
    BY <1>17, MinIsElement, ProcessAssumption DEF sys_wait_found, Zombies, Procs
  <2>2. /\ wstatus' \in {wstatus, [wstatus EXCEPT ![current_proc] = exit_code[p]]}
        /\ tf' = [tf EXCEPT ![p] = NoFrame]
        /\ reaping' = p /\ mode' = "reap"
        /\ UNCHANGED <<state, parent, exit_code, argc, current_proc, process_count,
                       cpu, forked>>
    BY <1>17 DEF sys_wait_found
  <2> HIDE DEF p
  <2>3. NoFrame \in Regs
    BY AtRegs DEF NoFrame, Points
  <2>4. cpu.at = "ecall" /\ current_proc # idle_proc /\ tf[idle_proc].at = "entry"
    BY <1>17, <1>e DEF sys_wait_found
  <2>5. TypeOK'
    BY <2>1, <2>2, <2>3, <1>t DEF TypeOK, Modes
  <2>6. RunningIsCurrent' /\ ZombieOnlySpins'
    BY <2>2 DEF IInv, RunningIsCurrent, ZombieOnlySpins
  <2>7. FramesHold'
    BY <2>1, <2>2, <1>f, <1>t DEF FramesHold, Schedulable
  <2>8. CallInProgress'
    BY <2>1, <2>2, <2>4 DEF CallInProgress
  <2>9. IdleStays'
    BY <2>1, <2>2, <2>4, <1>i, <1>t DEF IdleStays, Schedulable
  <2> QED
    BY <2>5, <2>6, <2>7, <2>8, <2>9 DEF IInv
<1>18. CASE free_proc
  <2>1. /\ state' = [state EXCEPT ![reaping] = "UNUSED"]
        /\ mode' = "freed"
        /\ UNCHANGED <<parent, exit_code, argc, tf, current_proc, process_count, cpu,
                       reaping, wstatus, forked>>
    BY <1>18 DEF free_proc
  <2>2. reaping \in Procs /\ state[reaping] = "ZOMBIE" /\ cpu.at = "ecall"
    BY <1>18 DEF free_proc, IInv, CallInProgress
  <2>3. /\ current_proc # idle_proc /\ state[current_proc] \in Schedulable
        /\ tf[idle_proc].at = "entry"
    BY <2>2, CallerIsAlive
  <2>4. reaping # current_proc /\ reaping # idle_proc
    BY <2>2, <2>3, <1>i DEF Schedulable
  <2>5. TypeOK'
    BY <2>1, <2>2, <1>t DEF TypeOK, States, Modes
  <2>6. RunningIsCurrent' /\ ZombieOnlySpins'
    BY <2>1, <2>2, <2>3, <2>4, <1>t, <1>r DEF RunningIsCurrent, ZombieOnlySpins, Schedulable
  <2>7. FramesHold' /\ CallInProgress'
    BY <2>1, <2>2, <1>f, <1>t DEF FramesHold, CallInProgress, Schedulable
  <2>8. IdleStays'
    BY <2>1, <2>3, <2>4, <1>i, <1>t DEF IdleStays
  <2> QED
    BY <2>5, <2>6, <2>7, <2>8 DEF IInv
<1>30. CASE free_proc_count
  <2>1. reaping \in Procs /\ cpu.at = "ecall" /\ mode' = "reaped"
    BY <1>30 DEF free_proc_count, IInv, CallInProgress
  <2>2. current_proc # idle_proc /\ state[current_proc] \in Schedulable
    BY <2>1, CallerIsAlive
  <2>3. RestTyped'
    BY <1>30, <2>1, <1>t DEF free_proc_count
  <2>4. CallInProgress'
    BY <1>30, <2>1 DEF free_proc_count, CallInProgress
  <2> QED
    BY <1>30, <2>1, <2>2, <2>3, <2>4, <1>t, QuietKeeps DEF free_proc_count, Modes
<1>19. CASE sys_wait_return
  <2>1. /\ current_proc # idle_proc /\ state[current_proc] \in Schedulable
    BY <1>19, CallerIsAlive DEF sys_wait_return, IInv, CallInProgress
  <2>2. Pid(reaping) \in Int
    BY <1>t, <1>p
  <2>3. RestTyped'
    BY <1>19, <1>t DEF sys_wait_return
  <2> QED
    BY <1>19, <2>1, <2>2, <2>3, <1>v DEF sys_wait_return
<1>20. CASE sys_wait_switch
  BY <1>20, <1>t, <1>r, <1>i, <1>s, SwitchKeeps DEF sys_wait_switch
<1>21. CASE sys_wait_stay
  <2>1. current_proc # idle_proc
    BY <1>21, <1>e DEF sys_wait_stay
  <2> QED
    BY <1>21, <2>1, <1>t, <1>r, <1>f, <1>i, StayKeeps DEF sys_wait_stay
<1>22. CASE nested_tick_switch
  <2> DEFINE frames == [tf EXCEPT ![current_proc] = At("kernel")]
  <2>1. current_proc # idle_proc /\ tf[idle_proc].at = "entry"
    BY <1>22, CallerIsAlive DEF nested_tick_switch, IInv, CallInProgress
  <2>2. At("kernel") \in Regs /\ At("kernel").at = "kernel"
    BY AtRegs DEF Points
  <2>3. /\ frames \in [Procs -> Regs]
        /\ \A p \in Procs : state[p] \in Schedulable => frames[p].at # "null"
        /\ frames[idle_proc].at = "entry"
    BY <2>1, <2>2, <1>t, <1>f, <1>i
  <2>4. yield_switch(state, frames, process_count) /\ RestTyped'
    BY <1>22, <1>t DEF nested_tick_switch
  <2> HIDE DEF frames
  <2> QED
    BY <2>3, <2>4, <1>t, <1>r, <1>i, SwitchKeeps
<1>23. CASE nested_tick_stay
  <2>1. current_proc # idle_proc
    BY <1>23, CallerIsAlive DEF nested_tick_stay, IInv, CallInProgress
  <2> QED
    BY <1>23, <2>1, <1>t, <1>r, <1>f, <1>i, StayKeeps DEF nested_tick_stay
<1>24. CASE sys_read_invalid
  BY <1>24, <1>e, <1>t, <1>v DEF sys_read_invalid
<1>25. CASE sys_read_poll
  <2>1. mode' = "reading" /\ cpu' = cpu /\ cpu.at = "ecall"
    BY <1>25, <1>e DEF sys_read_poll
  <2> QED
    BY <1>25, <2>1, <1>t, QuietKeeps DEF sys_read_poll, Modes, CallInProgress
<1>26. CASE sys_read_newline
  <2>1. current_proc # idle_proc /\ state[current_proc] \in Schedulable
    BY <1>26, CallerIsAlive DEF sys_read_newline, IInv, CallInProgress
  <2> QED
    BY <1>26, <2>1, <1>t, <1>v DEF sys_read_newline
<1>27. CASE sys_read_char_stay
  <2>1. cpu' \in Regs /\ cpu'.at = "ret" /\ mode' = "user"
    BY <1>27, <1>z DEF sys_read_char_stay, Return
  <2>2. current_proc # idle_proc
    BY <1>27, CallerIsAlive DEF sys_read_char_stay, IInv, CallInProgress
  <2> QED
    BY <1>27, <1>t, <1>r, <1>f, <1>i, <2>1, <2>2, StayKeeps DEF sys_read_char_stay
<1>28. CASE sys_read_char_switch
  BY <1>28, <1>t, <1>r, <1>i, <1>s, SwitchKeeps DEF sys_read_char_switch
<1>29. CASE UNCHANGED vars
  BY <1>29 DEF vars, IInv, TypeOK, RunningIsCurrent, ZombieOnlySpins, FramesHold,
               CallInProgress, IdleStays
<1> QED
  BY <1>1, <1>2, <1>3, <1>4, <1>5, <1>6, <1>7, <1>8, <1>9, <1>10, <1>11, <1>12, <1>13,
     <1>14, <1>15, <1>16, <1>17, <1>18, <1>19, <1>20, <1>21, <1>22, <1>23, <1>24, <1>25,
     <1>26, <1>27, <1>28, <1>29, <1>30
     DEF Next, Timer, Nested, Kernel, Input, Exec, Wait, Read

\* The type invariant of the process table holds in every reachable state.
THEOREM TypeCorrect == Spec => []TypeOK
  BY InitIInv, NextIInv, PTL DEF Spec, IInv

\* Only the process on the hart is ever RUNNING (scheduler.c:26 demotes the one
\* that leaves), for any number of processes and any timing of the interrupts.
THEOREM OneRunning == Spec => []RunningIsCurrent
  BY InitIInv, NextIInv, PTL DEF Spec, IInv

\* The process on the hart is never a freed slot, and a zombie makes no further
\* system call.
THEOREM ZombiesAreDead == Spec => []ZombieOnlySpins
  BY InitIInv, NextIInv, PTL DEF Spec, IInv

\* Whatever yield() picks has a trap frame, and idle is always there.
THEOREM FrameForEveryone == Spec => []SchedulableHasFrame
<1>1. IInv => SchedulableHasFrame
  <2>1. NoFrame.at = "null"
    BY DEF NoFrame, At
  <2> QED
    BY <2>1 DEF IInv, FramesHold, IdleStays, SchedulableHasFrame, Schedulable
<1> QED
  BY <1>1, InitIInv, NextIInv, PTL DEF Spec

-----------------------------------------------------------------------------
(* How slots change, and the count of the slots in use                      *)

\* A step that neither takes nor frees a slot nor ends a process.
SameLives ==
    \A p \in Procs : \/ state'[p] = state[p]
                     \/ state[p] \in Schedulable /\ state'[p] \in Schedulable

\* Slot c goes from one state to another.
Moves(c, from, to) ==
    /\ state[c] \in from
    /\ state' = [state EXCEPT ![c] = to]

\* yield() moves processes between RUNNABLE and RUNNING only.
LEMMA YieldKeepsLives ==
    ASSUME state \in [Procs -> States], current_proc \in Procs,
           NEW st \in [Procs -> States], NEW frames, NEW count,
           \A p \in Procs : st[p] = "RUNNING" => p = current_proc,
           \A p \in Procs : /\ state[p] \in Schedulable <=> st[p] \in Schedulable
                            /\ state[p] \notin Schedulable => st[p] = state[p],
           yield_switch(st, frames, count) \/ yield_stay(st, count)
    PROVE  SameLives
<1>1. /\ \A p \in Procs : /\ st[p] \in Schedulable <=> Demote(st)[p] \in Schedulable
                          /\ st[p] \notin Schedulable => Demote(st)[p] = st[p]
      /\ Demote(st) \in [Procs -> States]
  BY DemoteLeavesNoneRunning
<1>2. CASE yield_stay(st, count)
  BY <1>1, <1>2 DEF yield_stay, SameLives
<1>3. CASE yield_switch(st, frames, count)
  <2> DEFINE next == NextProc(Demote(st), count)
  <2>1. state' = [Demote(st) EXCEPT ![next] =
                     IF Demote(st)[next] = "RUNNABLE" THEN "RUNNING" ELSE Demote(st)[next]]
    BY <1>3 DEF yield_switch
  <2> HIDE DEF next
  <2> QED
    BY <2>1, <1>1 DEF SameLives, Schedulable
<1> QED
  BY <1>2, <1>3

\* The process on the hart may make system calls.
CallerAlive == current_proc \in Procs \ {idle_proc} /\ state[current_proc] \in Schedulable

\* Every step is scheduling, or moves one slot: fork, exit, or free_proc().  The last
\* three are calls of a living process: it forks a child of its own, ends itself, or
\* frees a child.  process_count follows fork at once and free_proc() one step later.
LEMMA StepKinds ==
    ASSUME IInv, [Next]_vars
    PROVE  \/ SameLives /\ UNCHANGED <<parent, process_count>>
           \/ /\ mode = "freed" /\ UNCHANGED state
              /\ parent' = [parent EXCEPT ![reaping] = NoProc]
              /\ process_count' = process_count - 1
           \/ \E c \in Procs :
                 /\ CallerAlive /\ Moves(c, {"UNUSED"}, "RUNNABLE")
                 /\ parent' = [parent EXCEPT ![c] = current_proc]
                 /\ process_count' = process_count + 1
           \/ /\ CallerAlive /\ Moves(current_proc, Schedulable, "ZOMBIE")
              /\ UNCHANGED <<parent, process_count>> /\ cpu.at = "ecall"
           \/ \E c \in Procs :
                 /\ CallerAlive /\ Moves(c, {"ZOMBIE"}, "UNUSED")
                 /\ parent[c] = current_proc
                 /\ UNCHANGED <<parent, process_count>>
<1>t. /\ state \in [Procs -> States] /\ current_proc \in Procs /\ argc \in [Procs -> Nat]
      /\ tf \in [Procs -> Regs] /\ process_count \in Int
  BY DEF IInv, TypeOK
<1>r. \A p \in Procs : state[p] = "RUNNING" => p = current_proc
  BY DEF IInv, RunningIsCurrent
<1>y. ASSUME NEW frames,
             yield_switch(state, frames, process_count) \/ yield_stay(state, process_count)
      PROVE  SameLives
  BY <1>y, <1>t, <1>r, YieldKeepsLives
<1>c. cpu.at = "ecall" => CallerAlive
  BY <1>t, CallerIsAlive DEF CallerAlive
<1>1. CASE boot \/ Timer \/ Nested
  BY <1>1, <1>y DEF boot, Timer, timer_switch, timer_stay, Nested, nested_tick_switch,
                    nested_tick_stay
<1>2. CASE UserStep \/ UserFault \/ (\E s \in Calls : Wrapper(s))
  BY <1>2 DEF UserStep, UserFault, Wrapper, Load, SameLives
<1>3. CASE sys_fork_fail \/ Read \/ sys_exec_fault \/ sys_exec_fail
  BY <1>3 DEF sys_fork_fail, Read, sys_read_invalid, sys_read_poll, sys_exec_fault,
              sys_exec_fail, KernelFault, SameLives
<1>4. CASE sys_fork
  <2>1. Min(FreeSlots) \in FreeSlots
    BY <1>4, MinIsElement, ProcessAssumption DEF sys_fork, FreeSlots, Procs
  <2>2. /\ Moves(Min(FreeSlots), {"UNUSED"}, "RUNNABLE")
        /\ parent' = [parent EXCEPT ![Min(FreeSlots)] = current_proc]
        /\ process_count' = process_count + 1
    BY <1>4, <2>1 DEF sys_fork, FreeSlots, Moves
  <2>3. CallerAlive
    BY <1>4, <1>c DEF sys_fork, Ecall
  <2> QED
    BY <2>1, <2>2, <2>3 DEF FreeSlots
<1>5. ASSUME NEW n \in Argcs, sys_exec_switch(n) \/ sys_exec_stay(n)
      PROVE  SameLives /\ UNCHANGED <<parent, process_count>>
  <2>1. state[current_proc] \in Schedulable
    BY <1>5, CallerIsAlive DEF sys_exec_switch, sys_exec_stay, Ecall
  <2>2. /\ Execed \in [Procs -> States]
        /\ \A p \in Procs : Execed[p] = "RUNNING" => p = current_proc
        /\ \A p \in Procs : /\ state[p] \in Schedulable <=> Execed[p] \in Schedulable
                            /\ state[p] \notin Schedulable => Execed[p] = state[p]
    BY <2>1, <1>t, <1>r DEF Execed, States, Schedulable
  <2> QED
    BY <1>5, <2>2, <1>t, YieldKeepsLives DEF sys_exec_switch, sys_exec_stay
<1>6. CASE sys_exit
  <2>1. CallerAlive /\ cpu.at = "ecall"
    BY <1>6, <1>c DEF sys_exit, Ecall
  <2>2. /\ Moves(current_proc, Schedulable, "ZOMBIE")
        /\ UNCHANGED <<parent, process_count>>
    BY <1>6, <2>1, <1>t DEF sys_exit, Moves, CallerAlive
  <2> QED
    BY <2>1, <2>2
<1>7. CASE sys_yield_switch \/ sys_yield_stay
  BY <1>7, <1>y DEF sys_yield_switch, sys_yield_stay
<1>8. CASE sys_wait_fault \/ sys_wait_found \/ sys_wait_return
  BY <1>8 DEF sys_wait_fault, sys_wait_found, sys_wait_return, KernelFault, SameLives
<1>9. CASE sys_wait_switch \/ sys_wait_stay
  BY <1>9, <1>y DEF sys_wait_switch, sys_wait_stay
<1>10. CASE free_proc
  <2>1. /\ reaping \in Procs /\ state[reaping] = "ZOMBIE" /\ parent[reaping] = current_proc
        /\ CallerAlive
    BY <1>10, <1>c DEF free_proc, IInv, CallInProgress
  <2>2. /\ Moves(reaping, {"ZOMBIE"}, "UNUSED")
        /\ UNCHANGED <<parent, process_count>>
    BY <1>10, <2>1, <1>t DEF free_proc, Moves
  <2> QED
    BY <2>1, <2>2
<1>13. CASE free_proc_count
  BY <1>13 DEF free_proc_count
<1>11. CASE Input
  <2>1. CASE sys_read_newline
    BY <2>1 DEF sys_read_newline, SameLives
  <2>2. CASE sys_read_char_stay \/ sys_read_char_switch
    BY <2>2, <1>y DEF sys_read_char_stay, sys_read_char_switch
  <2> QED
    BY <1>11, <2>1, <2>2 DEF Input
<1>12. CASE UNCHANGED vars
  BY <1>12 DEF vars, SameLives
<1> QED
  BY <1>1, <1>2, <1>3, <1>4, <1>5, <1>6, <1>7, <1>8, <1>9, <1>10, <1>11, <1>12, <1>13
     DEF Next, Kernel, Exec, Wait

\* A slot that moves changes its stage of life, and no other slot does.
LEMMA MoveStage ==
    ASSUME state \in [Procs -> States], NEW c \in Procs, NEW from, NEW to \in States,
           Moves(c, from, to)
    PROVE  Stages' = [Stages EXCEPT ![c] = Stage(to)]
<1>1. state' = [state EXCEPT ![c] = to]
  BY DEF Moves
<1>2. \A p \in Procs : Stage(state'[p]) = IF p = c THEN Stage(to) ELSE Stage(state[p])
  BY <1>1
<1> QED
  BY <1>2 DEF Stages

\* Stages of the states.
LEMMA StageOf ==
    /\ Stage("UNUSED") = "UNUSED" /\ Stage("ZOMBIE") = "ZOMBIE"
    /\ \A st \in Schedulable : Stage(st) = "ALIVE"
  BY DEF Stage, Schedulable

\* The process table implements the life cycle of processes: whatever the
\* interleaving of calls and ticks, a process is made by a living one, ends once, and
\* is freed by its living parent, and by nothing else.
THEOREM LivesRefine == Spec => ImplementsLife
<1>1. Init => Life!LifeInit
  <2> SUFFICES ASSUME Init PROVE Life!LifeInit
    OBVIOUS
  <2>1. \A p \in Procs : Stage(state[p]) =
                            IF p \in {idle_proc, shell} THEN "ALIVE" ELSE "UNUSED"
    BY StageOf DEF Init, Schedulable
  <2>2. Stages = [p \in Procs |-> IF p \in {idle_proc, shell} THEN "ALIVE" ELSE "UNUSED"]
    BY <2>1 DEF Stages
  <2>3. Parents = [p \in Procs |-> IF p = shell THEN idle_proc ELSE NoProc]
    BY DEF Init, Parents
  <2> QED
    BY <2>2, <2>3 DEF Life!LifeInit
<1>2. ASSUME IInv, [Next]_vars
      PROVE  [Life!LifeNext]_<<Stages, Parents>>
  <2>t. /\ state \in [Procs -> States] /\ current_proc \in Procs
        /\ parent \in [Procs -> Procs \cup {NoProc}]
    BY <1>2 DEF IInv, TypeOK
  <2>s. \A p \in Procs : Stages[p] = Stage(state[p])
    BY DEF Stages
  <2>a. CallerAlive => /\ current_proc \in Procs \ {idle_proc}
                       /\ Stages[current_proc] = "ALIVE"
    BY <2>s, <2>t, StageOf DEF CallerAlive
  <2>1. CASE SameLives /\ UNCHANGED <<parent, process_count>>
    <3>1. \A p \in Procs : /\ Stage(state'[p]) = Stage(state[p])
                           /\ state'[p] = "UNUSED" <=> state[p] = "UNUSED"
      BY <2>1, StageOf DEF SameLives, Schedulable
    <3>2. Stages' = Stages /\ Parents' = Parents
      BY <2>1, <3>1 DEF Stages, Parents
    <3> QED
      BY <3>2
  <2>5. ASSUME mode = "freed", UNCHANGED state, parent' = [parent EXCEPT ![reaping] = NoProc]
        PROVE  Stages' = Stages /\ Parents' = Parents
    <3>1. reaping \in Procs /\ state[reaping] = "UNUSED"
      BY <1>2, <2>5 DEF IInv, CallInProgress
    <3>2. \A p \in Procs : state[p] # "UNUSED" => parent'[p] = parent[p]
      BY <2>5, <2>t, <3>1
    <3> QED
      BY <2>5, <3>2 DEF Stages, Parents
  <2>2. ASSUME NEW c \in Procs, CallerAlive, Moves(c, {"UNUSED"}, "RUNNABLE"),
               parent' = [parent EXCEPT ![c] = current_proc]
        PROVE  Life!LifeNext
    <3>1. Stages' = [Stages EXCEPT ![c] = "ALIVE"]
      BY <2>2, <2>t, MoveStage, StageOf DEF States, Schedulable
    <3>2. Stages[c] = "UNUSED"
      BY <2>2, <2>s, StageOf DEF Moves
    <3>3. \A p \in Procs : /\ state'[p] = IF p = c THEN "RUNNABLE" ELSE state[p]
                           /\ parent'[p] = IF p = c THEN current_proc ELSE parent[p]
      BY <2>2, <2>t DEF Moves
    <3>4. Parents' = [Parents EXCEPT ![c] = current_proc]
      BY <3>3 DEF Parents
    <3> QED
      BY <2>2, <2>a, <3>1, <3>2, <3>4 DEF Life!LifeNext, Life!Fork
  <2>3. ASSUME CallerAlive, Moves(current_proc, Schedulable, "ZOMBIE"), UNCHANGED parent
        PROVE  Life!LifeNext
    <3>1. Stages' = [Stages EXCEPT ![current_proc] = "ZOMBIE"]
      BY <2>3, <2>t, MoveStage, StageOf DEF States
    <3>2. \A p \in Procs : state'[p] = "UNUSED" <=> state[p] = "UNUSED"
      BY <2>3, <2>t DEF Moves, Schedulable
    <3>3. Parents' = Parents
      BY <2>3, <3>2 DEF Parents
    <3> QED
      BY <2>a, <2>3, <3>1, <3>3 DEF Life!LifeNext, Life!Exit
  <2>4. ASSUME NEW c \in Procs, CallerAlive, Moves(c, {"ZOMBIE"}, "UNUSED"),
               parent[c] = current_proc, UNCHANGED parent
        PROVE  Life!LifeNext
    <3>1. Stages' = [Stages EXCEPT ![c] = "UNUSED"]
      BY <2>4, <2>t, MoveStage, StageOf DEF States
    <3>2. Stages[c] = "ZOMBIE" /\ Parents[c] = current_proc
      BY <2>4, <2>s, StageOf DEF Moves, Parents
    <3>3. \A p \in Procs : state'[p] = IF p = c THEN "UNUSED" ELSE state[p]
      BY <2>4, <2>t DEF Moves
    <3>4. Parents' = [Parents EXCEPT ![c] = NoProc]
      BY <2>4, <3>3 DEF Parents
    <3> QED
      BY <2>4, <2>a, <3>1, <3>2, <3>4 DEF Life!LifeNext, Life!Reap
  <2> QED
    BY <1>2, <2>1, <2>2, <2>3, <2>4, <2>5, StepKinds
<1> QED
  BY <1>1, <1>2, InitIInv, NextIInv, PTL DEF Spec, ImplementsLife, Life!LifeSpec

\* What a switch loads: the frame of the process it picks, with that process's
\* argument count in a0; the other frames stay as they were saved.
LEMMA SwitchFrames ==
    ASSUME NEW st \in [Procs -> States], NEW frames \in [Procs -> Regs], NEW count,
           current_proc \in Procs, argc \in [Procs -> Nat],
           yield_switch(st, frames, count)
    PROVE  /\ current_proc' \in Procs /\ current_proc' # current_proc
           /\ current_proc' = NextProc(Demote(st), count)
           /\ mode' = "user"
           /\ cpu'.at = frames[current_proc'].at
           /\ cpu'.sys = frames[current_proc'].sys
           /\ cpu'.a0 = argc[current_proc']
           /\ \A p \in Procs : p # current_proc' => tf'[p] = frames[p]
<1>1. Demote(st) \in [Procs -> States]
  BY DEF Demote, States
<1>2. NextProc(Demote(st), count) \in Procs
  BY <1>1, NextProcIsRunnable
<1>3. /\ current_proc' = NextProc(Demote(st), count) /\ current_proc' # current_proc
      /\ tf' = [frames EXCEPT ![current_proc'] = Live]
      /\ cpu' = user_return(frames[current_proc'], argc[current_proc'])
      /\ mode' = "user"
  BY DEF yield_switch
<1>4. frames[current_proc'] \in Regs /\ argc[current_proc'] \in Nat
  BY <1>2, <1>3
<1>5. /\ cpu'.at = frames[current_proc'].at
      /\ cpu'.sys = frames[current_proc'].sys
      /\ cpu'.a0 = argc[current_proc']
  BY <1>3, <1>4, ProcessAssumption DEF user_return, argv_ptr, Regs
<1>6. \A p \in Procs : p # current_proc' => tf'[p] = frames[p]
  BY <1>3
<1> QED
  BY <1>2, <1>3, <1>5, <1>6

\* A frame in the kernel belongs to a process that yield() put aside.
KernelFrames ==
    \A p \in Procs : tf[p].at = "kernel" => p # current_proc /\ state[p] = "RUNNABLE"

\* CountMatches is not inductive: between the two steps of free_proc() the counter is
\* one too high, which is what the second step undoes, and a process caught in
\* sys_wait() stays what it is.
CountInv ==
    /\ CountMatches
    /\ mode = "freed" => Cardinality(InUse) + 1 <= process_count
    /\ KernelFrames

\* After a switch the processes caught in sys_wait() are those with a kernel frame.
LEMMA SwitchCaught ==
    ASSUME NEW st \in [Procs -> States], NEW frames \in [Procs -> Regs], NEW count,
           current_proc \in Procs, argc \in [Procs -> Nat],
           yield_switch(st, frames, count),
           \A p \in Procs : frames[p].at = "kernel" => Demote(st)[p] = "RUNNABLE"
    PROVE  /\ Caught' = {p \in Procs : frames[p].at = "kernel"}
           /\ KernelFrames'
<1>1. /\ current_proc' \in Procs /\ current_proc' = NextProc(Demote(st), count)
      /\ mode' = "user" /\ cpu'.at = frames[current_proc'].at
      /\ \A p \in Procs : p # current_proc' => tf'[p] = frames[p]
  BY SwitchFrames
<1>2. tf'[current_proc'].at = "live"
  <2>1. tf' = [frames EXCEPT ![current_proc'] = Live]
    BY DEF yield_switch
  <2> QED
    BY <2>1, <1>1 DEF Live, At
<1>3. \A p \in Procs : p # current_proc' => state'[p] = Demote(st)[p]
  <2> DEFINE next == NextProc(Demote(st), count)
  <2>1. Demote(st) \in [Procs -> States]
    BY DEF Demote, States
  <2>2. state' = [Demote(st) EXCEPT ![next] =
                     IF Demote(st)[next] = "RUNNABLE" THEN "RUNNING" ELSE Demote(st)[next]]
    BY DEF yield_switch
  <2>3. next = current_proc'
    BY <1>1
  <2> HIDE DEF next
  <2> QED
    BY <2>1, <2>2, <2>3
<1>4. \A p \in Procs : p \in Caught' <=> frames[p].at = "kernel"
  BY <1>1, <1>2 DEF Caught
<1>5. Caught' \subseteq Procs
  BY <1>1 DEF Caught
<1>6. KernelFrames'
  BY <1>1, <1>2, <1>3 DEF KernelFrames
<1> QED
  BY <1>4, <1>5, <1>6

\* Every step keeps the counter within its bounds.
LEMMA NextCountInv ==
    ASSUME IInv, CountInv, [Next]_vars
    PROVE  CountInv'
<1>t. /\ state \in [Procs -> States] /\ tf \in [Procs -> Regs] /\ cpu \in Regs
      /\ mode \in Modes /\ current_proc \in Procs /\ argc \in [Procs -> Nat]
      /\ process_count \in Int
  BY DEF IInv, TypeOK
<1>n. IInv'
  BY NextIInv
<1>i. idle_proc \in Procs
  BY ProcessAssumption DEF idle_proc, Procs
<1>a. \A w \in Points : At(w) \in Regs /\ At(w).at = w
  BY AtRegs
<1>z. \A v \in Int : Returned(cpu, v).at = "ret"
  BY <1>t, ReturnedRegs
<1>p. \A p \in Procs \cup {NoProc} : Pid(p) \in Int
  BY ProcessAssumption DEF Pid, Procs, NoProc, idle_proc
<1>f. /\ IsFiniteSet(InUse) /\ IsFiniteSet(InUse') /\ IsFiniteSet(Caught) /\ IsFiniteSet(Caught')
      /\ Cardinality(InUse) \in Nat /\ Cardinality(Caught) \in Nat
      /\ Cardinality(InUse') \in Nat /\ Cardinality(Caught') \in Nat
  <2>1. IsFiniteSet(Procs)
    BY FS_Interval, ProcessAssumption DEF Procs
  <2>2. InUse \subseteq Procs /\ InUse' \subseteq Procs
    BY DEF InUse
  <2>3. Caught \subseteq Procs
    BY <1>t DEF Caught
  <2>4. Caught' \subseteq Procs
    BY <1>n DEF Caught, IInv, TypeOK
  <2> QED
    BY <2>1, <2>2, <2>3, <2>4, FS_Subset, FS_CardinalityType
<1>b. /\ Cardinality(InUse) <= process_count
      /\ process_count <= Cardinality(InUse) + Cardinality(Caught)
      /\ KernelFrames
  BY DEF CountInv, CountMatches
\* The table and the counter stay, and who is caught stays caught.
<1>c. ASSUME InUse' = InUse, process_count' = process_count, Caught \subseteq Caught',
             mode' # "freed", KernelFrames'
      PROVE  CountInv'
  <2>2. Cardinality(Caught) <= Cardinality(Caught')
    BY <1>c, <1>f, FS_Subset
  <2>3. /\ Cardinality(InUse') <= process_count'
        /\ process_count' <= Cardinality(InUse') + Cardinality(Caught')
    BY <1>b, <1>c, <1>f, <1>t, <2>2
  <2> QED
    BY <1>c, <2>3 DEF CountInv, CountMatches
<1>y. ASSUME NEW frames,
             yield_switch(state, frames, process_count) \/ yield_stay(state, process_count)
      PROVE  SameLives
  BY <1>y, <1>t, YieldKeepsLives DEF IInv, RunningIsCurrent
\* A process is put aside by yield(): not one that was caught, unless it is caught now.
<1>s. ASSUME NEW st \in [Procs -> States], NEW frame \in Regs,
             yield_switch(st, [tf EXCEPT ![current_proc] = frame], process_count),
             \A p \in Procs : p # current_proc => st[p] = state[p],
             frame.at = "kernel" => st[current_proc] \in Schedulable,
             frame.at = "kernel" \/ current_proc \notin Caught,
             SameLives, process_count' = process_count
      PROVE  CountInv'
  <2> DEFINE frames == [tf EXCEPT ![current_proc] = frame]
  <2>1. /\ frames \in [Procs -> Regs] /\ frames[current_proc] = frame
        /\ \A p \in Procs : p # current_proc => frames[p] = tf[p]
    BY <1>t
  <2>2. yield_switch(st, frames, process_count)
    BY <1>s
  <2> HIDE DEF frames
  <2>3. \A p \in Procs : frames[p].at = "kernel" => Demote(st)[p] = "RUNNABLE"
    <3>1. \A p \in Procs : p # current_proc => Demote(st)[p] = st[p]
      BY <1>t DEF Demote
    <3>2. st[current_proc] \in Schedulable => Demote(st)[current_proc] = "RUNNABLE"
      BY <1>t DEF Demote, Schedulable
    <3> QED
      BY <3>1, <3>2, <2>1, <1>s, <1>b DEF KernelFrames
  <2>4. Caught' = {p \in Procs : frames[p].at = "kernel"} /\ KernelFrames'
    BY <1>t, <2>1, <2>2, <2>3, SwitchCaught
  <2>5. \A p \in Procs : p # current_proc /\ p \in Caught => tf[p].at = "kernel"
    BY DEF Caught
  <2>6. Caught \subseteq Caught'
    BY <1>s, <1>t, <2>1, <2>4, <2>5 DEF Caught
  <2>7. mode' # "freed" /\ InUse' = InUse
    BY <1>s DEF yield_switch, SameLives, InUse, Schedulable
  <2> QED
    BY <1>s, <2>4, <2>6, <2>7, <1>c
\* A trap in user mode or while reading is taken by a process that is not caught.
<1>u. ASSUME mode \in {"user", "reading"}, cpu.at # "kernel"
      PROVE  current_proc \notin Caught
  BY <1>u, <1>b, <1>t DEF Caught, KernelFrames
<1>v. ASSUME mode \in {"user", "reading"}, cpu.at # "kernel", process_count' = process_count,
             yield_switch(state, Saved, process_count)
      PROVE  CountInv'
  <2>1. yield_switch(state, [tf EXCEPT ![current_proc] = cpu], process_count)
    BY <1>v DEF Saved
  <2>2. SameLives
    BY <1>v, <1>y
  <2> QED
    BY <2>1, <2>2, <1>s, <1>t, <1>u, <1>v
\* A step that leaves the frames alone.
<1>q. ASSUME UNCHANGED <<tf, current_proc, process_count>>, InUse' = InUse,
             \A p \in Procs : p # current_proc /\ state[p] = "RUNNABLE" => state'[p] = "RUNNABLE",
             mode' # "freed",
             current_proc \notin Caught \/ mode' = "corrupt" \/ cpu'.at = "kernel"
      PROVE  CountInv'
  <2>1. Caught \subseteq Caught'
    BY <1>q DEF Caught
  <2>2. KernelFrames'
    BY <1>q, <1>b DEF KernelFrames
  <2> QED
    BY <1>q, <2>1, <2>2, <1>c
\* yield() returns to its caller.
<1>w. ASSUME NEW st \in {state, Execed}, yield_stay(st, process_count), cpu.at # "kernel",
             cpu.at = "ecall" \/ st = state,
             current_proc \notin Caught \/ mode' = "corrupt",
             process_count' = process_count, mode' # "freed"
      PROVE  CountInv'
  <2>1. /\ st \in [Procs -> States]
        /\ \A p \in Procs : p # current_proc => st[p] = state[p]
    BY <1>t DEF Execed, States
  <2>2. state[current_proc] # "UNUSED" /\ st[current_proc] # "UNUSED"
    BY <1>t DEF IInv, ZombieOnlySpins, Execed
  <2>3. \A p \in Procs : /\ p # current_proc => state'[p] = state[p]
                         /\ state'[p] = "UNUSED" <=> state[p] = "UNUSED"
    BY <1>w, <2>1, <2>2, <1>t DEF yield_stay, Demote
  <2>4. InUse' = InUse
    BY <2>3 DEF InUse
  <2> QED
    BY <1>w, <2>3, <2>4, <1>q DEF yield_stay
<1>1. CASE boot
  <2>1. current_proc = idle_proc /\ tf[idle_proc].at = "entry" /\ cpu.at = "entry"
    BY <1>1 DEF boot, IInv, IdleStays
  <2>2. current_proc \notin Caught /\ tf[current_proc] \in Regs
    BY <1>1, <2>1, <1>t DEF boot, Caught
  <2>3. tf = [tf EXCEPT ![current_proc] = tf[current_proc]]
    BY <1>t
  <2>4. SameLives
    BY <1>1, <1>y DEF boot
  <2> QED
    BY <1>1, <2>1, <2>2, <2>3, <2>4, <1>s, <1>t DEF boot
<1>2. CASE timer_switch
  BY <1>2, <1>v, ProcessAssumption DEF timer_switch
<1>3. CASE timer_stay
  BY <1>3, <1>u, <1>w, ProcessAssumption DEF timer_stay
<1>4. CASE nested_tick_switch
  <2>1. At("kernel") \in Regs /\ At("kernel").at = "kernel"
    BY <1>a DEF Points
  <2>2. state[current_proc] \in Schedulable
    BY <1>4, CallerIsAlive DEF nested_tick_switch, IInv, CallInProgress
  <2>3. SameLives
    BY <1>4, <1>y DEF nested_tick_switch
  <2> QED
    BY <1>4, <2>1, <2>2, <2>3, <1>s, <1>t DEF nested_tick_switch
<1>5. CASE nested_tick_stay
  <2>1. cpu.at = "ecall"
    BY <1>5 DEF nested_tick_stay, IInv, CallInProgress
  <2> QED
    BY <1>5, <2>1, <1>w DEF nested_tick_stay
<1>6. CASE UserStep \/ (\E s \in Calls : Wrapper(s))
  <2>1. /\ mode = "user" /\ mode' = "user" /\ cpu.at # "kernel"
        /\ UNCHANGED <<state, tf, current_proc, process_count>>
    BY <1>6 DEF UserStep, Wrapper, Load
  <2> QED
    BY <2>1, <1>q, <1>u DEF InUse
<1>7. CASE UserFault
  <2>1. /\ mode = "user" /\ mode' = "panic" /\ cpu' = cpu
        /\ UNCHANGED <<state, tf, current_proc, process_count>>
    BY <1>7 DEF UserFault
  <2> QED
    BY <2>1, <1>q, <1>u DEF InUse
\* A system call that touches neither the table nor the frames.
<1>e. ASSUME mode \in {"user", "reading", "reaped"}, cpu.at = "ecall",
             mode' \notin {"freed"},
             UNCHANGED <<state, tf, current_proc, process_count>>
      PROVE  CountInv'
  <2>1. current_proc \notin Caught
    BY <1>e, <1>b, <1>t DEF Caught, KernelFrames
  <2> QED
    BY <1>e, <2>1, <1>q DEF InUse
<1>8. CASE sys_fork_fail \/ sys_exec_fault \/ sys_exec_fail \/ sys_wait_fault \/ Read
  BY <1>8, <1>e DEF sys_fork_fail, sys_exec_fault, sys_exec_fail, sys_wait_fault, Read,
                    sys_read_invalid, sys_read_poll, KernelFault, Return, Ecall
<1>9. CASE sys_wait_return \/ sys_read_newline
  <2>1. cpu.at = "ecall"
    BY <1>9 DEF sys_wait_return, sys_read_newline, IInv, CallInProgress
  <2> QED
    BY <1>9, <2>1, <1>e DEF sys_wait_return, sys_read_newline, Return
<1>10. CASE sys_fork
  <2> DEFINE child == Min(FreeSlots)
  <2>1. child \in Procs /\ state[child] = "UNUSED"
    BY <1>10, TakenSlot DEF sys_fork
  <2>2. /\ state' = [state EXCEPT ![child] = "RUNNABLE"]
        /\ tf' = [tf EXCEPT ![child] = Returned(cpu, 0)]
        /\ cpu' = Returned(cpu, Pid(child)) /\ mode' = "user"
        /\ process_count' = process_count + 1
        /\ current_proc' = current_proc
        /\ mode = "user" /\ cpu.at = "ecall"
    BY <1>10 DEF sys_fork, Return, Ecall
  <2> HIDE DEF child
  <2>3. Returned(cpu, 0).at = "ret" /\ cpu'.at = "ret"
    BY <2>1, <2>2, <1>p, <1>z
  <2>4. tf[child].at # "kernel" /\ tf'[child].at # "kernel"
    BY <2>1, <2>2, <2>3, <1>b, <1>t DEF KernelFrames
  <2>5. \A p \in Procs : p # child => tf'[p] = tf[p] /\ state'[p] = state[p]
    BY <2>2, <1>t
  <2>6. Caught' = Caught
    BY <2>2, <2>3, <2>4, <2>5, <1>t DEF Caught
  <2>7. KernelFrames'
    BY <2>2, <2>4, <2>5, <1>b DEF KernelFrames
  <2>8. InUse' = InUse \cup {child} /\ child \notin InUse
    BY <2>1, <2>2, <1>t DEF InUse
  <2>9. Cardinality(InUse') = Cardinality(InUse) + 1
    BY <2>8, <1>f, FS_AddElement
  <2> QED
    BY <2>2, <2>6, <2>7, <2>9, <1>b, <1>f, <1>t DEF CountInv, CountMatches
<1>11. ASSUME NEW n \in Argcs, sys_exec_switch(n)
       PROVE  CountInv'
  <2>1. /\ yield_switch(Execed, [tf EXCEPT ![current_proc] = At("entry")], process_count)
        /\ mode = "user" /\ cpu.at = "ecall" /\ process_count' = process_count
    BY <1>11 DEF sys_exec_switch, Reset, Ecall
  <2>2. At("entry") \in Regs /\ At("entry").at # "kernel"
    BY <1>a DEF Points
  <2>3. state[current_proc] \in Schedulable
    BY <2>1, CallerIsAlive
  <2>4. /\ Execed \in [Procs -> States]
        /\ \A p \in Procs : p # current_proc => Execed[p] = state[p]
        /\ \A p \in Procs : Execed[p] = "RUNNING" => p = current_proc
        /\ \A p \in Procs : /\ state[p] \in Schedulable <=> Execed[p] \in Schedulable
                            /\ state[p] \notin Schedulable => Execed[p] = state[p]
    BY <2>3, <1>t DEF Execed, States, Schedulable, IInv, RunningIsCurrent
  <2>5. SameLives
    BY <2>1, <2>4, <1>t, YieldKeepsLives
  <2> QED
    BY <2>1, <2>2, <2>4, <2>5, <1>s, <1>u
<1>12. ASSUME NEW n \in Argcs, sys_exec_stay(n)
       PROVE  CountInv'
  BY <1>12, <1>u, <1>w DEF sys_exec_stay, Ecall
<1>13. CASE sys_exit
  <2>1. /\ state' = [state EXCEPT ![current_proc] = "ZOMBIE"]
        /\ UNCHANGED <<tf, current_proc, process_count>>
        /\ mode = "user" /\ mode' = "user" /\ cpu.at = "ecall"
    BY <1>13 DEF sys_exit, Ecall
  <2>2. InUse' = InUse
    BY <2>1, <1>t DEF InUse, IInv, ZombieOnlySpins
  <2> QED
    BY <2>1, <2>2, <1>t, <1>q, <1>u
<1>14. CASE sys_yield_switch \/ sys_wait_switch
  BY <1>14, <1>v DEF sys_yield_switch, sys_wait_switch, Ecall
<1>15. CASE sys_read_char_switch
  <2>1. cpu.at = "ecall"
    BY <1>15 DEF sys_read_char_switch, IInv, CallInProgress
  <2> QED
    BY <1>15, <2>1, <1>v DEF sys_read_char_switch
<1>16. CASE sys_yield_stay \/ sys_wait_stay
  BY <1>16, <1>u, <1>w DEF sys_yield_stay, sys_wait_stay, Ecall, Return
<1>17. CASE sys_read_char_stay
  <2>1. cpu.at = "ecall"
    BY <1>17 DEF sys_read_char_stay, IInv, CallInProgress
  <2> QED
    BY <1>17, <2>1, <1>u, <1>w DEF sys_read_char_stay, Return
<1>18. CASE sys_wait_found
  <2> DEFINE p == Min(Zombies)
  <2>1. p \in Procs /\ state[p] = "ZOMBIE"
    BY <1>18, MinIsElement, ProcessAssumption DEF sys_wait_found, Zombies, Procs
  <2>2. /\ tf' = [tf EXCEPT ![p] = NoFrame]
        /\ mode = "user" /\ mode' = "reap"
        /\ UNCHANGED <<state, current_proc, process_count, cpu>>
    BY <1>18 DEF sys_wait_found, Ecall
  <2> HIDE DEF p
  <2>3. NoFrame.at = "null"
    BY <1>a DEF NoFrame, Points
  <2>4. \A q \in Procs : tf'[q].at = "kernel" <=> tf[q].at = "kernel"
    BY <2>1, <2>2, <2>3, <1>b, <1>t DEF KernelFrames
  <2>5. Caught' = Caught /\ KernelFrames' /\ InUse' = InUse
    BY <2>2, <2>4, <1>b DEF Caught, KernelFrames, InUse
  <2> QED
    BY <2>2, <2>5, <1>c
<1>19. CASE free_proc
  <2>1. /\ state' = [state EXCEPT ![reaping] = "UNUSED"]
        /\ mode = "reap" /\ mode' = "freed"
        /\ UNCHANGED <<tf, current_proc, process_count, cpu>>
    BY <1>19 DEF free_proc
  <2>2. reaping \in Procs /\ state[reaping] = "ZOMBIE" /\ cpu.at = "ecall"
    BY <2>1 DEF IInv, CallInProgress
  <2>3. InUse' = InUse \ {reaping} /\ reaping \in InUse
    BY <2>1, <2>2, <1>t DEF InUse
  <2>4. Cardinality(InUse') = Cardinality(InUse) - 1
    BY <2>3, <1>f, FS_RemoveElement
  <2>5. Caught' = Caught \cup {current_proc} /\ current_proc \notin Caught
    BY <2>1, <2>2, <1>b, <1>t DEF Caught, KernelFrames
  <2>6. Cardinality(Caught') = Cardinality(Caught) + 1
    BY <2>5, <1>f, FS_AddElement
  <2>7. KernelFrames'
    BY <2>1, <2>2, <1>b, <1>t DEF KernelFrames
  <2> QED
    BY <2>1, <2>4, <2>6, <2>7, <1>b, <1>f, <1>t DEF CountInv, CountMatches
<1>20. CASE free_proc_count
  <2>1. /\ mode = "freed" /\ mode' = "reaped" /\ process_count' = process_count - 1
        /\ UNCHANGED <<state, tf, current_proc, cpu>>
    BY <1>20 DEF free_proc_count
  <2>2. cpu.at = "ecall"
    BY <2>1 DEF IInv, CallInProgress
  <2>3. Caught' = Caught \ {current_proc} /\ current_proc \in Caught
    BY <2>1, <2>2, <1>b, <1>t DEF Caught, KernelFrames
  <2>4. Cardinality(Caught') = Cardinality(Caught) - 1
    BY <2>3, <1>f, FS_RemoveElement
  <2>5. KernelFrames' /\ InUse' = InUse
    BY <2>1, <1>b DEF KernelFrames, InUse
  <2>6. Cardinality(InUse) + 1 <= process_count
    BY <2>1 DEF CountInv
  <2> QED
    BY <2>1, <2>4, <2>5, <2>6, <1>b, <1>f, <1>t DEF CountInv, CountMatches
<1>21. CASE UNCHANGED vars
  <2>1. InUse' = InUse /\ Caught' = Caught
    BY <1>21 DEF vars, InUse, Caught
  <2> QED
    BY <1>21, <2>1 DEF vars, CountInv, CountMatches, KernelFrames
<1> QED
  BY <1>1, <1>2, <1>3, <1>4, <1>5, <1>6, <1>7, <1>8, <1>9, <1>10, <1>11, <1>12, <1>13,
     <1>14, <1>15, <1>16, <1>17, <1>18, <1>19, <1>20, <1>21
     DEF Next, Timer, Nested, Kernel, Input, Exec, Wait

\* process_count is never below the number of slots in use, and above it by at most
\* one for each process that a tick caught inside sys_wait(), wherever ticks strike,
\* between free_proc()'s two writes too.
THEOREM CountIsBounded == Spec => []CountMatches
<1>1. Init => CountInv
  <2> SUFFICES ASSUME Init PROVE CountInv
    OBVIOUS
  <2>1. InUse = {0} \cup {1}
    BY ProcessAssumption DEF Init, InUse, Procs, idle_proc, shell
  <2>2. Cardinality({0} \cup {1}) = 2
    <3> DEFINE S == {0}
    <3>1. IsFiniteSet(S) /\ Cardinality(S) = 1
      BY FS_Singleton, Zenon
    <3>2. 1 \notin S
      OBVIOUS
    <3> HIDE DEF S
    <3>3. Cardinality(S \cup {1}) = 2
      BY <3>1, <3>2, FS_AddElement
    <3> QED
      BY <3>3 DEF S
  <2>3. At("entry").at = "entry" /\ NoFrame.at = "null"
    BY AtRegs DEF NoFrame, Points
  <2>4. \A p \in Procs : tf[p].at # "kernel"
    BY <2>3 DEF Init
  <2>5. Caught = {}
    BY <2>3, <2>4 DEF Init, Caught
  <2>6. Cardinality(Caught) = 0
    BY <2>5, FS_EmptySet
  <2> QED
    BY <2>1, <2>2, <2>4, <2>6 DEF Init, CountInv, CountMatches, KernelFrames
<1>2. CountInv => CountMatches
  BY DEF CountInv
<1> QED
  BY <1>1, <1>2, InitIInv, NextIInv, NextCountInv, PTL DEF Spec

-----------------------------------------------------------------------------
(* What wait reports and what fork returns                                  *)

\* The int a process passes to wait() is untouched while it is at an ecall or in
\* its code; in sys_wait() it holds the child's exit code or is untouched.
StatusFresh ==
    /\ \A p \in Procs : p # current_proc /\ tf[p].at \in {"code", "ecall"}
                           => wstatus[p] = NoStatus
    /\ mode \in {"user", "reading"} /\ cpu.at \in {"code", "ecall"}
          => wstatus[current_proc] = NoStatus
    /\ StatusOfReaped

\* A switch keeps StatusFresh when the frames it saves keep it.
LEMMA SwitchStatus ==
    ASSUME NEW st \in [Procs -> States], NEW frames \in [Procs -> Regs], NEW count,
           current_proc \in Procs, argc \in [Procs -> Nat],
           \A p \in Procs : frames[p].at \in {"code", "ecall"} => wstatus'[p] = NoStatus,
           yield_switch(st, frames, count)
    PROVE  StatusFresh'
  BY SwitchFrames DEF StatusFresh, StatusOfReaped

\* Every step keeps the status fresh: it is written by sys_wait_found() only, on the
\* way to a return after which the program reads it.
LEMMA NextStatusFresh ==
    ASSUME IInv, StatusFresh, [Next]_vars
    PROVE  StatusFresh'
<1>t. /\ state \in [Procs -> States] /\ tf \in [Procs -> Regs] /\ cpu \in Regs
      /\ mode \in Modes /\ current_proc \in Procs /\ argc \in [Procs -> Nat]
      /\ wstatus \in [Procs -> Int]
  BY DEF IInv, TypeOK
<1>n. IInv'
  BY NextIInv
<1>a. \A w \in Points : At(w) \in Regs /\ At(w).at = w
  BY AtRegs
<1>z. \A v \in Int : Returned(cpu, v).at = "ret"
  BY <1>t, ReturnedRegs
<1>p. \A p \in Procs \cup {NoProc} : Pid(p) \in Int
  BY ProcessAssumption DEF Pid, Procs, NoProc, idle_proc
\* The trap that leads to the switch was taken in user mode or while reading.
<1>s. ASSUME mode \in {"user", "reading"}, wstatus' = wstatus,
             yield_switch(state, Saved, process_count)
      PROVE  StatusFresh'
  <2>1. Saved \in [Procs -> Regs]
    BY SavedFrames
  <2>2. \A p \in Procs : Saved[p].at \in {"code", "ecall"} => wstatus'[p] = NoStatus
    BY <1>s, <1>t DEF Saved, StatusFresh
  <2> QED
    BY <1>s, <1>t, <2>1, <2>2, SwitchStatus
\* A step that touches neither a frame nor the status of another process.
<1>q. ASSUME UNCHANGED <<tf, current_proc>>,
             \A p \in Procs : p # current_proc => wstatus'[p] = wstatus[p],
             mode' \notin {"reap", "freed", "reaped"},
             mode' \in {"user", "reading"} /\ cpu'.at \in {"code", "ecall"}
                => wstatus'[current_proc] = NoStatus
      PROVE  StatusFresh'
  BY <1>q DEF StatusFresh, StatusOfReaped
<1>1. CASE boot
  <2>1. current_proc = idle_proc /\ tf[idle_proc].at = "entry"
    BY <1>1 DEF boot, IInv, IdleStays
  <2>2. \A p \in Procs : tf[p].at \in {"code", "ecall"} => wstatus'[p] = NoStatus
    BY <1>1, <2>1 DEF boot, StatusFresh
  <2> QED
    BY <1>1, <1>t, <2>2, SwitchStatus DEF boot
<1>2. CASE Timer
  <2>1. CASE timer_switch
    BY <2>1, <1>s DEF timer_switch
  <2>2. CASE timer_stay
    BY <2>2, <1>q DEF timer_stay, yield_stay, StatusFresh
  <2> QED
    BY <1>2, <2>1, <2>2 DEF Timer
<1>3. CASE nested_tick_switch
  <2> DEFINE frames == [tf EXCEPT ![current_proc] = At("kernel")]
  <2>1. frames \in [Procs -> Regs]
    BY <1>t, <1>a DEF Points
  <2>2. \A p \in Procs : frames[p].at \in {"code", "ecall"} => wstatus'[p] = NoStatus
    BY <1>3, <1>t, <1>a DEF nested_tick_switch, StatusFresh, Points
  <2>3. yield_switch(state, frames, process_count)
    BY <1>3 DEF nested_tick_switch
  <2> HIDE DEF frames
  <2> QED
    BY <2>1, <2>2, <2>3, <1>t, SwitchStatus
<1>4. CASE nested_tick_stay
  BY <1>4, <1>q DEF nested_tick_stay, yield_stay
<1>5. CASE UserStep
  BY <1>5, <1>t, <1>q DEF UserStep
<1>6. ASSUME NEW s \in Calls, Wrapper(s)
      PROVE  StatusFresh'
  <2>1. ASSUME NEW a0, NEW a1, Load(s, a0, a1)
        PROVE  StatusFresh'
    BY <2>1, <1>q DEF Load, StatusFresh
  <2> QED
    BY <1>6, <2>1 DEF Wrapper
<1>7. CASE UserFault \/ sys_exec_fault \/ sys_wait_fault
  BY <1>7, <1>q DEF UserFault, sys_exec_fault, sys_wait_fault, KernelFault
\* A system call that returns at once.
<1>v. ASSUME NEW v \in Int, Return(v), UNCHANGED <<tf, current_proc, wstatus>>
      PROVE  StatusFresh'
  BY <1>v, <1>z, <1>q DEF Return
<1>8. CASE sys_fork_fail \/ sys_exec_fail \/ sys_read_invalid \/ sys_read_newline
  BY <1>8, <1>v DEF sys_fork_fail, sys_exec_fail, sys_read_invalid, sys_read_newline
<1>9. CASE sys_fork
  <2> DEFINE child == Min(FreeSlots)
  <2>1. child \in Procs /\ state[child] = "UNUSED"
    BY <1>9, TakenSlot DEF sys_fork
  <2>2. /\ tf' = [tf EXCEPT ![child] = Returned(cpu, 0)]
        /\ wstatus' = [wstatus EXCEPT ![child] = wstatus[current_proc]]
        /\ cpu' = Returned(cpu, Pid(child)) /\ mode' = "user"
        /\ current_proc' = current_proc
    BY <1>9 DEF sys_fork, Return
  <2> HIDE DEF child
  <2>3. cpu'.at = "ret" /\ Returned(cpu, 0).at = "ret"
    BY <2>1, <2>2, <1>p, <1>z
  <2> QED
    BY <2>1, <2>2, <2>3, <1>t DEF StatusFresh, StatusOfReaped
<1>10. ASSUME NEW n \in Argcs, sys_exec_switch(n)
       PROVE  StatusFresh'
  <2>1. /\ yield_switch(Execed, Reset, process_count)
        /\ wstatus' = [wstatus EXCEPT ![current_proc] = NoStatus]
    BY <1>10 DEF sys_exec_switch
  <2>2. Execed \in [Procs -> States] /\ Reset \in [Procs -> Regs]
    BY <1>t, <1>a DEF Execed, Reset, States, Points
  <2>3. \A p \in Procs : Reset[p].at \in {"code", "ecall"} => wstatus'[p] = NoStatus
    BY <2>1, <1>t DEF Reset, StatusFresh
  <2> QED
    BY <2>1, <2>2, <2>3, <1>t, SwitchStatus
<1>11. ASSUME NEW n \in Argcs, sys_exec_stay(n)
       PROVE  StatusFresh'
  BY <1>11, <1>t, <1>q DEF sys_exec_stay, yield_stay, Ecall
<1>12. CASE sys_exit
  <2>1. cpu'.at = "spin"
    BY <1>12, <1>a DEF sys_exit, Points
  <2> QED
    BY <1>12, <2>1, <1>q DEF sys_exit, Ecall
<1>13. CASE sys_yield_switch \/ sys_wait_switch \/ sys_read_char_switch
  BY <1>13, <1>s DEF sys_yield_switch, sys_wait_switch, sys_read_char_switch, Ecall
<1>14. CASE sys_yield_stay \/ sys_read_char_stay
  BY <1>14, <1>v DEF sys_yield_stay, sys_read_char_stay, yield_stay
<1>15. CASE sys_wait_stay
  BY <1>15, <1>q DEF sys_wait_stay, yield_stay
<1>16. CASE sys_wait_found
  <2> DEFINE p == Min(Zombies)
  <2>1. p \in Procs /\ state[p] = "ZOMBIE"
    BY <1>16, MinIsElement, ProcessAssumption DEF sys_wait_found, Zombies, Procs
  <2>2. /\ wstatus' \in {wstatus, [wstatus EXCEPT ![current_proc] = exit_code[p]]}
        /\ tf' = [tf EXCEPT ![p] = NoFrame]
        /\ reaping' = p /\ mode' = "reap"
        /\ UNCHANGED <<exit_code, current_proc, cpu>>
    BY <1>16 DEF sys_wait_found
  <2>3. wstatus[current_proc] = NoStatus
    BY <1>16 DEF sys_wait_found, Ecall, StatusFresh
  <2> HIDE DEF p
  <2>4. NoFrame.at = "null"
    BY <1>a DEF NoFrame, Points
  <2>5. wstatus'[current_proc'] \in {NoStatus, exit_code'[reaping']}
    BY <2>2, <2>3, <1>t
  <2>6. \A q \in Procs : q # current_proc' /\ tf'[q].at \in {"code", "ecall"}
                            => wstatus'[q] = NoStatus
    BY <2>1, <2>2, <2>4, <1>t DEF StatusFresh
  <2> QED
    BY <2>2, <2>5, <2>6 DEF StatusFresh, StatusOfReaped
<1>17. CASE free_proc \/ free_proc_count
  BY <1>17 DEF free_proc, free_proc_count, StatusFresh, StatusOfReaped
<1>18. CASE sys_wait_return
  <2>1. reaping \in Procs \cup {NoProc}
    BY DEF IInv, TypeOK
  <2> QED
    BY <1>18, <2>1, <1>p, <1>v DEF sys_wait_return
<1>19. CASE sys_read_poll
  BY <1>19, <1>q DEF sys_read_poll, Ecall, StatusFresh
<1>20. CASE UNCHANGED vars
  BY <1>20 DEF vars, StatusFresh, StatusOfReaped
<1> QED
  BY <1>1, <1>2, <1>3, <1>4, <1>5, <1>6, <1>7, <1>8, <1>9, <1>10, <1>11, <1>12, <1>13,
     <1>14, <1>15, <1>16, <1>17, <1>18, <1>19, <1>20
     DEF Next, Nested, Kernel, Input, Exec, Wait, Read

\* What wait() reports is the exit code of the child whose pid it returns, or
\* nothing: whatever was interrupted, restarted or reaped in between.
THEOREM ReportsReaped == Spec => []StatusOfReaped
<1>1. Init => StatusFresh
  <2> SUFFICES ASSUME Init PROVE StatusFresh
    OBVIOUS
  <2> QED
    BY DEF Init, StatusFresh, StatusOfReaped
<1>2. StatusFresh => StatusOfReaped
  BY DEF StatusFresh
<1> QED
  BY <1>1, <1>2, InitIInv, NextIInv, NextStatusFresh, PTL DEF Spec

\* A child that has not returned from fork yet is alive and behind the ecall, its
\* argument count, which user_return() puts into a0, is 0, and on the hart a0 is 0.
ForkPending ==
    \A p \in forked :
        /\ state[p] \in Schedulable /\ argc[p] = 0
        /\ p # current_proc => tf[p].at = "ret" /\ tf[p].sys = "fork"
        /\ p = current_proc => cpu.at = "ret" /\ cpu.sys = "fork" /\ cpu.a0 = 0

\* Every step keeps ForkPending, wherever the timer strikes.
LEMMA NextForkPending ==
    ASSUME IInv, ForkPending, [Next]_vars
    PROVE  ForkPending'
<1>t. /\ state \in [Procs -> States] /\ tf \in [Procs -> Regs] /\ cpu \in Regs
      /\ mode \in Modes /\ current_proc \in Procs /\ argc \in [Procs -> Nat]
      /\ forked \subseteq Procs
  BY DEF IInv, TypeOK
<1>i. idle_proc \in Procs /\ state[idle_proc] \in Schedulable
  BY ProcessAssumption DEF IInv, IdleStays, idle_proc, Procs
<1>a. \A w \in Points : At(w) \in Regs /\ At(w).at = w
  BY AtRegs
<1>h. cpu.at # "ret" => current_proc \notin forked
  BY DEF ForkPending
\* A child that has not returned from fork stays alive.
<1>l. \A p \in forked : state'[p] \in Schedulable
  <2> SUFFICES ASSUME NEW p \in forked PROVE state'[p] \in Schedulable
    OBVIOUS
  <2>1. p \in Procs /\ state[p] \in Schedulable
    BY <1>t DEF ForkPending
  <2>2. cpu.at = "ecall" => p # current_proc
    BY <1>h
  <2> QED
    BY <2>1, <2>2, <1>t, StepKinds DEF SameLives, Moves, Schedulable
\* A switch loads the frame of whom it picks, with argc in a0.
<1>s. ASSUME NEW st \in [Procs -> States], NEW frame \in Regs,
             yield_switch(st, [tf EXCEPT ![current_proc] = frame], process_count),
             current_proc \in forked => frame = cpu,
             forked' = forked,
             \A p \in Procs : argc'[p] = argc[p] \/ (p = current_proc /\ p \notin forked)
      PROVE  ForkPending'
  <2> DEFINE frames == [tf EXCEPT ![current_proc] = frame]
  <2>1. /\ frames \in [Procs -> Regs]
        /\ frames[current_proc] = frame
        /\ \A p \in Procs : p # current_proc => frames[p] = tf[p]
    BY <1>s, <1>t
  <2>2. yield_switch(st, frames, process_count)
    BY <1>s
  <2> HIDE DEF frames
  <2>3. /\ current_proc' \in Procs
        /\ cpu'.at = frames[current_proc'].at
        /\ cpu'.sys = frames[current_proc'].sys
        /\ cpu'.a0 = argc[current_proc']
        /\ \A p \in Procs : p # current_proc' => tf'[p] = frames[p]
    BY <2>1, <2>2, <1>t, SwitchFrames
  <2>4. \A p \in forked : /\ frames[p].at = "ret" /\ frames[p].sys = "fork"
                          /\ argc[p] = 0 /\ argc'[p] = 0 /\ p \in Procs
    BY <1>s, <1>t, <2>1 DEF ForkPending
  <2> QED
    BY <1>s, <1>l, <2>3, <2>4 DEF ForkPending
\* A step that saves no frame and is not one of a child behind fork.
<1>q. ASSUME UNCHANGED <<tf, current_proc, forked>>,
             \A p \in forked : argc'[p] = argc[p],
             current_proc \notin forked \/ cpu' = cpu
      PROVE  ForkPending'
  BY <1>q, <1>l DEF ForkPending
<1>1. CASE boot
  <2>1. current_proc = idle_proc /\ tf[idle_proc].at = "entry" /\ cpu.at = "entry"
    BY <1>1 DEF boot, IInv, IdleStays
  <2>2. current_proc \notin forked /\ tf[current_proc] \in Regs
    BY <2>1, <1>h, <1>t
  <2>3. tf = [tf EXCEPT ![current_proc] = tf[current_proc]]
    BY <1>t
  <2> QED
    BY <1>1, <2>2, <2>3, <1>s, <1>t DEF boot
<1>2. CASE Timer
  <2>1. CASE timer_switch
    BY <2>1, <1>s, <1>t DEF timer_switch, Saved
  <2>2. CASE timer_stay
    BY <2>2, <1>q DEF timer_stay, yield_stay
  <2> QED
    BY <1>2, <2>1, <2>2 DEF Timer
<1>3. CASE nested_tick_switch
  <2>1. current_proc \notin forked
    BY <1>3, <1>h DEF nested_tick_switch, IInv, CallInProgress
  <2>2. At("kernel") \in Regs
    BY <1>a DEF Points
  <2> QED
    BY <1>3, <2>1, <2>2, <1>s, <1>t DEF nested_tick_switch
<1>4. CASE nested_tick_stay
  BY <1>4, <1>q DEF nested_tick_stay, yield_stay
<1>5. CASE UserStep
  <2>1. forked' \subseteq forked /\ current_proc \notin forked'
    BY <1>5 DEF UserStep, ForkPending
  <2>2. UNCHANGED <<tf, current_proc, argc>>
    BY <1>5 DEF UserStep
  <2> QED
    BY <2>1, <2>2, <1>l DEF ForkPending
<1>6. ASSUME NEW s \in Calls, Wrapper(s)
      PROVE  ForkPending'
  <2>1. ASSUME NEW a0, NEW a1, Load(s, a0, a1)
        PROVE  ForkPending'
    BY <2>1, <1>h, <1>q DEF Load
  <2> QED
    BY <1>6, <2>1 DEF Wrapper
<1>7. CASE UserFault \/ sys_exec_fault \/ sys_wait_fault
  BY <1>7, <1>q DEF UserFault, sys_exec_fault, sys_wait_fault, KernelFault
<1>8. CASE sys_fork_fail \/ sys_exec_fail \/ Read
  BY <1>8, <1>h, <1>q
     DEF sys_fork_fail, sys_exec_fail, Read, sys_read_invalid, sys_read_poll, Ecall
<1>9. CASE sys_read_newline \/ sys_read_char_stay
  <2>1. cpu.at = "ecall"
    BY <1>9 DEF sys_read_newline, sys_read_char_stay, IInv, CallInProgress
  <2> QED
    BY <1>9, <2>1, <1>h, <1>q DEF sys_read_newline, sys_read_char_stay, yield_stay
<1>10. CASE sys_fork
  <2> DEFINE child == Min(FreeSlots)
  <2>1. child \in Procs /\ state[child] = "UNUSED"
    BY <1>10, TakenSlot DEF sys_fork
  <2>2. /\ state' = [state EXCEPT ![child] = "RUNNABLE"]
        /\ argc' = [argc EXCEPT ![child] = 0]
        /\ tf' = [tf EXCEPT ![child] = Returned(cpu, 0)]
        /\ forked' = forked \cup {child}
        /\ current_proc' = current_proc
        /\ cpu.at = "ecall" /\ cpu.sys = "fork"
    BY <1>10 DEF sys_fork, Ecall
  <2> HIDE DEF child
  <2>3. current_proc # child /\ current_proc \notin forked
    BY <2>1, <2>2, <1>h, CallerIsAlive DEF Schedulable
  <2>4. Returned(cpu, 0).at = "ret" /\ Returned(cpu, 0).sys = "fork"
    BY <2>2, <1>t DEF Returned, Regs
  <2>5. \A p \in Procs : p # child => tf'[p] = tf[p] /\ argc'[p] = argc[p]
    BY <2>2, <1>t
  <2>6. /\ tf'[child].at = "ret" /\ tf'[child].sys = "fork" /\ argc'[child] = 0
        /\ state'[child] \in Schedulable
    BY <2>1, <2>2, <2>4, <1>t DEF Schedulable
  <2> QED
    BY <2>2, <2>3, <2>5, <2>6, <1>l, <1>t DEF ForkPending
<1>11. ASSUME NEW n \in Argcs, sys_exec_switch(n)
       PROVE  ForkPending'
  <2>1. /\ yield_switch(Execed, [tf EXCEPT ![current_proc] = At("entry")], process_count)
        /\ argc' = [argc EXCEPT ![current_proc] = n]
        /\ forked' = forked /\ cpu.at = "ecall"
    BY <1>11 DEF sys_exec_switch, Reset, Ecall
  <2>2. Execed \in [Procs -> States] /\ At("entry") \in Regs /\ current_proc \notin forked
    BY <2>1, <1>h, <1>a, <1>t DEF Execed, States, Points
  <2>3. \A p \in Procs : argc'[p] = argc[p] \/ p = current_proc
    BY <2>1, <1>t
  <2> QED
    BY <2>1, <2>2, <2>3, <1>s
<1>12. ASSUME NEW n \in Argcs, sys_exec_stay(n)
       PROVE  ForkPending'
  <2>1. current_proc \notin forked
    BY <1>12, <1>h DEF sys_exec_stay, Ecall
  <2>2. \A p \in forked : argc'[p] = argc[p]
    BY <1>12, <2>1, <1>t DEF sys_exec_stay
  <2> QED
    BY <1>12, <2>1, <2>2, <1>q DEF sys_exec_stay, yield_stay
<1>13. CASE sys_exit
  BY <1>13, <1>h, <1>q DEF sys_exit, Ecall
<1>14. CASE sys_yield_switch \/ sys_wait_switch \/ sys_read_char_switch
  BY <1>14, <1>s, <1>t DEF sys_yield_switch, sys_wait_switch, sys_read_char_switch, Saved
<1>15. CASE sys_yield_stay \/ sys_wait_stay
  BY <1>15, <1>h, <1>q DEF sys_yield_stay, sys_wait_stay, yield_stay, Ecall
<1>16. CASE sys_wait_found
  <2> DEFINE p == Min(Zombies)
  <2>1. p \in Procs /\ state[p] = "ZOMBIE"
    BY <1>16, MinIsElement, ProcessAssumption DEF sys_wait_found, Zombies, Procs
  <2>2. /\ tf' = [tf EXCEPT ![p] = NoFrame] /\ cpu.at = "ecall"
        /\ UNCHANGED <<argc, current_proc, cpu, forked>>
    BY <1>16 DEF sys_wait_found, Ecall
  <2> HIDE DEF p
  <2>3. p \notin forked /\ \A q \in Procs : q # p => tf'[q] = tf[q]
    BY <2>1, <2>2, <1>t DEF ForkPending, Schedulable
  <2> QED
    BY <2>2, <2>3, <1>l, <1>t DEF ForkPending
<1>17. CASE free_proc
  BY <1>17, <1>q DEF free_proc
<1>18. CASE free_proc_count
  <2>1. \A p \in forked : argc'[p] = argc[p]
    BY <1>18, <1>t DEF free_proc_count, ForkPending
  <2> QED
    BY <1>18, <2>1, <1>q DEF free_proc_count
<1>19. CASE sys_wait_return
  <2>1. cpu.at = "ecall"
    BY <1>19 DEF sys_wait_return, IInv, CallInProgress
  <2> QED
    BY <1>19, <2>1, <1>h, <1>q DEF sys_wait_return
<1>20. CASE UNCHANGED vars
  BY <1>20 DEF vars, ForkPending
<1> QED
  BY <1>1, <1>2, <1>3, <1>4, <1>5, <1>6, <1>7, <1>8, <1>9, <1>10, <1>11, <1>12, <1>13,
     <1>14, <1>15, <1>16, <1>17, <1>18, <1>19, <1>20
     DEF Next, Nested, Kernel, Input, Exec, Wait

\* The child reads 0 when it returns from fork(), wherever ticks strike and whoever had
\* its slot before: the half of fork's contract that the code keeps.
THEOREM ChildReadsZero == Spec => []ChildToldZero
<1>1. Init => ForkPending
  BY DEF Init, ForkPending
<1>2. ForkPending => ChildToldZero
  BY DEF ForkPending, ChildToldZero
<1> QED
  BY <1>1, <1>2, InitIInv, NextIInv, NextForkPending, PTL DEF Spec

-----------------------------------------------------------------------------
(* The booted system (module ShellSystem): it is a run of module Process,   *)
(* so everything above holds in it, and the shell's loop keeps the kernel   *)
(* away from states that Process reaches with arbitrary programs.           *)
(*                                                                          *)
(* The invariant follows two processes, shell and its one command, up to    *)
(* the first fatal tick.  Each is resting (where a switch may leave it) or  *)
(* calling (on the hart, where yield() does not switch or a switch would be *)
(* fatal).                                                                  *)

\* The slot of the shell's child: the first one that is free after boot.
command == 2

Alone == state[command] = "UNUSED"

\* The registers of a process, on the hart or saved.
Frame(p) == IF p = current_proc THEN cpu ELSE tf[p]

\* Slots behind the command's are never taken.
TableShape ==
    /\ \A p \in Procs : p > command => state[p] = "UNUSED"
    /\ state[shell] \in Schedulable
    /\ process_count = IF Alone /\ mode # "freed" THEN 2 ELSE 3
    /\ ~Alone => parent[command] = shell
    /\ parent[shell] = idle_proc
    /\ argc[shell] = 0

\* At the ecall of system call s.
Calling(f, s) == f.at = "ecall" /\ f.sys = s

\* Where a switch may leave the shell.  It has a child exactly from fork to the end
\* of wait, and only wait is restarted.
ShellResting(f) ==
    \/ upc[shell] = "prompt" /\ Alone /\ f.at \in {"entry", "code"}
    \/ upc[shell] = "line" /\ Alone /\ f.at = "code"
    \/ upc[shell] = "parent" /\ ~Alone /\ (f.at = "code" \/ Calling(f, "wait"))

ShellCalling ==
    /\ current_proc = shell
    /\ \/ upc[shell] = "prompt" /\ Alone /\ cpu.at \in {"ecall", "ret"} /\ cpu.sys = "read"
       \/ upc[shell] = "line" /\ Alone /\ Calling(cpu, "fork")
       \/ upc[shell] = "line" /\ ~Alone /\ cpu.at = "ret" /\ cpu.sys = "fork" /\ cpu.a0 > 0
       \/ /\ upc[shell] = "parent" /\ Alone /\ cpu.sys = "wait"
          /\ cpu.at = "ret" \/ (cpu.at = "ecall" /\ mode \in {"freed", "reaped"})

ShellPhase ==
    /\ ShellResting(Frame(shell)) \/ ShellCalling
    /\ current_proc = shell /\ Calling(cpu, "wait") => cpu.a0 \in {0, UserPtr}

\* Where a switch may leave a command that has not exited: just forked, in code, at
\* exit's ecall, or behind an exec that failed, whose result nobody reads.
CommandResting(f) ==
    \/ upc[command] = "line" /\ f.at = "ret" /\ f.sys = "fork" /\ argc[command] = 0
    \/ upc[command] \in {"child", "failed"} /\ f.at = "code"
    \/ upc[command] = "child" /\ f.at = "ret" /\ f.sys = "exec"
    \/ upc[command] = "cmd" /\ f.at \in {"entry", "code"}
    \/ upc[command] \in {"failed", "cmd"} /\ Calling(f, "exit")

CommandCalling ==
    /\ current_proc = command
    /\ upc[command] = "child" /\ Calling(cpu, "exec") /\ cpu.a0 = UserPtr

CommandPhase ==
    state[command] \in Schedulable =>
        /\ CommandResting(Frame(command)) \/ CommandCalling
        /\ current_proc = command /\ upc[command] = "line" => cpu.a0 = 0

\* The hart waits for input only in the shell's read, and is inside sys_wait only
\* for the shell's command.
ModePhase ==
    /\ mode \in {"boot", "user", "reading", "reap", "freed", "reaped"}
    /\ mode = "reading" => current_proc = shell /\ upc[shell] = "prompt"
    /\ mode \in {"reap", "freed", "reaped"} =>
          current_proc = shell /\ upc[shell] = "parent" /\ reaping = command
    /\ mode \in {"freed", "reaped"} => Alone

\* What fork returned to the shell is a pid.
NotForked == shell \notin forked

SInv ==
    /\ IInv
    /\ NotForked
    /\ upc \in [Procs -> Places]
    /\ TableShape
    /\ ShellPhase
    /\ CommandPhase
    /\ ModePhase

-----------------------------------------------------------------------------
(* The booted system is a run of the kernel with arbitrary programs         *)

\* Every step of the system is a step of module Process, or leaves its state alone.
LEMMA ShellStepIsStep == [ShellNext]_shellVars => [Next]_vars
<1> SUFFICES ASSUME [ShellNext]_shellVars PROVE [Next]_vars
  OBVIOUS
<1>1. CASE KernelStep
  BY <1>1 DEF KernelStep, Next, Kernel, Exec
<1>8. CASE TickStep \/ NestedStep
  BY <1>8 DEF TickStep, NestedStep, Next, Timer
<1>2. CASE ForkStep
  BY <1>2 DEF ForkStep, Next, Kernel
<1>3. CASE ExecStep
  BY <1>3 DEF ExecStep, Next, Kernel, Exec
<1>4. CASE Start \/ AfterRead \/ AfterFork \/ AfterExec \/ AfterWait
  BY <1>4 DEF Start, AfterRead, AfterFork, AfterExec, AfterWait, Next
<1>5. ASSUME NEW s \in Calls, ShellCall(s)
      PROVE  Next
  BY <1>5 DEF ShellCall, Next
<1>6. CASE NoCommand
  BY <1>6 DEF NoCommand
<1>7. CASE UNCHANGED shellVars
  BY <1>7 DEF shellVars
<1> QED
  BY <1>1, <1>2, <1>3, <1>4, <1>5, <1>6, <1>7, <1>8 DEF ShellNext, UserProgram

\* The system with the shell implements the kernel's specification, in which user
\* programs do what they like: what is proved there holds here.
THEOREM ShellImplementsProcess == ShellSpec => Spec
<1>1. ShellInit => Init
  BY DEF ShellInit
<1> QED
  BY <1>1, ShellStepIsStep, PTL DEF ShellSpec, Spec

-----------------------------------------------------------------------------
(* Whom yield() picks among idle, shell and command                         *)

\* The three slots the system uses.
LEMMA Slots ==
    /\ idle_proc \in Procs /\ shell \in Procs /\ command \in Procs
    /\ idle_proc # shell /\ idle_proc # command /\ shell # command
    /\ \A p \in Procs : p \in {idle_proc, shell, command} \/ p > command
  BY ProcessAssumption DEF Procs, idle_proc, shell, command

\* The process on the hart is one of the three.
LEMMA WhoRuns ==
    ASSUME SInv
    PROVE  current_proc \in {idle_proc, shell, command}
<1>1. current_proc \in Procs /\ state[current_proc] # "UNUSED"
  BY DEF SInv, IInv, TypeOK, ZombieOnlySpins
<1> QED
  BY <1>1, Slots DEF SInv, TableShape

\* The shell is picked if the rule about the caller does not exclude it.
LEMMA PicksShell ==
    ASSUME NEW st \in [Procs -> States], NEW count,
           st[shell] = "RUNNABLE", count = 2 \/ current_proc # shell
    PROVE  NextProc(st, count) = shell
<1> DEFINE C == Candidates(st, count)
<1>1. shell \in C /\ C \in SUBSET Nat
  BY Slots, ProcessAssumption DEF Candidates, Procs
<1>2. \A p \in C : p >= shell
  BY ProcessAssumption DEF Candidates, Procs, idle_proc, shell
<1>3. Min(C) \in C /\ \A y \in C : Min(C) <= y
  <2> HIDE DEF C
  <2> QED
    BY <1>1, MinIsElement
<1>4. Min(C) = shell
  BY <1>1, <1>2, <1>3 DEF shell
<1> QED
  BY <1>1, <1>4 DEF NextProc

\* With three processes the shell gives the hart to a runnable command.
LEMMA PicksCommand ==
    ASSUME NEW st \in [Procs -> States], NEW count,
           st[command] = "RUNNABLE", count # 2, current_proc = shell
    PROVE  NextProc(st, count) = command
<1> DEFINE C == Candidates(st, count)
<1>1. command \in C /\ C \in SUBSET Nat
  BY Slots, ProcessAssumption DEF Candidates, Procs
<1>2. \A p \in C : p >= command
  BY ProcessAssumption DEF Candidates, Procs, idle_proc, shell, command
<1>3. Min(C) \in C /\ \A y \in C : Min(C) <= y
  <2> HIDE DEF C
  <2> QED
    BY <1>1, MinIsElement
<1>4. Min(C) = command
  BY <1>1, <1>2, <1>3 DEF command
<1> QED
  BY <1>1, <1>4 DEF NextProc

\* While the shell is alone and on the hart, yield() returns to it.
LEMMA AloneStays ==
    ASSUME SInv, Alone, current_proc = shell, mode # "freed", NEW frames,
           yield_switch(state, frames, process_count)
    PROVE  FALSE
<1>1. state \in [Procs -> States] /\ current_proc \in Procs /\ RunningIsCurrent
  BY DEF SInv, IInv, TypeOK
<1>2. /\ Demote(state) \in [Procs -> States]
      /\ \A p \in Procs : Demote(state)[p] # "RUNNING"
      /\ \A p \in Procs : state[p] \in Schedulable <=> Demote(state)[p] \in Schedulable
  BY <1>1, DemoteLeavesNoneRunning DEF RunningIsCurrent
<1>3. Demote(state)[shell] = "RUNNABLE" /\ process_count = 2
  BY <1>2, Slots DEF SInv, TableShape, Schedulable
<1>4. NextProc(Demote(state), process_count) = shell
  BY <1>2, <1>3, PicksShell
<1> QED
  BY <1>4 DEF yield_switch

\* While both shell and command can run, yield() switches between them.
LEMMA BothSwitch ==
    ASSUME SInv, state[command] \in Schedulable, current_proc \in {shell, command},
           NEW st \in [Procs -> States],
           \A p \in Procs : /\ st[p] = "RUNNING" => p = current_proc
                            /\ state[p] \in Schedulable <=> st[p] \in Schedulable,
           yield_stay(st, process_count)
    PROVE  FALSE
<1>1. state \in [Procs -> States] /\ current_proc \in Procs
  BY DEF SInv, IInv, TypeOK
<1>2. /\ Demote(st) \in [Procs -> States]
      /\ \A p \in Procs : Demote(st)[p] # "RUNNING"
      /\ \A p \in Procs : st[p] \in Schedulable <=> Demote(st)[p] \in Schedulable
  BY <1>1, DemoteLeavesNoneRunning
<1>3. /\ Demote(st)[shell] = "RUNNABLE" /\ Demote(st)[command] = "RUNNABLE"
      /\ process_count = 3
  BY <1>2, Slots DEF SInv, TableShape, Schedulable, Alone
<1>4. NextProc(Demote(st), process_count) # current_proc
  BY <1>2, <1>3, Slots, PicksShell, PicksCommand
<1> QED
  BY <1>4 DEF yield_stay

-----------------------------------------------------------------------------
(* Steps of one shape                                                       *)

\* Scheduling does not change who is there.
LEMMA SlotsKept ==
    ASSUME SInv, SameLives, UNCHANGED <<parent, process_count>>, argc'[shell] = 0,
           mode # "freed", mode' # "freed"
    PROVE  /\ TableShape'
           /\ Alone' <=> Alone
           /\ state'[command] \in Schedulable <=> state[command] \in Schedulable
<1>1. /\ Alone' <=> Alone
      /\ state'[command] \in Schedulable <=> state[command] \in Schedulable
      /\ state'[shell] \in Schedulable <=> state[shell] \in Schedulable
      /\ \A p \in Procs : state[p] = "UNUSED" => state'[p] = "UNUSED"
  BY Slots DEF SameLives, Alone, Schedulable
<1> QED
  BY <1>1 DEF SInv, TableShape, SameLives

\* A switch keeps the invariant when shell and command are left resting.
LEMMA SwitchPhases ==
    ASSUME SInv, IInv', NotForked', SameLives, UNCHANGED <<parent, process_count>>,
           mode # "freed",
           NEW st \in [Procs -> States], NEW frames \in [Procs -> Regs],
           yield_switch(st, frames, process_count),
           upc' \in [Procs -> Places], upc'[shell] = upc[shell], argc'[shell] = 0,
           ShellResting(frames[shell]),
           state[command] \in Schedulable =>
              \/ /\ upc'[command] = "line" /\ argc[command] = 0 /\ argc'[command] = 0
                 /\ frames[command].at = "ret" /\ frames[command].sys = "fork"
              \/ upc'[command] \in {"child", "failed"} /\ frames[command].at = "code"
              \/ /\ upc'[command] = "child"
                 /\ frames[command].at = "ret" /\ frames[command].sys = "exec"
              \/ upc'[command] = "cmd" /\ frames[command].at \in {"entry", "code"}
              \/ upc'[command] \in {"failed", "cmd"} /\ Calling(frames[command], "exit")
    PROVE  SInv'
<1>1. current_proc \in Procs /\ argc \in [Procs -> Nat] /\ argc[shell] = 0
  BY DEF SInv, IInv, TypeOK, TableShape
<1>2. /\ current_proc' \in Procs
      /\ mode' = "user"
      /\ cpu'.at = frames[current_proc'].at
      /\ cpu'.sys = frames[current_proc'].sys
      /\ cpu'.a0 = argc[current_proc']
      /\ \A p \in Procs : p # current_proc' => tf'[p] = frames[p]
  BY <1>1, SwitchFrames
<1>3. \A p \in Procs : Frame(p)'.at = frames[p].at /\ Frame(p)'.sys = frames[p].sys
  BY <1>2 DEF Frame
<1>4. /\ TableShape'
      /\ Alone' <=> Alone
      /\ state'[command] \in Schedulable <=> state[command] \in Schedulable
  BY <1>2, SlotsKept
<1>5. ShellPhase'
  <2>1. ShellResting(Frame(shell))'
    BY <1>3, <1>4, Slots DEF ShellResting, Calling
  <2>2. current_proc' = shell => cpu'.a0 = 0
    BY <1>1, <1>2
  <2> QED
    BY <2>1, <2>2 DEF ShellPhase
<1>6. CommandPhase'
  <2>1. ASSUME state[command] \in Schedulable
        PROVE  CommandResting(Frame(command))'
    BY <2>1, <1>3, Slots DEF CommandResting, Calling
  <2>2. ASSUME state[command] \in Schedulable, current_proc' = command, upc'[command] = "line"
        PROVE  cpu'.a0 = 0
    BY <2>2, <1>2
  <2> QED
    BY <1>4, <2>1, <2>2 DEF CommandPhase
<1>7. ModePhase'
  BY <1>2 DEF ModePhase
<1> QED
  BY <1>4, <1>5, <1>6, <1>7 DEF SInv

-----------------------------------------------------------------------------
(* The invariant is inductive                                               *)

\* The invariant holds at boot.
LEMMA InitSInv == ShellInit => SInv
<1> SUFFICES ASSUME ShellInit PROVE SInv
  OBVIOUS
<1>1. Init /\ IInv /\ upc = [p \in Procs |-> "prompt"]
  BY InitIInv DEF ShellInit
<1>2. /\ state[shell] = "RUNNABLE" /\ state[command] = "UNUSED"
      /\ \A p \in Procs : p > command => state[p] = "UNUSED"
      /\ argc[shell] = 0 /\ tf[shell] = At("entry")
      /\ process_count = 2 /\ mode = "boot" /\ current_proc = idle_proc
      /\ parent[shell] = idle_proc
  BY <1>1, Slots, ProcessAssumption DEF Init, Procs, idle_proc, shell, command
<1>3. At("entry").at = "entry"
  BY AtRegs DEF Points
<1>4. TableShape
  BY <1>2 DEF TableShape, Alone, Schedulable
<1>5. ShellPhase
  BY <1>1, <1>2, <1>3, Slots DEF ShellPhase, ShellResting, Frame, Alone
<1>6. CommandPhase /\ ModePhase
  BY <1>2 DEF CommandPhase, ModePhase, Schedulable
<1>7. NotForked
  BY <1>1 DEF Init, NotForked
<1> QED
  BY <1>1, <1>4, <1>5, <1>6, <1>7 DEF SInv, Places

\* What may be on the hart at an ecall: which call, of whom, and at which place of
\* its program.
LEMMA WhoCalls ==
    ASSUME SInv, mode = "user", cpu.at = "ecall"
    PROVE  \/ current_proc = shell /\ Alone /\ upc[shell] = "prompt" /\ cpu.sys = "read"
           \/ current_proc = shell /\ Alone /\ upc[shell] = "line" /\ cpu.sys = "fork"
           \/ /\ current_proc = shell /\ ~Alone /\ upc[shell] = "parent"
              /\ cpu.sys = "wait" /\ cpu.a0 \in {0, UserPtr}
           \/ /\ current_proc = command /\ state[command] \in Schedulable
              /\ upc[command] = "child" /\ cpu.sys = "exec" /\ cpu.a0 = UserPtr
           \/ /\ current_proc = command /\ state[command] \in Schedulable
              /\ upc[command] \in {"failed", "cmd"} /\ cpu.sys = "exit"
<1>1. current_proc # idle_proc /\ state[current_proc] \in Schedulable
  BY CallerIsAlive DEF SInv
<1>2. CASE current_proc = shell
  BY <1>2 DEF SInv, ShellPhase, ShellResting, ShellCalling, Frame, Calling
<1>3. CASE current_proc = command
  BY <1>1, <1>3 DEF SInv, CommandPhase, CommandResting, CommandCalling, Frame, Calling
<1> QED
  BY <1>1, <1>2, <1>3, WhoRuns

\* What may be on the hart in the shell's and the command's code, or behind an ecall.
LEMMA WhoRunsOn ==
    ASSUME SInv, mode = "user", current_proc # idle_proc, cpu.at \in {"entry", "code", "ret"}
    PROVE  \/ /\ current_proc = shell
              /\ \/ Alone /\ upc[shell] = "prompt" /\ cpu.at \in {"entry", "code"}
                 \/ Alone /\ upc[shell] = "prompt" /\ cpu.at = "ret" /\ cpu.sys = "read"
                 \/ Alone /\ upc[shell] = "line" /\ cpu.at = "code"
                 \/ /\ ~Alone /\ upc[shell] = "line" /\ cpu.at = "ret" /\ cpu.sys = "fork"
                    /\ cpu.a0 > 0
                 \/ ~Alone /\ upc[shell] = "parent" /\ cpu.at = "code"
                 \/ Alone /\ upc[shell] = "parent" /\ cpu.at = "ret" /\ cpu.sys = "wait"
           \/ /\ current_proc = command /\ state[command] \in Schedulable
              /\ \/ /\ upc[command] = "line" /\ cpu.at = "ret" /\ cpu.sys = "fork"
                    /\ cpu.a0 = 0
                 \/ upc[command] = "child" /\ cpu.at = "code"
                 \/ upc[command] = "child" /\ cpu.at = "ret" /\ cpu.sys = "exec"
                 \/ upc[command] = "failed" /\ cpu.at = "code"
                 \/ upc[command] = "cmd" /\ cpu.at \in {"entry", "code"}
<1>1. state[current_proc] \in Schedulable
  BY DEF SInv, IInv, TypeOK, ZombieOnlySpins, States, Schedulable
<1>2. CASE current_proc = shell
  BY <1>2 DEF SInv, ShellPhase, ShellResting, ShellCalling, Frame, Calling
<1>3. CASE current_proc = command
  BY <1>1, <1>3 DEF SInv, CommandPhase, CommandResting, CommandCalling, Frame, Calling
<1> QED
  BY <1>2, <1>3, WhoRuns

\* The kernel's steps on behalf of the shell or the command on the hart, and every
\* tick that is not fatal, keep the invariant.
LEMMA KernelSInv ==
    ASSUME SInv, IInv', NotForked', ~disturbed', KernelStep \/ TickStep \/ NestedStep
    PROVE  SInv'
<1>t. /\ state \in [Procs -> States] /\ tf \in [Procs -> Regs] /\ cpu \in Regs
      /\ current_proc \in Procs /\ argc \in [Procs -> Nat] /\ RunningIsCurrent
      /\ parent \in [Procs -> Procs \cup {NoProc}] /\ process_count \in Int
      /\ upc \in [Procs -> Places] /\ upc' = upc
      /\ argc[shell] = 0
  BY DEF SInv, IInv, TypeOK, KernelStep, TickStep, NestedStep, TableShape
<1>i. SInv /\ IInv /\ TableShape /\ ShellPhase /\ CommandPhase /\ ModePhase
  BY DEF SInv
<1>z. \A v \in Int : /\ Returned(cpu, v).at = "ret"
                     /\ Returned(cpu, v).sys = cpu.sys
                     /\ Returned(cpu, v).a0 = v
  BY <1>t DEF Returned, Regs
<1>l. ASSUME NEW frames,
             yield_switch(state, frames, process_count) \/ yield_stay(state, process_count)
      PROVE  SameLives
  BY <1>l, <1>t, YieldKeepsLives DEF RunningIsCurrent
\* A switch away from a process that is not in a call, or in the shell's wait.
<1>s. ASSUME NEW frames \in [Procs -> Regs], yield_switch(state, frames, process_count),
             frames[shell] = Frame(shell), frames[command] = Frame(command),
             ~ShellCalling, ~CommandCalling, mode # "freed",
             UNCHANGED <<parent, argc, process_count>>
      PROVE  SInv'
  <2>1. SameLives
    BY <1>s, <1>l
  <2>2. ShellResting(frames[shell])
    BY <1>s, <1>i DEF ShellPhase
  <2>3. state[command] \in Schedulable => CommandResting(frames[command])
    BY <1>s, <1>i DEF CommandPhase
  <2>4. state[command] \in Schedulable =>
              \/ /\ upc'[command] = "line" /\ argc[command] = 0 /\ argc'[command] = 0
                 /\ frames[command].at = "ret" /\ frames[command].sys = "fork"
              \/ upc'[command] \in {"child", "failed"} /\ frames[command].at = "code"
              \/ /\ upc'[command] = "child"
                 /\ frames[command].at = "ret" /\ frames[command].sys = "exec"
              \/ upc'[command] = "cmd" /\ frames[command].at \in {"entry", "code"}
              \/ upc'[command] \in {"failed", "cmd"} /\ Calling(frames[command], "exit")
    BY <1>s, <1>t, <2>3 DEF CommandResting
  <2> QED
    BY <1>s, <1>t, <2>1, <2>2, <2>4, SwitchPhases
<1>f. Saved \in [Procs -> Regs] /\ \A p \in Procs : Saved[p] = Frame(p)
  BY <1>t DEF Saved, Frame
\* A step of the process on the hart that leaves the table alone.
<1>q. ASSUME SameLives, UNCHANGED <<parent, argc, tf, current_proc, process_count>>,
             mode # "freed", mode' # "freed",
             ShellPhase', CommandPhase', ModePhase'
      PROVE  SInv'
  BY <1>q, <1>t, SlotsKept DEF SInv
<1>k. /\ state' = state => (Alone' <=> Alone)
      /\ state' = state => SameLives
  BY DEF Alone, SameLives
<1>1. CASE boot
  <2>1. current_proc = idle_proc
    BY <1>1, <1>i DEF boot, IInv, IdleStays
  <2> QED
    BY <1>1, <2>1, <1>s, <1>t, Slots DEF boot, ShellCalling, CommandCalling, Frame
<1>2. CASE timer_switch /\ disturbed' = (disturbed \/ AtRisk)
  <2>1. ~AtRisk /\ mode = "user"
    BY <1>2 DEF timer_switch
  <2>2. ~(Alone /\ current_proc = shell)
    BY <1>2, <2>1, <1>i, AloneStays DEF timer_switch
  <2>3. ~ShellCalling
    BY <2>1, <2>2 DEF AtRisk, ShellCalling, SInv, NotForked
  <2>4. ~CommandCalling
    BY <2>1 DEF AtRisk, CommandCalling, Calling
  <2> QED
    BY <1>2, <2>1, <2>3, <2>4, <1>s, <1>f, Slots DEF timer_switch
<1>3. CASE timer_stay
  <2>1. SameLives
    BY <1>3, <1>l DEF timer_stay
  <2>2. /\ UNCHANGED <<parent, argc, tf, current_proc, process_count, cpu, mode, reaping>>
        /\ mode = "user"
    BY <1>3 DEF timer_stay, yield_stay
  <2>3. /\ Alone' <=> Alone
        /\ state'[command] \in Schedulable <=> state[command] \in Schedulable
    BY <2>1, <2>2, <1>t, <1>i, SlotsKept
  <2>4. ShellPhase'
    BY <2>2, <2>3, <1>i, <1>t DEF ShellPhase, ShellResting, ShellCalling, Frame
  <2>5. CommandPhase'
    BY <2>2, <2>3, <1>i, <1>t DEF CommandPhase, CommandResting, CommandCalling, Frame
  <2>6. ModePhase'
    BY <2>2, <2>3, <1>i, <1>t DEF ModePhase
  <2> QED
    BY <2>1, <2>2, <2>4, <2>5, <2>6, <1>q
<1>4. CASE NestedStep
  BY <1>4 DEF NestedStep
<1>5. CASE UserFault
  <2>1. CASE current_proc = idle_proc
    BY <1>5, <2>1, <1>i DEF UserFault, IInv, IdleStays
  <2>2. CASE current_proc = shell
    BY <1>5, <2>2, <1>i
       DEF UserFault, ShellPhase, ShellResting, ShellCalling, Calling, Frame
  <2>3. CASE current_proc = command
    <3>1. state[command] \in Schedulable
      BY <1>5, <2>3, <1>i, <1>t
         DEF UserFault, IInv, ZombieOnlySpins, States, Schedulable
    <3> QED
      BY <1>5, <2>3, <3>1, <1>i
         DEF UserFault, CommandPhase, CommandResting, CommandCalling, Calling, Frame
  <2> QED
    BY <2>1, <2>2, <2>3, WhoRuns
<1>6. CASE sys_fork_fail
  <2>1. Alone
    BY <1>6, WhoCalls DEF sys_fork_fail, Ecall
  <2>2. command \in FreeSlots
    BY <2>1, Slots DEF FreeSlots, Alone
  <2> QED
    BY <1>6, <2>2 DEF sys_fork_fail
<1>7. CASE sys_exec_fault
  BY <1>7, WhoCalls DEF sys_exec_fault, Ecall
<1>8. CASE sys_exec_fail
  <2>1. /\ current_proc = command /\ state[command] \in Schedulable /\ upc[command] = "child"
    BY <1>8, WhoCalls DEF sys_exec_fail, Ecall
  <2>2. /\ cpu'.at = "ret" /\ cpu'.sys = "exec" /\ mode' = "user"
        /\ UNCHANGED <<state, parent, argc, tf, current_proc, process_count>>
        /\ mode = "user"
    BY <1>8, <1>z DEF sys_exec_fail, Return, Ecall
  <2>3. ShellPhase'
    BY <2>1, <2>2, <1>i, <1>t, <1>k, Slots DEF ShellPhase, ShellResting, ShellCalling, Frame
  <2>4. CommandPhase' /\ ModePhase'
    BY <2>1, <2>2, <1>t DEF CommandPhase, CommandResting, Frame, ModePhase
  <2> QED
    BY <2>2, <2>3, <2>4, <1>q, <1>k
<1>9. CASE sys_exit
  <2>1. current_proc = command /\ state[command] \in Schedulable
    BY <1>9, WhoCalls DEF sys_exit, Ecall
  <2>2. /\ state' = [state EXCEPT ![command] = "ZOMBIE"]
        /\ UNCHANGED <<parent, argc, tf, current_proc, process_count, mode>>
        /\ mode = "user"
    BY <1>9, <2>1 DEF sys_exit, Ecall
  <2>3. /\ state'[command] = "ZOMBIE" /\ ~Alone /\ ~Alone'
        /\ \A p \in Procs : p # command => state'[p] = state[p]
    BY <2>1, <2>2, <1>t, Slots DEF Alone, Schedulable
  <2>4. TableShape'
    BY <2>2, <2>3, <1>i, Slots DEF TableShape, command
  <2>5. ShellPhase'
    BY <2>1, <2>2, <2>3, <1>i, <1>t, Slots DEF ShellPhase, ShellResting, ShellCalling, Frame
  <2>6. CommandPhase' /\ ModePhase'
    BY <2>2, <2>3 DEF CommandPhase, ModePhase, Schedulable
  <2> QED
    BY <2>4, <2>5, <2>6, <1>t DEF SInv
\* The shell's wait.
<1>w. ASSUME Ecall("wait")
      PROVE  /\ current_proc = shell /\ ~Alone /\ upc[shell] = "parent"
             /\ cpu.a0 \in {0, UserPtr} /\ cpu.at = "ecall" /\ cpu.sys = "wait"
             /\ mode = "user"
  BY <1>w, WhoCalls DEF Ecall
<1>10. CASE sys_wait_fault
  BY <1>10, <1>w DEF sys_wait_fault
<1>11. CASE sys_wait_found
  <2> DEFINE p == Min(Zombies)
  <2>1. p \in Procs /\ state[p] = "ZOMBIE"
    BY <1>11, MinIsElement, ProcessAssumption DEF sys_wait_found, Zombies, Procs
  <2>2. /\ tf' = [tf EXCEPT ![p] = NoFrame]
        /\ reaping' = p /\ mode' = "reap"
        /\ UNCHANGED <<state, parent, argc, current_proc, process_count, cpu>>
        /\ mode = "user"
    BY <1>11 DEF sys_wait_found, Ecall
  <2> HIDE DEF p
  <2>3. p = command
    BY <2>1, <1>i, Slots DEF TableShape, Schedulable, IInv, IdleStays
  <2>4. /\ current_proc = shell /\ ~Alone /\ upc[shell] = "parent"
        /\ cpu.a0 \in {0, UserPtr} /\ cpu.at = "ecall" /\ cpu.sys = "wait"
    BY <1>11, <1>w DEF sys_wait_found
  <2>5. TableShape'
    BY <2>2, <1>i DEF TableShape, Alone
  <2>6. ShellPhase'
    BY <2>2, <2>4, <1>t, <1>k DEF ShellPhase, ShellResting, Frame, Calling
  <2>7. CommandPhase' /\ ModePhase'
    BY <2>1, <2>2, <2>3, <2>4, <1>t DEF CommandPhase, ModePhase, Schedulable
  <2> QED
    BY <2>5, <2>6, <2>7, <1>t DEF SInv
<1>12. CASE free_proc
  <2>1. /\ mode = "reap" /\ current_proc = shell /\ upc[shell] = "parent"
        /\ reaping = command /\ state[command] = "ZOMBIE" /\ cpu.at = "ecall"
    BY <1>12, <1>i DEF free_proc, ModePhase, IInv, CallInProgress
  <2>2. /\ state' = [state EXCEPT ![command] = "UNUSED"]
        /\ mode' = "freed"
        /\ UNCHANGED <<parent, argc, tf, current_proc, process_count, cpu, reaping>>
    BY <1>12, <2>1 DEF free_proc
  <2>3. ~Alone /\ Alone' /\ cpu.sys = "wait" /\ cpu.a0 \in {0, UserPtr}
    BY <2>1, <2>2, <1>t, <1>i, Slots
       DEF Alone, ShellPhase, ShellResting, ShellCalling, Frame, Calling
  <2>4. TableShape'
    BY <2>1, <2>2, <2>3, <1>i, <1>t, Slots DEF TableShape
  <2>5. ShellPhase'
    BY <2>1, <2>2, <2>3, <1>t DEF ShellPhase, ShellCalling
  <2>6. CommandPhase' /\ ModePhase'
    BY <2>1, <2>2, <2>3, <1>t DEF CommandPhase, ModePhase, Alone, Schedulable
  <2> QED
    BY <2>4, <2>5, <2>6, <1>t DEF SInv
<1>21. CASE free_proc_count
  <2>1. /\ mode = "freed" /\ current_proc = shell /\ upc[shell] = "parent" /\ Alone
        /\ reaping = command /\ cpu.at = "ecall"
    BY <1>21, <1>i DEF free_proc_count, ModePhase, IInv, CallInProgress
  <2>2. /\ parent' = [parent EXCEPT ![command] = NoProc]
        /\ argc' = [argc EXCEPT ![command] = 0]
        /\ process_count' = process_count - 1
        /\ mode' = "reaped"
        /\ UNCHANGED <<state, tf, current_proc, cpu, reaping>>
    BY <1>21, <2>1 DEF free_proc_count
  <2>3. Alone' /\ cpu.sys = "wait" /\ cpu.a0 \in {0, UserPtr}
    BY <2>1, <2>2, <1>i, <1>k DEF ShellPhase, ShellResting, ShellCalling, Frame, Calling
  <2>4. TableShape'
    BY <2>1, <2>2, <2>3, <1>i, <1>t, Slots DEF TableShape
  <2>5. ShellPhase'
    BY <2>1, <2>2, <2>3, <1>t DEF ShellPhase, ShellCalling
  <2>6. CommandPhase' /\ ModePhase'
    BY <2>1, <2>2, <2>3, <1>t DEF CommandPhase, ModePhase, Alone, Schedulable
  <2> QED
    BY <2>4, <2>5, <2>6, <1>t DEF SInv
<1>13. CASE sys_wait_return
  <2>1. /\ current_proc = shell /\ upc[shell] = "parent" /\ Alone /\ cpu.at = "ecall"
    BY <1>13, <1>i DEF sys_wait_return, ModePhase, IInv, CallInProgress
  <2>2. cpu.sys = "wait"
    BY <2>1, <1>i DEF ShellPhase, ShellResting, ShellCalling, Frame, Calling
  <2>3. Pid(reaping) \in Int
    BY <1>i, ProcessAssumption DEF IInv, TypeOK, Pid, Procs, NoProc, idle_proc
  <2>4. /\ cpu'.at = "ret" /\ cpu'.sys = "wait" /\ mode' = "user"
        /\ UNCHANGED <<state, parent, argc, tf, current_proc, process_count>>
        /\ mode = "reaped"
    BY <1>13, <2>2, <2>3, <1>z DEF sys_wait_return, Return
  <2>5. ShellPhase'
    BY <2>1, <2>4, <1>t, <1>k DEF ShellPhase, ShellCalling, Calling
  <2>6. CommandPhase' /\ ModePhase'
    BY <2>1, <2>4, <1>t, <1>k DEF CommandPhase, ModePhase, Alone, Schedulable
  <2> QED
    BY <2>4, <2>5, <2>6, <1>q, <1>k
<1>14. CASE sys_wait_switch
  <2>1. ~ShellCalling /\ ~CommandCalling /\ mode = "user"
    BY <1>14, <1>w, Slots DEF sys_wait_switch, ShellCalling, CommandCalling, Calling
  <2> QED
    BY <1>14, <2>1, <1>s, <1>f, Slots DEF sys_wait_switch
<1>15. CASE sys_wait_stay
  <2>1. current_proc = shell /\ ~Alone
    BY <1>15, <1>w DEF sys_wait_stay
  <2>2. state[command] # "ZOMBIE"
    BY <1>15, <2>1, <1>i, Slots DEF sys_wait_stay, Zombies, TableShape
  <2>3. state[command] \in Schedulable
    BY <2>1, <2>2, <1>t, Slots DEF Alone, States, Schedulable
  <2> QED
    BY <1>15, <2>1, <2>3, <1>i, <1>t, BothSwitch DEF sys_wait_stay, RunningIsCurrent
\* The shell's read returns, or waits for a key.
<1>r. ASSUME current_proc = shell, upc[shell] = "prompt", Alone,
             cpu'.at \in {"ecall", "ret"}, cpu'.sys = "read", mode' \in {"user", "reading"},
             SameLives, UNCHANGED <<parent, argc, tf, current_proc, process_count>>,
             mode # "freed"
      PROVE  SInv'
  <2>1. Alone'
    BY <1>r, <1>i, <1>t, SlotsKept
  <2>2. ShellPhase'
    BY <1>r, <2>1, <1>t DEF ShellPhase, ShellCalling, Calling
  <2>3. CommandPhase' /\ ModePhase'
    BY <1>r, <2>1, <1>t DEF CommandPhase, ModePhase, Alone, Schedulable
  <2> QED
    BY <1>r, <2>2, <2>3, <1>q
<1>16. CASE sys_read_invalid
  <2>1. current_proc = shell /\ upc[shell] = "prompt" /\ Alone
    BY <1>16, WhoCalls DEF sys_read_invalid, Ecall
  <2>2. cpu'.at = "ret" /\ cpu'.sys = "read" /\ mode' = "user"
    BY <1>16, <1>z DEF sys_read_invalid, Return, Ecall
  <2> QED
    BY <1>16, <2>1, <2>2, <1>r, <1>k DEF sys_read_invalid, Ecall
<1>17. CASE sys_read_poll
  <2>1. current_proc = shell /\ upc[shell] = "prompt" /\ Alone
    BY <1>17, WhoCalls DEF sys_read_poll, Ecall
  <2> QED
    BY <1>17, <2>1, <1>r, <1>k DEF sys_read_poll, Ecall
<1>18. ASSUME mode = "reading"
       PROVE  /\ current_proc = shell /\ upc[shell] = "prompt" /\ Alone
              /\ cpu.at = "ecall" /\ cpu.sys = "read"
  <2>1. current_proc = shell /\ upc[shell] = "prompt" /\ cpu.at = "ecall"
    BY <1>18, <1>i DEF ModePhase, IInv, CallInProgress
  <2> QED
    BY <2>1, <1>18, <1>i DEF ShellPhase, ShellResting, ShellCalling, Frame, Calling
<1>19. CASE sys_read_newline \/ sys_read_char_stay
  <2>1. cpu'.at = "ret" /\ cpu'.sys = "read" /\ mode' = "user"
    BY <1>18, <1>19, <1>z DEF sys_read_newline, sys_read_char_stay, Return
  <2>2. SameLives
    BY <1>19, <1>k, <1>l DEF sys_read_newline, sys_read_char_stay
  <2> QED
    BY <1>18, <1>19, <2>1, <2>2, <1>r DEF sys_read_newline, sys_read_char_stay, yield_stay
<1>20. CASE sys_read_char_switch
  BY <1>18, <1>20, <1>i, AloneStays DEF sys_read_char_switch
<1> QED
  BY <1>1, <1>2, <1>3, <1>4, <1>5, <1>6, <1>7, <1>8, <1>9, <1>10, <1>11, <1>12, <1>13,
     <1>14, <1>15, <1>16, <1>17, <1>19, <1>20, <1>21
     DEF KernelStep, TickStep, Wait, Read, Input

\* The shell's fork takes the command's slot.
LEMMA ForkSInv ==
    ASSUME SInv, IInv', NotForked', ForkStep
    PROVE  SInv'
<1>t. /\ state \in [Procs -> States] /\ tf \in [Procs -> Regs] /\ cpu \in Regs
      /\ parent \in [Procs -> Procs \cup {NoProc}] /\ argc \in [Procs -> Nat]
      /\ upc \in [Procs -> Places] /\ current_proc \in Procs /\ process_count \in Int
      /\ argc[shell] = 0
  BY DEF SInv, IInv, TypeOK, TableShape
<1>1. /\ current_proc = shell /\ Alone /\ upc[shell] = "line"
      /\ cpu.sys = "fork" /\ mode = "user"
  BY WhoCalls DEF ForkStep, sys_fork, Ecall
<1>2. Min(FreeSlots) = command
  <2>1. command \in FreeSlots /\ FreeSlots \in SUBSET Nat
    BY <1>1, Slots, ProcessAssumption DEF FreeSlots, Alone, Procs
  <2>2. idle_proc \notin FreeSlots /\ shell \notin FreeSlots
    BY DEF FreeSlots, SInv, IInv, IdleStays, TableShape, Schedulable
  <2>3. \A p \in FreeSlots : p >= command
    BY <2>2, ProcessAssumption DEF FreeSlots, Procs, idle_proc, shell, command
  <2>4. Min(FreeSlots) \in FreeSlots /\ \A y \in FreeSlots : Min(FreeSlots) <= y
    BY <2>1, MinIsElement
  <2>5. Min(FreeSlots) \in Nat /\ Min(FreeSlots) >= command /\ Min(FreeSlots) <= command
    BY <2>1, <2>3, <2>4
  <2> QED
    BY <2>5 DEF command
<1>3. /\ state' = [state EXCEPT ![command] = "RUNNABLE"]
      /\ parent' = [parent EXCEPT ![command] = shell]
      /\ argc' = [argc EXCEPT ![command] = 0]
      /\ tf' = [tf EXCEPT ![command] = Returned(cpu, 0)]
      /\ cpu' = Returned(cpu, Pid(command)) /\ mode' = "user"
      /\ process_count' = process_count + 1
      /\ current_proc' = current_proc
      /\ upc' = [upc EXCEPT ![command] = "line"]
  BY <1>1, <1>2 DEF ForkStep, sys_fork, Return
<1>4. Pid(command) = 3
  BY DEF Pid, command, idle_proc
<1>5. /\ cpu'.at = "ret" /\ cpu'.sys = "fork" /\ cpu'.a0 = 3
      /\ tf'[command].at = "ret" /\ tf'[command].sys = "fork"
  BY <1>1, <1>3, <1>4, <1>t, Slots DEF Returned, Regs
<1>6. /\ state'[command] = "RUNNABLE" /\ ~Alone'
      /\ parent'[command] = shell /\ argc'[command] = 0 /\ argc'[shell] = 0
      /\ upc'[command] = "line" /\ upc'[shell] = "line" /\ upc' \in [Procs -> Places]
      /\ \A p \in Procs : p # command => state'[p] = state[p]
  BY <1>1, <1>3, <1>t, Slots DEF Alone, Places
<1>7. TableShape'
  BY <1>1, <1>3, <1>6, Slots DEF TableShape, SInv, command
<1>8. ShellPhase'
  BY <1>1, <1>3, <1>5, <1>6 DEF ShellPhase, ShellCalling, Calling
<1>9. CommandPhase' /\ ModePhase'
  BY <1>1, <1>3, <1>5, <1>6, Slots DEF CommandPhase, CommandResting, Frame, ModePhase
<1> QED
  BY <1>6, <1>7, <1>8, <1>9 DEF SInv

\* Only the command execs, and yield() then takes the hart from it.
LEMMA ExecSInv ==
    ASSUME SInv, IInv', NotForked', ExecStep
    PROVE  SInv'
<1>t. /\ state \in [Procs -> States] /\ tf \in [Procs -> Regs]
      /\ current_proc \in Procs /\ argc \in [Procs -> Nat] /\ RunningIsCurrent
      /\ upc \in [Procs -> Places] /\ argc[shell] = 0 /\ ShellPhase
  BY DEF SInv, IInv, TypeOK, TableShape
<1>1. PICK n \in Argcs : sys_exec_switch(n) \/ sys_exec_stay(n)
  BY DEF ExecStep
<1>2. /\ current_proc = command /\ state[command] \in Schedulable /\ mode = "user"
  BY <1>1, WhoCalls DEF sys_exec_switch, sys_exec_stay, Ecall
<1>3. /\ Execed \in [Procs -> States]
      /\ \A p \in Procs : /\ Execed[p] = "RUNNING" => p = current_proc
                          /\ state[p] \in Schedulable <=> Execed[p] \in Schedulable
                          /\ state[p] \notin Schedulable => Execed[p] = state[p]
  BY <1>2, <1>t DEF Execed, States, Schedulable, RunningIsCurrent
<1>4. ~sys_exec_stay(n)
  BY <1>2, <1>3, BothSwitch DEF sys_exec_stay
<1>5. /\ yield_switch(Execed, Reset, process_count)
      /\ argc' = [argc EXCEPT ![command] = n]
      /\ upc' = [upc EXCEPT ![command] = "cmd"]
      /\ UNCHANGED <<parent, process_count>>
  BY <1>1, <1>2, <1>4 DEF sys_exec_switch, ExecStep, GoTo
<1>6. SameLives
  BY <1>3, <1>5, <1>t, YieldKeepsLives
<1>7. /\ Reset \in [Procs -> Regs] /\ Reset[shell] = Frame(shell)
      /\ Reset[command].at = "entry"
  <2>1. At("entry") \in Regs /\ At("entry").at = "entry"
    BY AtRegs DEF Points
  <2> QED
    BY <2>1, <1>2, <1>t, Slots DEF Reset, Frame
<1>8. ShellResting(Reset[shell])
  BY <1>2, <1>7, <1>t, Slots DEF ShellPhase, ShellCalling
<1>9. /\ upc' \in [Procs -> Places] /\ upc'[shell] = upc[shell] /\ argc'[shell] = 0
      /\ upc'[command] = "cmd"
  BY <1>5, <1>t, Slots DEF Places
<1> QED
  BY <1>2, <1>3, <1>5, <1>6, <1>7, <1>8, <1>9, SwitchPhases

\* The programs: every step of the shell and of the command in user mode.
LEMMA ProgramSInv ==
    ASSUME SInv, IInv', NotForked', UserProgram
    PROVE  SInv'
<1>t. /\ current_proc \in Procs /\ upc \in [Procs -> Places] /\ cpu \in Regs
      /\ TableShape /\ ShellPhase /\ CommandPhase /\ ModePhase
  BY DEF SInv, IInv, TypeOK
<1>a. At("code").at = "code"
  BY AtRegs DEF Points
\* The shell runs on: the command, off the hart, is not disturbed.
<1>s. ASSUME current_proc = shell, mode = "user",
             UNCHANGED <<state, parent, argc, tf, current_proc, process_count, mode>>,
             NEW place \in Places, upc' = [upc EXCEPT ![shell] = place],
             ShellPhase'
      PROVE  SInv'
  <2>1. upc' \in [Procs -> Places] /\ upc'[command] = upc[command]
    BY <1>s, <1>t, Slots
  <2>2. TableShape' /\ ModePhase'
    BY <1>s, <1>t DEF TableShape, Alone, ModePhase
  <2>3. CommandPhase'
    BY <1>s, <1>t, <2>1, Slots DEF CommandPhase, CommandResting, CommandCalling, Frame
  <2> QED
    BY <1>s, <2>1, <2>2, <2>3 DEF SInv
\* The command runs on: the shell, off the hart, is not disturbed.
<1>c. ASSUME current_proc = command, mode = "user",
             UNCHANGED <<state, parent, argc, tf, current_proc, process_count, mode>>,
             NEW place \in Places, upc' = [upc EXCEPT ![command] = place],
             CommandPhase'
      PROVE  SInv'
  <2>1. upc' \in [Procs -> Places] /\ upc'[shell] = upc[shell]
    BY <1>c, <1>t, Slots
  <2>2. TableShape' /\ ModePhase'
    BY <1>c, <1>t DEF TableShape, Alone, ModePhase
  <2>3. ShellPhase'
    BY <1>c, <1>t, <2>1, Slots DEF ShellPhase, ShellResting, ShellCalling, Frame, Alone
  <2> QED
    BY <1>c, <2>1, <2>2, <2>3 DEF SInv
<1>u. upc' = upc => \A p \in Procs : upc' = [upc EXCEPT ![p] = upc[p]] /\ upc[p] \in Places
  BY <1>t
\* A step behind an ecall or at the entry leads to code.
<1>1. ASSUME UserStep
      PROVE  /\ mode = "user" /\ current_proc # idle_proc /\ cpu'.at = "code"
             /\ UNCHANGED <<state, parent, argc, tf, current_proc, process_count, mode>>
             /\ Alone' <=> Alone
  BY <1>1, <1>a DEF UserStep, Alone
<1>2. CASE Start
  <2>1. UserStep /\ cpu.at = "entry" /\ upc' = upc
    BY <1>2 DEF Start
  <2>2. CASE current_proc = shell
    <3>1. Alone /\ upc[shell] = "prompt"
      BY <2>1, <2>2, <1>1, WhoRunsOn, Slots
    <3>2. ShellPhase'
      BY <2>1, <2>2, <3>1, <1>1 DEF ShellPhase, ShellResting, Frame, Calling
    <3> QED
      BY <2>1, <2>2, <3>2, <1>1, <1>s, <1>u, Slots
  <2>3. CASE current_proc = command
    <3>1. upc[command] = "cmd"
      BY <2>1, <2>3, <1>1, WhoRunsOn, Slots
    <3>2. CommandPhase'
      BY <2>1, <2>3, <3>1, <1>1 DEF CommandPhase, CommandResting, Frame
    <3> QED
      BY <2>1, <2>3, <3>2, <1>1, <1>c, <1>u, Slots
  <2> QED
    BY <2>1, <2>2, <2>3, <1>1, WhoRuns
<1>3. CASE AfterRead
  <2>1. UserStep /\ cpu.at = "ret" /\ cpu.sys = "read"
    BY <1>3 DEF AfterRead
  <2>2. current_proc = shell /\ Alone /\ upc[shell] = "prompt"
    BY <2>1, <1>1, WhoRunsOn
  <2>3. PICK place \in {"prompt", "line"} : upc' = [upc EXCEPT ![shell] = place]
    BY <1>3, <2>2, <1>u, <1>t, Slots DEF AfterRead, GoTo
  <2>4. upc'[shell] = place
    BY <2>3, <1>t, Slots
  <2>5. ShellPhase'
    BY <2>1, <2>2, <2>4, <1>1 DEF ShellPhase, ShellResting, Frame, Calling
  <2> QED
    BY <2>1, <2>2, <2>3, <2>5, <1>1, <1>s DEF Places
<1>4. CASE AfterFork
  <2>1. UserStep /\ cpu.at = "ret" /\ cpu.sys = "fork"
    BY <1>4 DEF AfterFork
  <2>2. CASE current_proc = shell
    <3>1. ~Alone /\ cpu.a0 > 0 /\ cpu.a0 # 0
      BY <2>1, <2>2, <1>1, <1>t, WhoRunsOn, Slots DEF Regs
    <3>2. upc' = [upc EXCEPT ![shell] = "parent"]
      BY <1>4, <2>2, <3>1 DEF AfterFork, GoTo
    <3>3. ShellPhase'
      BY <2>1, <2>2, <3>1, <3>2, <1>1, <1>t, Slots
         DEF ShellPhase, ShellResting, Frame, Calling
    <3> QED
      BY <2>1, <2>2, <3>2, <3>3, <1>1, <1>s DEF Places
  <2>3. CASE current_proc = command
    <3>1. cpu.a0 = 0
      BY <2>1, <2>3, <1>1, WhoRunsOn, Slots
    <3>2. upc' = [upc EXCEPT ![command] = "child"]
      BY <1>4, <2>3, <3>1 DEF AfterFork, GoTo
    <3>3. CommandPhase'
      BY <2>1, <2>3, <3>2, <1>1, <1>t, Slots DEF CommandPhase, CommandResting, Frame
    <3> QED
      BY <2>1, <2>3, <3>2, <3>3, <1>1, <1>c DEF Places
  <2> QED
    BY <2>1, <2>2, <2>3, <1>1, WhoRuns
<1>5. CASE AfterExec
  <2>1. UserStep /\ cpu.at = "ret" /\ cpu.sys = "exec"
    BY <1>5 DEF AfterExec
  <2>2. current_proc = command
    BY <2>1, <1>1, WhoRunsOn
  <2>3. upc' = [upc EXCEPT ![command] = "failed"]
    BY <1>5, <2>2 DEF AfterExec, GoTo
  <2>4. CommandPhase'
    BY <2>1, <2>2, <2>3, <1>1, <1>t, Slots DEF CommandPhase, CommandResting, Frame
  <2> QED
    BY <2>1, <2>2, <2>3, <2>4, <1>1, <1>c DEF Places
<1>6. CASE AfterWait
  <2>1. UserStep /\ cpu.at = "ret" /\ cpu.sys = "wait"
    BY <1>6 DEF AfterWait
  <2>2. current_proc = shell /\ Alone
    BY <2>1, <1>1, WhoRunsOn
  <2>3. upc' = [upc EXCEPT ![shell] = "prompt"]
    BY <1>6, <2>2 DEF AfterWait, GoTo
  <2>4. ShellPhase'
    BY <2>1, <2>2, <2>3, <1>1, <1>t, Slots DEF ShellPhase, ShellResting, Frame, Calling
  <2> QED
    BY <2>1, <2>2, <2>3, <2>4, <1>1, <1>s DEF Places
<1>7. ASSUME NEW s \in Calls, ShellCall(s)
      PROVE  SInv'
  <2>1. PICK a0, a1 : /\ Load(s, a0, a1)
                      /\ s \in {"wait", "exec"} => a0 = UserPtr
    BY <1>7 DEF ShellCall, Wrapper
  <2>2. /\ mode = "user" /\ current_proc # idle_proc /\ cpu.at = "code"
        /\ cpu'.at = "ecall" /\ cpu'.sys = s /\ cpu'.a0 = a0
        /\ UNCHANGED <<state, parent, argc, tf, current_proc, process_count, mode>>
        /\ upc' = upc /\ (Alone' <=> Alone)
    BY <2>1, <1>7 DEF Load, ShellCall, Alone
  <2>3. CASE current_proc = shell
    <3>1. \/ upc[shell] = "prompt" /\ Alone /\ s = "read"
          \/ upc[shell] = "line" /\ Alone /\ s = "fork"
          \/ upc[shell] = "parent" /\ ~Alone /\ s = "wait"
      BY <1>7, <2>2, <2>3, WhoRunsOn, Slots DEF ShellCall
    <3>2. ShellPhase'
      BY <2>1, <2>2, <2>3, <3>1 DEF ShellPhase, ShellResting, ShellCalling, Frame, Calling
    <3> QED
      BY <2>2, <2>3, <3>2, <1>s, <1>u, Slots
  <2>4. CASE current_proc = command
    <3>1. \/ upc[command] = "child" /\ s = "exec"
          \/ upc[command] \in {"failed", "cmd"} /\ s = "exit"
      BY <1>7, <2>2, <2>4, WhoRunsOn, Slots DEF ShellCall
    <3>2. CommandPhase'
      BY <2>1, <2>2, <2>4, <3>1
         DEF CommandPhase, CommandResting, CommandCalling, Calling, Frame
    <3> QED
      BY <2>2, <2>4, <3>2, <1>c, <1>u, Slots
  <2> QED
    BY <2>2, <2>3, <2>4, WhoRuns
<1>8. CASE NoCommand
  <2>1. /\ mode = "user" /\ cpu.at = "code" /\ upc[current_proc] = "line"
        /\ UNCHANGED vars /\ (Alone' <=> Alone)
    BY <1>8 DEF NoCommand, vars, Alone
  <2>2. current_proc # idle_proc
    BY <2>1, CallerIsAlive DEF SInv
  <2>3. current_proc = shell /\ Alone
    BY <2>1, <2>2, WhoRunsOn
  <2>4. upc' = [upc EXCEPT ![shell] = "prompt"]
    BY <1>8, <2>3 DEF NoCommand, GoTo
  <2>5. ShellPhase'
    BY <2>1, <2>3, <2>4, <1>t, Slots DEF ShellPhase, ShellResting, Frame, Calling, vars
  <2> QED
    BY <2>1, <2>3, <2>4, <2>5, <1>s DEF Places, vars
<1> QED
  BY <1>2, <1>3, <1>4, <1>5, <1>6, <1>7, <1>8 DEF UserProgram

\* Only fork makes a child, in a slot that was free.
LEMMA ForkedGrows ==
    ASSUME IInv, [Next]_vars
    PROVE  forked' \subseteq forked \cup FreeSlots
<1>1. CASE sys_fork
  <2>1. Min(FreeSlots) \in FreeSlots
    BY <1>1, MinIsElement, ProcessAssumption DEF sys_fork, FreeSlots, Procs
  <2> QED
    BY <1>1, <2>1 DEF sys_fork
<1>2. CASE Kernel /\ ~sys_fork
  BY <1>2 DEF Kernel, sys_fork_fail, Exec, sys_exec_fault, sys_exec_fail, sys_exec_switch,
     sys_exec_stay, sys_exit, sys_yield_switch, sys_yield_stay, Wait, sys_wait_fault,
     sys_wait_found, free_proc, free_proc_count, sys_wait_return, sys_wait_switch,
     sys_wait_stay, Read, sys_read_invalid, sys_read_poll, KernelFault
<1>3. CASE boot \/ Timer \/ Nested \/ UserFault \/ Input
  BY <1>3 DEF boot, Timer, timer_switch, timer_stay, Nested, nested_tick_switch,
     nested_tick_stay, UserFault, Input, sys_read_newline, sys_read_char_stay,
     sys_read_char_switch
<1>4. CASE UserStep \/ \E s \in Calls : Wrapper(s)
  BY <1>4 DEF UserStep, Wrapper, Load
<1>5. CASE UNCHANGED vars
  BY <1>5 DEF vars
<1> QED
  BY <1>1, <1>2, <1>3, <1>4, <1>5 DEF Next

\* Every step of the system keeps the invariant, unless it is a fatal tick.
LEMMA NextSInv ==
    ASSUME SInv, [ShellNext]_shellVars, ~disturbed'
    PROVE  SInv'
<1>1. IInv'
  BY ShellStepIsStep, NextIInv DEF SInv
<1>4. NotForked'
  <2>1. shell \notin FreeSlots
    BY DEF SInv, TableShape, FreeSlots, Schedulable
  <2> QED
    BY <2>1, ShellStepIsStep, ForkedGrows DEF SInv, NotForked
<1>2. CASE ShellNext
  BY <1>1, <1>2, <1>4, KernelSInv, ForkSInv, ExecSInv, ProgramSInv DEF ShellNext
<1>3. CASE UNCHANGED shellVars
  <2>1. UNCHANGED <<state, parent, argc, tf, current_proc, process_count, cpu, mode,
                    reaping, upc>>
    BY <1>3 DEF shellVars, vars
  <2>2. TableShape' /\ ModePhase'
    BY <2>1 DEF SInv, TableShape, ModePhase, Alone
  <2>3. ShellPhase'
    BY <2>1 DEF SInv, ShellPhase, ShellResting, ShellCalling, Calling, Frame, Alone
  <2>4. CommandPhase'
    BY <2>1 DEF SInv, CommandPhase, CommandResting, CommandCalling, Calling, Frame
  <2> QED
    BY <1>1, <1>4, <2>1, <2>2, <2>3, <2>4 DEF SInv
<1> QED
  BY <1>2, <1>3

\* What holds with fatal ticks too, and SInv up to the first of them.
ShellInv ==
    /\ IInv
    /\ upc \in [Procs -> Places] /\ disturbed \in BOOLEAN
    /\ ~disturbed => SInv

\* The invariant holds at boot, and every step keeps it.
LEMMA ShellInvHolds == ShellSpec => []ShellInv
<1>1. ShellInit => ShellInv
  BY InitSInv DEF ShellInit, ShellInv, SInv
<1>2. ASSUME ShellInv, [ShellNext]_shellVars
      PROVE  ShellInv'
  <2>t. IInv /\ upc \in [Procs -> Places] /\ disturbed \in BOOLEAN /\ current_proc \in Procs
    BY <1>2 DEF ShellInv, IInv, TypeOK
  <2>1. IInv'
    BY <1>2, <2>t, ShellStepIsStep, NextIInv
  <2>2. disturbed' \in BOOLEAN /\ (disturbed => disturbed')
    <3>1. CASE TickStep
      BY <3>1, <2>t DEF TickStep
    <3>2. CASE NestedStep
      BY <3>2 DEF NestedStep
    <3>3. CASE KernelStep \/ ForkStep \/ ExecStep \/ UserProgram
      BY <3>3, <2>t DEF KernelStep, ForkStep, ExecStep, UserProgram
    <3>4. CASE UNCHANGED shellVars
      BY <3>4, <2>t DEF shellVars
    <3> QED
      BY <1>2, <3>1, <3>2, <3>3, <3>4 DEF ShellNext
  <2>3. upc' \in [Procs -> Places]
    <3>1. CASE KernelStep \/ TickStep \/ NestedStep
      BY <3>1, <2>t DEF KernelStep, TickStep, NestedStep
    <3>2. CASE ForkStep
      <4>1. upc[current_proc] \in Places
        BY <2>t
      <4> QED
        BY <3>2, <4>1, <2>t DEF ForkStep
    <3>3. ASSUME NEW place \in Places, GoTo(place)
          PROVE  upc' \in [Procs -> Places]
      BY <3>3, <2>t DEF GoTo
    <3>4. CASE ExecStep \/ UserProgram
      BY <3>3, <3>4, <2>t DEF ExecStep, UserProgram, Start, AfterRead, AfterFork, AfterExec,
         AfterWait, ShellCall, NoCommand, Places
    <3>5. CASE UNCHANGED shellVars
      BY <3>5, <2>t DEF shellVars
    <3> QED
      BY <1>2, <3>1, <3>2, <3>4, <3>5 DEF ShellNext
  <2>4. ~disturbed' => SInv'
    BY <1>2, <2>2, NextSInv DEF ShellInv
  <2> QED
    BY <2>1, <2>2, <2>3, <2>4 DEF ShellInv
<1> QED
  BY <1>1, <1>2, PTL DEF ShellSpec

-----------------------------------------------------------------------------
(* What the invariant shows, wherever ticks strike: up to the first fatal   *)
(* one, a switch at exec's ecall or behind the parent's fork, or a tick     *)
(* inside sys_wait().                                                       *)

\* The process the kernel started stays the shell, and only its copies become
\* commands: unless a fatal tick strikes, the shell never execs, and never takes itself
\* for the child.
THEOREM ShellStaysShell == ShellSpec => []ShellTypeOK
<1>1. SInv => upc[shell] \in {"prompt", "line", "parent"}
  BY DEF SInv, ShellPhase, ShellResting, ShellCalling
<1>2. ShellInv => ShellTypeOK
  BY <1>1 DEF ShellInv, IInv, ShellTypeOK
<1> QED
  BY <1>2, ShellInvHolds, PTL

\* Until a fatal tick there are never more than idle, shell and one command, whatever
\* the size of the process table: the scan of scheduler.c passes nobody over.
THEOREM NeverTwoCommands == ShellSpec => []OneCommandAtATime
<1>1. ShellInv => OneCommandAtATime
  BY DEF ShellInv, SInv, TableShape, OneCommandAtATime
<1> QED
  BY <1>1, ShellInvHolds, PTL

\* Until a fatal tick nobody else is left while the shell polls for a key, so the
\* yield() of sys_read returns and no character is lost.
THEOREM NoCharacterLost == ShellSpec => []ReadUndisturbed
<1>1. ShellInv => ReadUndisturbed
  <2> SUFFICES ASSUME SInv, mode = "reading"
               PROVE  current_proc = shell /\ process_count = 2
    BY DEF ShellInv, ReadUndisturbed
  <2>1. current_proc = shell /\ upc[shell] = "prompt"
    BY DEF SInv, ModePhase
  <2>2. Alone
    BY <2>1 DEF SInv, ShellPhase, ShellResting, ShellCalling
  <2> QED
    BY <2>1, <2>2 DEF SInv, TableShape
<1> QED
  BY <1>1, ShellInvHolds, PTL

\* The shell waits only for a child that exists and only the child execs, so the
\* endless loop of sys_wait(), the return of exec into the old image and every panic
\* of module Process are out of reach of every tick but a fatal one.
THEOREM ShellNeverStops == ShellSpec => []ShellKeepsRunning
<1>1. ShellInv => ShellKeepsRunning
  BY DEF ShellInv, SInv, ModePhase, TableShape, ShellKeepsRunning, Stopped, Schedulable
<1> QED
  BY <1>1, ShellInvHolds, PTL

\* Until a fatal tick every process of the booted system has a living parent: nobody
\* is left behind by a parent that was reaped, for the next process of its slot to
\* inherit.
THEOREM NobodyOrphaned == ShellSpec => []NoOrphans
<1>1. ShellInv => NoOrphans
  <2> SUFFICES ASSUME SInv, NEW p \in Procs \ {idle_proc}, state[p] # "UNUSED"
               PROVE  parent[p] \in Procs /\ state[parent[p]] \in Schedulable
    BY DEF ShellInv, NoOrphans, Schedulable
  <2>1. p = shell \/ (p = command /\ ~Alone)
    <3>1. ~(p > command)
      BY DEF SInv, TableShape
    <3>2. p \in 0 .. (PROCS_MAX - 1) /\ p # 0
      BY DEF Procs, idle_proc
    <3>3. p = shell \/ p = command
      BY <3>1, <3>2, ProcessAssumption DEF shell, command
    <3> QED
      BY <3>3 DEF Alone
  <2>2. state[idle_proc] \in Schedulable /\ state[shell] \in Schedulable
    BY DEF SInv, IInv, IdleStays, TableShape
  <2> QED
    BY <2>1, <2>2, Slots DEF SInv, TableShape
<1> QED
  BY <1>1, ShellInvHolds, PTL
=============================================================================
