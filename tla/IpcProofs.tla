----------------------------- MODULE IpcProofs -----------------------------
(***************************************************************************)
(* Proofs about Ipc for any number of slots, messages and sizes.  TypeOK   *)
(* and InboxConserves together are inductive: InboxConserves names the     *)
(* contents of every inbox, so nothing has to be added to it.              *)
(***************************************************************************)
EXTENDS Ipc, SetLemmas, TLAPS

IInv == TypeOK /\ InboxConserves

\* The slot fork() picks is one of the table.
LEMMA ForkPicksSlot ==
    ASSUME FreeSlots # {} PROVE Min(FreeSlots) \in Procs
<1>1. FreeSlots \subseteq Nat
  BY IpcAssumption DEF FreeSlots, Procs
<1>2. Min(FreeSlots) \in FreeSlots
  BY <1>1, MinIsElement
<1> QED
  BY <1>2 DEF FreeSlots

\* A pid that sys_ipc_send() accepts names a slot of the table.
LEMMA PidNamesSlot ==
    ASSUME NEW pid \in Int, get_proc_by_pid(pid) # NULL
    PROVE  get_proc_by_pid(pid) \in Procs
  BY IpcAssumption DEF get_proc_by_pid, NULL, Procs

\* What is written to an inbox is a message.
LEMMA MessageTyped ==
    ASSUME NEW p \in Procs, NEW n \in Nat, NEW size \in Nat, size <= MAX_MSG_SIZE
    PROVE  [pending |-> TRUE, id |-> n, size |-> size, sender |-> Pid(p)] \in Inbox
  BY IpcAssumption DEF Inbox, Pid, Procs

\* An empty inbox is one.
LEMMA EmptyTyped == Empty \in Inbox
  BY IpcAssumption DEF Empty, Inbox

\* The invariant holds at boot.
LEMMA InitIInv == Init => IInv
<1> SUFFICES ASSUME Init PROVE IInv
  OBVIOUS
<1>1. TypeOK
  <2>1. <<>> \in Seq(Nat)
    OBVIOUS
  <2>2. /\ accepted \in [Procs -> Seq(Nat)] /\ taken \in [Procs -> Seq(Nat)]
        /\ inbox \in [Procs -> Inbox]
    BY <2>1, EmptyTyped DEF Init
  <2>3. life \in [Procs -> {"UNUSED", "ALIVE", "ZOMBIE"}]
    <3>1. \A p \in Procs : life[p] \in {"UNUSED", "ALIVE", "ZOMBIE"}
      BY DEF Init
    <3> QED
      BY <3>1 DEF Init
  <2>4. at \in [Procs -> {"run", "recv"}]
    BY DEF Init
  <2>5. ret \in Int /\ count \in Nat
    BY DEF Init
  <2>6. panicked \in BOOLEAN
    BY DEF Init
  <2> QED
    BY <2>2, <2>3, <2>4, <2>5, <2>6 DEF TypeOK
<1>2. InboxConserves
  BY DEF Init, InboxConserves, Waiting, Empty
<1> QED
  BY <1>1, <1>2 DEF IInv

\* The slot fork() clears starts with no history and no message.
LEMMA ForkIInv == ASSUME IInv, NEW p \in Procs, fork(p) PROVE IInv'
<1> DEFINE child == Min(FreeSlots)
<1>1. child \in Procs /\ FreeSlots # {}
  BY ForkPicksSlot DEF fork
<1>2. /\ life' = [life EXCEPT ![child] = "ALIVE"]
      /\ inbox' = [inbox EXCEPT ![child] = Empty]
      /\ at' = [at EXCEPT ![child] = "run"]
      /\ ret' = Pid(child)
      /\ accepted' = [accepted EXCEPT ![child] = <<>>]
      /\ taken' = [taken EXCEPT ![child] = <<>>]
      /\ UNCHANGED <<panicked, count>>
  BY DEF fork
<1> HIDE DEF child
<1>3. Pid(child) \in Int
  BY <1>1, IpcAssumption DEF Pid, Procs
<1>4. TypeOK'
  BY <1>1, <1>2, <1>3, EmptyTyped DEF IInv, TypeOK
<1>5. ASSUME NEW q \in Procs PROVE (accepted[q] = taken[q] \o Waiting(q))'
  <2>1. CASE q = child
    <3>1. /\ accepted'[q] = <<>> /\ taken'[q] = <<>> /\ inbox'[q] = Empty
      BY <1>1, <1>2, <2>1 DEF IInv, TypeOK
    <3> QED
      BY <3>1 DEF Waiting, Empty
  <2>2. CASE q # child
    <3>1. /\ accepted'[q] = accepted[q] /\ taken'[q] = taken[q] /\ inbox'[q] = inbox[q]
      BY <1>1, <1>2, <2>2 DEF IInv, TypeOK
    <3> QED
      BY <3>1 DEF IInv, InboxConserves, Waiting
  <2> QED
    BY <2>1, <2>2
<1> QED
  BY <1>4, <1>5 DEF IInv, InboxConserves

\* A message that is accepted is appended to a history whose inbox was empty.
LEMMA SendIInv ==
    ASSUME IInv, NEW p \in Procs, NEW dest_pid \in DestPids, NEW size \in Sizes,
           sys_ipc_send(p, dest_pid, size)
    PROVE  IInv'
<1> DEFINE dest == get_proc_by_pid(dest_pid)
           msg  == [pending |-> TRUE, id |-> count + 1, size |-> size, sender |-> Pid(p)]
<1>1. dest \in Procs
  BY PidNamesSlot, IpcAssumption DEF sys_ipc_send, DestPids
<1>2. /\ inbox' = [inbox EXCEPT ![dest] = msg]
      /\ accepted' = [accepted EXCEPT ![dest] = Append(accepted[dest], count + 1)]
      /\ count' = count + 1 /\ ret' = 0
      /\ ~inbox[dest].pending
      /\ UNCHANGED <<life, at, panicked, taken>>
  BY <1>1 DEF sys_ipc_send, IInv, TypeOK
<1>3. msg \in Inbox /\ msg.pending /\ msg.id = count + 1
  BY MessageTyped, IpcAssumption DEF sys_ipc_send, IInv, TypeOK
<1> HIDE DEF dest, msg
<1>4. count + 1 \in Nat /\ accepted[dest] \in Seq(Nat)
  BY <1>1 DEF IInv, TypeOK
<1>5. Append(accepted[dest], count + 1) \in Seq(Nat)
  BY <1>4
<1>6. TypeOK'
  BY <1>1, <1>2, <1>3, <1>4, <1>5 DEF IInv, TypeOK
<1>7. ASSUME NEW q \in Procs PROVE (accepted[q] = taken[q] \o Waiting(q))'
  <2>1. CASE q = dest
    <3>1. /\ accepted'[q] = Append(accepted[q], count + 1)
          /\ taken'[q] = taken[q] /\ inbox'[q] = msg
      BY <1>1, <1>2, <2>1 DEF IInv, TypeOK
    <3>2. Waiting(q)' = <<count + 1>>
      BY <3>1, <1>3 DEF Waiting
    <3>3. taken[q] \in Seq(Nat) /\ accepted[q] = taken[q] \o <<>>
      BY <1>2, <2>1 DEF IInv, TypeOK, InboxConserves, Waiting
    <3>4. Append(taken[q], count + 1) = taken[q] \o <<count + 1>>
      BY <3>3, <1>4
    <3> QED
      BY <3>1, <3>2, <3>3, <3>4
  <2>2. CASE q # dest
    <3>1. /\ accepted'[q] = accepted[q] /\ taken'[q] = taken[q] /\ inbox'[q] = inbox[q]
      BY <1>1, <1>2, <2>2 DEF IInv, TypeOK
    <3> QED
      BY <3>1 DEF IInv, InboxConserves, Waiting
  <2> QED
    BY <2>1, <2>2
<1> QED
  BY <1>6, <1>7 DEF IInv, InboxConserves

\* A message that is taken moves from the inbox to the history.
LEMMA RecvIInv ==
    ASSUME IInv, NEW p \in Procs, NEW max_size \in BufSizes, sys_ipc_recv(p, max_size)
    PROVE  IInv'
<1>1. /\ inbox' = [inbox EXCEPT ![p] = Empty]
      /\ taken' = [taken EXCEPT ![p] = Append(taken[p], inbox[p].id)]
      /\ inbox[p].pending
      /\ UNCHANGED <<life, panicked, count, accepted>>
  BY DEF sys_ipc_recv, IInv, TypeOK
<1>2. inbox[p] \in Inbox /\ inbox[p].id \in Nat /\ inbox[p].size \in Int
  BY IpcAssumption DEF IInv, TypeOK, Inbox
<1>3. copy_size(p, max_size) \in Int
  BY <1>2, IpcAssumption DEF copy_size
<1>4. at' \in [Procs -> {"run", "recv"}] /\ ret' \in Int
  <2>1. CASE copy_size(p, max_size) = 1
    <3>1. ret' = -1 /\ at' = [at EXCEPT ![p] = "recv"]
      BY <2>1 DEF sys_ipc_recv
    <3> QED
      BY <3>1 DEF IInv, TypeOK
  <2>2. CASE copy_size(p, max_size) # 1
    BY <1>3, <2>2 DEF sys_ipc_recv, IInv, TypeOK
  <2> QED
    BY <2>1, <2>2
<1>5. Append(taken[p], inbox[p].id) \in Seq(Nat)
  BY <1>2 DEF IInv, TypeOK
<1>6. TypeOK'
  BY <1>1, <1>4, <1>5, EmptyTyped DEF IInv, TypeOK
<1>7. ASSUME NEW q \in Procs PROVE (accepted[q] = taken[q] \o Waiting(q))'
  <2>1. CASE q = p
    <3>1. /\ accepted'[p] = accepted[p] /\ inbox'[p] = Empty
          /\ taken'[p] = Append(taken[p], inbox[p].id)
      BY <1>1 DEF IInv, TypeOK
    <3>2. accepted[p] = taken[p] \o <<inbox[p].id>>
      BY <1>1 DEF IInv, InboxConserves, Waiting
    <3>3. Waiting(p)' = <<>>
      BY <3>1 DEF Waiting, Empty
    <3>4. taken[p] \in Seq(Nat)
      BY DEF IInv, TypeOK
    <3>5. Append(taken[p], inbox[p].id) = taken[p] \o <<inbox[p].id>>
      BY <3>4, <1>2
    <3>6. Append(taken[p], inbox[p].id) \o <<>> = Append(taken[p], inbox[p].id)
      BY <1>5
    <3> QED
      BY <2>1, <3>1, <3>2, <3>3, <3>5, <3>6
  <2>2. CASE q # p
    <3>1. /\ accepted'[q] = accepted[q] /\ taken'[q] = taken[q] /\ inbox'[q] = inbox[q]
      BY <1>1, <2>2 DEF IInv, TypeOK
    <3> QED
      BY <3>1 DEF IInv, InboxConserves, Waiting
  <2> QED
    BY <2>1, <2>2
<1> QED
  BY <1>6, <1>7 DEF IInv, InboxConserves

\* Every step of every process keeps the invariant.
LEMMA NextIInv == IInv /\ [Next]_vars => IInv'
<1> SUFFICES ASSUME IInv, [Next]_vars PROVE IInv'
  OBVIOUS
<1>t. TypeOK
  BY DEF IInv
<1>1. ASSUME UNCHANGED <<inbox, accepted, taken>> PROVE InboxConserves'
  BY <1>1 DEF IInv, InboxConserves, Waiting
<1>2. ASSUME NEW p \in Procs, fork(p) PROVE IInv'
  BY <1>2, ForkIInv
<1>3. ASSUME NEW p \in Procs, exit(p) PROVE IInv'
  BY <1>t, <1>1, <1>3 DEF exit, IInv, TypeOK
<1>4. ASSUME NEW p \in Procs, free_proc(p) PROVE IInv'
  BY <1>t, <1>1, <1>4 DEF free_proc, IInv, TypeOK
<1>5. ASSUME NEW val \in Int, Answer(val) PROVE IInv'
  BY <1>t, <1>1, <1>5 DEF Answer, IInv, TypeOK
<1>6. ASSUME NEW p \in Procs, NEW dest_pid \in DestPids, send_invalid(p, dest_pid)
      PROVE  IInv'
  BY <1>5, <1>6 DEF send_invalid
<1>7. ASSUME NEW p \in Procs, NEW dest_pid \in DestPids, send_panic(p, dest_pid)
      PROVE  IInv'
  BY <1>t, <1>1, <1>7 DEF send_panic, IInv, TypeOK
<1>8. ASSUME NEW p \in Procs, NEW dest_pid \in DestPids, NEW size \in Sizes,
             send_refused(p, dest_pid, size)
      PROVE  IInv'
  BY <1>5, <1>8 DEF send_refused
<1>9. ASSUME NEW p \in Procs, NEW dest_pid \in DestPids, NEW size \in Sizes,
             sys_ipc_send(p, dest_pid, size)
      PROVE  IInv'
  BY <1>9, SendIInv
<1>10. ASSUME NEW p \in Procs, recv_empty(p) PROVE IInv'
  BY <1>t, <1>1, <1>10 DEF recv_empty, IInv, TypeOK
<1>11. ASSUME NEW p \in Procs, NEW max_size \in BufSizes, sys_ipc_recv(p, max_size)
       PROVE  IInv'
  BY <1>11, RecvIInv
<1>12. CASE UNCHANGED vars
  BY <1>t, <1>1, <1>12 DEF vars, IInv, TypeOK
<1> QED
  BY <1>2, <1>3, <1>4, <1>6, <1>7, <1>8, <1>9, <1>10, <1>11, <1>12 DEF Next, Send, Recv

-----------------------------------------------------------------------------
(* Theorems                                                                 *)

\* Inboxes and histories keep their types, and an inbox never holds more than
\* MAX_MSG_SIZE bytes, whatever sizes programs pass to ipc_send().
THEOREM TypeCorrect == Spec => []TypeOK
  BY InitIInv, NextIInv, PTL DEF Spec, IInv

\* For every number of processes and messages, a message that sys_ipc_send()
\* accepted is taken once and in order by the process it was sent to, or waits.
THEOREM NoMessageLost == Spec => []InboxConserves
  BY InitIInv, NextIInv, PTL DEF Spec, IInv
=============================================================================
