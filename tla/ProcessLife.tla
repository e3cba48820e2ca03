---------------------------- MODULE ProcessLife ----------------------------
(***************************************************************************)
(* What fork, exit and wait promise about the life of processes, without   *)
(* scheduler, trap frames, memory or messages: a process is made by one    *)
(* that is alive, ends once, and its slot is given free only by its        *)
(* parent, which is alive.  Process, the model of the process table, and   *)
(* ProcMem, the model of its memory, implement this specification.         *)
(*                                                                         *)
(* A parent is a slot: when a process is reaped before its children, the   *)
(* next process of its slot is their parent, as in kernel/process.c.       *)
(***************************************************************************)

CONSTANTS
    Slot,           \* entries of the process table
    NoSlot,         \* no parent
    Root,           \* the process the kernel falls back on: it makes no calls
    First           \* the process the kernel starts

VARIABLES
    life,           \* what became of each slot
    parent

LifeInit ==
    /\ life = [s \in Slot |-> IF s \in {Root, First} THEN "ALIVE" ELSE "UNUSED"]
    /\ parent = [s \in Slot |-> IF s = First THEN Root ELSE NoSlot]

\* Process p makes a process in slot c.
Fork(p, c) ==
    /\ life[p] = "ALIVE" /\ life[c] = "UNUSED"
    /\ life' = [life EXCEPT ![c] = "ALIVE"]
    /\ parent' = [parent EXCEPT ![c] = p]

\* Process p ends, once.
Exit(p) ==
    /\ life[p] = "ALIVE"
    /\ life' = [life EXCEPT ![p] = "ZOMBIE"]
    /\ UNCHANGED parent

\* Process p learns of the end of its child c, and the slot is free.
Reap(p, c) ==
    /\ life[p] = "ALIVE" /\ life[c] = "ZOMBIE" /\ parent[c] = p
    /\ life' = [life EXCEPT ![c] = "UNUSED"]
    /\ parent' = [parent EXCEPT ![c] = NoSlot]

LifeNext ==
    \E p \in Slot \ {Root} :
        \/ Exit(p)
        \/ \E c \in Slot : Fork(p, c) \/ Reap(p, c)

LifeSpec == LifeInit /\ [][LifeNext]_<<life, parent>>
=============================================================================
