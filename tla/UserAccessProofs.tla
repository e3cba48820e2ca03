-------------------------- MODULE UserAccessProofs --------------------------
(***************************************************************************)
(* Proofs about module UserAccess, for any number of processes and page    *)
(* tables and for reads of any length.                                     *)
(*                                                                         *)
(* The code of every system call is a concatenation of blocks, and a block *)
(* looks after itself: it leaves the page table it found, and sets SUM     *)
(* before it needs it.  Both facts survive concatenation (BlocksCompose),  *)
(* so they hold of the whole code; the inductive invariant says what is    *)
(* left of them in the middle of a call.                                   *)
(*                                                                         *)
(* The last two parts are about module UserMemory: that a copy and a       *)
(* program land where they should, for any table and any program headers.  *)
(***************************************************************************)
EXTENDS UserAccess, UserMemory, SetLemmas

-----------------------------------------------------------------------------
(* What the code of a system call keeps to                                  *)

Plain == {"enable_sum", "disable_sum", "user", "switch_pagetable", "restore_pagetable",
          "activate_kernel", "activate_own", "free_userspace", "exec_process",
          "fork", "yield", "block"}
Stmts == Plain \cup {"uart_getc", "zombie", "free_proc"}

\* Statements behind which another table than the caller's is active, and those
\* that only come behind them.
Opens  == {"switch_pagetable", "activate_kernel", "free_userspace", "exec_process"}
Inside == {"restore_pagetable", "free_userspace", "exec_process", "activate_own"}

\* Which statement follows which in the stretches with another table.
Linked(a, b) ==
    /\ a = "switch_pagetable" <=> b = "restore_pagetable"
    /\ a = "activate_kernel"  <=> b = "free_userspace"
    /\ a = "free_userspace"   <=> b = "exec_process"
    /\ a = "exec_process"     <=> b = "activate_own"

\* Every stretch with another table that is open is closed.
Nested(s) ==
    /\ \A i \in 1..Len(s) : i < Len(s) => Linked(s[i], s[i + 1])
    /\ s # <<>> => s[Len(s)] \notin Opens

\* The accesses through user pointers.
NeedsSum == {"user", "uart_getc"}

\* SUM is set by the code itself before statement j needs it.
Supplied(s, j) ==
    \E k \in 1..(j - 1) : /\ s[k] = "enable_sum"
                          /\ \A m \in k..j : s[m] # "disable_sum"

\* SUM is cleared at or behind statement i, before another process may run.
Cleared(s, i) ==
    \E k \in i..Len(s) : /\ s[k] = "disable_sum"
                         /\ \A m \in i..k : s[m] \notin {"yield", "block"}

\* A piece of code that leaves the table it found and sets SUM where it needs it.
Block(s) ==
    /\ s \in Seq(Stmts)
    /\ Nested(s)
    /\ s # <<>> => s[1] \notin Inside
    /\ \A j \in 1..Len(s) : s[j] \in NeedsSum => Supplied(s, j)

\* A piece of code that clears SUM if it sets it.
Tidy(s) == \A i \in 1..Len(s) : s[i] = "enable_sum" => Cleared(s, i)

-----------------------------------------------------------------------------
(* The inductive invariant                                                  *)

Typed ==
    /\ state \in [Procs -> {"UNUSED", "READY", "ZOMBIE"}]
    /\ page_table \in [Procs -> Tables \cup {NULL}]
    /\ current_proc \in Procs
    /\ state[current_proc] # "UNUSED"
    /\ todo \in Seq(Stmts)

\* Only wait frees a slot, and its caller is alive; only exit makes a zombie; the
\* rest of a read is behind its next character.
RightCall ==
    \A i \in 1..Len(todo) :
        /\ todo[i] = "free_proc" => call = "wait" /\ state[current_proc] = "READY"
        /\ todo[i] = "zombie" => call = "exit"
        /\ todo[i] = "uart_getc" => i = Len(todo)

\* The active table, by the next statement: the kernel's inside a stretch, with the
\* caller's to restore at the end of a log; the caller's everywhere else.
ActiveTable ==
    /\ todo = <<>> \/ todo[1] \notin Inside => satp = page_table[current_proc]
    /\ todo # <<>> /\ todo[1] \in Inside => satp = Kernel
    /\ todo # <<>> /\ todo[1] = "restore_pagetable" => old_satp = page_table[current_proc]

\* An access still to come finds SUM set by the code before it, or already set and
\* not cleared on the way.
SumAhead ==
    \A j \in 1..Len(todo) :
        todo[j] \in NeedsSum =>
            Supplied(todo, j) \/ (sum /\ \A m \in 1..j : todo[m] # "disable_sum")

\* Every call but read clears SUM if it sets it, and will if it has.
SumBehind ==
    /\ call = "read" \/ Tidy(todo)
    /\ sum => enabledBy = "read" \/ (todo # <<>> /\ Cleared(todo, 1))

IInv ==
    /\ Typed
    /\ RightCall
    /\ Nested(todo)
    /\ ActiveTable
    /\ SumAhead
    /\ SumBehind
    /\ NoFault

-----------------------------------------------------------------------------
(* Lemmas about code                                                        *)

\* The statements of a concatenation.
LEMMA ConcatFacts ==
    ASSUME NEW s \in Seq(Stmts), NEW t \in Seq(Stmts)
    PROVE  /\ s \o t \in Seq(Stmts)
           /\ Len(s \o t) = Len(s) + Len(t)
           /\ Len(s) \in Nat /\ Len(t) \in Nat
           /\ \A i \in 1..Len(s) : (s \o t)[i] = s[i]
           /\ \A i \in 1..Len(t) : (s \o t)[Len(s) + i] = t[i]
  OBVIOUS

\* The statements that are left when the first has been executed.
LEMMA TailFacts ==
    ASSUME NEW s \in Seq(Stmts), s # <<>>
    PROVE  /\ Tail(s) \in Seq(Stmts)
           /\ Len(s) \in Nat /\ Len(s) > 0 /\ Len(Tail(s)) = Len(s) - 1
           /\ \A i \in 1..Len(Tail(s)) : Tail(s)[i] = s[i + 1]
           /\ Tail(s) = <<>> <=> Len(s) = 1
           /\ s[1] \in Stmts /\ Head(s) = s[1]
<1>1. /\ Len(s) \in Nat /\ Len(s) > 0 /\ s[1] \in Stmts /\ Head(s) = s[1]
  OBVIOUS
<1>2. /\ Tail(s) \in Seq(Stmts) /\ Len(Tail(s)) = Len(s) - 1
      /\ \A i \in 1..Len(Tail(s)) : Tail(s)[i] = s[i + 1]
  OBVIOUS
<1>3. Tail(s) = <<>> <=> Len(Tail(s)) = 0
  BY <1>2
<1> QED
  BY <1>1, <1>2, <1>3

\* Blocks in a row are a block.
LEMMA BlocksCompose ==
    ASSUME NEW s, NEW t, Block(s), Block(t)
    PROVE  Block(s \o t)
<1> DEFINE r == s \o t
<1>1. s \in Seq(Stmts) /\ t \in Seq(Stmts)
  BY DEF Block
<1>2. /\ r \in Seq(Stmts) /\ Len(r) = Len(s) + Len(t)
      /\ Len(s) \in Nat /\ Len(t) \in Nat
      /\ \A i \in 1..Len(s) : r[i] = s[i]
      /\ \A i \in 1..Len(t) : r[Len(s) + i] = t[i]
  BY <1>1, ConcatFacts
<1>3. \A i \in 1..Len(r) : i > Len(s) => i - Len(s) \in 1..Len(t) /\ r[i] = t[i - Len(s)]
  BY <1>2
<1>e. (s = <<>> <=> Len(s) = 0) /\ (t = <<>> <=> Len(t) = 0) /\ (r = <<>> <=> Len(r) = 0)
  BY <1>1, <1>2
<1> HIDE DEF r
<1>4. Nested(r)
  <2>1. ASSUME NEW i \in 1..Len(r), i < Len(r)
        PROVE  Linked(r[i], r[i + 1])
    <3>1. CASE i < Len(s)
      BY <3>1, <1>2 DEF Block, Nested
    <3>2. CASE i = Len(s)
      <4>1. r[i] = s[Len(s)] /\ r[i + 1] = t[1] /\ s # <<>> /\ t # <<>>
        BY <2>1, <3>2, <1>2, <1>e
      <4>2. s[Len(s)] \notin Opens /\ t[1] \notin Inside
        BY <4>1 DEF Block, Nested
      <4> QED
        BY <4>1, <4>2 DEF Linked, Opens, Inside
    <3>3. CASE i > Len(s)
      <4> DEFINE j == i - Len(s)
      <4>1. j \in 1..Len(t) /\ j < Len(t) /\ r[i] = t[j] /\ r[i + 1] = t[j + 1]
        BY <2>1, <3>3, <1>2, <1>3
      <4> HIDE DEF j
      <4> QED
        BY <4>1 DEF Block, Nested
    <3> QED
      BY <1>2, <3>1, <3>2, <3>3
  <2>2. ASSUME r # <<>> PROVE r[Len(r)] \notin Opens
    <3>1. CASE t = <<>>
      BY <2>2, <3>1, <1>2, <1>e DEF Block, Nested
    <3>2. CASE t # <<>>
      <4>1. Len(t) > 0 /\ r[Len(r)] = t[Len(t)]
        BY <3>2, <1>2, <1>e
      <4> QED
        BY <3>2, <4>1 DEF Block, Nested
    <3> QED
      BY <3>1, <3>2
  <2> QED
    BY <2>1, <2>2 DEF Nested
<1>5. r # <<>> => r[1] \notin Inside
  <2>1. CASE s = <<>>
    BY <2>1, <1>2, <1>3, <1>e DEF Block
  <2>2. CASE s # <<>>
    BY <2>2, <1>2, <1>e DEF Block
  <2> QED
    BY <2>1, <2>2
<1>6. ASSUME NEW j \in 1..Len(r), r[j] \in NeedsSum
      PROVE  Supplied(r, j)
  <2>1. CASE j <= Len(s)
    <3>1. Supplied(s, j)
      BY <2>1, <1>2, <1>6 DEF Block
    <3>2. PICK k \in 1..(j - 1) : s[k] = "enable_sum" /\ \A m \in k..j : s[m] # "disable_sum"
      BY <3>1 DEF Supplied
    <3>3. r[k] = "enable_sum"
      BY <3>2, <2>1, <1>2
    <3>4. ASSUME NEW m \in k..j PROVE r[m] # "disable_sum"
      BY <3>2, <2>1, <1>2
    <3> QED
      BY <3>3, <3>4 DEF Supplied
  <2>2. CASE j > Len(s)
    <3>1. Supplied(t, j - Len(s))
      BY <2>2, <1>2, <1>3, <1>6 DEF Block
    <3>2. PICK k \in 1..(j - Len(s) - 1) :
              t[k] = "enable_sum" /\ \A m \in k..(j - Len(s)) : t[m] # "disable_sum"
      BY <3>1 DEF Supplied
    <3>3. Len(s) + k \in 1..(j - 1) /\ r[Len(s) + k] = "enable_sum"
      BY <3>2, <1>2, <2>2
    <3>4. ASSUME NEW m \in (Len(s) + k)..j PROVE r[m] # "disable_sum"
      <4>1. m - Len(s) \in k..(j - Len(s)) /\ m \in 1..Len(r) /\ m > Len(s)
        BY <1>2, <2>2
      <4> QED
        BY <4>1, <3>2, <1>3
    <3> QED
      BY <3>3, <3>4 DEF Supplied
  <2> QED
    BY <1>2, <2>1, <2>2
<1> QED
  BY <1>2, <1>4, <1>5, <1>6 DEF Block, r

\* Tidy pieces in a row are tidy.
LEMMA TidyCompose ==
    ASSUME NEW s \in Seq(Stmts), NEW t \in Seq(Stmts), Tidy(s), Tidy(t)
    PROVE  Tidy(s \o t)
<1> DEFINE r == s \o t
<1>2. /\ r \in Seq(Stmts) /\ Len(r) = Len(s) + Len(t)
      /\ Len(s) \in Nat /\ Len(t) \in Nat
      /\ \A i \in 1..Len(s) : r[i] = s[i]
      /\ \A i \in 1..Len(t) : r[Len(s) + i] = t[i]
  BY ConcatFacts
<1>3. \A i \in 1..Len(r) : i > Len(s) => i - Len(s) \in 1..Len(t) /\ r[i] = t[i - Len(s)]
  BY <1>2
<1> HIDE DEF r
<1>4. ASSUME NEW i \in 1..Len(r), r[i] = "enable_sum"
      PROVE  Cleared(r, i)
  <2>1. CASE i <= Len(s)
    <3>1. Cleared(s, i)
      BY <2>1, <1>2, <1>4 DEF Tidy
    <3>2. PICK k \in i..Len(s) :
              s[k] = "disable_sum" /\ \A m \in i..k : s[m] \notin {"yield", "block"}
      BY <3>1 DEF Cleared
    <3>3. k \in i..Len(r) /\ r[k] = "disable_sum"
      BY <3>2, <2>1, <1>2
    <3>4. ASSUME NEW m \in i..k PROVE r[m] \notin {"yield", "block"}
      BY <3>2, <2>1, <1>2
    <3> QED
      BY <3>3, <3>4 DEF Cleared
  <2>2. CASE i > Len(s)
    <3>1. Cleared(t, i - Len(s))
      BY <2>2, <1>2, <1>3, <1>4 DEF Tidy
    <3>2. PICK k \in (i - Len(s))..Len(t) :
              /\ t[k] = "disable_sum"
              /\ \A m \in (i - Len(s))..k : t[m] \notin {"yield", "block"}
      BY <3>1 DEF Cleared
    <3>3. Len(s) + k \in i..Len(r) /\ r[Len(s) + k] = "disable_sum"
      BY <3>2, <1>2, <2>2
    <3>4. ASSUME NEW m \in i..(Len(s) + k) PROVE r[m] \notin {"yield", "block"}
      <4>1. m - Len(s) \in (i - Len(s))..k /\ m \in 1..Len(r) /\ m > Len(s)
        BY <1>2, <2>2
      <4> QED
        BY <4>1, <3>2, <1>3

    <3> QED
      BY <3>3, <3>4 DEF Cleared
  <2> QED
    BY <1>2, <2>1, <2>2
<1> QED
  BY <1>4 DEF Tidy, r

\* The pieces the system calls are made of are blocks, and clear SUM if they set it.
LEMMA Pieces ==
    /\ Block(log_user) /\ Tidy(log_user)
    /\ Block(Guarded) /\ Tidy(Guarded)
    /\ Block(ReadArguments) /\ Tidy(ReadArguments)
    /\ Block(ReplaceSpace) /\ Tidy(ReplaceSpace)
    /\ Block(<<>>) /\ Tidy(<<>>)
    /\ \A x \in {"yield", "block", "fork", "free_proc", "zombie", "disable_sum"} :
          Block(<<x>>) /\ Tidy(<<x>>)
<1> USE DEF Stmts, Plain, Opens, Inside, Linked, NeedsSum
<1>1. Block(log_user) /\ Tidy(log_user)
  BY DEF Block, Nested, Tidy, log_user
<1>2. Block(Guarded) /\ Tidy(Guarded)
  <2>1. Supplied(Guarded, 2) /\ Cleared(Guarded, 1)
    BY DEF Supplied, Cleared, Guarded
  <2> QED
    BY <2>1 DEF Block, Nested, Tidy, Guarded
<1>3. Block(ReadArguments) /\ Tidy(ReadArguments)
  <2>1. /\ Supplied(ReadArguments, 3)
        /\ Cleared(ReadArguments, 1) /\ Cleared(ReadArguments, 2)
    BY DEF Supplied, Cleared, ReadArguments
  <2> QED
    BY <2>1 DEF Block, Nested, Tidy, ReadArguments
<1>4. Block(ReplaceSpace) /\ Tidy(ReplaceSpace)
  BY DEF Block, Nested, Tidy, ReplaceSpace
<1>5. Block(<<>>) /\ Tidy(<<>>)
  BY DEF Block, Nested, Tidy
<1>6. ASSUME NEW x \in {"yield", "block", "fork", "free_proc", "zombie", "disable_sum"}
      PROVE  Block(<<x>>) /\ Tidy(<<x>>)
  BY DEF Block, Nested, Tidy
<1> QED
  BY <1>1, <1>2, <1>3, <1>4, <1>5, <1>6

\* Tidy blocks in a row.
LEMMA TidyBlocks ==
    ASSUME NEW s, NEW t, Block(s) /\ Tidy(s), Block(t) /\ Tidy(t)
    PROVE  Block(s \o t) /\ Tidy(s \o t)
<1>1. s \in Seq(Stmts) /\ t \in Seq(Stmts)
  BY DEF Block
<1> QED
  BY <1>1, BlocksCompose, TidyCompose

\* The code of every system call but read is a tidy block.
LEMMA CallsAreBlocks ==
    /\ Block(yield) /\ Tidy(yield)
    /\ Block(sys_write) /\ Tidy(sys_write)
    /\ Block(sys_fork) /\ Tidy(sys_fork)
    /\ Block(sys_exec_fail) /\ Tidy(sys_exec_fail)
    /\ \A argc : Block(sys_exec(argc)) /\ Tidy(sys_exec(argc))
    /\ Block(sys_exit) /\ Tidy(sys_exit)
    /\ \A status \in BOOLEAN : Block(sys_wait(status)) /\ Tidy(sys_wait(status))
    /\ Block(sys_wait_block) /\ Tidy(sys_wait_block)
    /\ Block(sys_log) /\ Tidy(sys_log)
    /\ Block(sys_ipc) /\ Tidy(sys_ipc)
    /\ Block(sys_tarfs_exists) /\ Tidy(sys_tarfs_exists)
    /\ Block(NoAccess) /\ Tidy(NoAccess)
    /\ Block(log_user \o yield) /\ Tidy(log_user \o yield)
<1> DEFINE Good(s) == Block(s) /\ Tidy(s)
<1>1. ASSUME NEW s, NEW t, Good(s), Good(t) PROVE Good(s \o t)
  BY <1>1, TidyBlocks
<1>2. /\ Good(log_user) /\ Good(Guarded) /\ Good(ReadArguments) /\ Good(ReplaceSpace)
      /\ Good(<<>>) /\ Good(<<"yield">>) /\ Good(<<"block">>) /\ Good(<<"fork">>)
      /\ Good(<<"free_proc">>) /\ Good(<<"zombie">>) /\ Good(<<"disable_sum">>)
  BY Pieces
<1> HIDE DEF Good
<1>3. Good(yield)
  BY <1>1, <1>2 DEF yield
<1>4. Good(sys_write) /\ Good(sys_exec_fail) /\ Good(sys_tarfs_exists) /\ Good(NoAccess)
  BY <1>2 DEF sys_write, sys_exec_fail, sys_tarfs_exists, NoAccess
<1>5. Good(sys_fork) /\ Good(sys_exit) /\ Good(sys_log) /\ Good(log_user \o yield)
  BY <1>1, <1>2, <1>3 DEF sys_fork, sys_exit, sys_log
<1>6. Good(sys_wait_block) /\ Good(sys_ipc)
  <2>1. Good(log_user \o log_user) /\ Good(log_user \o Guarded)
    BY <1>1, <1>2
  <2> QED
    BY <2>1, <1>1, <1>2 DEF sys_wait_block, sys_ipc
<1>7. ASSUME NEW status \in BOOLEAN PROVE Good(sys_wait(status))
  <2> DEFINE g == IF status THEN Guarded ELSE <<>>
  <2>1. Good(g)
    BY <1>2
  <2> HIDE DEF g
  <2>2. Good(log_user \o g)
    BY <2>1, <1>1, <1>2
  <2>3. Good(log_user \o g \o <<"free_proc">>)
    BY <2>2, <1>1, <1>2
  <2>4. Good(log_user \o g \o <<"free_proc">> \o log_user)
    BY <2>3, <1>1, <1>2
  <2> QED
    BY <2>4 DEF sys_wait, g
<1>8. ASSUME NEW argc PROVE Good(sys_exec(argc))
  <2> DEFINE a == setup_user_arguments(argc)
             h == ReadArguments \o ReplaceSpace
  <2>1. Good(a)
    <3>1. Good(log_user \o Guarded)
      BY <1>1, <1>2
    <3>2. Good(log_user \o Guarded \o Guarded)
      BY <3>1, <1>1, <1>2
    <3> QED
      BY <3>2, <1>2 DEF setup_user_arguments
  <2>2. Good(h)
    BY <1>1, <1>2
  <2> HIDE DEF a, h
  <2>3. Good(h \o a)
    BY <2>1, <2>2, <1>1
  <2>4. Good(h \o a \o log_user)
    BY <2>3, <1>1, <1>2
  <2>5. Good(h \o a \o log_user \o yield)
    BY <2>4, <1>1, <1>3
  <2>6. Good(h \o a \o log_user \o yield \o <<"disable_sum">>)
    BY <2>5, <1>1, <1>2
  <2> QED
    BY <2>6 DEF sys_exec, a, h
<1> QED
  BY <1>3, <1>4, <1>5, <1>6, <1>7, <1>8 DEF Good

\* The two codes of read are blocks; they do not clear SUM.
LEMMA ReadIsBlock == Block(sys_read) /\ Block(sys_read_refused)
<1>1. Supplied(sys_read, 2)
  BY DEF Supplied, sys_read
<1> QED
  BY <1>1 DEF Block, Nested, sys_read, sys_read_refused, Stmts, Plain, Opens, Inside, Linked,
              NeedsSum

\* Which codes free a slot, make a zombie or wait for a key.
LEMMA CallsAreRight ==
    /\ {yield, sys_write, sys_fork, sys_exec_fail, sys_wait_block, sys_log, sys_ipc,
        sys_tarfs_exists, NoAccess, log_user \o yield, log_user} \subseteq Seq(Plain)
    /\ \A argc : sys_exec(argc) \in Seq(Plain)
    /\ sys_exit \in Seq(Plain \cup {"zombie"})
    /\ \A status \in BOOLEAN : sys_wait(status) \in Seq(Plain \cup {"free_proc"})
<1>1. /\ log_user \in Seq(Plain) /\ Guarded \in Seq(Plain)
      /\ ReadArguments \in Seq(Plain) /\ ReplaceSpace \in Seq(Plain) /\ <<>> \in Seq(Plain)
      /\ <<"yield">> \in Seq(Plain) /\ <<"block">> \in Seq(Plain)
      /\ <<"fork">> \in Seq(Plain) /\ <<"disable_sum">> \in Seq(Plain)
  BY DEF Plain, log_user, Guarded, ReadArguments, ReplaceSpace
<1>2. ASSUME NEW s \in Seq(Plain), NEW t \in Seq(Plain) PROVE s \o t \in Seq(Plain)
  OBVIOUS
<1>3. yield \in Seq(Plain) /\ log_user \o yield \in Seq(Plain)
  BY <1>1, <1>2 DEF yield
<1>4. /\ sys_write \in Seq(Plain) /\ sys_fork \in Seq(Plain) /\ sys_exec_fail \in Seq(Plain)
      /\ sys_log \in Seq(Plain) /\ sys_tarfs_exists \in Seq(Plain) /\ NoAccess \in Seq(Plain)
  BY <1>1, <1>2 DEF sys_write, sys_fork, sys_exec_fail, sys_log, sys_tarfs_exists, NoAccess
<1>5. sys_wait_block \in Seq(Plain) /\ sys_ipc \in Seq(Plain)
  BY <1>1, <1>2 DEF sys_wait_block, sys_ipc
<1>6. ASSUME NEW argc PROVE sys_exec(argc) \in Seq(Plain)
  <2> DEFINE a == setup_user_arguments(argc)
  <2>1. a \in Seq(Plain)
    BY <1>1, <1>2 DEF setup_user_arguments
  <2> HIDE DEF a
  <2>2. ReadArguments \o ReplaceSpace \o a \o log_user \o yield \o <<"disable_sum">> \in Seq(Plain)
    BY <2>1, <1>1, <1>2, <1>3
  <2> QED
    BY <2>2 DEF sys_exec, a
<1>7. \A S : Seq(Plain) \subseteq Seq(Plain \cup S)
  OBVIOUS
<1>8. sys_exit \in Seq(Plain \cup {"zombie"})
  <2>1. log_user \in Seq(Plain \cup {"zombie"}) /\ <<"zombie">> \in Seq(Plain \cup {"zombie"})
    BY <1>1, <1>7
  <2> QED
    BY <2>1 DEF sys_exit
<1>9. ASSUME NEW status \in BOOLEAN PROVE sys_wait(status) \in Seq(Plain \cup {"free_proc"})
  <2> DEFINE W == Plain \cup {"free_proc"}
             g == IF status THEN Guarded ELSE <<>>
  <2>1. log_user \in Seq(W) /\ g \in Seq(W) /\ <<"free_proc">> \in Seq(W)
    BY <1>1, <1>7
  <2> HIDE DEF W, g
  <2>2. log_user \o g \o <<"free_proc">> \o log_user \in Seq(W)
    BY <2>1
  <2> QED
    BY <2>2 DEF sys_wait, g, W
<1> QED
  BY <1>1, <1>3, <1>4, <1>5, <1>6, <1>8, <1>9

-----------------------------------------------------------------------------
(* Steps                                                                    *)

\* A system call or a tick begins with a block.
LEMMA BeginKeeps ==
    ASSUME IInv, NEW name, NEW code, Begin(name, code), Block(code),
           name = "read" \/ Tidy(code),
           \A i \in 1..Len(code) :
              /\ code[i] = "free_proc" => name = "wait" /\ state[current_proc] = "READY"
              /\ code[i] = "zombie" => name = "exit"
              /\ code[i] = "uart_getc" => i = Len(code)
    PROVE  IInv'
<1>1. /\ todo = <<>> /\ todo' = code /\ call' = name /\ ~fault
      /\ UNCHANGED <<state, page_table, current_proc, satp, old_satp, sum, enabledBy, fault>>
  BY DEF Begin, UserMode
<1>2. Typed'
  BY <1>1 DEF IInv, Typed, Block
<1>3. RightCall'
  BY <1>1 DEF RightCall
<1>4. Nested(todo)'
  BY <1>1 DEF Block, Nested, Linked, Opens
<1>5. ActiveTable'
  <2>1. satp = page_table[current_proc]
    BY <1>1 DEF IInv, ActiveTable
  <2>2. code # <<>> => code[1] \notin Inside
    BY DEF Block
  <2>3. "restore_pagetable" \in Inside
    BY DEF Inside
  <2> QED
    BY <1>1, <2>1, <2>2, <2>3 DEF ActiveTable, Inside
<1>6. SumAhead'
  BY <1>1 DEF SumAhead, Block, Supplied, NeedsSum
<1>7. SumBehind'
  <2>1. sum => enabledBy = "read"
    BY <1>1 DEF IInv, SumBehind
  <2>2. call' = "read" \/ Tidy(todo')
    BY <1>1
  <2> QED
    BY <1>1, <2>1, <2>2 DEF SumBehind, Tidy, Cleared
<1>8. NoFault'
  BY <1>1 DEF NoFault
<1> QED
  BY <1>2, <1>3, <1>4, <1>5, <1>6, <1>7, <1>8 DEF IInv

\* What is left of the code when its first statement has been executed.
LEMMA AdvanceKeeps ==
    ASSUME IInv, todo # <<>>, todo' = Tail(todo), call' = call,
           sum' = IF todo[1] = "enable_sum" THEN TRUE
                  ELSE IF todo[1] = "disable_sum" THEN FALSE ELSE sum,
           enabledBy' = IF todo[1] = "enable_sum" THEN call ELSE enabledBy
    PROVE  /\ todo' \in Seq(Stmts)
           /\ Nested(todo)'
           /\ todo' = <<>> => todo[1] \notin Opens
           /\ todo' # <<>> => Linked(todo[1], todo'[1])
           /\ SumAhead'
           /\ SumBehind'
           /\ \A i \in 1..Len(todo') : i + 1 \in 1..Len(todo) /\ todo'[i] = todo[i + 1]
           /\ Len(todo') = Len(todo) - 1 /\ Len(todo) \in Nat
<1> DEFINE n == Len(todo)
<1>1. todo \in Seq(Stmts)
  BY DEF IInv, Typed
<1>2. /\ todo' \in Seq(Stmts) /\ n \in Nat /\ n > 0 /\ Len(todo') = n - 1
      /\ \A i \in 1..Len(todo') : todo'[i] = todo[i + 1]
      /\ todo' = <<>> <=> n = 1
      /\ todo[1] \in Stmts
  BY <1>1, TailFacts
<1>3. \A i \in 1..(n - 1) : todo'[i] = todo[i + 1]
  BY <1>2
<1> HIDE DEF n
<1>4. Nested(todo)'
  <2>1. Nested(todo)
    BY DEF IInv
  <2>2. ASSUME NEW i \in 1..(n - 1), i < n - 1 PROVE Linked(todo'[i], todo'[i + 1])
    <3>1. i + 1 \in 1..(n - 1) /\ i + 1 \in 1..n /\ i + 1 < n
      BY <2>2, <1>2
    <3>3. todo'[i] = todo[i + 1] /\ todo'[i + 1] = todo[(i + 1) + 1]
      BY <3>1, <1>3
    <3>2. Linked(todo[i + 1], todo[(i + 1) + 1])
      BY <2>1, <3>1 DEF Nested, n
    <3> QED
      BY <3>2, <3>3
  <2>3. ASSUME n > 1 PROVE todo'[n - 1] \notin Opens
    BY <2>1, <2>3, <1>2, <1>3 DEF Nested, n
  <2> QED
    BY <1>2, <2>2, <2>3 DEF Nested, Linked, Opens
<1>5. /\ todo' = <<>> => todo[1] \notin Opens
      /\ todo' # <<>> => Linked(todo[1], todo'[1])
  <2>1. Nested(todo)
    BY DEF IInv
  <2>2. CASE n = 1
    BY <2>1, <2>2, <1>2 DEF Nested, n
  <2>3. CASE n > 1
    <3>1. todo'[1] = todo[1 + 1] /\ 1 \in 1..n /\ 1 < n
      BY <2>3, <1>2, <1>3
    <3> QED
      BY <2>1, <2>3, <1>2, <3>1 DEF Nested, n
  <2> QED
    BY <1>2, <2>2, <2>3
<1>6. SumAhead'
  <2>1. ASSUME NEW j \in 1..(n - 1), todo'[j] \in NeedsSum
        PROVE  Supplied(todo', j) \/ (sum' /\ \A m \in 1..j : todo'[m] # "disable_sum")
    <3>1. j + 1 \in 1..n /\ todo[j + 1] \in NeedsSum
      BY <2>1, <1>2, <1>3
    <3>2. CASE Supplied(todo, j + 1)
      <4>1. PICK k \in 1..j : todo[k] = "enable_sum"
                              /\ \A m \in k..(j + 1) : todo[m] # "disable_sum"
        BY <3>2, <1>2 DEF Supplied
      <4>2. CASE k = 1
        <5>1. ASSUME NEW m \in 1..j PROVE todo'[m] # "disable_sum"
          <6>1. m + 1 \in k..(j + 1) /\ m \in 1..(n - 1)
            BY <4>2, <1>2
          <6> QED
            BY <6>1, <4>1, <1>3
        <5> QED
          BY <4>1, <4>2, <5>1
      <4>3. CASE k > 1
        <5>1. k - 1 \in 1..(j - 1) /\ todo'[k - 1] = "enable_sum"
          <6>1. k - 1 \in 1..(n - 1) /\ (k - 1) + 1 = k
            BY <4>3, <1>2
          <6>2. todo'[k - 1] = todo[(k - 1) + 1]
            BY <6>1, <1>3
          <6>3. todo'[k - 1] = "enable_sum"
            BY <6>1, <6>2, <4>1
          <6>4. k - 1 \in 1..(j - 1)
            BY <4>3
          <6> QED
            BY <6>3, <6>4

        <5>2. ASSUME NEW m \in (k - 1)..j PROVE todo'[m] # "disable_sum"
          <6>1. m + 1 \in k..(j + 1) /\ m \in 1..(n - 1)
            BY <4>3, <1>2
          <6> QED
            BY <6>1, <4>1, <1>3
        <5> QED
          BY <5>1, <5>2 DEF Supplied
      <4>4. k = 1 \/ k > 1
        OBVIOUS
      <4> QED
        BY <4>2, <4>3, <4>4
    <3>3. CASE sum
 /\ \A m \in 1..(j + 1) : todo[m] # "disable_sum"
      <4>1. sum' = TRUE
        <5>1. 1 \in 1..(j + 1)
          OBVIOUS
        <5> QED
          BY <5>1, <3>3
      <4>2. ASSUME NEW m \in 1..j PROVE todo'[m] # "disable_sum"
        <5>1. m + 1 \in 1..(j + 1) /\ m \in 1..(n - 1)
          BY <1>2
        <5> QED
          BY <5>1, <3>3, <1>3
      <4> QED
        BY <4>1, <4>2
    <3> QED
      BY <3>1, <3>2, <3>3 DEF IInv, SumAhead, n
  <2> QED
    BY <2>1, <1>2 DEF SumAhead, Supplied, NeedsSum
<1>7. \A i \in 1..(n - 1) : Cleared(todo, i + 1) => Cleared(todo', i)
  <2>1. SUFFICES ASSUME NEW i \in 1..(n - 1), Cleared(todo, i + 1) PROVE Cleared(todo', i)
    OBVIOUS
  <2>2. PICK k \in (i + 1)..n :
           todo[k] = "disable_sum" /\ \A m \in (i + 1)..k : todo[m] \notin {"yield", "block"}
    BY <2>1 DEF Cleared, n
  <2>3. k - 1 \in i..Len(todo') /\ todo'[k - 1] = "disable_sum"
    <3>1. k - 1 \in 1..(n - 1) /\ (k - 1) + 1 = k
      BY <1>2
    <3> QED
      BY <3>1, <2>2, <1>2, <1>3
  <2>4. ASSUME NEW m \in i..(k - 1) PROVE todo'[m] \notin {"yield", "block"}
    <3>1. m + 1 \in (i + 1)..k /\ m \in 1..(n - 1)
      BY <1>2
    <3> QED
      BY <3>1, <2>2, <1>3
  <2> QED
    BY <2>3, <2>4 DEF Cleared
<1>8. ASSUME Cleared(todo, 1), todo[1] # "disable_sum"
      PROVE  todo' # <<>> /\ Cleared(todo', 1)
  <2>1. PICK k \in 1..n :
           todo[k] = "disable_sum" /\ \A m \in 1..k : todo[m] \notin {"yield", "block"}
    BY <1>8 DEF Cleared, n
  <2>2. k \in 2..n
    BY <1>8, <2>1, <1>2
  <2>3. Cleared(todo, 1 + 1)
    <3>1. \A m \in 2..k : todo[m] \notin {"yield", "block"}
      BY <2>1, <2>2, <1>2
    <3> QED
      BY <2>1, <2>2, <3>1 DEF Cleared, n
  <2>4. n > 1 /\ 1 \in 1..(n - 1)
    BY <2>2, <1>2
  <2> QED
    BY <2>3, <2>4, <1>2, <1>7
<1>9. SumBehind'
  <2>1. ASSUME Tidy(todo) PROVE Tidy(todo')
    <3>1. ASSUME NEW i \in 1..(n - 1), todo'[i] = "enable_sum" PROVE Cleared(todo', i)
      <4>1. i + 1 \in 1..n /\ todo[i + 1] = "enable_sum"
        BY <3>1, <1>2, <1>3
      <4> QED
        BY <4>1, <2>1, <1>7 DEF Tidy, n
    <3> QED
      BY <3>1, <1>2 DEF Tidy
  <2>2. ASSUME sum', enabledBy' # "read" PROVE todo' # <<>> /\ Cleared(todo', 1)
    <3>1. CASE todo[1] = "enable_sum"
      <4>1. Tidy(todo)
        BY <2>2, <3>1 DEF IInv, SumBehind
      <4>2. Cleared(todo, 1)
        BY <4>1, <3>1, <1>2 DEF Tidy, n
      <4> QED
        BY <4>2, <3>1, <1>8
    <3>2. CASE todo[1] # "enable_sum"
      <4>1. todo[1] # "disable_sum" /\ sum /\ enabledBy # "read"
        BY <2>2, <3>2
      <4>2. Cleared(todo, 1)
        BY <4>1 DEF IInv, SumBehind
      <4> QED
        BY <4>1, <4>2, <1>8
    <3> QED
      BY <3>1, <3>2
  <2>3. call = "read" \/ Tidy(todo)
    BY DEF IInv, SumBehind
  <2>4. call' = "read" \/ Tidy(todo')
    BY <2>1, <2>3
  <2> HIDE <2>3
  <2> QED
    BY <2>2, <2>4 DEF SumBehind, Tidy, Cleared
<1> QED
  BY <1>2, <1>4, <1>5, <1>6, <1>9 DEF n

\* A statement that leaves the process table's slots and the active table alone.
LEMMA QuietKeeps ==
    ASSUME IInv, todo # <<>>, todo' = Tail(todo), call' = call,
           sum' = IF todo[1] = "enable_sum" THEN TRUE
                  ELSE IF todo[1] = "disable_sum" THEN FALSE ELSE sum,
           enabledBy' = IF todo[1] = "enable_sum" THEN call ELSE enabledBy,
           state' \in [Procs -> {"UNUSED", "READY", "ZOMBIE"}],
           page_table' \in [Procs -> Tables \cup {NULL}],
           current_proc' = current_proc, state'[current_proc] # "UNUSED",
           state'[current_proc] = state[current_proc] \/ todo[1] = "zombie",
           ActiveTable', ~fault'
    PROVE  IInv'
<1>1. /\ todo' \in Seq(Stmts) /\ Nested(todo)' /\ SumAhead' /\ SumBehind'
      /\ \A i \in 1..Len(todo') : i + 1 \in 1..Len(todo) /\ todo'[i] = todo[i + 1]
      /\ Len(todo') = Len(todo) - 1 /\ Len(todo) \in Nat
  BY AdvanceKeeps
<1>2. Typed'
  BY <1>1 DEF IInv, Typed
<1>3. RightCall'
  <2>1. ASSUME NEW i \in 1..Len(todo')
        PROVE  /\ todo'[i] = "free_proc" => call = "wait" /\ state'[current_proc] = "READY"
               /\ todo'[i] = "zombie" => call = "exit"
               /\ todo'[i] = "uart_getc" => i = Len(todo')
    <3>1. i + 1 \in 1..Len(todo) /\ todo'[i] = todo[i + 1]
      BY <1>1
    <3>2. /\ todo[i + 1] = "free_proc" => call = "wait" /\ state[current_proc] = "READY"
          /\ todo[i + 1] = "zombie" => call = "exit"
          /\ todo[i + 1] = "uart_getc" => i + 1 = Len(todo)
      BY <3>1 DEF IInv, RightCall
    <3>3. 1 \in 1..Len(todo)
      BY <3>1, <1>1
    <3>4. todo[1] = "zombie" => call = "exit"
      BY <3>3 DEF IInv, RightCall
    <3>5. todo'[i] = "free_proc" => call = "wait" /\ state'[current_proc] = "READY"
      BY <3>1, <3>2, <3>4
    <3>6. todo'[i] = "uart_getc" => i = Len(todo')
      BY <3>1, <3>2, <1>1
    <3> QED
      BY <3>1, <3>2, <3>5, <3>6
  <2> QED
    BY <2>1 DEF RightCall
<1>4. NoFault'
  BY DEF NoFault
<1> QED
  BY <1>1, <1>2, <1>3, <1>4 DEF IInv

\* The statement about to be executed.
LEMMA Executed ==
    ASSUME IInv, NEW stmt, Execute(stmt)
    PROVE  todo # <<>> /\ todo[1] = stmt /\ call' = call /\ ~fault
  BY TailFacts DEF Execute, UserMode, IInv, Typed

\* The active table is right behind a statement that changes neither it nor the
\* caller's own, and neither opens nor closes a stretch.
LEMMA TableStays ==
    ASSUME IInv, todo # <<>>, todo' = Tail(todo), call' = call,
           sum' = IF todo[1] = "enable_sum" THEN TRUE
                  ELSE IF todo[1] = "disable_sum" THEN FALSE ELSE sum,
           enabledBy' = IF todo[1] = "enable_sum" THEN call ELSE enabledBy,
           todo[1] \notin Opens, todo[1] \notin Inside,
           satp' = satp, current_proc' = current_proc,
           page_table'[current_proc] = page_table[current_proc]
    PROVE  ActiveTable'
<1>1. todo' # <<>> => Linked(todo[1], todo'[1])
  BY AdvanceKeeps
<1>2. todo' # <<>> => todo'[1] \notin Inside
  BY <1>1 DEF Linked, Opens, Inside
<1>3. satp = page_table[current_proc]
  BY DEF IInv, ActiveTable
<1> QED
  BY <1>2, <1>3 DEF ActiveTable, Inside

\* The system starts in user mode with the invariant.
LEMMA InitIInv == Init => IInv
<1> SUFFICES ASSUME Init PROVE IInv
  OBVIOUS
<1>1. /\ todo = <<>> /\ Len(todo) = 0 /\ <<>> \in Seq(Stmts) /\ ~fault /\ ~sum
  BY DEF Init
<1>2. Typed
  BY <1>1 DEF Init, Typed
<1>3. RightCall /\ Nested(todo) /\ SumAhead /\ SumBehind /\ NoFault
  BY <1>1 DEF RightCall, Nested, SumAhead, SumBehind, Tidy, NoFault
<1>4. ActiveTable
  <2>1. satp = page_table[current_proc]
    BY UserAccessAssumption DEF Init
  <2> QED
    BY <1>1, <2>1 DEF ActiveTable
<1> QED
  BY <1>1, <1>2, <1>3, <1>4 DEF IInv

\* A system call that begins keeps the invariant.
LEMMA CallKeeps ==
    ASSUME IInv, handle_syscall
    PROVE  IInv'
<1>1. state[current_proc] = "READY"
  BY DEF handle_syscall, Calls
<1> DEFINE Right(name, code) ==
             \A i \in 1..Len(code) :
                /\ code[i] = "free_proc" => name = "wait" /\ state[current_proc] = "READY"
                /\ code[i] = "zombie" => name = "exit"
                /\ code[i] = "uart_getc" => i = Len(code)
<1>2. ASSUME NEW name, NEW code \in Seq(Plain) PROVE Right(name, code)
  BY DEF Plain
<1>3. ASSUME NEW name, NEW code \in Seq(Plain), Block(code), Tidy(code), Begin(name, code)
      PROVE  IInv'
  <2>1. Right(name, code)
    BY <1>3, <1>2
  <2> QED
    BY <1>3, <2>1, BeginKeeps
<1>4. CASE Begin("read", sys_read_refused)
  <2>1. Right("read", sys_read_refused)
    BY DEF sys_read_refused
  <2> QED
    BY <1>4, <2>1, ReadIsBlock, BeginKeeps
<1>5. CASE Begin("read", sys_read)
  <2>1. Right("read", sys_read)
    BY DEF sys_read
  <2> QED
    BY <1>5, <2>1, ReadIsBlock, BeginKeeps
<1>6. CASE Begin("exit", sys_exit)
  <2>1. sys_exit \in Seq(Plain \cup {"zombie"})
    BY CallsAreRight
  <2>2. Right("exit", sys_exit)
    BY <2>1 DEF Plain
  <2>3. Block(sys_exit) /\ Tidy(sys_exit)
    BY CallsAreBlocks
  <2> HIDE DEF Right
  <2> QED
    BY <1>6, <2>2, <2>3, BeginKeeps DEF Right

<1>7. ASSUME NEW status \in BOOLEAN, Begin("wait", sys_wait(status)) PROVE IInv'
  <2>1. sys_wait(status) \in Seq(Plain \cup {"free_proc"})
    BY CallsAreRight
  <2>2. Right("wait", sys_wait(status))
    BY <2>1, <1>1 DEF Plain
  <2>3. Block(sys_wait(status)) /\ Tidy(sys_wait(status))
    BY CallsAreBlocks
  <2> HIDE DEF Right
  <2> QED
    BY <1>7, <2>2, <2>3, BeginKeeps DEF Right
<1>8. ASSUME NEW argc \in 1..2, Begin("exec", sys_exec(argc)) PROVE IInv'
  <2>1. sys_exec(argc) \in Seq(Plain) /\ Block(sys_exec(argc)) /\ Tidy(sys_exec(argc))
    BY CallsAreRight, CallsAreBlocks
  <2> QED
    BY <1>8, <2>1, <1>3
<1>9. /\ Begin("write", sys_write) => IInv'
      /\ Begin("yield", yield) => IInv'
      /\ Begin("fork", sys_fork) => IInv'
      /\ Begin("exec", sys_exec_fail) => IInv'
      /\ Begin("wait", sys_wait_block) => IInv'
      /\ Begin("log", sys_log) => IInv'
      /\ Begin("ipc", sys_ipc) => IInv'
      /\ Begin("exists", sys_tarfs_exists) => IInv'
      /\ Begin("other", NoAccess) => IInv'
  BY <1>3, CallsAreRight, CallsAreBlocks
<1> QED
  BY <1>4, <1>5, <1>6, <1>7, <1>8, <1>9 DEF handle_syscall

\* A timer interrupt keeps the invariant.
LEMMA TickKeeps ==
    ASSUME IInv, timer
    PROVE  IInv'
<1> DEFINE code == log_user \o yield
<1>1. code \in Seq(Plain) /\ Block(code) /\ Tidy(code)
  BY CallsAreRight, CallsAreBlocks
<1>2. Begin("tick", code)
  BY DEF timer
<1> HIDE DEF code
<1>3. \A i \in 1..Len(code) : code[i] \in Plain
  BY <1>1
<1>4. {"free_proc", "zombie", "uart_getc"} \cap Plain = {}
  BY DEF Plain
<1> QED
  BY <1>1, <1>2, <1>3, <1>4, BeginKeeps

\* The next character of a read keeps the invariant.
LEMMA CharKeeps ==
    ASSUME IInv, NEW newline \in BOOLEAN, NEW full \in BOOLEAN, uart_getc(newline, full)
    PROVE  IInv'
<1> DEFINE code == Char(newline, full)
<1>1. /\ todo # <<>> /\ todo[1] = "uart_getc" /\ call' = call /\ ~fault /\ todo' = code
      /\ UNCHANGED <<state, page_table, current_proc, satp, old_satp, sum, enabledBy, fault>>
  BY Executed DEF uart_getc
<1>2. todo \in Seq(Stmts) /\ Len(todo) \in Nat /\ 1 \in 1..Len(todo)
  BY <1>1 DEF IInv, Typed
<1>3. Len(todo) = 1
  BY <1>1, <1>2 DEF IInv, RightCall
<1>4. sum
  <2>1. ~Supplied(todo, 1)
    BY DEF Supplied
  <2> QED
    BY <2>1, <1>1, <1>2 DEF IInv, SumAhead, NeedsSum
<1>5. enabledBy = "read"
  <2>1. ~Cleared(todo, 1)
    BY <1>1, <1>3 DEF Cleared
  <2> QED
    BY <2>1, <1>4 DEF IInv, SumBehind
<1>6. /\ code \in Seq(Stmts) /\ code[1] = "user"
      /\ \/ Len(code) = 2 /\ code[2] = "disable_sum"
         \/ /\ Len(code) = 5
            /\ code[2] = "switch_pagetable" /\ code[3] = "restore_pagetable"
            /\ code[4] = "yield" /\ code[5] \in {"disable_sum", "uart_getc"}
  <2> DEFINE h == <<"user">> \o (IF newline THEN <<>> ELSE yield)
             e == IF newline \/ full THEN <<"disable_sum">> ELSE <<"uart_getc">>
  <2>1. code = h \o e
    BY DEF Char
  <2>2. /\ <<"user">> \in Seq(Stmts) /\ Len(<<"user">>) = 1
        /\ log_user \in Seq(Stmts) /\ Len(log_user) = 2
        /\ log_user[1] = "switch_pagetable" /\ log_user[2] = "restore_pagetable"
        /\ <<"yield">> \in Seq(Stmts) /\ Len(<<"yield">>) = 1 /\ <<>> \in Seq(Stmts)
    BY DEF log_user, Stmts, Plain
  <2>3. /\ yield \in Seq(Stmts) /\ Len(yield) = 3 /\ yield[1] = "switch_pagetable"
        /\ yield[2] = "restore_pagetable" /\ yield[3] = "yield"
    BY <2>2, ConcatFacts DEF yield
  <2>4. /\ h \in Seq(Stmts) /\ h[1] = "user"
        /\ \/ newline /\ Len(h) = 1
           \/ /\ Len(h) = 4 /\ h[2] = "switch_pagetable" /\ h[3] = "restore_pagetable"
              /\ h[4] = "yield"
    <3>1. CASE newline
      BY <3>1, <2>2, ConcatFacts
    <3>2. CASE ~newline
      <4>1. h = <<"user">> \o yield
        BY <3>2
      <4> DEFINE u == <<"user">>
      <4>2. u \in Seq(Stmts) /\ Len(u) = 1 /\ u[1] = "user" /\ h = u \o yield
        BY <4>1, <2>2
      <4> HIDE DEF h, u
      <4>3. /\ h \in Seq(Stmts) /\ Len(h) = Len(u) + Len(yield)
            /\ \A i \in 1..Len(u) : h[i] = u[i]
            /\ \A i \in 1..Len(yield) : h[Len(u) + i] = yield[i]
        BY <4>2, <2>3, ConcatFacts
      <4>4. /\ Len(h) = 4 /\ h[1] = u[1]
            /\ h[1 + 1] = yield[1] /\ h[1 + 2] = yield[2] /\ h[1 + 3] = yield[3]
        BY <4>2, <4>3, <2>3
      <4> QED
        BY <4>2, <4>3, <4>4, <2>3
    <3> QED
      BY <3>1, <3>2
  <2>5. /\ e \in Seq(Stmts) /\ Len(e) = 1 /\ e[1] \in {"disable_sum", "uart_getc"}
        /\ newline => e[1] = "disable_sum"
    <3>1. CASE newline \/ full
      <4>1. e = <<"disable_sum">>
        BY <3>1
      <4> HIDE DEF e
      <4> QED
        BY <4>1 DEF Stmts, Plain
    <3>2. CASE ~(newline \/ full)
      <4>1. e = <<"uart_getc">>
        BY <3>2
      <4> HIDE DEF e
      <4> QED
        BY <3>2, <4>1 DEF Stmts, Plain

    <3> QED
      BY <3>1, <3>2
  <2> HIDE DEF h, e, code
  <2>6. /\ code \in Seq(Stmts) /\ Len(code) = Len(h) + 1
        /\ \A i \in 1..Len(h) : code[i] = h[i]
        /\ \A i \in 1..1 : code[Len(h) + i] = e[i]
    BY <2>1, <2>4, <2>5, ConcatFacts
  <2> QED
    BY <2>4, <2>5, <2>6
<1> HIDE DEF code
<1>7. /\ code \in Seq(Stmts) /\ code # <<>> /\ code[1] = "user"
      /\ \A i \in 1..Len(code) :
            /\ code[i] \notin {"free_proc", "zombie", "enable_sum"}
            /\ code[i] = "uart_getc" => i = Len(code)
            /\ code[i] = "disable_sum" => i = Len(code)
  <2>1. ASSUME NEW i \in 1..Len(code)
        PROVE  /\ code[i] \notin {"free_proc", "zombie", "enable_sum"}
               /\ code[i] = "uart_getc" => i = Len(code)
               /\ code[i] = "disable_sum" => i = Len(code)
    <3>1. CASE Len(code) = 2
      <4>1. i = 1 \/ i = 2
        BY <3>1
      <4> QED
        BY <4>1, <3>1, <1>6
    <3>2. CASE Len(code) # 2
      <4>1. Len(code) = 5
        BY <3>2, <1>6
      <4>2. i = 1 \/ i = 2 \/ i = 3 \/ i = 4 \/ i = 5
        BY <4>1
      <4> QED
        BY <4>1, <4>2, <1>6
    <3> QED
      BY <3>1, <3>2
  <2>2. code # <<>>
    BY <1>6
  <2> QED
    BY <2>1, <2>2, <1>6

<1>8. Nested(code)
  <2>1. code[Len(code)] \notin Opens
    BY <1>6 DEF Opens
  <2>2. \A i \in 1..Len(code) : i < Len(code) => Linked(code[i], code[i + 1])
    <3>1. CASE Len(code) = 2 /\ code[2] = "disable_sum"
      BY <3>1, <1>6 DEF Linked
    <3>2. CASE Len(code) # 2
      <4>1. /\ Linked(code[1], code[2]) /\ Linked(code[2], code[3])
            /\ Linked(code[3], code[4]) /\ Linked(code[4], code[5])
        BY <3>2, <1>6 DEF Linked
      <4>2. Len(code) = 5
        BY <3>2, <1>6
      <4>3. \A i \in 1..5 : i < 5 => i \in {1, 2, 3, 4}
        OBVIOUS
      <4> QED
        BY <4>1, <4>2, <4>3
    <3> QED
      BY <3>1, <3>2, <1>6
  <2> QED
    BY <2>1, <2>2 DEF Nested
<1>9. Typed' /\ RightCall' /\ NoFault'
  BY <1>1, <1>7 DEF IInv, Typed, RightCall, NoFault
<1>10. ActiveTable'
  <2>1. satp = page_table[current_proc]
    BY <1>1 DEF IInv, ActiveTable, Inside
  <2> QED
    BY <2>1, <1>1, <1>7 DEF ActiveTable, Inside
<1>11. SumAhead'
  <2>1. ASSUME NEW j \in 1..Len(code), code[j] \in NeedsSum, NEW m \in 1..j
        PROVE  code[m] # "disable_sum"
    <3>1. Len(code) \in Nat
      BY <1>7
    <3> QED
      BY <2>1, <3>1, <1>7 DEF NeedsSum
  <2> QED
    BY <2>1, <1>1, <1>4 DEF SumAhead
<1>12. SumBehind'
  BY <1>1, <1>5, <1>7 DEF SumBehind, Tidy
<1>13. Nested(todo)'
  BY <1>1, <1>8 DEF Nested, Linked, Opens
<1> QED
  BY <1>9, <1>10, <1>11, <1>12, <1>13 DEF IInv

\* A switch to another process keeps the invariant: the call that yielded is gone.
LEMMA SwitchKeeps ==
    ASSUME IInv, NEW next \in Procs, yield_switch(next)
    PROVE  IInv'
<1>1. /\ todo # <<>> /\ todo[1] \in {"yield", "block"} /\ call' = call /\ ~fault
      /\ state[next] = "READY" /\ satp' = page_table[next] /\ current_proc' = next
      /\ todo' = log_user
      /\ UNCHANGED <<state, page_table, old_satp, sum, enabledBy, fault>>
  BY Executed DEF yield_switch
<1>2. Block(log_user) /\ Tidy(log_user) /\ log_user \in Seq(Plain)
  BY Pieces, CallsAreRight
<1>3. \A i \in 1..Len(log_user) : log_user[i] \in Plain
  BY <1>2
<1>4. {"free_proc", "zombie", "uart_getc"} \cap Plain = {}
  BY DEF Plain
<1>5. Typed'
  BY <1>1, <1>2 DEF IInv, Typed, Block
<1>6. RightCall'
  BY <1>1, <1>3, <1>4 DEF RightCall
<1>7. Nested(todo)'
  BY <1>1, <1>2 DEF Block, Nested, Linked, Opens
<1>8. ActiveTable'
  BY <1>1 DEF ActiveTable, log_user, Inside
<1>9. SumAhead'
  BY <1>1, <1>2 DEF SumAhead, Block, Supplied, NeedsSum
<1>10. SumBehind'
  <2>1. sum => enabledBy = "read"
    <3>1. Len(todo) \in Nat
      BY DEF IInv, Typed
    <3>2. ~Cleared(todo, 1)
      BY <1>1, <3>1 DEF Cleared
    <3> QED
      BY <3>2 DEF IInv, SumBehind
  <2>2. Tidy(todo')
    BY <1>1, <1>2
  <2> QED
    BY <1>1, <2>1, <2>2 DEF SumBehind, Tidy, Cleared
<1>11. NoFault'
  BY <1>1 DEF NoFault
<1> QED
  BY <1>5, <1>6, <1>7, <1>8, <1>9, <1>10, <1>11 DEF IInv

-----------------------------------------------------------------------------
(* The invariant is inductive                                               *)

\* Every statement, call and tick keeps the invariant.
LEMMA NextIInv == IInv /\ [Next]_vars => IInv'
<1> SUFFICES ASSUME IInv, [Next]_vars PROVE IInv'
  OBVIOUS
<1>t. /\ state \in [Procs -> {"UNUSED", "READY", "ZOMBIE"}]
      /\ page_table \in [Procs -> Tables \cup {NULL}]
      /\ current_proc \in Procs /\ state[current_proc] # "UNUSED"
  BY DEF IInv, Typed
<1>a. ASSUME todo # <<>>, todo' = Tail(todo), call' = call,
             sum' = IF todo[1] = "enable_sum" THEN TRUE
                    ELSE IF todo[1] = "disable_sum" THEN FALSE ELSE sum,
             enabledBy' = IF todo[1] = "enable_sum" THEN call ELSE enabledBy
      PROVE  /\ todo' = <<>> => todo[1] \notin Opens
             /\ todo' # <<>> => Linked(todo[1], todo'[1])
  BY <1>a, AdvanceKeeps
<1>1. CASE enable_sum
  <2>1. /\ todo # <<>> /\ todo[1] = "enable_sum" /\ call' = call /\ ~fault
        /\ todo' = Tail(todo) /\ sum' = TRUE /\ enabledBy' = call
        /\ UNCHANGED <<state, page_table, current_proc, satp, old_satp, fault>>
    BY <1>1, Executed DEF enable_sum, Done
  <2>2. ActiveTable'
    BY <2>1, TableStays DEF Opens, Inside
  <2> QED
    BY <2>1, <2>2, <1>t, QuietKeeps
<1>2. CASE disable_sum
  <2>1. /\ todo # <<>> /\ todo[1] = "disable_sum" /\ call' = call /\ ~fault
        /\ todo' = Tail(todo) /\ sum' = FALSE
        /\ UNCHANGED <<state, page_table, current_proc, satp, old_satp, enabledBy, fault>>
    BY <1>2, Executed DEF disable_sum, Done
  <2>2. ActiveTable'
    BY <2>1, TableStays DEF Opens, Inside
  <2> QED
    BY <2>1, <2>2, <1>t, QuietKeeps
<1>3. CASE user_access
  <2>1. /\ todo # <<>> /\ todo[1] = "user" /\ call' = call /\ fault' = ~Reachable
        /\ todo' = Tail(todo)
        /\ UNCHANGED <<state, page_table, current_proc, satp, old_satp, sum, enabledBy>>
    BY <1>3, Executed DEF user_access, Done
  <2>2. ActiveTable'
    BY <2>1, TableStays DEF Opens, Inside
  <2>3. satp = page_table[current_proc]
    BY <2>1 DEF IInv, ActiveTable, Inside
  <2>4. sum
    <3>1. 1 \in 1..Len(todo)
      BY <2>1 DEF IInv, Typed
    <3>2. ~Supplied(todo, 1)
      BY DEF Supplied
    <3> QED
      BY <2>1, <3>1, <3>2 DEF IInv, SumAhead, NeedsSum
  <2>5. ~fault'
    BY <2>1, <2>3, <2>4 DEF Reachable
  <2> QED
    BY <2>1, <2>2, <2>5, <1>t, QuietKeeps
<1>4. CASE switch_pagetable
  <2>1. /\ todo # <<>> /\ todo[1] = "switch_pagetable" /\ call' = call /\ ~fault
        /\ todo' = Tail(todo) /\ old_satp' = satp /\ satp' = Kernel
        /\ UNCHANGED <<state, page_table, current_proc, sum, enabledBy, fault>>
    BY <1>4, Executed DEF switch_pagetable, Done
  <2>2. todo' # <<>> /\ todo'[1] = "restore_pagetable"
    BY <2>1, <1>a DEF Opens, Linked
  <2>3. ActiveTable'
    BY <2>1, <2>2 DEF IInv, ActiveTable, Inside
  <2> QED
    BY <2>1, <2>3, <1>t, QuietKeeps
<1>5. CASE restore_pagetable
  <2>1. /\ todo # <<>> /\ todo[1] = "restore_pagetable" /\ call' = call /\ ~fault
        /\ todo' = Tail(todo) /\ satp' = old_satp
        /\ UNCHANGED <<state, page_table, current_proc, sum, enabledBy, fault>>
    BY <1>5, Executed DEF restore_pagetable, Done
  <2>2. todo' # <<>> => todo'[1] \notin Inside
    BY <2>1, <1>a DEF Inside, Linked
  <2>3. ActiveTable'
    BY <2>1, <2>2 DEF IInv, ActiveTable, Inside
  <2> QED
    BY <2>1, <2>3, <1>t, QuietKeeps
<1>6. CASE activate_kernel
  <2>1. /\ todo # <<>> /\ todo[1] = "activate_kernel" /\ call' = call /\ ~fault
        /\ todo' = Tail(todo) /\ satp' = Kernel
        /\ UNCHANGED <<state, page_table, current_proc, old_satp, sum, enabledBy, fault>>
    BY <1>6, Executed DEF activate_kernel, Done
  <2>2. todo' # <<>> /\ todo'[1] = "free_userspace"
    BY <2>1, <1>a DEF Opens, Linked
  <2>3. ActiveTable'
    BY <2>1, <2>2 DEF ActiveTable, Inside
  <2> QED
    BY <2>1, <2>3, <1>t, QuietKeeps
<1>7. CASE activate_own
  <2>1. /\ todo # <<>> /\ todo[1] = "activate_own" /\ call' = call /\ ~fault
        /\ todo' = Tail(todo) /\ satp' = page_table[current_proc]
        /\ UNCHANGED <<state, page_table, current_proc, old_satp, sum, enabledBy, fault>>
    BY <1>7, Executed DEF activate_own, Done
  <2>2. todo' # <<>> => todo'[1] \notin Inside
    BY <2>1, <1>a DEF Inside, Linked
  <2>3. ActiveTable'
    BY <2>1, <2>2 DEF ActiveTable, Inside
  <2> QED
    BY <2>1, <2>3, <1>t, QuietKeeps
<1>8. CASE free_userspace
  <2>1. /\ todo # <<>> /\ todo[1] = "free_userspace" /\ call' = call /\ ~fault
        /\ todo' = Tail(todo)
        /\ page_table' = [page_table EXCEPT ![current_proc] = NULL]
        /\ UNCHANGED <<state, current_proc, satp, old_satp, sum, enabledBy, fault>>
    BY <1>8, Executed DEF free_userspace, Done
  <2>2. todo' # <<>> /\ todo'[1] = "exec_process"
    BY <2>1, <1>a DEF Opens, Linked
  <2>3. ActiveTable'
    BY <2>1, <2>2 DEF IInv, ActiveTable, Inside
  <2> QED
    BY <2>1, <2>3, <1>t, QuietKeeps
<1>9. CASE exec_process
  <2>1. /\ todo # <<>> /\ todo[1] = "exec_process" /\ call' = call /\ ~fault
        /\ todo' = Tail(todo)
        /\ \E root \in Tables : page_table' = [page_table EXCEPT ![current_proc] = root]
        /\ UNCHANGED <<state, current_proc, satp, old_satp, sum, enabledBy, fault>>
    BY <1>9, Executed DEF exec_process, Done, FreeTables
  <2>2. todo' # <<>> /\ todo'[1] = "activate_own"
    BY <2>1, <1>a DEF Opens, Linked
  <2>3. ActiveTable'
    BY <2>1, <2>2 DEF IInv, ActiveTable, Inside
  <2> QED
    BY <2>1, <2>3, <1>t, QuietKeeps
<1>10. CASE fork
  <2>1. /\ todo # <<>> /\ todo[1] = "fork" /\ call' = call /\ ~fault /\ todo' = Tail(todo)
        /\ UNCHANGED <<current_proc, satp, old_satp, sum, enabledBy, fault>>
    BY <1>10, Executed DEF fork, Done
  <2>2. /\ state' \in [Procs -> {"UNUSED", "READY", "ZOMBIE"}]
        /\ page_table' \in [Procs -> Tables \cup {NULL}]
        /\ state'[current_proc] = state[current_proc]
        /\ page_table'[current_proc] = page_table[current_proc]
    BY <1>10, <1>t DEF fork, FreeTables
  <2>3. ActiveTable'
    BY <2>1, <2>2, TableStays DEF Opens, Inside
  <2> QED
    BY <2>1, <2>2, <2>3, <1>t, QuietKeeps
<1>11. CASE zombie
  <2>1. /\ todo # <<>> /\ todo[1] = "zombie" /\ call' = call /\ ~fault /\ todo' = Tail(todo)
        /\ state' = [state EXCEPT ![current_proc] = "ZOMBIE"]
        /\ UNCHANGED <<page_table, current_proc, satp, old_satp, sum, enabledBy, fault>>
    BY <1>11, Executed DEF zombie, Done
  <2>2. ActiveTable'
    BY <2>1, TableStays DEF Opens, Inside
  <2> QED
    BY <2>1, <2>2, <1>t, QuietKeeps
<1>12. CASE free_proc
  <2>1. /\ todo # <<>> /\ todo[1] = "free_proc" /\ call' = call /\ ~fault
        /\ todo' = Tail(todo)
        /\ UNCHANGED <<current_proc, satp, old_satp, sum, enabledBy, fault>>
    BY <1>12, Executed DEF free_proc, Done
  <2>2. state[current_proc] = "READY"
    <3>1. 1 \in 1..Len(todo)
      BY <2>1 DEF IInv, Typed
    <3> QED
      BY <2>1, <3>1 DEF IInv, RightCall
  <2>3. /\ state' \in [Procs -> {"UNUSED", "READY", "ZOMBIE"}]
        /\ page_table' \in [Procs -> Tables \cup {NULL}]
        /\ state'[current_proc] = state[current_proc]
        /\ page_table'[current_proc] = page_table[current_proc]
    BY <1>12, <2>2, <1>t DEF free_proc, Reapable
  <2>4. ActiveTable'
    BY <2>1, <2>3, TableStays DEF Opens, Inside
  <2> QED
    BY <2>1, <2>2, <2>3, <2>4, QuietKeeps
<1>13. CASE yield_stay
  <2>1. /\ todo # <<>> /\ todo[1] = "yield" /\ call' = call /\ ~fault
        /\ todo' = Tail(todo)
        /\ UNCHANGED <<state, page_table, current_proc, satp, old_satp, sum, enabledBy, fault>>
    BY <1>13, Executed DEF yield_stay, Done
  <2>2. ActiveTable'
    BY <2>1, TableStays DEF Opens, Inside
  <2> QED
    BY <2>1, <2>2, <1>t, QuietKeeps
<1>14. CASE UNCHANGED vars
  <2>1. /\ state' = state /\ page_table' = page_table /\ current_proc' = current_proc
        /\ satp' = satp /\ old_satp' = old_satp /\ sum' = sum /\ todo' = todo
        /\ call' = call /\ enabledBy' = enabledBy /\ fault' = fault
    BY <1>14 DEF vars
  <2> QED
    BY <2>1 DEF IInv, Typed, RightCall, Nested, Linked, ActiveTable, SumAhead, SumBehind,
                Supplied, Cleared, Tidy, NoFault
<1> QED
  BY <1>1, <1>2, <1>3, <1>4, <1>5, <1>6, <1>7, <1>8, <1>9, <1>10, <1>11, <1>12, <1>13, <1>14,
     CallKeeps, TickKeeps, CharKeeps, SwitchKeeps DEF Next, Statement

-----------------------------------------------------------------------------
(* Theorems                                                                 *)

\* Every access of the kernel through a user pointer is made with SUM set and the
\* caller's own table active (syscall.c:78 for a read that yielded before it), for
\* any number of processes and a read of any length.
THEOREM AccessesAllowed == Spec => []NoFault
  BY InitIInv, NextIInv, PTL DEF Spec, IInv

\* The hart never runs on a freed page table or on another process's (syscall.c:218
\* leaves it before process_free_userspace(), and page.h:71 restores it).
THEOREM HartOnOwnTable == Spec => []TableIsOwn
<1>1. IInv => TableIsOwn
  BY DEF IInv, ActiveTable, TableIsOwn, UserMode
<1> QED
  BY <1>1, InitIInv, NextIInv, PTL DEF Spec

\* SUM is set in user mode only if a read left it so (syscall.c:71 and :80).
THEOREM SumLeftByReadOnly == Spec => []OnlyReadLeavesSum
<1>1. IInv => OnlyReadLeavesSum
  BY DEF IInv, SumBehind, OnlyReadLeavesSum, UserMode
<1> QED
  BY <1>1, InitIInv, NextIInv, PTL DEF Spec

-----------------------------------------------------------------------------
(* copy_to_user                                                             *)

\* The entries of a page table; no user page lies in frame 0.
Pte == [why : NoPage, frame : {0}] \cup [why : {"mapped"}, frame : Nat \ {0}]

\* The tables that have an entry for every user address.
UserTable(pt) == \A va \in 0 .. (kernel_base - 1) : pt[va \div PAGE_SIZE] \in Pte

\* walkaddr() gives the home of an address in user space that is mapped, and fails
\* for all others: a page that is there never has the address that means failure.
LEMMA WalkFinds ==
    ASSUME NEW pt, UserTable(pt), NEW va \in Nat
    PROVE  /\ Mapped(pt, va) => walkaddr(pt, va) = Home(pt, va) /\ walkaddr(pt, va) # Fail
           /\ ~Mapped(pt, va) => walkaddr(pt, va) = Fail
<1>1. CASE va >= kernel_base
  BY <1>1, UserMemoryAssumption DEF Mapped, walkaddr
<1>2. CASE va < kernel_base
  <2> DEFINE pte == pt[va \div PAGE_SIZE]
  <2>1. pte \in Pte
    <3>1. va \in 0 .. (kernel_base - 1)
      BY <1>2, UserMemoryAssumption
    <3> QED
      BY <3>1, Zenon DEF UserTable
  <2>2. CASE pte.why = "mapped"
    <3>1. pte.frame \in Nat \ {0} /\ pte.why \notin NoPage
      BY <2>1, <2>2 DEF Pte, NoPage
    <3>2. walkaddr(pt, va) = Home(pt, va)
      BY <1>2, <3>1, UserMemoryAssumption DEF walkaddr, Home
    <3>3. va % PAGE_SIZE \in Nat
      BY UserMemoryAssumption
    <3>4. pte.frame * PAGE_SIZE > 0
      BY <3>1, UserMemoryAssumption
    <3>5. Home(pt, va) # 0
      BY <3>1, <3>3, <3>4, UserMemoryAssumption DEF Home
    <3> QED
      BY <1>2, <2>2, <3>2, <3>5, UserMemoryAssumption DEF Mapped, Fail
  <2>3. CASE pte.why # "mapped"
    <3>1. pte.why \in NoPage
      BY <2>1, <2>3 DEF Pte
    <3> QED
      BY <1>2, <2>3, <3>1, UserMemoryAssumption DEF Mapped, walkaddr
  <2> QED
    BY <2>2, <2>3
<1> QED
  BY <1>1, <1>2, UserMemoryAssumption

\* copy_to_user() writes each byte to the frame of its own page, across any number of
\* page borders and whatever the table maps; it reports success exactly when all
\* bytes have a page below the kernel, and otherwise stops before the first that has
\* none.  This is what CopyLands compares on three pages.
THEOREM CopyArrives ==
    ASSUME NEW pt, UserTable(pt), NEW dst \in Nat, NEW len \in Nat
    PROVE  Lands(pt, dst, len, copy_to_user(pt, dst, len))
<1> DEFINE bad  == {i \in 0 .. (len - 1) : Target(pt, dst, i) = Fail}
           done == IF bad = {} THEN len ELSE Min(bad)
           R    == Reached(pt, dst, len)
<1>1. \A i \in Nat : /\ Mapped(pt, dst + i) => Target(pt, dst, i) = Home(pt, dst + i)
                     /\ Mapped(pt, dst + i) <=> Target(pt, dst, i) # Fail
  BY WalkFinds DEF Target
<1>2. bad \in SUBSET Nat
  OBVIOUS
<1>3. bad # {} => done \in bad /\ \A i \in bad : done <= i
  BY <1>2, MinIsElement
<1>4. done \in 0 .. len /\ (done = len <=> bad = {})
  <2>1. CASE bad = {}
    BY <2>1
  <2>2. CASE bad # {}
    BY <2>2, <1>3
  <2> QED
    BY <2>1, <2>2
<1>5. ASSUME NEW i \in 0 .. (len - 1)
      PROVE  i \in R <=> i < done
  <2>1. CASE i < done
    <3>1. \A j \in 0 .. i : j \notin bad
      BY <2>1, <1>3, <1>4
    <3>2. \A j \in 0 .. i : Mapped(pt, dst + j)
      BY <3>1, <1>1
    <3> QED
      BY <2>1, <3>2 DEF Reached
  <2>2. CASE ~(i < done)
    <3>1. done \in bad /\ done \in 0 .. i
      BY <2>2, <1>3, <1>4
    <3>2. ~Mapped(pt, dst + done)
      BY <3>1, <1>1
    <3> QED
      BY <2>2, <3>1, <3>2 DEF Reached
  <2> QED
    BY <2>1, <2>2
<1> HIDE DEF done
<1>6. R = 0 .. (done - 1)
  <2>1. R \subseteq 0 .. (len - 1)
    BY DEF Reached
  <2> HIDE DEF R, bad
  <2>2. 0 .. (done - 1) \subseteq 0 .. (len - 1)
    BY <1>4
  <2>3. \A i \in 0 .. (len - 1) : i \in R <=> i \in 0 .. (done - 1)
    BY <1>4, <1>5
  <2> QED
    BY <2>1, <2>2, <2>3, Zenon

<1>7. \A i \in R : Target(pt, dst, i) = Home(pt, dst + i)
  BY <1>1 DEF Reached
<1>8. {<<Target(pt, dst, i), i>> : i \in 0 .. (done - 1)}
        = {<<Home(pt, dst + i), i>> : i \in R}
  BY <1>6, <1>7
<1>9. Cardinality(R) = done
  <2>1. Cardinality(0 .. (done - 1)) = IF 0 > done - 1 THEN 0 ELSE (done - 1) - 0 + 1
    BY <1>4, FS_Interval
  <2> QED
    BY <2>1, <1>4, <1>6
<1>10. /\ copy_to_user(pt, dst, len).written = {<<Target(pt, dst, i), i>> : i \in 0 .. (done - 1)}
       /\ copy_to_user(pt, dst, len).ret = IF bad = {} THEN 0 ELSE -1
  BY DEF copy_to_user, done
<1> QED
  BY <1>4, <1>8, <1>9, <1>10 DEF Lands

-----------------------------------------------------------------------------
(* The image of a program                                                   *)

Phdr == [load : BOOLEAN, vaddr : Nat, filesz : Nat, memsz : Nat]

\* Program headers whose segments end a page or more below the last address, so that
\* no sum of the loader wraps around.
Headers(phdrs) ==
    /\ phdrs \in Seq(Phdr)
    /\ \A i \in Loads(phdrs) : phdrs[i].vaddr + phdrs[i].memsz + PAGE_SIZE <= ADDRESSES

\* Rounding down to a page stays within a page of the number.
LEMMA PageDownBounds ==
    ASSUME NEW a \in Nat
    PROVE  PageDown(a) \in Nat /\ PageDown(a) <= a /\ a < PageDown(a) + PAGE_SIZE
<1>1. a % PAGE_SIZE \in 0 .. (PAGE_SIZE - 1)
  BY UserMemoryAssumption
<1>2. a % PAGE_SIZE <= a
  <2>1. a = PAGE_SIZE * (a \div PAGE_SIZE) + (a % PAGE_SIZE) /\ a \div PAGE_SIZE \in Nat
    BY UserMemoryAssumption
  <2>2. PAGE_SIZE * (a \div PAGE_SIZE) \in Nat
    BY <2>1, UserMemoryAssumption
  <2> QED
    BY <2>1, <2>2, <1>1, UserMemoryAssumption
<1> QED
  BY <1>1, <1>2, UserMemoryAssumption DEF PageDown

\* The headers of a file are records of numbers.
LEMMA HeadersTyped ==
    ASSUME NEW phdrs, Headers(phdrs)
    PROVE  /\ DOMAIN phdrs = 1 .. Len(phdrs) /\ Len(phdrs) \in Nat
           /\ \A i \in DOMAIN phdrs : /\ phdrs[i].vaddr \in Nat /\ phdrs[i].memsz \in Nat
                                      /\ phdrs[i].filesz \in Nat
           /\ \A i \in Loads(phdrs) : /\ phdrs[i].vaddr \in Nat /\ phdrs[i].memsz \in Nat
                                      /\ phdrs[i].filesz \in Nat
<1>1. phdrs \in Seq(Phdr)
  BY DEF Headers
<1>2. DOMAIN phdrs = 1 .. Len(phdrs) /\ Len(phdrs) \in Nat
  BY <1>1
<1>3. \A i \in DOMAIN phdrs : phdrs[i] \in Phdr
  BY <1>1, <1>2
<1>4. \A i \in DOMAIN phdrs : /\ phdrs[i].vaddr \in Nat /\ phdrs[i].memsz \in Nat
                              /\ phdrs[i].filesz \in Nat
  BY <1>3 DEF Phdr
<1> QED
  BY <1>2, <1>4 DEF Loads

\* The image starts at USER_BASE and reaches to the end of every segment: the values

\* the loader starts its search with do not get in the way.
LEMMA ImageBounds ==
    ASSUME NEW phdrs, Headers(phdrs), WellFormed(phdrs)
    PROVE  /\ MinVaddr(phdrs) = USER_BASE
           /\ image_size(phdrs) \in Nat
           /\ \A i \in Loads(phdrs) :
                 /\ phdrs[i].vaddr >= USER_BASE
                 /\ phdrs[i].vaddr + phdrs[i].memsz <= USER_BASE + image_size(phdrs)
<1> DEFINE V == {phdrs[i].vaddr : i \in Loads(phdrs)}
           E == {phdrs[i].vaddr + phdrs[i].memsz : i \in Loads(phdrs)}
           A == {ADDRESSES - 1} \cup V
           Z == {0} \cup E
<1>1. \A i \in Loads(phdrs) : /\ phdrs[i].vaddr \in Nat /\ phdrs[i].memsz \in Nat
                              /\ phdrs[i].vaddr + phdrs[i].memsz + PAGE_SIZE <= ADDRESSES
  BY HeadersTyped DEF Headers
<1>2. PICK i0 \in Loads(phdrs) : TRUE
  BY DEF WellFormed
<1>3. ADDRESSES - 1 \in Nat
  BY <1>1, <1>2, UserMemoryAssumption
<1>4. V \in SUBSET Nat /\ V # {}
  BY <1>1, <1>2
<1>5. Min(V) \in V /\ \A v \in V : Min(V) <= v
  <2> HIDE DEF V
  <2> QED
    BY <1>4, MinIsElement
<1>6. \A v \in V : v <= ADDRESSES - 1
  BY <1>1, UserMemoryAssumption
<1>7. Min(A) = Min(V)
  <2> HIDE DEF V
  <2>1. A \in SUBSET Nat /\ A # {}
    BY <1>3, <1>4
  <2>2. Min(A) \in A /\ \A v \in A : Min(A) <= v
    BY <2>1, MinIsElement
  <2>3. Min(A) <= Min(V)
    BY <2>2, <1>5
  <2>4. Min(V) <= Min(A)
    BY <2>2, <1>3, <1>4, <1>5, <1>6
  <2> QED
    BY <2>1, <2>2, <2>3, <2>4, <1>4, <1>5
<1>8. PageDown(Min(V)) = USER_BASE
  BY DEF WellFormed
<1>9. MinVaddr(phdrs) = USER_BASE
  BY <1>7, <1>8, Zenon DEF MinVaddr
<1>10. USER_BASE <= Min(V) /\ Min(V) \in Nat
  <2> HIDE DEF V
  <2>1. Min(V) \in Nat
    BY <1>4, <1>5
  <2>2. PageDown(Min(V)) <= Min(V)
    BY <2>1, PageDownBounds
  <2> QED
    BY <2>1, <2>2, <1>8
<1>11. \A i \in Loads(phdrs) : phdrs[i].vaddr >= USER_BASE
  <2> SUFFICES ASSUME NEW i \in Loads(phdrs)
               PROVE  phdrs[i].vaddr >= USER_BASE
    OBVIOUS
  <2>1. phdrs[i].vaddr \in V /\ phdrs[i].vaddr \in Nat
    BY <1>1
  <2> HIDE DEF V
  <2> QED
    BY <2>1, <1>5, <1>10, UserMemoryAssumption
<1>12. Z \in SUBSET (0 .. (ADDRESSES - PAGE_SIZE)) /\ Z # {} /\ ADDRESSES - PAGE_SIZE \in Nat
  <2>1. ADDRESSES - PAGE_SIZE \in Nat
    BY <1>1, <1>2, UserMemoryAssumption
  <2>2. \A i \in Loads(phdrs) : phdrs[i].vaddr + phdrs[i].memsz \in 0 .. (ADDRESSES - PAGE_SIZE)
    BY <1>1, UserMemoryAssumption
  <2> QED
    BY <2>1, <2>2
<1> DEFINE top == Max(Z)
<1>13. top \in 0 .. (ADDRESSES - PAGE_SIZE) /\ \A z \in Z : top >= z
  <2> HIDE DEF Z
  <2> QED
    BY <1>12, MaxIsElement
<1>14. MaxVaddr(phdrs) = PageUp(top)
  BY DEF MaxVaddr
<1>15. \A i \in Loads(phdrs) : phdrs[i].vaddr + phdrs[i].memsz <= top
  BY <1>13
<1> HIDE DEF top
<1>16. PageUp(top) = PageDown(top + PAGE_SIZE - 1)
  <2>1. top + PAGE_SIZE - 1 \in 0 .. (ADDRESSES - 1)
    BY <1>13, UserMemoryAssumption
  <2>2. (top + PAGE_SIZE - 1) % ADDRESSES = top + PAGE_SIZE - 1
    BY <2>1, <1>3, UserMemoryAssumption
  <2> QED
    BY <2>2 DEF PageUp
<1>17. PageUp(top) \in Nat /\ top <= PageUp(top) /\ PageUp(top) <= ADDRESSES - 1
  <2>1. top + PAGE_SIZE - 1 \in Nat /\ top + PAGE_SIZE - 1 <= ADDRESSES - 1
    BY <1>13, UserMemoryAssumption
  <2>2. LET a == top + PAGE_SIZE - 1
        IN  PageDown(a) \in Nat /\ PageDown(a) <= a /\ a < PageDown(a) + PAGE_SIZE
    BY <2>1, PageDownBounds
  <2> QED
    BY <2>1, <2>2, <1>13, <1>16, UserMemoryAssumption
<1>18. USER_BASE <= top
  BY <1>1, <1>2, <1>11, <1>13, <1>15, UserMemoryAssumption
<1>19. image_size(phdrs) = PageUp(top) - USER_BASE
  <2>1. PageUp(top) - USER_BASE \in 0 .. (ADDRESSES - 1)
    BY <1>13, <1>17, <1>18, UserMemoryAssumption
  <2>2. (PageUp(top) - USER_BASE) % ADDRESSES = PageUp(top) - USER_BASE
    BY <2>1, <1>3, UserMemoryAssumption
  <2> QED
    BY <2>2, <1>9, <1>14 DEF image_size
<1>20. image_size(phdrs) \in Nat
  BY <1>13, <1>17, <1>18, <1>19, UserMemoryAssumption
<1>21. \A i \in Loads(phdrs) :
          phdrs[i].vaddr + phdrs[i].memsz <= USER_BASE + image_size(phdrs)
  BY <1>1, <1>13, <1>15, <1>17, <1>19, UserMemoryAssumption
<1> QED
  BY <1>9, <1>11, <1>20, <1>21

\* A byte of the memory of a segment is written by that segment, from its file, or by
\* none: the segments a linker makes do not meet.
LEMMA WrittenByOwn ==
    ASSUME NEW phdrs, Headers(phdrs), WellFormed(phdrs),
           NEW i \in Loads(phdrs), NEW k \in 0 .. (phdrs[i].memsz - 1),
           NEW j \in DOMAIN phdrs
    PROVE  (phdrs[j].load /\ phdrs[i].vaddr + k - phdrs[j].vaddr \in 0 .. (phdrs[j].filesz - 1))
             <=> (j = i /\ k < phdrs[i].filesz)
<1>1. /\ phdrs[i].vaddr \in Nat /\ phdrs[i].memsz \in Nat /\ phdrs[i].filesz \in Nat
      /\ phdrs[j].vaddr \in Nat /\ phdrs[j].memsz \in Nat /\ phdrs[j].filesz \in Nat
  BY HeadersTyped
<1>2. phdrs[i].load
  BY DEF Loads
<1>3. CASE j = i
  BY <1>1, <1>2, <1>3
<1>4. CASE j # i /\ phdrs[j].load
  <2>1. j \in Loads(phdrs)
    BY <1>4 DEF Loads
  <2>2. /\ phdrs[j].filesz <= phdrs[j].memsz
        /\ \/ phdrs[i].vaddr + phdrs[i].memsz <= phdrs[j].vaddr
           \/ phdrs[j].vaddr + phdrs[j].memsz <= phdrs[i].vaddr
    BY <1>4, <2>1 DEF WellFormed
  <2>3. phdrs[i].vaddr + k - phdrs[j].vaddr \notin 0 .. (phdrs[j].filesz - 1)
    BY <1>1, <2>2
  <2> QED
    BY <1>4, <2>3
<1> QED
  BY <1>3, <1>4

\* exec maps a program as it was linked: each byte of each segment that
\* extract_flat_binary_from_elf() copies is at its address, and the rest of the
\* segment (.bss) is zero, for any number, order and alignment of segments.  This is
\* what ProgramLoaded compares for pairs of segments within two pages.
THEOREM ProgramAsLinked ==
    ASSUME NEW phdrs, Headers(phdrs), WellFormed(phdrs)
    PROVE  AsLinked(phdrs, MapImage(extract_flat_binary_from_elf(phdrs)))
<1> DEFINE image  == extract_flat_binary_from_elf(phdrs)
           size   == image_size(phdrs)
           Over(o) == {j \in DOMAIN phdrs :
                          phdrs[j].load /\ o - Dest(phdrs, j) \in 0 .. (phdrs[j].filesz - 1)}
<1>1. size \in Nat /\ MinVaddr(phdrs) = USER_BASE
  BY ImageBounds
<1>2. image = [o \in 0 .. (size - 1) |->
                  IF Over(o) = {} THEN Zero ELSE <<Max(Over(o)), o - Dest(phdrs, Max(Over(o)))>>]
  BY DEF extract_flat_binary_from_elf
<1>3. Cardinality(DOMAIN image) = size
  <2>1. DOMAIN image = 0 .. (size - 1)
    BY <1>2
  <2>2. Cardinality(0 .. (size - 1)) = size
    <3> HIDE DEF size
    <3>1. Cardinality(0 .. (size - 1)) = IF 0 > size - 1 THEN 0 ELSE (size - 1) - 0 + 1
      BY <1>1, FS_Interval
    <3> QED
      BY <3>1, <1>1
  <2> QED
    BY <2>1, <2>2
<1>4. SUFFICES ASSUME NEW i \in Loads(phdrs), NEW k \in 0 .. (phdrs[i].memsz - 1)
               PROVE  MapImage(image)[phdrs[i].vaddr + k]
                        = IF k < phdrs[i].filesz THEN <<i, k>> ELSE Zero
  BY DEF AsLinked
<1> DEFINE o == (phdrs[i].vaddr + k) - USER_BASE
<1>5. /\ phdrs[i].vaddr \in Nat /\ phdrs[i].memsz \in Nat /\ phdrs[i].filesz \in Nat
      /\ i \in DOMAIN phdrs
  BY HeadersTyped DEF Loads
<1>6. phdrs[i].vaddr >= USER_BASE /\ phdrs[i].vaddr + phdrs[i].memsz <= USER_BASE + size
  BY ImageBounds
<1>7. o \in 0 .. (size - 1) /\ phdrs[i].vaddr + k \in USER_BASE .. (USER_BASE + size - 1)
  <2> HIDE DEF size
  <2> QED
    BY <1>1, <1>5, <1>6, UserMemoryAssumption
<1>8. MapImage(image)[phdrs[i].vaddr + k] = image[o]
  <2> HIDE DEF image, size, Over
  <2>1. MapImage(image) = [a \in USER_BASE .. (USER_BASE + size - 1) |-> image[a - USER_BASE]]
    BY <1>3, Zenon DEF MapImage
  <2>2. \A a \in USER_BASE .. (USER_BASE + size - 1) : MapImage(image)[a] = image[a - USER_BASE]
    BY <2>1, Zenon
  <2> QED
    BY <1>7, <2>2, Zenon
<1>9. \A j \in DOMAIN phdrs : o - Dest(phdrs, j) = phdrs[i].vaddr + k - phdrs[j].vaddr
  <2>1. \A j \in DOMAIN phdrs : phdrs[j].vaddr \in Nat
    BY HeadersTyped
  <2> QED
    BY <2>1, <1>1, <1>5, UserMemoryAssumption DEF Dest
<1>10. \A j \in DOMAIN phdrs : j \in Over(o) <=> j = i /\ k < phdrs[i].filesz
  <2>1. \A j \in DOMAIN phdrs :
           (phdrs[j].load /\ phdrs[i].vaddr + k - phdrs[j].vaddr \in 0 .. (phdrs[j].filesz - 1))
             <=> (j = i /\ k < phdrs[i].filesz)
    BY WrittenByOwn
  <2> HIDE DEF o
  <2> QED
    BY <2>1, <1>9, Zenon
<1>11. Over(o) \subseteq DOMAIN phdrs
  OBVIOUS
<1> HIDE DEF Over
<1>12. CASE k < phdrs[i].filesz
  <2>1. Over(o) = {i}
    BY <1>5, <1>10, <1>11, <1>12, Zenon
  <2>2. i \in Nat
    BY <1>5, HeadersTyped
  <2>3. Max({i}) = i
    BY <2>2 DEF Max
  <2>4. o - Dest(phdrs, i) = k
    <3>1. o - Dest(phdrs, i) = phdrs[i].vaddr + k - phdrs[i].vaddr
      BY <1>5, <1>9, Zenon
    <3> QED
      BY <3>1, <1>5
  <2>5. image[o] = <<Max(Over(o)), o - Dest(phdrs, Max(Over(o)))>>
    <3> HIDE DEF image, o, size
    <3> QED
      BY <1>2, <1>7, <2>1
  <2>6. image[o] = <<i, k>>
    <3> HIDE DEF image, o, size
    <3> QED
      BY <2>1, <2>3, <2>4, <2>5
  <2> QED
    BY <1>8, <1>12, <2>6
<1>13. CASE ~(k < phdrs[i].filesz)
  <2>1. Over(o) = {}
    BY <1>10, <1>11, <1>13, Zenon
  <2>2. image[o] = Zero
    <3> HIDE DEF image, o, size
    <3> QED
      BY <1>2, <1>7, <2>1
  <2> QED
    BY <1>8, <1>13, <2>2
<1> QED
  BY <1>12, <1>13
=============================================================================
