--------------------------- MODULE ProcMemProofs ---------------------------
(***************************************************************************)
(* Proofs about module ProcMem, for every size of memory, of the tracker,  *)
(* of the process table, of programs, stacks and heaps, in a system where  *)
(* only the shell forks, as in module ShellSystem.                         *)
(*                                                                         *)
(* The frames handed out are divided among the processes and the frames    *)
(* that were forgotten.  Each call of the allocator moves a set of frames  *)
(* across the border between free and handed out; the first lemmas say     *)
(* what such a call does to the border and to the owners, the others what  *)
(* fork, exec, sbrk and free_proc() do with the frames.                    *)
(***************************************************************************)
EXTENDS ProcMem, SetLemmas

-----------------------------------------------------------------------------
(* The inductive invariant                                                  *)

\* Frames that were handed out and have not come back.
Taken(m) == (1 .. (m.next - 1)) \ m.free

\* A frame that is free or was never handed out has no owner.
MemOK(m) ==
    /\ m \in [free : SUBSET Nat, next : Nat \ {0}, twice : SUBSET Nat,
              unseen : SUBSET Nat, owner : [Frame -> Nat \cup {Untracked}]]
    /\ m.free \subseteq 1 .. (m.next - 1)
    /\ m.twice = {}
    /\ \A f \in Frame : f \notin Taken(m) => m.owner[f] = Untracked

\* What the tracker knows of a frame: its owner, or that it was handed out while
\* alloc_table was full.
Hidden     == -2
Mark(m, f) == IF m.owner[f] = Untracked /\ f \in m.unseen THEN Hidden ELSE m.owner[f]

\* Where heap_end may be: not so low that a page would be mapped below USER_BASE.
Ends == {h \in Int : h >= -MaxBelow}

Pages(p) == Range(page_table[p])
Lost     == {l.frame : l \in lost}

Typed ==
    /\ MemOK(mem) /\ mem.next <= NFRAMES + 1
    /\ life \in [Procs -> {"UNUSED", "ALIVE", "ZOMBIE"}]
    /\ parent \in [Procs -> Procs \cup {NoProc}]
    /\ heap_end \in [Procs -> Ends]
    /\ page_table = [p \in Procs |-> page_table[p]]
    /\ tables = [p \in Procs |-> tables[p]]
    /\ image = [p \in Procs |-> image[p]]
    /\ tf_page = [p \in Procs |-> tf_page[p]]
    /\ lost \subseteq [frame : Nat, kind : {"tf", "image", "heap", "stack"}, by : Procs \cup {NoProc}]

\* idle and shell are never reaped, and every other process is a child of shell.
Family ==
    /\ idle_proc \in InUse /\ shell \in InUse
    /\ parent[idle_proc] = NoProc /\ parent[shell] = idle_proc
    /\ \A p \in InUse \ {idle_proc, shell} : parent[p] = shell

\* What a process uses, it uses once; its tables are those its pages need.
SpaceOK(p) ==
    /\ IsInjective(page_table[p])
    /\ DOMAIN page_table[p] \subseteq Nat /\ IsFiniteSet(DOMAIN page_table[p])
    /\ IsFiniteSet(tables[p]) /\ IsFiniteSet(image[p]) /\ IsFiniteSet(tf_page[p])
    /\ Cardinality(tables[p]) = TablesFor(DOMAIN page_table[p])
    /\ Pages(p) \cap (tables[p] \cup image[p] \cup tf_page[p]) = {}
    /\ tables[p] \cap (image[p] \cup tf_page[p]) = {}
    /\ image[p] \cap tf_page[p] = {}

\* The frames handed out are divided among the processes and the forgotten ones.
Divided ==
    /\ Taken(mem) = AllUsed \cup Lost
    /\ \A p, q \in InUse : p # q => Uses(p) \cap Uses(q) = {}
    /\ AllUsed \cap Lost = {}

\* Whose pid may stand in the tracker's entry for a frame of process p: its own, or
\* that of the process that allocated it for p; there may be no entry for want of room.
Owners(p) == {Pid(p), Pid(shell), Pid(idle_proc), Hidden}

Owned(p) ==
    /\ \A f \in Pages(p) \cup tables[p] \cup tf_page[p] : Mark(mem, f) \in Owners(p)
    /\ \A f \in image[p] : Mark(mem, f) \in Owners(p) \cup {Untracked}

\* The owner of a frame that was forgotten: a process that is never reaped, the
\* process that forgot it and is still there, or nobody when the frame is of an image
\* or found the tracker full.
Accounted(l) ==
    /\ l.by \in InUse \cup {NoProc}
    /\ \/ Mark(mem, l.frame) \in {Pid(shell), Pid(idle_proc), Hidden}
       \/ l.by # NoProc /\ Mark(mem, l.frame) = Pid(l.by)
       \/ l.kind = "image" /\ Mark(mem, l.frame) = Untracked

MInv ==
    /\ Typed /\ Family
    /\ \A p \in InUse : SpaceOK(p) /\ Owned(p)
    /\ Divided
    /\ \A l \in lost : Accounted(l)

-----------------------------------------------------------------------------
(* Counting: the lowest elements of a set, and a set mapped in order onto   *)
(* another one                                                              *)

\* Ranks grow with the elements and stay below the size of the set.
LEMMA RankGrows ==
    ASSUME NEW S \in SUBSET Nat, IsFiniteSet(S)
    PROVE  /\ Cardinality(S) \in Nat
           /\ \A x \in S : Rank(S, x) \in Nat /\ Rank(S, x) < Cardinality(S)
           /\ \A x, y \in S : x < y => Rank(S, x) < Rank(S, y)
<1> DEFINE Below(x) == {z \in S : z < x}
<1>1. ASSUME NEW x \in S
      PROVE  /\ IsFiniteSet(Below(x)) /\ Cardinality(Below(x)) \in Nat
             /\ Rank(S, x) = Cardinality(Below(x))
  <2>1. IsFiniteSet(Below(x))
    BY FS_Subset
  <2> QED
    BY <2>1, FS_CardinalityType DEF Rank
\* Room for one more: a finite set that holds those below x, and x, is larger.
<1>2. ASSUME NEW x \in S, NEW T, IsFiniteSet(T), Below(x) \subseteq T, x \in T
      PROVE  Rank(S, x) < Cardinality(T)
  <2> DEFINE B == Below(x)
  <2>1. x \notin B /\ IsFiniteSet(B) /\ Cardinality(B) \in Nat
        /\ Rank(S, x) = Cardinality(B)
    BY <1>1
  <2>2. B \cup {x} \subseteq T
    BY <1>2
  <2> HIDE DEF B
  <2>3. Cardinality(B \cup {x}) = Cardinality(B) + 1
    BY <2>1, FS_AddElement
  <2>4. Cardinality(B \cup {x}) <= Cardinality(T) /\ Cardinality(T) \in Nat
    BY <1>2, <2>2, FS_Subset, FS_CardinalityType
  <2> QED
    BY <2>1, <2>3, <2>4
<1>3. Cardinality(S) \in Nat
  BY FS_CardinalityType
<1>4. ASSUME NEW x \in S
      PROVE  Rank(S, x) \in Nat /\ Rank(S, x) < Cardinality(S)
  <2>1. Below(x) \subseteq S
    OBVIOUS
  <2>2. Rank(S, x) \in Nat
    BY <1>1
  <2> HIDE DEF Below
  <2>3. Rank(S, x) < Cardinality(S)
    BY <2>1, <1>2
  <2> QED
    BY <2>2, <2>3
<1>5. ASSUME NEW x \in S, NEW y \in S, x < y
      PROVE  Rank(S, x) < Rank(S, y)
  <2>1. ASSUME NEW z \in S, z < x PROVE z < y
    <3>1. x \in Nat /\ y \in Nat /\ z \in Nat
      OBVIOUS
    <3> QED
      BY <3>1, <2>1, <1>5
  <2>3. Below(x) \subseteq Below(y) /\ x \in Below(y)
    BY <2>1, <1>5
  <2>2. IsFiniteSet(Below(y)) /\ Rank(S, y) = Cardinality(Below(y))
    BY <1>1
  <2> HIDE DEF Below
  <2> QED
    BY <2>3, <2>2, <1>2
<1> QED
  BY <1>3, <1>4, <1>5

\* Different elements have different ranks, and every rank below the size of the
\* set is taken.
LEMMA RankCovers ==
    ASSUME NEW S \in SUBSET Nat, IsFiniteSet(S)
    PROVE  /\ \A x, y \in S : Rank(S, x) = Rank(S, y) => x = y
           /\ \A r \in Nat : r < Cardinality(S) => \E x \in S : Rank(S, x) = r
<1> DEFINE n == Cardinality(S)
           N == 0 .. (n - 1)
           r == [x \in S |-> Rank(S, x)]
<1>1. /\ n \in Nat
      /\ \A x \in S : Rank(S, x) \in Nat /\ Rank(S, x) < n
      /\ \A x, y \in S : x < y => Rank(S, x) < Rank(S, y)
  BY RankGrows
<1>2. ASSUME NEW x \in S, NEW y \in S, Rank(S, x) = Rank(S, y)
      PROVE  x = y
  <2>1. ~(x < y) /\ ~(y < x)
    BY <1>1, <1>2
  <2> QED
    BY <2>1
<1> HIDE DEF n
<1>3. IsFiniteSet(N) /\ Cardinality(N) = n
  BY <1>1, FS_Interval
<1>4. r \in Injection(S, N)
  BY <1>1, <1>2 DEF Injection, IsInjective
<1> HIDE DEF r, N
<1>5. r \in Surjection(S, N)
  BY <1>3, <1>4, FS_Injection DEF n
<1>6. ASSUME NEW k \in Nat, k < n
      PROVE  \E x \in S : Rank(S, x) = k
  <2>1. k \in N
    BY <1>1, <1>6 DEF N
  <2> QED
    BY <2>1, <1>5 DEF Surjection, r
<1> QED
  BY <1>2, <1>6 DEF n

\* Lowest(S, k) holds at most k elements.
LEMMA LowestAtMost ==
    ASSUME NEW S \in SUBSET Nat, IsFiniteSet(S), NEW k \in Nat
    PROVE  /\ Lowest(S, k) \subseteq S /\ IsFiniteSet(Lowest(S, k))
           /\ Cardinality(Lowest(S, k)) \in Nat
           /\ Cardinality(Lowest(S, k)) <= k
<1> DEFINE L == Lowest(S, k)
           N == 0 .. (k - 1)
           r == [x \in L |-> Rank(S, x)]
<1>1. L \subseteq S
  BY DEF Lowest
<1>2. IsFiniteSet(L) /\ Cardinality(L) \in Nat
  BY <1>1, FS_Subset, FS_CardinalityType
<1>3. \A x \in S : Rank(S, x) \in Nat
  BY RankGrows
<1>4. \A x, y \in S : Rank(S, x) = Rank(S, y) => x = y
  BY RankCovers
<1>5. \A x \in L : Rank(S, x) \in N
  BY <1>1, <1>3 DEF Lowest
<1>6. r \in Injection(L, N)
  <2> HIDE DEF L
  <2> QED
    BY <1>1, <1>4, <1>5 DEF Injection, IsInjective
<1>7. IsFiniteSet(N) /\ Cardinality(N) = k
  BY FS_Interval
<1> HIDE DEF L, N, r
<1>8. Cardinality(L) <= k
  BY <1>6, <1>7, FS_Injection
<1> QED
  BY <1>1, <1>2, <1>8 DEF L

\* Two sets of the same size: each element of the one is given the element of the
\* other with its rank, so that none is left over and none is given twice.
LEMMA InOrder ==
    ASSUME NEW A \in SUBSET Nat, IsFiniteSet(A), NEW B \in SUBSET Nat, IsFiniteSet(B),
           Cardinality(A) = Cardinality(B),
           NEW map, map = [a \in A |-> CHOOSE b \in B : Rank(B, b) = Rank(A, a)]
    PROVE  DOMAIN map = A /\ Range(map) = B /\ IsInjective(map)
<1>1. ASSUME NEW a \in A
      PROVE  map[a] \in B /\ Rank(B, map[a]) = Rank(A, a)
  <2>1. Rank(A, a) \in Nat /\ Rank(A, a) < Cardinality(B)
    BY RankGrows
  <2>2. \E b \in B : Rank(B, b) = Rank(A, a)
    BY <2>1, RankCovers
  <2> QED
    BY <2>2
<1>2. DOMAIN map = A
  OBVIOUS
<1>3. ASSUME NEW a \in A, NEW c \in A, map[a] = map[c]
      PROVE  a = c
  <2>1. Rank(A, a) = Rank(A, c)
    BY <1>1, <1>3
  <2> QED
    BY <2>1, RankCovers
<1>4. ASSUME NEW b \in B
      PROVE  \E a \in A : map[a] = b
  <2>1. Rank(B, b) \in Nat /\ Rank(B, b) < Cardinality(A)
    BY RankGrows
  <2>2. PICK a \in A : Rank(A, a) = Rank(B, b)
    BY <2>1, RankCovers
  <2>3. map[a] \in B /\ Rank(B, map[a]) = Rank(B, b)
    BY <1>1, <2>2
  <2>4. map[a] = b
    BY <2>3, RankCovers
  <2> QED
    BY <2>4
<1>5. Range(map) = B
  BY <1>1, <1>2, <1>4 DEF Range
<1>6. IsInjective(map)
  BY <1>2, <1>3 DEF IsInjective
<1> QED
  BY <1>2, <1>5, <1>6

-----------------------------------------------------------------------------
(* The allocator                                                            *)

\* From memory m to m2 the frames S were handed out, tracked under one of owners.
Got(m, m2, S, owners) ==
    /\ MemOK(m2)
    /\ S \cap Taken(m) = {}
    /\ Taken(m2) = Taken(m) \cup S
    /\ m2.next >= m.next
    /\ \A f \in Frame : /\ f \in S => Mark(m2, f) \in owners
                        /\ f \notin S => Mark(m2, f) = Mark(m, f)

\* From memory m to m2 the frames S came back.
Gave(m, m2, S) ==
    /\ MemOK(m2)
    /\ S \subseteq Taken(m)
    /\ Taken(m2) = Taken(m) \ S
    /\ m2.next = m.next
    /\ \A f \in Frame : /\ f \in S => Mark(m2, f) = Untracked
                        /\ f \notin S => Mark(m2, f) = Mark(m, f)

\* The free frames are a finite set of numbers.
LEMMA FreeFinite ==
    ASSUME NEW m, MemOK(m)
    PROVE  m.free \in SUBSET Nat /\ IsFiniteSet(m.free)
<1>1. m.next \in Nat \ {0} /\ m.free \in SUBSET (1 .. (m.next - 1))
  BY DEF MemOK
<1>2. IsFiniteSet(1 .. (m.next - 1))
  BY <1>1, FS_Interval
<1> QED
  BY <1>1, <1>2, FS_Subset

\* k calls of alloc_pages(1) hand out k frames that nobody had.
LEMMA AllocSinglesGot ==
    ASSUME NEW m, MemOK(m), NEW k \in Nat, NEW pid \in Nat
    PROVE  /\ Got(m, AllocSingles(m, k, pid), Singles(m, k), {pid, Hidden})
           /\ IsFiniteSet(Singles(m, k)) /\ Cardinality(Singles(m, k)) = k
           /\ Singles(m, k) \in SUBSET Nat
<1> DEFINE old == Lowest(m.free, k)
           c   == Cardinality(old)
           new == m.next .. (m.next + k - c - 1)
           got == Singles(m, k)
           m2  == AllocSingles(m, k, pid)
           seen == Seen(m, got)
<1>1. /\ m \in [free : SUBSET Nat, next : Nat \ {0}, twice : SUBSET Nat,
                unseen : SUBSET Nat, owner : [Frame -> Nat \cup {Untracked}]]
      /\ m.free \subseteq 1 .. (m.next - 1)
      /\ m.twice = {}
      /\ \A f \in Frame : f \notin Taken(m) => m.owner[f] = Untracked
  BY DEF MemOK
<1>2. old \subseteq m.free /\ IsFiniteSet(old) /\ c \in Nat /\ c <= k
  BY FreeFinite, LowestAtMost
<1>3. got = old \cup new
  BY DEF Singles
<1> HIDE DEF old, c
<1>n. m.next \in Nat \ {0} /\ m.free \in SUBSET Nat /\ m.owner \in [Frame -> Nat \cup {Untracked}]
  BY <1>1
<1>4. IsFiniteSet(new) /\ Cardinality(new) = k - c
  <2>1. m.next \in Int /\ m.next + k - c - 1 \in Int
    BY <1>n, <1>2
  <2>2. /\ IsFiniteSet(new)
        /\ Cardinality(new) = IF m.next > m.next + k - c - 1 THEN 0
                              ELSE (m.next + k - c - 1) - m.next + 1
    BY <2>1, FS_Interval
  <2> QED
    BY <2>2, <1>n, <1>2
<1>5. new \cap m.free = {} /\ new \cap old = {}
  BY <1>1, <1>2
<1>6. IsFiniteSet(got) /\ Cardinality(got) = k
  <2> HIDE DEF new
  <2>1. Cardinality(old \cap new) = 0
    BY <1>5, FS_EmptySet
  <2>2. IsFiniteSet(old \cup new)
        /\ Cardinality(old \cup new) = Cardinality(old) + Cardinality(new) - Cardinality(old \cap new)
    BY <1>2, <1>4, FS_Union
  <2> QED
    BY <1>2, <1>3, <1>4, <2>1, <2>2 DEF c
<1>7. got \ m.free = new
  BY <1>2, <1>3, <1>5
<1>8. /\ m2 = [m EXCEPT !.free = m.free \ got, !.next = m.next + Cardinality(new),
                        !.owner = Tracked(m, seen, pid),
                        !.unseen = m.unseen \cup (got \ seen)]
      /\ seen \subseteq got
  BY <1>7 DEF AllocSingles, Unseen, Seen
<1>s. got \in SUBSET Nat
  BY <1>n, <1>2, <1>3
<1> HIDE DEF got, m2, seen
<1>9. /\ m2 \in [free : SUBSET Nat, next : Nat \ {0}, twice : SUBSET Nat,
                 unseen : SUBSET Nat, owner : [Frame -> Nat \cup {Untracked}]]
      /\ m2.free = m.free \ got /\ m2.next = m.next + (k - c) /\ m2.twice = {}
      /\ m2.unseen = m.unseen \cup (got \ seen)
      /\ \A f \in Frame : m2.owner[f] = IF f \in seen THEN pid ELSE m.owner[f]
  <2> DEFINE w == Tracked(m, seen, pid)
             u == m.unseen \cup (got \ seen)
  <2>1. /\ w \in [Frame -> Nat \cup {Untracked}]
        /\ \A f \in Frame : w[f] = IF f \in seen THEN pid ELSE m.owner[f]
    BY <1>n DEF Tracked
  <2>2. m.free \ got \in SUBSET Nat /\ m.next + (k - c) \in Nat \ {0} /\ u \in SUBSET Nat
    <3>1. m.unseen \in SUBSET Nat
      BY <1>1
    <3>2. u \in SUBSET Nat
      BY <1>s, <3>1
    <3> QED
      BY <1>n, <1>2, <3>2

  <2>3. m2 = [m EXCEPT !.free = m.free \ got, !.next = m.next + (k - c), !.owner = w,
                       !.unseen = u]
    BY <1>4, <1>8
  <2>4. u = m.unseen \cup (got \ seen)
    OBVIOUS
  <2> HIDE DEF w, u, new
  <2> QED
    BY <1>1, <2>1, <2>2, <2>3, <2>4
<1>10. Taken(m2) = Taken(m) \cup got /\ got \cap Taken(m) = {} /\ got \in SUBSET Nat
  <2>1. got \cap Taken(m) = {} /\ got \in SUBSET Nat
    BY <1>n, <1>2, <1>3 DEF Taken
  <2>2. ASSUME NEW f
        PROVE  f \in 1 .. (m2.next - 1) <=> f \in 1 .. (m.next - 1) \/ f \in new
    BY <1>n, <1>2, <1>9
  <2>3. ASSUME NEW f
        PROVE  f \in Taken(m2) <=> f \in Taken(m) \/ f \in got
    <3> HIDE DEF new
    <3> QED
      BY <2>2, <1>1, <1>2, <1>3, <1>5, <1>9 DEF Taken
  <2> QED
    BY <2>1, <2>3
<1>11. m2.free \subseteq 1 .. (m2.next - 1)
  BY <1>1, <1>2, <1>9
<1>12. MemOK(m2)
  BY <1>1, <1>8, <1>9, <1>10, <1>11 DEF MemOK
<1>14. \A f \in Frame : /\ f \in got => Mark(m2, f) \in {pid, Hidden}
                        /\ f \notin got => Mark(m2, f) = Mark(m, f)
  BY <1>1, <1>8, <1>9, <1>10 DEF Mark, Untracked
<1>13. Got(m, m2, got, {pid, Hidden})
  BY <1>n, <1>2, <1>9, <1>10, <1>12, <1>14 DEF Got
<1> QED
  BY <1>6, <1>10, <1>13 DEF got, m2

\* alloc_pages(n) hands out n frames that nobody had; only the first is tracked.
LEMMA AllocBlockGot ==
    ASSUME NEW m, MemOK(m), NEW n \in Nat \ {0}, NEW pid \in Nat
    PROVE  /\ Got(m, AllocBlock(m, n, pid), Block(m, n), {pid, Untracked, Hidden})
           /\ IsFiniteSet(Block(m, n))
<1>1. CASE n = 1
  <2>1. /\ Got(m, AllocSingles(m, 1, pid), Singles(m, 1), {pid, Hidden})
        /\ IsFiniteSet(Singles(m, 1))
    BY AllocSinglesGot
  <2> QED
    BY <1>1, <2>1 DEF Got, AllocBlock, Block
<1>2. CASE n # 1
  <2> DEFINE got == m.next .. (m.next + n - 1)
             seen == Seen(m, {m.next})
             m2  == [m EXCEPT !.next = m.next + n, !.owner = Tracked(m, seen, pid),
                              !.unseen = m.unseen \cup ({m.next} \ seen)]
  <2>1. /\ m \in [free : SUBSET Nat, next : Nat \ {0}, twice : SUBSET Nat,
                  unseen : SUBSET Nat, owner : [Frame -> Nat \cup {Untracked}]]
        /\ m.free \subseteq 1 .. (m.next - 1)
        /\ m.twice = {}
        /\ \A f \in Frame : f \notin Taken(m) => m.owner[f] = Untracked
    BY DEF MemOK
  <2>2. AllocBlock(m, n, pid) = m2 /\ Block(m, n) = got /\ seen \subseteq {m.next}
    BY <1>2 DEF AllocBlock, Block, Unseen, Seen
  <2> HIDE DEF seen
  <2>3. /\ m2 \in [free : SUBSET Nat, next : Nat \ {0}, twice : SUBSET Nat,
                   unseen : SUBSET Nat, owner : [Frame -> Nat \cup {Untracked}]]
        /\ m2.free = m.free /\ m2.next = m.next + n /\ m2.twice = {}
        /\ m2.unseen = m.unseen \cup ({m.next} \ seen)
        /\ \A f \in Frame : m2.owner[f] = IF f \in seen THEN pid ELSE m.owner[f]
    <3> DEFINE w == Tracked(m, seen, pid)
               u == m.unseen \cup ({m.next} \ seen)
    <3>1. m.next \in Nat \ {0} /\ m.owner \in [Frame -> Nat \cup {Untracked}]
      BY <2>1
    <3>2. /\ w \in [Frame -> Nat \cup {Untracked}]
          /\ \A f \in Frame : w[f] = IF f \in seen THEN pid ELSE m.owner[f]
      BY <3>1 DEF Tracked
    <3>3. m.next + n \in Nat \ {0} /\ u \in SUBSET Nat
      BY <2>1, <3>1
    <3>4. m2 = [m EXCEPT !.next = m.next + n, !.owner = w, !.unseen = u]
      OBVIOUS
    <3>5. u = m.unseen \cup ({m.next} \ seen)
      OBVIOUS
    <3> HIDE DEF w, u, m2
    <3> QED
      BY <2>1, <3>2, <3>3, <3>4, <3>5
  <2> HIDE DEF m2
  <2>4. Taken(m2) = Taken(m) \cup got /\ got \cap Taken(m) = {} /\ m.next \in got
    BY <2>1, <2>3 DEF Taken
  <2>5. m2.free \subseteq 1 .. (m2.next - 1)
    BY <2>1, <2>3
  <2>6. IsFiniteSet(got)
    BY <2>1, FS_Interval
  <2> HIDE DEF got
  <2>7. MemOK(m2)
    BY <2>1, <2>2, <2>3, <2>4, <2>5 DEF MemOK
  <2>8. \A f \in Frame : /\ f \in got => Mark(m2, f) \in {pid, Untracked, Hidden}
                         /\ f \notin got => Mark(m2, f) = Mark(m, f)
    BY <2>1, <2>2, <2>3, <2>4 DEF Mark
  <2>10. m2.next >= m.next
    BY <2>1, <2>3
  <2>9. Got(m, m2, got, {pid, Untracked, Hidden})
    BY <2>4, <2>7, <2>8, <2>10 DEF Got
  <2> QED
    BY <2>2, <2>6, <2>9
<1> QED
  BY <1>1, <1>2

\* free_page() of frames that are handed out: none is freed twice.
LEMMA FreeFramesGave ==
    ASSUME NEW m, MemOK(m), NEW S, S \subseteq Taken(m)
    PROVE  Gave(m, FreeFrames(m, S), S)
<1> DEFINE m2 == FreeFrames(m, S)
<1>1. /\ m \in [free : SUBSET Nat, next : Nat \ {0}, twice : SUBSET Nat,
                unseen : SUBSET Nat, owner : [Frame -> Nat \cup {Untracked}]]
      /\ m.free \subseteq 1 .. (m.next - 1)
      /\ m.twice = {}
      /\ \A f \in Frame : f \notin Taken(m) => m.owner[f] = Untracked
  BY DEF MemOK
<1>2. S \cap m.free = {} /\ S \subseteq 1 .. (m.next - 1)
  BY DEF Taken
<1>3. m2 = [m EXCEPT !.free = m.free \cup S, !.owner = Tracked(m, S, Untracked),
                     !.unseen = m.unseen \ S, !.twice = m.twice \cup (S \cap m.free)]
  BY DEF FreeFrames
<1> HIDE DEF m2
<1>4. /\ m2 \in [free : SUBSET Nat, next : Nat \ {0}, twice : SUBSET Nat,
                 unseen : SUBSET Nat, owner : [Frame -> Nat \cup {Untracked}]]
      /\ m2.free = m.free \cup S /\ m2.next = m.next /\ m2.twice = {}
      /\ m2.unseen = m.unseen \ S
      /\ \A f \in Frame : m2.owner[f] = IF f \in S THEN Untracked ELSE m.owner[f]
  <2> DEFINE w == Tracked(m, S, Untracked)
  <2>0. m.owner \in [Frame -> Nat \cup {Untracked}]
    BY <1>1
  <2>1. /\ w \in [Frame -> Nat \cup {Untracked}]
        /\ \A f \in Frame : w[f] = IF f \in S THEN Untracked ELSE m.owner[f]
    BY <2>0 DEF Tracked, Untracked
  <2>2. m.free \cup S \in SUBSET Nat
    <3>1. m.next \in Nat /\ m.free \in SUBSET Nat
      BY <1>1
    <3>2. \A f \in S : f \in Nat
      BY <3>1, <1>2
    <3> QED
      BY <3>1, <3>2
  <2>3. m2 = [m EXCEPT !.free = m.free \cup S, !.owner = w, !.unseen = m.unseen \ S,
                       !.twice = {}]
    BY <1>1, <1>2, <1>3
  <2> HIDE DEF w
  <2> QED
    BY <1>1, <2>1, <2>2, <2>3
<1>5. Taken(m2) = Taken(m) \ S
  BY <1>4 DEF Taken
<1>6. MemOK(m2)
  BY <1>1, <1>2, <1>4, <1>5 DEF MemOK
<1>8. \A f \in Frame : /\ f \in S => Mark(m2, f) = Untracked
                       /\ f \notin S => Mark(m2, f) = Mark(m, f)
  BY <1>4 DEF Mark
<1>7. Gave(m, m2, S)
  BY <1>4, <1>5, <1>6, <1>8 DEF Gave
<1> QED
  BY <1>7 DEF m2

\* Two steps of the allocator make one.
LEMMA GotTwice ==
    ASSUME NEW m, NEW m1, NEW m2, NEW S, NEW T, NEW owners,
           Got(m, m1, S, owners), Got(m1, m2, T, owners),
           m.next \in Nat, m1.next \in Nat, m2.next \in Nat
    PROVE  Got(m, m2, S \cup T, owners) /\ S \cap T = {}
  BY DEF Got

\* Two rounds of free_page() make one.
LEMMA GaveTwice ==
    ASSUME NEW m, NEW m1, NEW m2, NEW S, NEW T, Gave(m, m1, S), Gave(m1, m2, T)
    PROVE  Gave(m, m2, S \cup T)
  BY DEF Gave

-----------------------------------------------------------------------------
(* Address spaces                                                           *)

\* More pages need no fewer tables.
LEMMA TablesForGrows ==
    ASSUME NEW S, NEW T, IsFiniteSet(T), S \subseteq T
    PROVE  /\ TablesFor(S) \in Nat /\ TablesFor(T) \in Nat
           /\ TablesFor(S) <= TablesFor(T)
<1> DEFINE Spans(R) == {v \div TableSpan : v \in R}
           g == [v \in T |-> v \div TableSpan]
<1>1. g \in Surjection(T, Spans(T))
  BY DEF Surjection
<1>2. Spans(S) \subseteq Spans(T)
  OBVIOUS
<1>3. \A R : TablesFor(R) = KernelTables + Cardinality(Spans(R))
  BY DEF TablesFor
<1>4. KernelTables \in Nat
  BY ProcMemAssumption
<1> HIDE DEF Spans, g
<1>5. IsFiniteSet(Spans(T))
  BY <1>1, FS_Surjection
<1>6. /\ Cardinality(Spans(S)) \in Nat /\ Cardinality(Spans(T)) \in Nat
      /\ Cardinality(Spans(S)) <= Cardinality(Spans(T))
  BY <1>2, <1>5, FS_Subset, FS_CardinalityType
<1> QED
  BY <1>3, <1>4, <1>6

\* The elements of a set whose ranks are a, a+1, ...: k of them.
Slice(S, a, k) == {x \in S : Rank(S, x) \in a .. (a + k - 1)}

\* They are as many as those ranks: taking them away takes k elements away.
LEMMA SliceCounted ==
    ASSUME NEW S \in SUBSET Nat, IsFiniteSet(S), NEW a \in Nat, NEW k \in Nat,
           k = 0 \/ a + k <= Cardinality(S)
    PROVE  /\ Slice(S, a, k) \subseteq S /\ IsFiniteSet(S \ Slice(S, a, k))
           /\ Cardinality(S \ Slice(S, a, k)) = Cardinality(S) - k
<1> DEFINE U == Slice(S, a, k)
           I == a .. (a + k - 1)
           g == [x \in U |-> Rank(S, x)]
<1>0. U = {x \in S : Rank(S, x) \in I}
  BY DEF Slice
<1> HIDE DEF U
<1>1. U \subseteq S /\ IsFiniteSet(U) /\ IsFiniteSet(S \ U)
  BY <1>0, FS_Subset
<1>2. Cardinality(S) \in Nat /\ \A x \in S : Rank(S, x) \in Nat
  BY RankGrows
<1>3. IsFiniteSet(I) /\ Cardinality(I) = k
  <2>1. a \in Int /\ a + k - 1 \in Int
    OBVIOUS
  <2>2. IsFiniteSet(I) /\ Cardinality(I) = IF a > a + k - 1 THEN 0 ELSE (a + k - 1) - a + 1
    BY <2>1, FS_Interval
  <2> QED
    BY <2>2
<1>4. ASSUME NEW r \in I
      PROVE  \E x \in U : g[x] = r
  <2>1. r \in Nat /\ r < Cardinality(S)
    BY <1>2
  <2> QED
    BY <1>0, <2>1, RankCovers
<1>5. \A x, y \in S : Rank(S, x) = Rank(S, y) => x = y
  BY RankCovers
<1>6. g \in Bijection(U, I)
  <2>1. \A x \in U : g[x] \in I
    BY <1>0
  <2>2. \A x, y \in U : g[x] = g[y] => x = y
    BY <1>1, <1>5
  <2> HIDE DEF I
  <2> QED
    BY <1>4, <2>1, <2>2 DEF Bijection, Injection, Surjection, IsInjective
<1> HIDE DEF I, g
<1>7. Cardinality(U) = k
  BY <1>1, <1>3, <1>6, FS_Bijection DEF ExistsBijection
<1>8. S \cap U = U
  BY <1>1
<1>9. Cardinality(S \ U) = Cardinality(S) - Cardinality(S \cap U)
  BY <1>1, FS_Difference
<1> QED
  BY <1>1, <1>7, <1>8, <1>9 DEF U

\* The layout of a program: the pages it starts with are a finite set, with a frame for
\* each page of code, and heap_end leaves room for the next page.
LEMMA Layout ==
    /\ HeapStart \in Nat /\ ImagePages \in Nat \ {0}
    /\ CodePages \in Nat /\ StackPages \in Nat
    /\ 0 \in Ends /\ 1 \in Ends
    /\ \A h \in Ends : h + 1 \in Ends /\ HeapStart + h + 1 \in Nat
    /\ Fresh \in SUBSET Nat /\ IsFiniteSet(Fresh) /\ CodePages <= Cardinality(Fresh)
<1>1. /\ CodePages \in Nat \ {0} /\ StackPages \in Nat \ {0} /\ Gap \in Nat
      /\ MaxBelow \in 0 .. HeapStart
  BY ProcMemAssumption
<1>2. ImagePages \in Nat \ {0} /\ HeapStart \in Nat /\ CodePages <= ImagePages
  BY <1>1 DEF ImagePages, HeapStart
<1>3. /\ 0 \in Ends /\ 1 \in Ends
      /\ \A h \in Ends : h + 1 \in Ends /\ HeapStart + h + 1 \in Nat
  BY <1>1, <1>2 DEF Ends
<1> DEFINE A == 1 .. (ImagePages + 1)
           B == {HeapStart + 1}
<1>4. Fresh = A \cup B /\ Fresh \in SUBSET Nat
  BY <1>2 DEF Fresh
<1>5. IsFiniteSet(A) /\ Cardinality(A) = ImagePages + 1
  BY <1>2, FS_Interval
<1>6. IsFiniteSet(B)
  BY FS_Singleton
<1> HIDE DEF A, B
<1>7. IsFiniteSet(Fresh)
  BY <1>4, <1>5, <1>6, FS_Union
<1>8. A \subseteq Fresh
  BY <1>4
<1>9. Cardinality(A) <= Cardinality(Fresh) /\ Cardinality(Fresh) \in Nat
  BY <1>7, <1>8, FS_Subset, FS_CardinalityType
<1>10. CodePages <= Cardinality(Fresh)
  BY <1>1, <1>2, <1>5, <1>9
<1> QED
  BY <1>1, <1>2, <1>3, <1>4, <1>7, <1>10

\* k pages above the code are among the pages, or none is mapped twice.
Overlaps(pages, k) == k = 0 \/ CodePages <= Cardinality(pages)

\* A new address space is made of frames nobody had: tables as its pages need them,
\* one frame for each page, and those whose pages were mapped again.
IsSpace(new, m, pages, k, pid) ==
    /\ Got(m, new.mem, new.tables \cup Range(new.map) \cup new.under, {pid, Hidden})
    /\ new.tables \cap Range(new.map) = {}
    /\ new.under \cap (new.tables \cup Range(new.map)) = {}
    /\ k = 0 => new.under = {}
    /\ DOMAIN new.map = pages /\ IsInjective(new.map)
    /\ IsFiniteSet(new.tables)
    /\ Cardinality(new.tables) = TablesFor(pages)

\* NewSpace() makes such an address space, whoever allocates and however full the
\* tracker is.
LEMMA NewSpaceGot ==
    ASSUME NEW m, MemOK(m), NEW pages \in SUBSET Nat, IsFiniteSet(pages), NEW pid \in Nat,
           NEW k \in Nat, Overlaps(pages, k)
    PROVE  IsSpace(NewSpace(m, pages, k, pid), m, pages, k, pid)
<1> DEFINE new  == NewSpace(m, pages, k, pid)
           n    == TablesFor(pages)
           c    == Cardinality(pages)
           tabs == Singles(m, n)
           m1   == AllocSingles(m, n, pid)
           leaf == Singles(m1, c + k)
           m2   == AllocSingles(m1, c + k, pid)
           under == Slice(leaf, CodePages, k)
           kept == leaf \ under
           map  == [v \in pages |-> CHOOSE f \in kept : Rank(kept, f) = Rank(pages, v)]
<1>1. new.mem = m2 /\ new.tables = tabs /\ new.map = map /\ new.under = under
  BY DEF NewSpace, Slice
<1> HIDE DEF new
<1>2. n \in Nat /\ c \in Nat /\ c + k \in Nat
  BY TablesForGrows, FS_CardinalityType
<1> HIDE DEF n, c
<1>3. Got(m, m1, tabs, {pid, Hidden}) /\ IsFiniteSet(tabs) /\ Cardinality(tabs) = n
  BY <1>2, AllocSinglesGot
<1>4. MemOK(m1) /\ m1.next \in Nat /\ m.next \in Nat
  BY <1>3 DEF Got, MemOK
<1> HIDE DEF m1
<1>5. /\ Got(m1, m2, leaf, {pid, Hidden}) /\ IsFiniteSet(leaf) /\ Cardinality(leaf) = c + k
      /\ leaf \in SUBSET Nat
  BY <1>2, <1>4, AllocSinglesGot
<1>6. m2.next \in Nat
  BY <1>5 DEF Got, MemOK
<1> HIDE DEF tabs, leaf, m2, map
<1>7. Got(m, m2, tabs \cup leaf, {pid, Hidden}) /\ tabs \cap leaf = {}
  <2> DEFINE own == {pid, Hidden}
  <2>1. Got(m, m1, tabs, own) /\ Got(m1, m2, leaf, own)
    BY <1>3, <1>5
  <2> HIDE DEF own
  <2>2. Got(m, m2, tabs \cup leaf, own) /\ tabs \cap leaf = {}
    BY <1>4, <1>6, <2>1, GotTwice
  <2> QED
    BY <2>2 DEF own
<1>9. CodePages \in Nat
  BY Layout
<1>10. under \subseteq leaf /\ IsFiniteSet(kept) /\ Cardinality(kept) = c
  <2>1. k = 0 \/ CodePages + k <= Cardinality(leaf)
    BY <1>2, <1>5, <1>9 DEF c, Overlaps
  <2>2. under \subseteq leaf /\ IsFiniteSet(kept) /\ Cardinality(kept) = Cardinality(leaf) - k
    BY <1>5, <1>9, <2>1, SliceCounted
  <2> QED
    BY <1>2, <1>5, <2>2
<1>11. ASSUME k = 0 PROVE under = {}
  BY <1>9, <1>11 DEF Slice
<1>12. leaf = kept \cup under /\ kept \cap under = {}
  BY <1>10
<1> HIDE DEF kept, under
<1>13. kept \in SUBSET Nat
  BY <1>5, <1>12
<1>8. DOMAIN map = pages /\ Range(map) = kept /\ IsInjective(map)
  BY <1>10, <1>13, InOrder DEF c, map
<1>14. tabs \cup leaf = tabs \cup kept \cup under
  BY <1>12
<1>15. tabs \cap kept = {} /\ under \cap (tabs \cup kept) = {}
  BY <1>7, <1>12
<1>16. IsSpace(new, m, pages, k, pid)
  BY <1>1, <1>3, <1>7, <1>8, <1>11, <1>14, <1>15 DEF n, IsSpace
<1> QED
  BY <1>16 DEF new

\* process_free_userspace() gives every frame of the address space back once,
\* whichever of its two passes meets it.
LEMMA FreeUserspaceGave ==
    ASSUME NEW p, SpaceOK(p), NEW m, MemOK(m), Pages(p) \cup tables[p] \subseteq Taken(m)
    PROVE  Gave(m, process_free_userspace(m, p), Pages(p) \cup tables[p])
<1> DEFINE low  == Leaves(p, Unmapped(p))
           high == Leaves(p, DOMAIN page_table[p] \ Unmapped(p))
           m1   == FreeFrames(m, low)
           m2   == FreeFrames(m1, high)
           m3   == FreeFrames(m2, tables[p])
<1>1. process_free_userspace(m, p) = m3
  BY DEF process_free_userspace, free_pagetable
<1>2. Unmapped(p) \subseteq DOMAIN page_table[p]
  BY DEF Unmapped
<1>3. low \cup high = Pages(p)
  BY <1>2 DEF Leaves, Pages, Range
<1>4. low \cap high = {}
  BY <1>2 DEF Leaves, SpaceOK, IsInjective
<1>5. Pages(p) \cap tables[p] = {}
  BY DEF SpaceOK
<1> HIDE DEF low, high
<1>6. Gave(m, m1, low)
  BY <1>3, FreeFramesGave
<1> HIDE DEF m1
<1>7. MemOK(m1) /\ high \subseteq Taken(m1) /\ tables[p] \subseteq Taken(m1)
  BY <1>3, <1>4, <1>5, <1>6 DEF Gave
<1>8. Gave(m1, m2, high)
  BY <1>7, FreeFramesGave
<1> HIDE DEF m2
<1>9. MemOK(m2) /\ tables[p] \subseteq Taken(m2)
  BY <1>3, <1>5, <1>7, <1>8 DEF Gave
<1>10. Gave(m2, m3, tables[p])
  BY <1>9, FreeFramesGave
<1> HIDE DEF m3
<1>11. Gave(m, m2, low \cup high)
  BY <1>6, <1>8, GaveTwice
<1>12. Gave(m, m3, (low \cup high) \cup tables[p])
  BY <1>10, <1>11, GaveTwice
<1> QED
  BY <1>1, <1>3, <1>12

-----------------------------------------------------------------------------
(* A step that changes the memory of one process                            *)

Mine(p)   == IF p \in InUse THEN Uses(p) ELSE {}
Others(p) == UNION {Uses(q) : q \in InUse \ {p}}

\* The frames handed out, seen from one process: those of the others, its own, and
\* the forgotten ones.
LEMMA Border ==
    ASSUME MInv, NEW p \in Procs
    PROVE  /\ Taken(mem) = Others(p) \cup Mine(p) \cup Lost
           /\ Others(p) \cap Mine(p) = {} /\ Others(p) \cap Lost = {} /\ Mine(p) \cap Lost = {}
           /\ Taken(mem) \subseteq Frame
<1>1. Divided /\ Typed
  BY DEF MInv
<1>2. AllUsed = Others(p) \cup Mine(p)
  <2>1. InUse \subseteq Procs
    BY DEF InUse
  <2> QED
    BY <2>1 DEF AllUsed, Others, Mine
<1>3. Others(p) \cap Mine(p) = {}
  BY <1>1 DEF Divided, Others, Mine
<1>4. Taken(mem) \subseteq Frame
  <2>1. mem.next \in Nat /\ mem.next <= NFRAMES + 1 /\ NFRAMES \in Nat
    BY <1>1, ProcMemAssumption DEF Typed, MemOK
  <2> QED
    BY <2>1 DEF Taken, Frame
<1> QED
  BY <1>1, <1>2, <1>3, <1>4 DEF Divided

\* The other processes keep their memory and their owners.
Elsewhere(q) ==
    /\ \A p \in Procs \ {q} :
          /\ page_table'[p] = page_table[p] /\ tables'[p] = tables[p]
          /\ image'[p] = image[p] /\ tf_page'[p] = tf_page[p]
          /\ life'[p] # "UNUSED" <=> life[p] # "UNUSED"
    /\ \A f \in Others(q) : Mark(mem', f) = Mark(mem, f)

\* What the invariant says of a process holds as long as nothing of it changes.
LEMMA OthersSame ==
    ASSUME NEW q \in Procs, Elsewhere(q)
    PROVE  /\ \A p \in Procs \ {q} :
                /\ p \in InUse' <=> p \in InUse
                /\ Uses(p)' = Uses(p)
                /\ SpaceOK(p) => SpaceOK(p)'
                /\ p \in InUse /\ Owned(p) => Owned(p)'
           /\ Others(q)' = Others(q)
<1>1. ASSUME NEW p \in Procs \ {q}
      PROVE  /\ p \in InUse' <=> p \in InUse
             /\ Uses(p)' = Uses(p)
             /\ Pages(p)' = Pages(p)
  BY DEF Elsewhere, InUse, Uses, Pages
<1>2. ASSUME NEW p \in Procs \ {q}, SpaceOK(p)
      PROVE  SpaceOK(p)'
  BY <1>1, <1>2 DEF Elsewhere, SpaceOK
<1>3. ASSUME NEW p \in Procs \ {q}, p \in InUse, Owned(p)
      PROVE  Owned(p)'
  <2>1. Uses(p) \subseteq Others(q)
    BY <1>3 DEF Others
  <2>2. \A f \in Pages(p) \cup tables[p] \cup tf_page[p] \cup image[p] :
            Mark(mem', f) = Mark(mem, f)
    BY <2>1 DEF Uses, Pages, Elsewhere
  <2>3. tables'[p] = tables[p] /\ image'[p] = image[p] /\ tf_page'[p] = tf_page[p]
    BY DEF Elsewhere
  <2> QED
    BY <1>1, <1>3, <2>2, <2>3 DEF Owned
<1>4. Others(q)' = Others(q)
  <2>1. InUse \subseteq Procs /\ InUse' \subseteq Procs
    BY DEF InUse
  <2>2. InUse' \ {q} = InUse \ {q}
    BY <1>1, <2>1
  <2>3. \A p \in InUse \ {q} : Uses(p)' = Uses(p)
    BY <1>1, <2>1
  <2> QED
    BY <2>2, <2>3 DEF Others
<1> QED
  BY <1>1, <1>2, <1>3, <1>4

\* What a step that changes process q alone must show.
LEMMA OneChanges ==
    ASSUME MInv, NEW q \in Procs, Elsewhere(q), Typed', Family',
           q \in InUse' => SpaceOK(q)' /\ Owned(q)',
           Taken(mem') = Others(q) \cup Mine(q)' \cup Lost',
           Others(q) \cap Mine(q)' = {}, Others(q) \cap Lost' = {}, Mine(q)' \cap Lost' = {},
           \A l \in lost' : Accounted(l)'
    PROVE  MInv'
<1>0. InUse \subseteq Procs /\ InUse' \subseteq Procs
  BY DEF InUse
<1>1. \A p \in InUse' : SpaceOK(p)' /\ Owned(p)'
  <2> SUFFICES ASSUME NEW p \in InUse', p # q
               PROVE  SpaceOK(p)' /\ Owned(p)'
    OBVIOUS
  <2>1. p \in Procs \ {q} /\ p \in InUse
    BY <1>0, OthersSame
  <2>2. SpaceOK(p) /\ Owned(p)
    BY <2>1 DEF MInv
  <2> QED
    BY <2>1, <2>2, OthersSame
<1>2. Others(q)' = Others(q)
  BY OthersSame
<1>3. AllUsed' = Others(q) \cup Mine(q)'
  <2>1. AllUsed' = Others(q)' \cup Mine(q)'
    BY DEF AllUsed, Others, Mine
  <2> QED
    BY <1>2, <2>1
<1>4. ASSUME NEW a \in InUse', NEW b \in InUse', a # b
      PROVE  Uses(a)' \cap Uses(b)' = {}
  <2>1. CASE a # q /\ b # q
    <3>1. /\ a \in InUse /\ b \in InUse
          /\ Uses(a)' = Uses(a) /\ Uses(b)' = Uses(b)
      BY <1>0, <2>1, OthersSame
    <3> QED
      BY <1>4, <3>1 DEF MInv, Divided
  <2>2. CASE a = q
    <3>1. Uses(b)' \subseteq Others(q)' /\ Uses(a)' = Mine(q)'
      BY <1>4, <2>2 DEF Others, Mine
    <3> QED
      BY <1>2, <3>1
  <2>3. CASE b = q
    <3>1. Uses(a)' \subseteq Others(q)' /\ Uses(b)' = Mine(q)'
      BY <1>4, <2>3 DEF Others, Mine
    <3> QED
      BY <1>2, <3>1
  <2> QED
    BY <2>1, <2>2, <2>3
<1>5. Divided'
  BY <1>3, <1>4 DEF Divided
<1> QED
  BY <1>1, <1>5 DEF MInv

\* What holds of a forgotten frame holds as long as its owner stays and the process
\* that forgot it is there.
LEMMA StillAccounted ==
    ASSUME NEW l, Accounted(l), Mark(mem', l.frame) = Mark(mem, l.frame),
           l.by \in InUse' \cup {NoProc}
    PROVE  Accounted(l)'
  BY DEF Accounted

\* The types of the parts of a state.
LEMMA TypedParts ==
    ASSUME MInv
    PROVE  /\ MemOK(mem) /\ mem.next \in Nat
           /\ life \in [Procs -> {"UNUSED", "ALIVE", "ZOMBIE"}]
           /\ parent \in [Procs -> Procs \cup {NoProc}]
           /\ heap_end \in [Procs -> Ends]
           /\ DOMAIN page_table = Procs /\ DOMAIN tables = Procs
           /\ DOMAIN image = Procs /\ DOMAIN tf_page = Procs
           /\ lost \subseteq [frame : Nat, kind : {"tf", "image", "heap", "stack"},
                              by : Procs \cup {NoProc}]
<1>1. Typed
  BY DEF MInv
<1>2. mem.next \in Nat
  BY <1>1 DEF Typed, MemOK
<1>3. DOMAIN page_table = Procs
  <2>1. page_table = [p \in Procs |-> page_table[p]]
    BY <1>1 DEF Typed
  <2> QED
    BY <2>1
<1>4. DOMAIN tables = Procs
  <2>1. tables = [p \in Procs |-> tables[p]]
    BY <1>1 DEF Typed
  <2> QED
    BY <2>1
<1>5. DOMAIN image = Procs
  <2>1. image = [p \in Procs |-> image[p]]
    BY <1>1 DEF Typed
  <2> QED
    BY <2>1
<1>6. DOMAIN tf_page = Procs
  <2>1. tf_page = [p \in Procs |-> tf_page[p]]
    BY <1>1 DEF Typed
  <2> QED
    BY <2>1
<1> QED
  BY <1>1, <1>2, <1>3, <1>4, <1>5, <1>6 DEF Typed

\* A pid is a number; those of different processes differ.
LEMMA Pids ==
    /\ \A p \in Procs : Pid(p) \in Nat /\ Pid(p) # Untracked /\ Pid(p) # Hidden
    /\ \A p, q \in Procs : Pid(p) = Pid(q) => p = q
    /\ idle_proc \in Procs /\ shell \in Procs /\ Procs \subseteq Nat
<1>1. PROCS_MAX \in Nat /\ PROCS_MAX > 2
  BY ProcMemAssumption
<1>2. Procs \subseteq Nat
  BY <1>1 DEF Procs
<1> QED
  BY <1>1, <1>2 DEF Procs, idle_proc, shell, Pid, Untracked, Hidden

\* Steps that allocate nothing and free nothing: sbrk with a negative increment,
\* exit, and the panic.
LEMMA QuietStep ==
    ASSUME MInv,
           UNCHANGED <<mem, parent, page_table, tables, image, tf_page, lost>>,
           InUse' = InUse,
           life' \in [Procs -> {"UNUSED", "ALIVE", "ZOMBIE"}],
           heap_end' \in [Procs -> Ends]
    PROVE  MInv'
<1>1. Typed'
  BY DEF MInv, Typed
<1>2. Family'
  BY DEF MInv, Family
<1>3. \A p : Uses(p)' = Uses(p) /\ Pages(p)' = Pages(p)
  BY DEF Uses, Pages
<1>4. \A p \in InUse : SpaceOK(p)' /\ Owned(p)'
  BY <1>3 DEF MInv, SpaceOK, Owned
<1>5. Divided'
  <2>1. AllUsed' = AllUsed /\ Lost' = Lost
    BY <1>3 DEF AllUsed, Lost
  <2> QED
    BY <1>3, <2>1 DEF MInv, Divided
<1>6. \A l \in lost' : Accounted(l)'
  BY DEF MInv, Accounted
<1> QED
  BY <1>1, <1>2, <1>4, <1>5, <1>6 DEF MInv

-----------------------------------------------------------------------------
(* The steps                                                                *)

\* fork: the child gets frames that nobody had, tracked under the shell.
LEMMA ForkStep ==
    ASSUME Forkers \subseteq {shell}, MInv, NEW p \in Procs, sys_fork(p)
    PROVE  MInv'
<1>c. PICK c : c = Min(FreeSlots)
  OBVIOUS
<1> DEFINE pid == Pid(p)
           tf  == Singles(mem, 1)
           m1  == AllocSingles(mem, 1, pid)
           new == NewSpace(m1, Copied(p), 0, pid)
           got == tf \cup (new.tables \cup Range(new.map))
<1>1. /\ Calls(p) /\ p \in Forkers /\ FreeSlots # {}
      /\ Fits(new.mem) /\ mem' = new.mem
      /\ life' = [life EXCEPT ![c] = "ALIVE"]
      /\ parent' = [parent EXCEPT ![c] = p]
      /\ heap_end' = [heap_end EXCEPT ![c] = heap_end[p]]
      /\ page_table' = [page_table EXCEPT ![c] = new.map]
      /\ tables' = [tables EXCEPT ![c] = new.tables]
      /\ image' = [image EXCEPT ![c] = {}]
      /\ tf_page' = [tf_page EXCEPT ![c] = tf]
      /\ UNCHANGED <<panicked, lost>>
  BY <1>c DEF sys_fork, Fork, ChildImage
<1>2. c \in Procs /\ c \notin InUse /\ c # p /\ p \in InUse /\ p = shell
  <2>1. FreeSlots \in SUBSET Nat
    BY Pids DEF FreeSlots
  <2>2. c \in FreeSlots
    BY <1>c, <1>1, <2>1, MinIsElement
  <2> QED
    BY <1>1, <2>2 DEF FreeSlots, InUse, Calls
<1>3. pid \in Nat /\ SpaceOK(p)
  BY <1>2, Pids DEF MInv
<1>t. /\ MemOK(mem) /\ mem.next \in Nat
      /\ life \in [Procs -> {"UNUSED", "ALIVE", "ZOMBIE"}]
      /\ parent \in [Procs -> Procs \cup {NoProc}]
      /\ heap_end \in [Procs -> Ends]
      /\ DOMAIN page_table = Procs /\ DOMAIN tables = Procs
      /\ DOMAIN image = Procs /\ DOMAIN tf_page = Procs
  BY TypedParts
<1> HIDE DEF pid
<1>4. Got(mem, m1, tf, {pid, Hidden}) /\ IsFiniteSet(tf)
  BY <1>3, <1>t, AllocSinglesGot
<1>5. MemOK(m1) /\ m1.next \in Nat
  BY <1>4 DEF Got, MemOK
<1> HIDE DEF m1, tf
<1>6. Copied(p) \in SUBSET Nat /\ IsFiniteSet(Copied(p))
  <2>1. Copied(p) \subseteq DOMAIN page_table[p]
    BY DEF Copied, Mapped
  <2> QED
    BY <1>3, <2>1, FS_Subset DEF SpaceOK
<1>7. /\ Got(m1, new.mem, new.tables \cup Range(new.map) \cup new.under, {pid, Hidden})
      /\ new.under = {}
      /\ new.tables \cap Range(new.map) = {}
      /\ DOMAIN new.map = Copied(p) /\ IsInjective(new.map)
      /\ IsFiniteSet(new.tables)
      /\ Cardinality(new.tables) = TablesFor(Copied(p))
  <2>1. Overlaps(Copied(p), 0) /\ 0 \in Nat
    BY DEF Overlaps
  <2>2. IsSpace(new, m1, Copied(p), 0, pid)
    BY <1>3, <1>5, <1>6, <2>1, NewSpaceGot
  <2> HIDE DEF new
  <2> QED
    BY <2>2 DEF IsSpace
<1>8. MemOK(new.mem) /\ new.mem.next \in Nat
  BY <1>7 DEF Got, MemOK
<1> HIDE DEF new
<1>9. Got(mem, new.mem, got, {pid, Hidden}) /\ tf \cap (new.tables \cup Range(new.map)) = {}
  <2> DEFINE own == {pid, Hidden}
             S   == new.tables \cup Range(new.map)
             m2  == new.mem
  <2>1. Got(mem, m1, tf, own) /\ Got(m1, m2, S, own) /\ m2.next \in Nat
    <3>1. S = new.tables \cup Range(new.map) \cup new.under
      BY <1>7
    <3> HIDE DEF S
    <3> QED
      BY <1>4, <1>7, <1>8, <3>1
  <2> HIDE DEF own, S, m2, got
  <2>2. Got(mem, m2, tf \cup S, own) /\ tf \cap S = {}
    BY <1>t, <1>5, <2>1, GotTwice
  <2> QED
    BY <2>2 DEF own, S, m2, got

<1>10. /\ Taken(mem) = Others(c) \cup Lost /\ Others(c) \cap Lost = {}
       /\ Taken(mem) \subseteq Frame
  BY <1>2, Border DEF Mine
<1>11. got \subseteq Frame
  <2>1. new.mem.next <= NFRAMES + 1 /\ NFRAMES \in Nat
    BY <1>1, ProcMemAssumption DEF Fits
  <2>2. got \subseteq Taken(new.mem)
    BY <1>9 DEF Got
  <2> QED
    BY <1>8, <2>1, <2>2 DEF Taken, Frame
<1>12. /\ page_table'[c] = new.map /\ tables'[c] = new.tables
       /\ image'[c] = {} /\ tf_page'[c] = tf
       /\ life'[c] = "ALIVE" /\ parent'[c] = p
  BY <1>1, <1>2, <1>t
<1>13. Elsewhere(c)
  <2>1. \A f \in Others(c) : Mark(mem', f) = Mark(mem, f)
    BY <1>1, <1>9, <1>10 DEF Got
  <2> QED
    BY <1>1, <1>t, <2>1 DEF Elsewhere
<1>14. Typed'
  <2>1. MemOK(mem') /\ mem'.next <= NFRAMES + 1
    BY <1>1, <1>8 DEF Fits
  <2>2. /\ life' \in [Procs -> {"UNUSED", "ALIVE", "ZOMBIE"}]
        /\ parent' \in [Procs -> Procs \cup {NoProc}]
        /\ heap_end' \in [Procs -> Ends]
    BY <1>1, <1>2, <1>t
  <2>3. /\ page_table' = [x \in Procs |-> page_table'[x]]
        /\ tables' = [x \in Procs |-> tables'[x]]
        /\ image' = [x \in Procs |-> image'[x]]
        /\ tf_page' = [x \in Procs |-> tf_page'[x]]
    BY <1>1, <1>t
  <2> QED
    BY <1>1, <2>1, <2>2, <2>3 DEF MInv, Typed
<1>15. InUse' = InUse \cup {c}
  BY <1>1, <1>2, <1>t DEF InUse
<1>16. Family'
  <2>1. Family
    BY DEF MInv
  <2>2. \A x \in Procs : x # c => parent'[x] = parent[x]
    BY <1>1, <1>t
  <2> QED
    BY <1>2, <1>12, <1>15, <2>1, <2>2, Pids DEF Family, InUse
<1>17. Uses(c)' = got /\ Mine(c)' = got /\ Pages(c)' = Range(new.map)
  BY <1>12, <1>15 DEF Uses, Mine, Pages
<1>18. SpaceOK(c)'
  <2>1. IsFiniteSet({})
    BY FS_EmptySet
  <2> QED
    BY <1>4, <1>6, <1>7, <1>9, <1>12, <1>17, <2>1 DEF SpaceOK
<1>19. Owned(c)'
  <2>1. \A f \in got : Mark(mem', f) \in {Pid(shell), Hidden}
    BY <1>1, <1>2, <1>9, <1>11 DEF Got, pid
  <2> QED
    BY <1>12, <1>17, <2>1 DEF Owned, Owners
<1>20. lost' = lost /\ Lost' = Lost
  BY <1>1 DEF Lost
<1>21. \A l \in lost' : Accounted(l)'
  <2> SUFFICES ASSUME NEW l \in lost PROVE Accounted(l)'
    BY <1>20
  <2>1. Accounted(l) /\ l.by \in InUse' \cup {NoProc}
    BY <1>15 DEF MInv, Accounted
  <2>2. l.frame \in Frame /\ l.frame \notin got
    BY <1>9, <1>10 DEF Lost, Got
  <2>3. Mark(mem', l.frame) = Mark(mem, l.frame)
    BY <1>1, <1>9, <2>2 DEF Got
  <2> QED
    BY <2>1, <2>3, StillAccounted
<1>22. /\ Taken(mem') = Others(c) \cup Mine(c)' \cup Lost'
       /\ Others(c) \cap Mine(c)' = {} /\ Others(c) \cap Lost' = {} /\ Mine(c)' \cap Lost' = {}
  BY <1>1, <1>9, <1>10, <1>17, <1>20 DEF Got
<1> QED
  BY <1>2, <1>13, <1>14, <1>16, <1>18, <1>19, <1>21, <1>22, OneChanges

\* What exec does to the frames handed out: those of the old address space come back,
\* those of the image and of the new address space are added, the rest stays.
LEMMA ExecFrames ==
    ASSUME NEW m, NEW ma, NEW mb, NEW mc, NEW md, NEW me,
           NEW argv, NEW old, NEW img, NEW space, NEW O, NEW P,
           Got(m, ma, argv, O), old \subseteq Taken(m), Gave(ma, mb, old),
           Got(mb, mc, img, P), Got(mc, md, space, O), Gave(md, me, argv)
    PROVE  /\ Taken(me) = (Taken(m) \ old) \cup img \cup space
           /\ (Taken(m) \ old) \cap (img \cup space) = {} /\ img \cap space = {}
           /\ \A f \in Frame :
                 /\ f \in Taken(m) \ old => Mark(me, f) = Mark(m, f)
                 /\ f \in img => Mark(me, f) \in P
                 /\ f \in space => Mark(me, f) \in O
<1>1. argv \cap Taken(m) = {} /\ Taken(ma) = Taken(m) \cup argv
  BY DEF Got
<1>2. Taken(mb) = (Taken(m) \ old) \cup argv
  BY <1>1 DEF Gave
<1>3. Taken(mc) = (Taken(m) \ old) \cup argv \cup img
      /\ img \cap ((Taken(m) \ old) \cup argv) = {}
  BY <1>2 DEF Got
<1>4. Taken(md) = (Taken(m) \ old) \cup argv \cup img \cup space
      /\ space \cap ((Taken(m) \ old) \cup argv \cup img) = {}
  BY <1>3 DEF Got
<1>5. Taken(me) = (Taken(m) \ old) \cup img \cup space
  BY <1>1, <1>3, <1>4 DEF Gave
<1>6. ASSUME NEW f \in Frame, f \in Taken(m) \ old
      PROVE  Mark(me, f) = Mark(m, f)
  <2>1. f \notin argv /\ f \notin old /\ f \notin img /\ f \notin space
    BY <1>1, <1>3, <1>4, <1>6
  <2> QED
    BY <2>1 DEF Got, Gave
<1>7. ASSUME NEW f \in Frame, f \in img
      PROVE  Mark(me, f) \in P
  <2>1. f \notin argv /\ f \notin space
    BY <1>3, <1>4, <1>7
  <2> QED
    BY <1>7, <2>1 DEF Got, Gave
<1>8. ASSUME NEW f \in Frame, f \in space
      PROVE  Mark(me, f) \in O
  <2>1. f \notin argv
    BY <1>4, <1>8
  <2> QED
    BY <1>8, <2>1 DEF Got, Gave
<1> QED
  BY <1>3, <1>4, <1>5, <1>6, <1>7, <1>8

\* Frames that are still handed out are added to the forgotten ones.
LEMMA ForgetAdds ==
    ASSUME NEW m, NEW S, NEW kind, NEW p, S \subseteq Taken(m), Lost \subseteq Taken(m)
    PROVE  Forget(m, S, kind, p)
              = lost \cup {[frame |-> f, kind |-> kind, by |-> p] : f \in S}
<1>1. \A l \in lost : l.frame \notin m.free
  BY DEF Lost, Taken
<1>2. S \ m.free = S
  BY DEF Taken
<1> QED
  BY <1>1, <1>2 DEF Forget, Forgotten

\* exec: the frames of the old address space come back, the new one is made of frames
\* nobody had; the page of the trap frame, the old image and the frames under the new
\* stack are forgotten.
LEMMA ExecStep ==
    ASSUME MInv, NEW p \in Procs, sys_exec(p)
    PROVE  MInv'
<1> DEFINE pid  == Pid(p)
           argv == Singles(mem, 1)
           ma   == AllocSingles(mem, 1, pid)
           old  == Pages(p) \cup tables[p]
           mb   == process_free_userspace(ma, p)
           img  == Block(mb, ImagePages)
           mc   == AllocBlock(mb, ImagePages, pid)
           new  == NewSpace(mc, Fresh, StackPages, pid)
           S    == new.tables \cup Range(new.map)
           U    == new.under
           me   == FreeFrames(new.mem, argv)
<1>1. /\ Calls(p)
      /\ Fits(me) /\ mem' = me
      /\ page_table' = [page_table EXCEPT ![p] = new.map]
      /\ tables' = [tables EXCEPT ![p] = new.tables]
      /\ image' = [image EXCEPT ![p] = img]
      /\ lost' = Forget(me, tf_page[p], "tf", p) \cup Forget(me, image[p], "image", p)
                   \cup Forget(me, U, "stack", p)
      /\ heap_end' = [heap_end EXCEPT ![p] = 1]
      /\ tf_page' = [tf_page EXCEPT ![p] = {}]
      /\ UNCHANGED <<life, parent, panicked>>
  BY DEF sys_exec, Exec, exec_process, flat_image
<1>2. p \in InUse /\ SpaceOK(p) /\ Owned(p) /\ pid \in Nat
  BY <1>1, Pids DEF MInv, Calls, InUse
<1>t. /\ MemOK(mem) /\ mem.next \in Nat
      /\ heap_end \in [Procs -> Ends]
      /\ DOMAIN page_table = Procs /\ DOMAIN tables = Procs
      /\ DOMAIN image = Procs /\ DOMAIN tf_page = Procs
      /\ lost \subseteq [frame : Nat, kind : {"tf", "image", "heap", "stack"},
                         by : Procs \cup {NoProc}]
  BY TypedParts
<1>3. /\ Taken(mem) = Others(p) \cup Uses(p) \cup Lost
      /\ Others(p) \cap Uses(p) = {} /\ Others(p) \cap Lost = {} /\ Uses(p) \cap Lost = {}
      /\ Taken(mem) \subseteq Frame
  <2>1. Mine(p) = Uses(p)
    BY <1>2 DEF Mine
  <2> QED
    BY <2>1, Border
<1>4. /\ Uses(p) = old \cup tf_page[p] \cup image[p]
      /\ old \cap tf_page[p] = {} /\ old \cap image[p] = {} /\ tf_page[p] \cap image[p] = {}
  BY <1>2 DEF Uses, Pages, SpaceOK
<1> HIDE DEF pid
<1>5. Got(mem, ma, argv, {pid, Hidden})
  BY <1>2, <1>t, AllocSinglesGot
<1>6. MemOK(ma) /\ old \subseteq Taken(ma) /\ old \subseteq Taken(mem)
  BY <1>3, <1>4, <1>5 DEF Got
<1> HIDE DEF argv, ma
<1>7. Gave(ma, mb, old)
  BY <1>2, <1>6, FreeUserspaceGave
<1>8. MemOK(mb)
  BY <1>7 DEF Gave
<1> HIDE DEF mb, old
<1>9. Got(mb, mc, img, {pid, Untracked, Hidden}) /\ IsFiniteSet(img)
  BY <1>2, <1>8, AllocBlockGot, Layout
<1>10. MemOK(mc)
  BY <1>9 DEF Got
<1>11. Fresh \in SUBSET Nat /\ IsFiniteSet(Fresh)
  BY Layout
<1> HIDE DEF mc, img
<1>12. /\ Got(mc, new.mem, S \cup U, {pid, Hidden}) /\ U \cap S = {}
       /\ new.tables \cap Range(new.map) = {}
       /\ DOMAIN new.map = Fresh /\ IsInjective(new.map)
       /\ IsFiniteSet(new.tables)
       /\ Cardinality(new.tables) = TablesFor(Fresh)
  <2>1. StackPages \in Nat /\ Overlaps(Fresh, StackPages)
    BY Layout DEF Overlaps
  <2>2. IsSpace(new, mc, Fresh, StackPages, pid)
    BY <1>2, <1>10, <1>11, <2>1, NewSpaceGot
  <2> HIDE DEF new
  <2> QED
    BY <2>2 DEF IsSpace
<1> HIDE DEF new
<1>13. MemOK(new.mem) /\ argv \subseteq Taken(new.mem)
  <2>1. argv \subseteq Taken(ma) /\ argv \cap Taken(mem) = {}
    BY <1>5 DEF Got
  <2>2. argv \subseteq Taken(mb)
    BY <1>6, <1>7, <2>1 DEF Gave
  <2>3. argv \subseteq Taken(mc)
    BY <1>9, <2>2 DEF Got
  <2> QED
    BY <1>12, <2>3 DEF Got
<1>14. Gave(new.mem, me, argv)
  BY <1>13, FreeFramesGave
<1> HIDE DEF me, S, U
<1>15. /\ Taken(me) = (Taken(mem) \ old) \cup img \cup (S \cup U)
       /\ (Taken(mem) \ old) \cap (img \cup (S \cup U)) = {} /\ img \cap (S \cup U) = {}
       /\ \A f \in Frame :
             /\ f \in Taken(mem) \ old => Mark(me, f) = Mark(mem, f)
             /\ f \in img => Mark(me, f) \in {pid, Untracked, Hidden}
             /\ f \in S \cup U => Mark(me, f) \in {pid, Hidden}
  <2> DEFINE md == new.mem
             O  == {pid, Hidden}
             P  == {pid, Untracked, Hidden}
             R  == S \cup U
  <2>1. /\ Got(mem, ma, argv, O) /\ old \subseteq Taken(mem) /\ Gave(ma, mb, old)
        /\ Got(mb, mc, img, P) /\ Got(mc, md, R, O) /\ Gave(md, me, argv)
    BY <1>5, <1>6, <1>7, <1>9, <1>12, <1>14
  <2> HIDE DEF md, O, P, R
  <2>2. /\ Taken(me) = (Taken(mem) \ old) \cup img \cup R
        /\ (Taken(mem) \ old) \cap (img \cup R) = {} /\ img \cap R = {}
        /\ \A f \in Frame :
              /\ f \in Taken(mem) \ old => Mark(me, f) = Mark(mem, f)
              /\ f \in img => Mark(me, f) \in P
              /\ f \in R => Mark(me, f) \in O
    BY <2>1, ExecFrames
  <2> QED
    BY <2>2 DEF O, P, R
<1>16. MemOK(me) /\ me.next \in Nat
  BY <1>14 DEF Gave, MemOK
<1>17. Taken(me) \subseteq Frame
  <2>1. me.next <= NFRAMES + 1 /\ NFRAMES \in Nat
    BY <1>1, ProcMemAssumption DEF Fits
  <2> QED
    BY <1>16, <2>1 DEF Taken, Frame
<1>18. /\ page_table'[p] = new.map /\ tables'[p] = new.tables
       /\ image'[p] = img /\ tf_page'[p] = {}
  BY <1>1, <1>t
<1>19. Elsewhere(p)
  <2>1. \A f \in Others(p) : Mark(mem', f) = Mark(mem, f)
    BY <1>1, <1>3, <1>4, <1>15
  <2> QED
    BY <1>1, <1>t, <2>1 DEF Elsewhere
<1>20. lost' = lost \cup {[frame |-> f, kind |-> "tf", by |-> p] : f \in tf_page[p]}
                    \cup {[frame |-> f, kind |-> "image", by |-> p] : f \in image[p]}
                    \cup {[frame |-> f, kind |-> "stack", by |-> p] : f \in U}
  <2>1. /\ tf_page[p] \subseteq Taken(me) /\ image[p] \subseteq Taken(me)
        /\ U \subseteq Taken(me) /\ Lost \subseteq Taken(me)
    BY <1>3, <1>4, <1>15
  <2> DEFINE T == tf_page[p]
             I == image[p]
  <2>2. Forget(me, T, "tf", p)
           = lost \cup {[frame |-> f, kind |-> "tf", by |-> p] : f \in T}
    BY <2>1, ForgetAdds
  <2>3. Forget(me, I, "image", p)
           = lost \cup {[frame |-> f, kind |-> "image", by |-> p] : f \in I}
    BY <2>1, ForgetAdds
  <2>4. Forget(me, U, "stack", p)
           = lost \cup {[frame |-> f, kind |-> "stack", by |-> p] : f \in U}
    BY <2>1, ForgetAdds
  <2> QED
    BY <1>1, <2>2, <2>3, <2>4
<1>21. Lost' = Lost \cup tf_page[p] \cup image[p] \cup U
  <2>1. ASSUME NEW f
        PROVE  f \in Lost' <=> f \in Lost \/ f \in tf_page[p] \/ f \in image[p] \/ f \in U
    <3>1. f \in Lost' <=> \E l \in lost' : l.frame = f
      BY DEF Lost
    <3>2. f \in Lost <=> \E l \in lost : l.frame = f
      BY DEF Lost
    <3>3. ASSUME f \in tf_page[p] PROVE \E l \in lost' : l.frame = f
      <4>1. [frame |-> f, kind |-> "tf", by |-> p] \in lost'
        BY <1>20, <3>3
      <4> QED
        BY <4>1
    <3>4. ASSUME f \in image[p] PROVE \E l \in lost' : l.frame = f
      <4>1. [frame |-> f, kind |-> "image", by |-> p] \in lost'
        BY <1>20, <3>4
      <4> QED
        BY <4>1
    <3>5. ASSUME f \in U PROVE \E l \in lost' : l.frame = f
      <4>1. [frame |-> f, kind |-> "stack", by |-> p] \in lost'
        BY <1>20, <3>5
      <4> QED
        BY <4>1
    <3> QED
      BY <1>20, <3>1, <3>2, <3>3, <3>4, <3>5
  <2> QED
    BY <2>1
<1>22. Typed'
  <2>1. MemOK(mem') /\ mem'.next <= NFRAMES + 1
    BY <1>1, <1>16 DEF Fits
  <2>2. heap_end' \in [Procs -> Ends]
    BY <1>1, <1>t, Layout
  <2>3. /\ page_table' = [x \in Procs |-> page_table'[x]]
        /\ tables' = [x \in Procs |-> tables'[x]]
        /\ image' = [x \in Procs |-> image'[x]]
        /\ tf_page' = [x \in Procs |-> tf_page'[x]]
    BY <1>1, <1>t
  <2>4. lost' \subseteq [frame : Nat, kind : {"tf", "image", "heap", "stack"}, by : Procs \cup {NoProc}]
    <3>1. \A f \in tf_page[p] \cup image[p] \cup U : f \in Nat
      BY <1>3, <1>4, <1>15, <1>17 DEF Frame
    <3> QED
      BY <1>20, <1>t, <3>1
  <2> QED
    BY <1>1, <2>1, <2>2, <2>3, <2>4 DEF MInv, Typed
<1>23. InUse' = InUse /\ Family'
  BY <1>1 DEF InUse, MInv, Family
<1>24. Uses(p)' = S \cup img /\ Mine(p)' = S \cup img /\ Pages(p)' = Range(new.map)
  BY <1>2, <1>18, <1>23 DEF Uses, Mine, Pages, S
<1>25. SpaceOK(p)'
  <2>1. IsFiniteSet({})
    BY FS_EmptySet
  <2> QED
    BY <1>9, <1>11, <1>12, <1>15, <1>18, <1>24, <2>1 DEF SpaceOK, S
<1>26. Owned(p)'
  <2>1. \A f \in S : Mark(mem', f) \in {Pid(p), Hidden}
    BY <1>1, <1>15, <1>17 DEF pid
  <2>2. \A f \in img : Mark(mem', f) \in {Pid(p), Untracked, Hidden}
    BY <1>1, <1>15, <1>17 DEF pid
  <2> QED
    BY <1>18, <1>24, <2>1, <2>2 DEF Owned, Owners, S
<1>27. \A l \in lost' : Accounted(l)'
  <2>1. ASSUME NEW l \in lost
        PROVE  Accounted(l)'
    <3>1. Accounted(l) /\ l.by \in InUse' \cup {NoProc}
      BY <1>23 DEF MInv, Accounted
    <3>2. Mark(mem', l.frame) = Mark(mem, l.frame)
      BY <1>1, <1>3, <1>4, <1>15 DEF Lost
    <3> QED
      BY <3>1, <3>2, StillAccounted
  <2>2. ASSUME NEW f \in tf_page[p] \cup image[p]
        PROVE  Mark(mem', f) = Mark(mem, f)
    BY <1>1, <1>3, <1>4, <1>15
  <2>3. p # NoProc
    BY Pids DEF NoProc
  <2>4. ASSUME NEW f \in tf_page[p], NEW l, l = [frame |-> f, kind |-> "tf", by |-> p]
        PROVE  Accounted(l)'
    <3>1. Mark(mem', f) \in {Pid(p), Pid(shell), Pid(idle_proc), Hidden}
      BY <1>2, <2>2 DEF Owned, Owners
    <3> QED
      BY <1>2, <1>23, <2>3, <2>4, <3>1 DEF Accounted
  <2>5. ASSUME NEW f \in image[p], NEW l, l = [frame |-> f, kind |-> "image", by |-> p]
        PROVE  Accounted(l)'
    <3>1. Mark(mem', f) \in {Pid(p), Pid(shell), Pid(idle_proc), Untracked, Hidden}
      BY <1>2, <2>2 DEF Owned, Owners
    <3> QED
      BY <1>2, <1>23, <2>3, <2>5, <3>1 DEF Accounted
  <2>6. ASSUME NEW f \in U, NEW l, l = [frame |-> f, kind |-> "stack", by |-> p]
        PROVE  Accounted(l)'
    <3>1. Mark(mem', f) \in {Pid(p), Hidden}
      BY <1>1, <1>15, <1>17 DEF pid
    <3> QED
      BY <1>2, <1>23, <2>3, <2>6, <3>1 DEF Accounted
  <2> QED
    BY <1>20, <2>1, <2>4, <2>5, <2>6
<1>28. /\ Taken(mem') = Others(p) \cup Mine(p)' \cup Lost'
       /\ Others(p) \cap Mine(p)' = {} /\ Others(p) \cap Lost' = {} /\ Mine(p)' \cap Lost' = {}
  BY <1>1, <1>3, <1>4, <1>12, <1>15, <1>21, <1>24
<1> QED
  BY <1>19, <1>22, <1>23, <1>25, <1>26, <1>27, <1>28, OneChanges

\* sbrk with a positive increment: a new page, over the old entry when the heap grew
\* and shrank before; the frame of the old entry is forgotten.
LEMMA GrowStep ==
    ASSUME MInv, NEW p \in Procs, sbrk_grow(p)
    PROVE  MInv'
<1>v. PICK v : v = NextPage(p)
  OBVIOUS
<1> DEFINE pid == Pid(p)
           D   == DOMAIN page_table[p]
           m1  == AllocSingles(mem, 1, pid)
           nt  == Tables(p, v)
           T   == Singles(m1, nt)
           m2  == AllocSingles(m1, nt, pid)
           old == {page_table[p][w] : w \in D \cap {v}}
           leaf == CHOOSE f \in Singles(mem, 1) : TRUE
           map == [w \in D \cup {v} |-> IF w = v THEN leaf ELSE page_table[p][w]]
<1>t. /\ MemOK(mem) /\ mem.next \in Nat
      /\ heap_end \in [Procs -> Ends]
      /\ DOMAIN page_table = Procs /\ DOMAIN tables = Procs
      /\ DOMAIN image = Procs /\ DOMAIN tf_page = Procs
      /\ lost \subseteq [frame : Nat, kind : {"tf", "image", "heap", "stack"},
                         by : Procs \cup {NoProc}]
  BY TypedParts
<1>1. /\ Calls(p)
      /\ Fits(m2) /\ mem' = m2
      /\ page_table' = [page_table EXCEPT ![p] = map]
      /\ tables' = [tables EXCEPT ![p] = tables[p] \cup T]
      /\ lost' = Forget(m2, old, "heap", p)
      /\ heap_end' = [heap_end EXCEPT ![p] = heap_end[p] + 1]
      /\ UNCHANGED <<life, parent, image, tf_page, panicked>>
  BY <1>v, <1>t DEF sbrk_grow, Grow, Mapped
<1>2. p \in InUse /\ SpaceOK(p) /\ Owned(p) /\ pid \in Nat
  BY <1>1, Pids DEF MInv, Calls, InUse
<1>3. /\ Taken(mem) = Others(p) \cup Uses(p) \cup Lost
      /\ Others(p) \cap Uses(p) = {} /\ Others(p) \cap Lost = {} /\ Uses(p) \cap Lost = {}
      /\ Taken(mem) \subseteq Frame
  <2>1. Mine(p) = Uses(p)
    BY <1>2 DEF Mine
  <2> QED
    BY <2>1, Border
<1>4. v \in Nat /\ D \in SUBSET Nat /\ IsFiniteSet(D) /\ IsFiniteSet(D \cup {v})
  <2>1. heap_end[p] \in Ends
    BY <1>t
  <2>2. v \in Nat
    BY <1>v, <2>1, Layout DEF NextPage
  <2>3. D \in SUBSET Nat /\ IsFiniteSet(D)
    BY <1>2 DEF SpaceOK
  <2> HIDE DEF D
  <2>4. IsFiniteSet({v}) /\ IsFiniteSet(D \cup {v})
    BY <2>3, FS_Singleton, FS_Union
  <2> QED
    BY <2>2, <2>3, <2>4
<1>5. /\ nt \in Nat /\ Cardinality(tables[p]) \in Nat
      /\ nt = TablesFor(D \cup {v}) - Cardinality(tables[p])
      /\ TablesFor(D \cup {v}) \in Nat
  <2>1. Cardinality(tables[p]) = TablesFor(D)
    BY <1>2 DEF SpaceOK
  <2>2. nt = TablesFor(D \cup {v}) - Cardinality(tables[p])
    BY DEF Tables, Mapped
  <2> HIDE DEF D, nt
  <2>3. D \subseteq D \cup {v}
    OBVIOUS
  <2>4. /\ TablesFor(D) \in Nat /\ TablesFor(D \cup {v}) \in Nat
        /\ TablesFor(D) <= TablesFor(D \cup {v})
    BY <1>4, <2>3, TablesForGrows
  <2> QED
    BY <2>1, <2>2, <2>4
<1> HIDE DEF pid, nt
<1>6. PICK x : Singles(mem, 1) = {x}
  <2>1. IsFiniteSet(Singles(mem, 1)) /\ Cardinality(Singles(mem, 1)) = 1
    BY <1>2, <1>t, AllocSinglesGot
  <2> QED
    BY <2>1, FS_Singleton
<1>7. leaf = x
  BY <1>6
<1>8. Got(mem, m1, {x}, {pid, Hidden})
  <2>1. Got(mem, m1, Singles(mem, 1), {pid, Hidden})
    BY <1>2, <1>t, AllocSinglesGot
  <2> QED
    BY <1>6, <2>1
<1>9. MemOK(m1) /\ m1.next \in Nat
  BY <1>8 DEF Got, MemOK
<1> HIDE DEF m1, leaf
<1>10. Got(m1, m2, T, {pid, Hidden}) /\ IsFiniteSet(T) /\ Cardinality(T) = nt
  BY <1>2, <1>5, <1>9, AllocSinglesGot
<1>11. MemOK(m2) /\ m2.next \in Nat
  BY <1>10 DEF Got, MemOK
<1> HIDE DEF m2, T
<1>12. Got(mem, m2, {x} \cup T, {pid, Hidden}) /\ x \notin T
  <2> DEFINE own == {pid, Hidden}
             X   == {x}
  <2>1. Got(mem, m1, X, own) /\ Got(m1, m2, T, own)
    BY <1>8, <1>10
  <2> HIDE DEF own, X
  <2>2. Got(mem, m2, X \cup T, own) /\ X \cap T = {}
    BY <1>t, <1>9, <1>11, <2>1, GotTwice
  <2> QED
    BY <2>2 DEF own, X
<1>13. Taken(m2) = Taken(mem) \cup {x} \cup T /\ Taken(mem) \cap ({x} \cup T) = {}
  BY <1>12 DEF Got
<1>14. Taken(m2) \subseteq Frame
  <2>1. m2.next <= NFRAMES + 1 /\ NFRAMES \in Nat
    BY <1>1, ProcMemAssumption DEF Fits
  <2> QED
    BY <1>11, <2>1 DEF Taken, Frame
<1>15. /\ \A f \in Taken(mem) : Mark(m2, f) = Mark(mem, f)
       /\ \A f \in {x} \cup T : Mark(m2, f) \in {Pid(p), Hidden}
  BY <1>3, <1>12, <1>13, <1>14 DEF Got, pid
<1>16. /\ old \subseteq Pages(p) /\ Pages(p) \subseteq Taken(mem)
       /\ tables[p] \subseteq Taken(mem) /\ image[p] \subseteq Taken(mem)
       /\ tf_page[p] \subseteq Taken(mem)
       /\ Pages(p) \cap (tables[p] \cup image[p] \cup tf_page[p]) = {}
       /\ tables[p] \cap (image[p] \cup tf_page[p]) = {}
       /\ image[p] \cap tf_page[p] = {}
  BY <1>2, <1>3 DEF Uses, Pages, Range, SpaceOK
<1>17. /\ DOMAIN map = D \cup {v} /\ Range(map) = (Pages(p) \ old) \cup {x}
       /\ IsInjective(map)
  <2>1. IsInjective(page_table[p]) /\ x \notin Pages(p)
    BY <1>2, <1>13, <1>16 DEF SpaceOK
  <2>2. /\ DOMAIN map = D \cup {v} /\ map[v] = x
        /\ \A w \in D \ {v} : map[w] = page_table[p][w]
    BY <1>7
  <2>3. \A w \in D : page_table[p][w] \in Pages(p)
    BY DEF Pages, Range
  <2>4. \A a, b \in D : page_table[p][a] = page_table[p][b] => a = b
    BY <2>1 DEF IsInjective
  <2> HIDE DEF map
  <2>5. \A a, b \in D \cup {v} : map[a] = map[b] => a = b
    BY <2>1, <2>2, <2>3, <2>4
  <2>6. IsInjective(map)
    BY <2>2, <2>5 DEF IsInjective
  <2>7. ASSUME NEW f
        PROVE  f \in Range(map) <=> f \in (Pages(p) \ old) \cup {x}
    <3>1. f \in Range(map) <=> \E w \in D \cup {v} : f = map[w]
      BY <2>2 DEF Range
    <3>2. f \in Pages(p) <=> \E w \in D : f = page_table[p][w]
      BY DEF Pages, Range
    <3>3. f \in old <=> v \in D /\ f = page_table[p][v]
      OBVIOUS
    <3> HIDE DEF old, D
    <3> QED
      BY <2>2, <2>4, <3>1, <3>2, <3>3
  <2>8. Range(map) = (Pages(p) \ old) \cup {x}
    <3> HIDE DEF old
    <3> QED
      BY <2>7
  <2> QED
    BY <2>2, <2>6, <2>8
<1> HIDE DEF map, old, D
<1>18. /\ page_table'[p] = map /\ tables'[p] = tables[p] \cup T
       /\ image'[p] = image[p] /\ tf_page'[p] = tf_page[p]
  BY <1>1, <1>t
<1>19. Elsewhere(p)
  <2>1. \A f \in Others(p) : Mark(mem', f) = Mark(mem, f)
    BY <1>1, <1>3, <1>15
  <2> QED
    BY <1>1, <1>t, <2>1 DEF Elsewhere
<1>20. lost' = lost \cup {[frame |-> f, kind |-> "heap", by |-> p] : f \in old}
  <2>1. old \subseteq Taken(m2) /\ Lost \subseteq Taken(m2)
    BY <1>3, <1>13, <1>16
  <2> QED
    BY <1>1, <2>1, ForgetAdds
<1>21. Lost' = Lost \cup old
  <2>1. ASSUME NEW f
        PROVE  f \in Lost' <=> f \in Lost \/ f \in old
    <3>1. f \in Lost' <=> \E l \in lost' : l.frame = f
      BY DEF Lost
    <3>2. f \in Lost <=> \E l \in lost : l.frame = f
      BY DEF Lost
    <3>3. ASSUME f \in old PROVE \E l \in lost' : l.frame = f
      <4>1. [frame |-> f, kind |-> "heap", by |-> p] \in lost'
        BY <1>20, <3>3
      <4> QED
        BY <4>1
    <3> QED
      BY <1>20, <3>1, <3>2, <3>3
  <2> QED
    BY <2>1
<1>22. Typed'
  <2>1. MemOK(mem') /\ mem'.next <= NFRAMES + 1
    BY <1>1, <1>11 DEF Fits
  <2>2. heap_end' \in [Procs -> Ends]
    BY <1>1, <1>t, Layout
  <2>3. /\ page_table' = [y \in Procs |-> page_table'[y]]
        /\ tables' = [y \in Procs |-> tables'[y]]
    BY <1>1, <1>t

  <2>4. lost' \subseteq [frame : Nat, kind : {"tf", "image", "heap", "stack"}, by : Procs \cup {NoProc}]
    <3>1. \A f \in old : f \in Nat
      BY <1>3, <1>16 DEF Frame
    <3> QED
      BY <1>20, <1>t, <3>1
  <2> QED
    BY <1>1, <2>1, <2>2, <2>3, <2>4 DEF MInv, Typed
<1>23. InUse' = InUse /\ Family'
  BY <1>1 DEF InUse, MInv, Family
<1>24. /\ Pages(p)' = (Pages(p) \ old) \cup {x}
       /\ Uses(p)' = (Uses(p) \ old) \cup {x} \cup T
       /\ Mine(p)' = Uses(p)'
  <2>1. Pages(p)' = (Pages(p) \ old) \cup {x} /\ Mine(p)' = Uses(p)'
    BY <1>2, <1>17, <1>18, <1>23 DEF Pages, Mine
  <2>2. Uses(p)' = Pages(p)' \cup tables'[p] \cup image'[p] \cup tf_page'[p]
    BY DEF Uses, Pages
  <2>3. Uses(p) = Pages(p) \cup tables[p] \cup image[p] \cup tf_page[p]
    BY DEF Uses, Pages
  <2> QED
    BY <1>16, <1>18, <2>1, <2>2, <2>3
<1>25. SpaceOK(p)'
  <2>1. IsFiniteSet(tables'[p]) /\ Cardinality(tables'[p]) = TablesFor(D \cup {v})
    <3>1. IsFiniteSet(tables[p]) /\ Cardinality(tables[p] \cap T) = 0
      <4>1. tables[p] \cap T = {}
        BY <1>13, <1>16
      <4> QED
        BY <1>2, <4>1, FS_EmptySet DEF SpaceOK
    <3>2. /\ IsFiniteSet(tables[p] \cup T)
          /\ Cardinality(tables[p] \cup T)
                = Cardinality(tables[p]) + Cardinality(T) - Cardinality(tables[p] \cap T)
      BY <1>10, <3>1, FS_Union
    <3> QED
      BY <1>5, <1>10, <1>18, <3>1, <3>2
  <2>2. /\ Pages(p)' \cap (tables'[p] \cup image'[p] \cup tf_page'[p]) = {}
        /\ tables'[p] \cap (image'[p] \cup tf_page'[p]) = {}
        /\ image'[p] \cap tf_page'[p] = {}
    BY <1>12, <1>13, <1>16, <1>18, <1>24
  <2>3. IsFiniteSet(image'[p]) /\ IsFiniteSet(tf_page'[p])
    BY <1>2, <1>18 DEF SpaceOK
  <2> QED
    BY <1>4, <1>17, <1>18, <2>1, <2>2, <2>3 DEF SpaceOK
<1>26. Owned(p)'
  <2>1. \A f \in Pages(p)' \cup tables'[p] \cup tf_page'[p] : Mark(mem', f) \in Owners(p)
    BY <1>1, <1>2, <1>15, <1>16, <1>18, <1>24 DEF Owned, Owners
  <2>2. \A f \in image'[p] : Mark(mem', f) \in Owners(p) \cup {Untracked}
    BY <1>1, <1>2, <1>15, <1>16, <1>18 DEF Owned
  <2> QED
    BY <2>1, <2>2 DEF Owned, Owners
<1>27. \A l \in lost' : Accounted(l)'
  <2>1. ASSUME NEW l \in lost
        PROVE  Accounted(l)'
    <3>1. Accounted(l) /\ l.by \in InUse' \cup {NoProc}
      BY <1>23 DEF MInv, Accounted
    <3>2. Mark(mem', l.frame) = Mark(mem, l.frame)
      BY <1>1, <1>3, <1>15 DEF Lost
    <3> QED
      BY <3>1, <3>2, StillAccounted
  <2>2. p # NoProc
    BY Pids DEF NoProc
  <2>3. ASSUME NEW f \in old, NEW l, l = [frame |-> f, kind |-> "heap", by |-> p]
        PROVE  Accounted(l)'
    <3>1. Mark(mem', f) \in {Pid(p), Pid(shell), Pid(idle_proc), Hidden}
      BY <1>1, <1>2, <1>15, <1>16 DEF Owned, Owners
    <3> QED
      BY <1>2, <1>23, <2>2, <2>3, <3>1 DEF Accounted
  <2> QED
    BY <1>20, <2>1, <2>3
<1>28. /\ Taken(mem') = Others(p) \cup Mine(p)' \cup Lost'
       /\ Others(p) \cap Mine(p)' = {} /\ Others(p) \cap Lost' = {} /\ Mine(p)' \cap Lost' = {}
  <2>1. old \subseteq Uses(p)
    BY <1>16 DEF Uses, Pages
  <2> QED
    BY <1>1, <1>3, <1>13, <1>21, <1>24, <2>1
<1> QED
  BY <1>19, <1>22, <1>23, <1>25, <1>26, <1>27, <1>28, OneChanges

\* free_proc(): image and address space come back, then the sweep frees what is still
\* tracked under the dead process and nothing that another one uses.
LEMMA FreeProcStep ==
    ASSUME MInv, NEW p \in Procs, free_proc(p)
    PROVE  MInv'
<1>c. PICK c : c = Min({x \in Procs : life[x] = "ZOMBIE" /\ parent[x] = p})
  OBVIOUS
<1> DEFINE old == Pages(c) \cup tables[c]
           tf  == tf_page[c]
           ma  == FreeFrames(mem, image[c])
           mb  == process_free_userspace(ma, c)
           S   == {f \in Frame : mb.owner[f] = Pid(c)}
           mc  == FreeFrames(mb, S)
           F   == Forget(mc, tf, "tf", c)
<1>t. /\ MemOK(mem) /\ mem.next \in Nat
      /\ life \in [Procs -> {"UNUSED", "ALIVE", "ZOMBIE"}]
      /\ parent \in [Procs -> Procs \cup {NoProc}]
      /\ heap_end \in [Procs -> Ends]
      /\ DOMAIN page_table = Procs /\ DOMAIN tables = Procs
      /\ DOMAIN image = Procs /\ DOMAIN tf_page = Procs
      /\ lost \subseteq [frame : Nat, kind : {"tf", "image", "heap", "stack"},
                         by : Procs \cup {NoProc}]
  BY TypedParts
<1>1. /\ Calls(p) /\ {x \in Procs : life[x] = "ZOMBIE" /\ parent[x] = p} # {}
      /\ mem' = mc
      /\ life' = [life EXCEPT ![c] = "UNUSED"]
      /\ parent' = [parent EXCEPT ![c] = NoProc]
      /\ heap_end' = [heap_end EXCEPT ![c] = 0]
      /\ page_table' = [page_table EXCEPT ![c] = <<>>]
      /\ tables' = [tables EXCEPT ![c] = {}]
      /\ image' = [image EXCEPT ![c] = {}]
      /\ tf_page' = [tf_page EXCEPT ![c] = {}]
      /\ lost' = {[l EXCEPT !.by = IF l.by = c THEN NoProc ELSE l.by] : l \in F}
  BY <1>c DEF free_proc, FreeProc, Sweep
<1>2. c \in Procs /\ c \in InUse /\ parent[c] = p
  <2> DEFINE dead == {x \in Procs : life[x] = "ZOMBIE" /\ parent[x] = p}
  <2>1. dead \in SUBSET Nat /\ dead # {} /\ c = Min(dead)
    BY <1>1, <1>c, Pids
  <2> HIDE DEF dead
  <2>2. c \in dead
    BY <2>1, MinIsElement
  <2> QED
    BY <2>2 DEF dead, InUse
<1>3. c # idle_proc /\ c # shell /\ c # NoProc
  <2>1. p # idle_proc /\ p # NoProc
    BY <1>1, Pids DEF Calls, NoProc
  <2> QED
    BY <1>2, <2>1, Pids DEF MInv, Family, NoProc
<1>4. SpaceOK(c) /\ Owned(c)
  BY <1>2 DEF MInv
<1>5. /\ Taken(mem) = Others(c) \cup Uses(c) \cup Lost
      /\ Others(c) \cap Uses(c) = {} /\ Others(c) \cap Lost = {} /\ Uses(c) \cap Lost = {}
      /\ Taken(mem) \subseteq Frame
  <2>1. Mine(c) = Uses(c)
    BY <1>2 DEF Mine
  <2> QED
    BY <1>2, <2>1, Border
<1>6. /\ Uses(c) = old \cup tf \cup image[c]
      /\ old \cap tf = {} /\ old \cap image[c] = {} /\ tf \cap image[c] = {}
  BY <1>4 DEF Uses, Pages, SpaceOK
<1>7. Gave(mem, ma, image[c])
  BY <1>5, <1>6, <1>t, FreeFramesGave
<1> HIDE DEF ma
<1>8. MemOK(ma) /\ old \subseteq Taken(ma)
  BY <1>5, <1>6, <1>7 DEF Gave
<1>9. Gave(ma, mb, old)
  BY <1>4, <1>8, FreeUserspaceGave
<1> HIDE DEF mb, old
<1>10. MemOK(mb) /\ Taken(mb) = Others(c) \cup tf \cup Lost
  BY <1>5, <1>6, <1>7, <1>9 DEF Gave
<1>11. \A f \in Taken(mb) : f \in Frame /\ Mark(mb, f) = Mark(mem, f)
  <2>1. \A f \in Taken(mb) : f \in Frame /\ f \notin image[c] /\ f \notin old
    BY <1>5, <1>6, <1>10
  <2> QED
    BY <1>7, <1>9, <2>1 DEF Gave
<1>12. S \subseteq Taken(mb)
  BY <1>2, <1>10, Pids DEF MemOK
<1>m. \A f : Mark(mb, f) = Pid(c) <=> mb.owner[f] = Pid(c)
  BY <1>2, Pids DEF Mark
<1>13. S = {f \in Taken(mb) : Mark(mem, f) = Pid(c)}
  BY <1>m, <1>11, <1>12
<1> HIDE DEF S
<1>14. Gave(mb, mc, S)
  BY <1>10, <1>12, FreeFramesGave
<1> HIDE DEF mc
<1>15. S \cap Others(c) = {}
  <2> SUFFICES ASSUME NEW q \in InUse \ {c}, NEW f \in Uses(q), f \in S
               PROVE  FALSE
    BY DEF Others
  <2>1. q \in Procs /\ Owned(q)
    BY DEF MInv, InUse
  <2>2. Mark(mem, f) \in {Pid(q), Pid(shell), Pid(idle_proc), Untracked, Hidden}
    BY <2>1 DEF Owned, Owners, Uses, Pages
  <2>3. Mark(mem, f) = Pid(c)
    BY <1>13
  <2> QED
    BY <1>2, <1>3, <2>1, <2>2, <2>3, Pids
<1>16. /\ MemOK(mc) /\ mc.next = mem.next
       /\ Taken(mc) = (Others(c) \cup tf \cup Lost) \ S
       /\ \A f \in Taken(mc) : Mark(mc, f) = Mark(mem, f)
  <2>1. MemOK(mc) /\ mc.next = mem.next /\ Taken(mc) = Taken(mb) \ S
    BY <1>7, <1>9, <1>14 DEF Gave
  <2> QED
    BY <1>10, <1>11, <1>14, <2>1 DEF Gave
<1>17. \A f \in tf \cup Lost : f \in mc.free <=> f \in S
  <2>1. \A f \in tf \cup Lost : f \in 1 .. (mc.next - 1)
    BY <1>5, <1>6, <1>16 DEF Taken
  <2>2. \A f \in tf \cup Lost : f \in Taken(mc) <=> f \notin S
    BY <1>16
  <2> QED
    BY <2>1, <2>2 DEF Taken
\* The forgotten frames that are not swept: old ones, and the page of the trap frame.
<1>18. F = {l \in lost : l.frame \notin S}
              \cup {[frame |-> f, kind |-> "tf", by |-> c] : f \in tf \ S}
  <2>1. \A l \in lost : l.frame \in mc.free <=> l.frame \in S
    BY <1>17 DEF Lost
  <2>2. tf \ mc.free = tf \ S
    BY <1>17
  <2> QED
    BY <2>1, <2>2 DEF Forget, Forgotten
<1> HIDE DEF F
<1>19. F \subseteq [frame : Nat, kind : {"tf", "image", "heap", "stack"}, by : Procs \cup {NoProc}]
  <2>1. \A f \in tf : f \in Nat
    BY <1>5, <1>6 DEF Frame
  <2> QED
    BY <1>2, <1>18, <1>t, <2>1
<1>20. {r.frame : r \in F} = (tf \cup Lost) \ S
  <2>1. ASSUME NEW f \in tf \ S
        PROVE  \E r \in F : r.frame = f
    <3>1. [frame |-> f, kind |-> "tf", by |-> c] \in F
      BY <1>18
    <3> QED
      BY <3>1
  <2>2. ASSUME NEW f \in Lost \ S
        PROVE  \E r \in F : r.frame = f
    BY <1>18 DEF Lost
  <2>3. ASSUME NEW r \in F
        PROVE  r.frame \in (tf \cup Lost) \ S
    <3>1. CASE r \in lost /\ r.frame \notin S
      BY <3>1 DEF Lost
    <3>2. CASE \E f \in tf \ S : r = [frame |-> f, kind |-> "tf", by |-> c]
      BY <3>2
    <3> QED
      BY <1>18, <3>1, <3>2
  <2> QED
    BY <2>1, <2>2, <2>3
<1>21. \A k \in lost' : \E r \in F :
           /\ k.frame = r.frame /\ k.kind = r.kind
           /\ k.by = IF r.by = c THEN NoProc ELSE r.by
           /\ k \in [frame : Nat, kind : {"tf", "image", "heap", "stack"}, by : Procs \cup {NoProc}]
  <2> SUFFICES ASSUME NEW r \in F,
                      NEW k, k = [r EXCEPT !.by = IF r.by = c THEN NoProc ELSE r.by]
               PROVE  /\ k.frame = r.frame /\ k.kind = r.kind
                      /\ k.by = IF r.by = c THEN NoProc ELSE r.by
                      /\ k \in [frame : Nat, kind : {"tf", "image", "heap", "stack"},
                                by : Procs \cup {NoProc}]
    BY <1>1
  <2>1. r \in [frame : Nat, kind : {"tf", "image", "heap", "stack"}, by : Procs \cup {NoProc}]
    BY <1>19
  <2> QED
    BY <2>1
<1>22. Lost' = (tf \cup Lost) \ S
  <2>1. ASSUME NEW r \in F
        PROVE  \E k \in lost' : k.frame = r.frame
    <3> DEFINE k == [r EXCEPT !.by = IF r.by = c THEN NoProc ELSE r.by]
    <3>1. k \in lost'
      BY <1>1
    <3>2. r \in [frame : Nat, kind : {"tf", "image", "heap", "stack"}, by : Procs \cup {NoProc}]
      BY <1>19
    <3>3. k.frame = r.frame
      BY <3>2
    <3> QED
      BY <3>1, <3>3
  <2>2. ASSUME NEW k \in lost'
        PROVE  \E r \in F : k.frame = r.frame
    BY <1>21
  <2>3. Lost' = {r.frame : r \in F}
    BY <2>1, <2>2 DEF Lost
  <2> QED
    BY <1>20, <2>3
<1>23. Elsewhere(c)
  <2>1. \A f \in Others(c) : Mark(mem', f) = Mark(mem, f)
    BY <1>1, <1>15, <1>16
  <2> QED
    BY <1>1, <1>t, <2>1 DEF Elsewhere
<1>24. Typed'
  <2>1. MemOK(mem') /\ mem'.next <= NFRAMES + 1
    BY <1>1, <1>16 DEF MInv, Typed
  <2>2. /\ life' \in [Procs -> {"UNUSED", "ALIVE", "ZOMBIE"}]
        /\ parent' \in [Procs -> Procs \cup {NoProc}]
        /\ heap_end' \in [Procs -> Ends]
    BY <1>1, <1>2, <1>t, Layout
  <2>3. /\ page_table' = [x \in Procs |-> page_table'[x]]
        /\ tables' = [x \in Procs |-> tables'[x]]
        /\ image' = [x \in Procs |-> image'[x]]
        /\ tf_page' = [x \in Procs |-> tf_page'[x]]
    BY <1>1, <1>t
  <2>4. lost' \subseteq [frame : Nat, kind : {"tf", "image", "heap", "stack"}, by : Procs \cup {NoProc}]
    BY <1>21
  <2> QED
    BY <2>1, <2>2, <2>3, <2>4 DEF Typed
<1>25. InUse' = InUse \ {c}
  BY <1>1, <1>2, <1>t DEF InUse
<1>26. Family'
  <2>1. Family
    BY DEF MInv
  <2>2. \A x \in Procs : x # c => parent'[x] = parent[x]
    BY <1>1, <1>t
  <2> QED
    BY <1>3, <1>25, <2>1, <2>2 DEF Family, InUse
<1>27. c \notin InUse' /\ Mine(c)' = {}
  BY <1>25 DEF Mine
<1>28. \A l \in lost' : Accounted(l)'
  <2> SUFFICES ASSUME NEW k \in lost' PROVE Accounted(k)'
    OBVIOUS
  <2>1. PICK r \in F : /\ k.frame = r.frame /\ k.kind = r.kind
                       /\ k.by = IF r.by = c THEN NoProc ELSE r.by
    BY <1>21
  <2>2. r.frame \in (tf \cup Lost) \ S
    BY <1>20
  <2>3. Mark(mem', k.frame) = Mark(mem, r.frame) /\ Mark(mem, r.frame) # Pid(c)
    BY <1>1, <1>10, <1>13, <1>16, <2>1, <2>2
  <2>4. CASE r \in lost
    <3>1. Accounted(r)
      BY <2>4 DEF MInv
    <3>2. k.by \in InUse' \cup {NoProc}
      BY <1>25, <2>1, <3>1 DEF Accounted
    <3> QED
      BY <2>1, <2>3, <3>1, <3>2 DEF Accounted
  <2>5. CASE \E f \in tf \ S : r = [frame |-> f, kind |-> "tf", by |-> c]
    <3>1. r.frame \in tf /\ k.by = NoProc
      BY <2>1, <2>5
    <3>2. Mark(mem, r.frame) \in {Pid(shell), Pid(idle_proc), Hidden}
      BY <1>4, <2>3, <3>1 DEF Owned, Owners
    <3> QED
      BY <2>3, <3>1, <3>2 DEF Accounted
  <2> QED
    BY <1>18, <2>4, <2>5
<1>29. /\ Taken(mem') = Others(c) \cup Mine(c)' \cup Lost'
       /\ Others(c) \cap Mine(c)' = {} /\ Others(c) \cap Lost' = {} /\ Mine(c)' \cap Lost' = {}
  BY <1>1, <1>5, <1>6, <1>15, <1>16, <1>22, <1>27
<1> QED
  BY <1>2, <1>23, <1>24, <1>26, <1>27, <1>28, <1>29, OneChanges

\* kernel_main() gives idle and shell their programs and address spaces.
LEMMA InitHolds ==
    ASSUME Init
    PROVE  MInv
<1> DEFINE pid  == 0
           ma   == flat_image(NoMem, pid)
           imgi == Block(NoMem, ImagePages)
           i    == NewSpace(ma, Fresh, StackPages, pid)
           mi   == i.mem
           Si   == i.tables \cup Range(i.map)
           Ui   == i.under
           mb   == flat_image(mi, pid)
           imgs == Block(mi, ImagePages)
           s    == NewSpace(mb, Fresh, StackPages, pid)
           ms   == s.mem
           Ss   == s.tables \cup Range(s.map)
           Us   == s.under
<1>1. /\ Fits(ms) /\ mem = ms
      /\ life = [p \in Procs |-> CASE p = idle_proc -> "ALIVE" [] p = shell -> "ALIVE"
                                   [] OTHER -> "UNUSED"]
      /\ parent = [p \in Procs |-> CASE p = idle_proc -> NoProc [] p = shell -> idle_proc
                                     [] OTHER -> NoProc]
      /\ heap_end = [p \in Procs |-> CASE p = idle_proc -> 1 [] p = shell -> 1 [] OTHER -> 0]
      /\ page_table = [p \in Procs |-> CASE p = idle_proc -> i.map [] p = shell -> s.map
                                         [] OTHER -> <<>>]
      /\ tables = [p \in Procs |-> CASE p = idle_proc -> i.tables [] p = shell -> s.tables
                                     [] OTHER -> {}]
      /\ image = [p \in Procs |-> CASE p = idle_proc -> imgi [] p = shell -> imgs
                                    [] OTHER -> {}]
      /\ tf_page = [p \in Procs |-> CASE p = idle_proc -> {} [] p = shell -> {}
                                      [] OTHER -> {}]
      /\ lost = {[frame |-> f, kind |-> "stack", by |-> idle_proc] : f \in Ui}
                  \cup {[frame |-> f, kind |-> "stack", by |-> shell] : f \in Us}
  BY DEF Init, create_init_process, Forgotten
<1>2. idle_proc \in Procs /\ shell \in Procs /\ idle_proc # shell
  BY Pids DEF idle_proc, shell
<1>3. Fresh \in SUBSET Nat /\ IsFiniteSet(Fresh)
  BY Layout
<1>o. StackPages \in Nat /\ Overlaps(Fresh, StackPages)
  BY Layout DEF Overlaps
<1>4. MemOK(NoMem) /\ Taken(NoMem) = {} /\ ImagePages \in Nat \ {0}
  <2>1. [f \in Frame |-> Untracked] \in [Frame -> Nat \cup {Untracked}]
    OBVIOUS
  <2>2. /\ NoMem \in [free : SUBSET Nat, next : Nat \ {0}, twice : SUBSET Nat,
                      unseen : SUBSET Nat, owner : [Frame -> Nat \cup {Untracked}]]
        /\ NoMem.free = {} /\ NoMem.next = 1 /\ NoMem.twice = {}
        /\ \A f \in Frame : NoMem.owner[f] = Untracked
    BY <2>1 DEF NoMem
  <2> QED
    BY <2>2, Layout DEF MemOK, Taken
<1>p. pid \in Nat
  OBVIOUS
<1> HIDE DEF pid
<1>5. Got(NoMem, ma, imgi, {pid, Untracked, Hidden}) /\ IsFiniteSet(imgi)
  BY <1>4, <1>p, AllocBlockGot DEF flat_image
<1>6. MemOK(ma)
  BY <1>5 DEF Got
<1> HIDE DEF ma, imgi
<1>7. /\ Got(ma, mi, Si \cup Ui, {pid, Hidden}) /\ Ui \cap Si = {}
      /\ i.tables \cap Range(i.map) = {}
      /\ DOMAIN i.map = Fresh /\ IsInjective(i.map)
      /\ IsFiniteSet(i.tables) /\ Cardinality(i.tables) = TablesFor(Fresh)
  <2>1. IsSpace(i, ma, Fresh, StackPages, pid)
    BY <1>3, <1>6, <1>o, <1>p, NewSpaceGot
  <2> HIDE DEF i
  <2> QED
    BY <2>1 DEF IsSpace
<1>8. MemOK(mi)
  BY <1>7 DEF Got
<1> HIDE DEF i, mi, Si, Ui
<1>9. Got(mi, mb, imgs, {pid, Untracked, Hidden}) /\ IsFiniteSet(imgs)
  BY <1>4, <1>8, <1>p, AllocBlockGot DEF flat_image
<1>10. MemOK(mb)
  BY <1>9 DEF Got
<1> HIDE DEF mb, imgs
<1>11. /\ Got(mb, ms, Ss \cup Us, {pid, Hidden}) /\ Us \cap Ss = {}
       /\ s.tables \cap Range(s.map) = {}
       /\ DOMAIN s.map = Fresh /\ IsInjective(s.map)
       /\ IsFiniteSet(s.tables) /\ Cardinality(s.tables) = TablesFor(Fresh)
  <2>1. IsSpace(s, mb, Fresh, StackPages, pid)
    BY <1>3, <1>10, <1>o, <1>p, NewSpaceGot
  <2> HIDE DEF s
  <2> QED
    BY <2>1 DEF IsSpace

<1> HIDE DEF s, ms, Ss, Us
<1>12. MemOK(ms) /\ ms.next \in Nat /\ ms.next <= NFRAMES + 1
  BY <1>1, <1>11 DEF Got, MemOK, Fits
<1>13. /\ Taken(ms) = imgi \cup Si \cup Ui \cup imgs \cup Ss \cup Us
       /\ imgi \cap (Si \cup Ui) = {} /\ imgs \cap (Ss \cup Us) = {}
       /\ (imgi \cup Si \cup Ui) \cap (imgs \cup Ss \cup Us) = {}
  <2>1. Taken(ma) = imgi
    BY <1>4, <1>5 DEF Got
  <2>2. Taken(mi) = imgi \cup Si \cup Ui /\ imgi \cap (Si \cup Ui) = {}
    BY <1>7, <2>1 DEF Got
  <2>3. /\ Taken(mb) = imgi \cup Si \cup Ui \cup imgs
        /\ imgs \cap (imgi \cup Si \cup Ui) = {}
    BY <1>9, <2>2 DEF Got
  <2>4. /\ Taken(ms) = imgi \cup Si \cup Ui \cup imgs \cup Ss \cup Us
        /\ (Ss \cup Us) \cap (imgi \cup Si \cup Ui \cup imgs) = {}
    BY <1>11, <2>3 DEF Got
  <2> QED
    BY <2>2, <2>3, <2>4
<1>14. Taken(ms) \subseteq Frame
  <2>1. NFRAMES \in Nat
    BY ProcMemAssumption
  <2> QED
    BY <1>12, <2>1 DEF Taken, Frame
<1>15. /\ \A f \in imgi \cup imgs : Mark(ms, f) \in {pid, Untracked, Hidden}
       /\ \A f \in Si \cup Ui \cup Ss \cup Us : Mark(ms, f) \in {pid, Hidden}
  <2>1. ASSUME NEW f \in imgi
        PROVE  Mark(ms, f) \in {pid, Untracked, Hidden}
    <3>1. f \in Frame /\ f \notin Si \cup Ui /\ f \notin imgs /\ f \notin Ss \cup Us
      BY <1>13, <1>14
    <3> QED
      BY <1>5, <1>7, <1>9, <1>11, <3>1 DEF Got
  <2>2. ASSUME NEW f \in imgs
        PROVE  Mark(ms, f) \in {pid, Untracked, Hidden}
    <3>1. f \in Frame /\ f \notin Ss \cup Us
      BY <1>13, <1>14
    <3> QED
      BY <1>9, <1>11, <3>1 DEF Got
  <2>3. ASSUME NEW f \in Si \cup Ui
        PROVE  Mark(ms, f) \in {pid, Hidden}
    <3>1. f \in Frame /\ f \notin imgs /\ f \notin Ss \cup Us
      BY <1>13, <1>14
    <3> QED
      BY <1>7, <1>9, <1>11, <3>1 DEF Got
  <2>4. ASSUME NEW f \in Ss \cup Us
        PROVE  Mark(ms, f) \in {pid, Hidden}
    <3>1. f \in Frame
      BY <1>13, <1>14
    <3> QED
      BY <1>11, <3>1 DEF Got
  <2> QED
    BY <2>1, <2>2, <2>3, <2>4
<1>16. /\ page_table[idle_proc] = i.map /\ page_table[shell] = s.map
       /\ tables[idle_proc] = i.tables /\ tables[shell] = s.tables
       /\ image[idle_proc] = imgi /\ image[shell] = imgs
       /\ tf_page[idle_proc] = {} /\ tf_page[shell] = {}
  BY <1>1, <1>2
<1>17. /\ Pages(idle_proc) = Range(i.map) /\ Pages(shell) = Range(s.map)
       /\ Uses(idle_proc) = Si \cup imgi /\ Uses(shell) = Ss \cup imgs
  BY <1>16 DEF Pages, Uses, Si, Ss
<1>18. InUse = {idle_proc, shell}
  BY <1>1, <1>2 DEF InUse
<1>19. Typed
  <2>1. /\ life \in [Procs -> {"UNUSED", "ALIVE", "ZOMBIE"}]
        /\ heap_end \in [Procs -> Ends]
    BY <1>1, Layout
  <2>2. parent \in [Procs -> Procs \cup {NoProc}]
    BY <1>1, <1>2
  <2>3. /\ page_table = [p \in Procs |-> page_table[p]]
        /\ tables = [p \in Procs |-> tables[p]]
        /\ image = [p \in Procs |-> image[p]]
        /\ tf_page = [p \in Procs |-> tf_page[p]]
    BY <1>1
  <2>4. lost \subseteq [frame : Nat, kind : {"tf", "image", "heap", "stack"},
                        by : Procs \cup {NoProc}]
    <3>1. \A f \in Ui \cup Us : f \in Nat
      BY <1>13, <1>14 DEF Frame
    <3> QED
      BY <1>1, <1>2, <3>1
  <2> QED
    BY <1>1, <1>12, <2>1, <2>2, <2>3, <2>4 DEF Typed
<1>20. Family
  BY <1>1, <1>2, <1>18 DEF Family
<1>21. SpaceOK(idle_proc) /\ SpaceOK(shell)
  <2>1. IsFiniteSet({})
    BY FS_EmptySet
  <2>2. SpaceOK(idle_proc)
    <3>1. Range(i.map) \cap (i.tables \cup imgi) = {} /\ i.tables \cap imgi = {}
      BY <1>7, <1>13 DEF Si
    <3>2. Cardinality(tables[idle_proc]) = TablesFor(DOMAIN page_table[idle_proc])
      BY <1>7, <1>16
    <3> QED
      BY <1>3, <1>5, <1>7, <1>16, <1>17, <2>1, <3>1, <3>2 DEF SpaceOK
  <2>3. SpaceOK(shell)
    <3>1. Range(s.map) \cap (s.tables \cup imgs) = {} /\ s.tables \cap imgs = {}
      BY <1>11, <1>13 DEF Ss
    <3>2. Cardinality(tables[shell]) = TablesFor(DOMAIN page_table[shell])
      BY <1>11, <1>16
    <3> QED
      BY <1>3, <1>9, <1>11, <1>16, <1>17, <2>1, <3>1, <3>2 DEF SpaceOK

  <2> QED
    BY <2>2, <2>3
<1>22. Owned(idle_proc) /\ Owned(shell)
  <2>1. Pid(idle_proc) = pid
    BY DEF Pid, pid
  <2> QED
    BY <1>1, <1>15, <1>16, <1>17, <2>1 DEF Owned, Owners, Si, Ss
<1>24. Lost = Ui \cup Us
  <2>1. ASSUME NEW f \in Ui PROVE f \in Lost
    <3>1. [frame |-> f, kind |-> "stack", by |-> idle_proc] \in lost
      BY <1>1
    <3> QED
      BY <3>1 DEF Lost
  <2>2. ASSUME NEW f \in Us PROVE f \in Lost
    <3>1. [frame |-> f, kind |-> "stack", by |-> shell] \in lost
      BY <1>1
    <3> QED
      BY <3>1 DEF Lost
  <2>3. ASSUME NEW l \in lost PROVE l.frame \in Ui \cup Us
    BY <1>1
  <2> QED
    BY <2>1, <2>2, <2>3 DEF Lost
<1>23. Divided
  <2>1. AllUsed = Uses(idle_proc) \cup Uses(shell)
    BY <1>18 DEF AllUsed
  <2>2. /\ Taken(mem) = AllUsed \cup Lost /\ AllUsed \cap Lost = {}
        /\ Uses(idle_proc) \cap Uses(shell) = {}
    BY <1>1, <1>7, <1>11, <1>13, <1>17, <1>24, <2>1
  <2> QED
    BY <1>18, <2>2 DEF Divided
<1>25. \A l \in lost : Accounted(l)
  <2> SUFFICES ASSUME NEW l \in lost PROVE Accounted(l)
    OBVIOUS
  <2>1. l.frame \in Ui \cup Us /\ l.by \in InUse
    BY <1>1, <1>18
  <2>2. Mark(mem, l.frame) \in {Pid(idle_proc), Hidden}
    BY <1>1, <1>15, <2>1 DEF Pid, pid
  <2> QED
    BY <2>1, <2>2 DEF Accounted
<1> QED
  BY <1>18, <1>19, <1>20, <1>21, <1>22, <1>23, <1>25 DEF MInv

-----------------------------------------------------------------------------
(* The theorems                                                             *)

\* What every step keeps, when only the shell forks.
LEMMA StepHolds ==
    ASSUME Forkers \subseteq {shell}, MInv, [Next]_vars
    PROVE  MInv'
<1>t. /\ life \in [Procs -> {"UNUSED", "ALIVE", "ZOMBIE"}]
      /\ heap_end \in [Procs -> Ends]
  BY TypedParts
<1>1. ASSUME NEW p \in Procs, sys_fork(p) PROVE MInv'
  BY <1>1, ForkStep
<1>2. ASSUME NEW p \in Procs, sys_exec(p) PROVE MInv'
  BY <1>2, ExecStep
<1>3. ASSUME NEW p \in Procs, sbrk_grow(p) PROVE MInv'
  BY <1>3, GrowStep
<1>4. ASSUME NEW p \in Procs, sbrk_shrink(p) PROVE MInv'
  <2>1. /\ UNCHANGED <<mem, life, parent, page_table, tables, image, tf_page, lost>>
        /\ heap_end[p] > -MaxBelow /\ heap_end' = [heap_end EXCEPT ![p] = heap_end[p] - 1]
    BY <1>4 DEF sbrk_shrink
  <2>2. heap_end' \in [Procs -> Ends] /\ InUse' = InUse
    <3>1. heap_end[p] - 1 \in Ends
      <4>1. heap_end[p] \in Ends /\ MaxBelow \in Int
        BY <1>t, ProcMemAssumption, Layout
      <4> QED
        BY <2>1, <4>1 DEF Ends
    <3> QED
      BY <1>t, <2>1, <3>1 DEF InUse
  <2> QED
    BY <1>t, <2>1, <2>2, QuietStep
<1>5. ASSUME NEW p \in Procs, sys_exit(p) PROVE MInv'
  <2>1. /\ UNCHANGED <<mem, parent, heap_end, page_table, tables, image, tf_page, lost>>
        /\ life[p] = "ALIVE" /\ life' = [life EXCEPT ![p] = "ZOMBIE"]
    BY <1>5 DEF sys_exit, Calls
  <2>2. life' \in [Procs -> {"UNUSED", "ALIVE", "ZOMBIE"}] /\ InUse' = InUse
    BY <1>t, <2>1 DEF InUse
  <2> QED
    BY <1>t, <2>1, <2>2, QuietStep
<1>6. ASSUME NEW p \in Procs, free_proc(p) PROVE MInv'
  BY <1>6, FreeProcStep
<1>7. ASSUME NEW p \in Procs, out_of_memory(p) PROVE MInv'
  <2>1. UNCHANGED <<mem, life, parent, heap_end, page_table, tables, image, tf_page, lost>>
    BY <1>7 DEF out_of_memory
  <2>2. InUse' = InUse
    BY <2>1 DEF InUse
  <2> QED
    BY <1>t, <2>1, <2>2, QuietStep
<1>8. CASE UNCHANGED vars
  <2>1. UNCHANGED <<mem, life, parent, heap_end, page_table, tables, image, tf_page, lost>>
    BY <1>8 DEF vars
  <2>2. InUse' = InUse
    BY <2>1 DEF InUse
  <2> QED
    BY <1>t, <2>1, <2>2, QuietStep
<1> QED
  BY <1>1, <1>2, <1>3, <1>4, <1>5, <1>6, <1>7, <1>8 DEF Next

\* The frames a process uses are as many as its pages, tables, image and trap frame.
LEMMA UsesCounted ==
    ASSUME NEW p, SpaceOK(p)
    PROVE  Cardinality(Uses(p)) =
              Cardinality(DOMAIN page_table[p]) + Cardinality(tables[p])
                + Cardinality(image[p]) + Cardinality(tf_page[p])
<1> DEFINE D == DOMAIN page_table[p]
           P == Pages(p)
           T == tables[p]
           I == image[p]
           F == tf_page[p]
           g == [v \in D |-> page_table[p][v]]
<1>1. /\ IsFiniteSet(D) /\ IsFiniteSet(T) /\ IsFiniteSet(I) /\ IsFiniteSet(F)
      /\ P \cap T = {} /\ (P \cup T) \cap I = {} /\ (P \cup T \cup I) \cap F = {}
  BY DEF SpaceOK
<1>2. Uses(p) = P \cup T \cup I \cup F
  BY DEF Uses, Pages
<1>3. g \in Bijection(D, P)
  BY DEF SpaceOK, IsInjective, Pages, Range, Bijection, Injection, Surjection
<1> HIDE DEF D, P, T, I, F, g
<1>4. IsFiniteSet(P) /\ Cardinality(P) = Cardinality(D)
  BY <1>1, <1>3, FS_Bijection DEF ExistsBijection
\* Disjoint finite sets are counted one by one.
<1>5. ASSUME NEW A, NEW B, IsFiniteSet(A), IsFiniteSet(B), A \cap B = {}
      PROVE  /\ IsFiniteSet(A \cup B)
             /\ Cardinality(A \cup B) = Cardinality(A) + Cardinality(B)
  <2>1. Cardinality(A \cap B) = 0
    BY <1>5, FS_EmptySet
  <2>2. /\ IsFiniteSet(A \cup B)
        /\ Cardinality(A \cup B) = Cardinality(A) + Cardinality(B) - Cardinality(A \cap B)
        /\ Cardinality(A) \in Nat /\ Cardinality(B) \in Nat
    BY <1>5, FS_Union, FS_CardinalityType
  <2> QED
    BY <2>1, <2>2
<1>6. IsFiniteSet(P \cup T) /\ Cardinality(P \cup T) = Cardinality(D) + Cardinality(T)
  BY <1>1, <1>4, <1>5
<1>7. /\ IsFiniteSet(P \cup T \cup I)
      /\ Cardinality(P \cup T \cup I) = Cardinality(P \cup T) + Cardinality(I)
  BY <1>1, <1>5, <1>6
<1>8. Cardinality(P \cup T \cup I \cup F) = Cardinality(P \cup T \cup I) + Cardinality(F)
  BY <1>1, <1>5, <1>7
<1> QED
  BY <1>2, <1>6, <1>7, <1>8 DEF D, T, I, F

\* In every reachable state the frames handed out are divided among the processes and
\* the forgotten ones, under the owners the tracker may record, when only the shell
\* forks: the frames of a child of a child are tracked under a process that is reaped
\* before it, and the sweep of free_proc() takes them away.
THEOREM FramesDivided ==
    ASSUME Forkers \subseteq {shell}
    PROVE  Spec => []MInv
<1>1. Init => MInv
  BY InitHolds
<1>2. MInv /\ [Next]_vars => MInv'
  BY StepHolds
<1> QED
  BY <1>1, <1>2, PTL DEF Spec

\* No frame is used by two processes, for two purposes or while it is free, and none
\* is freed twice, whatever the processes allocate and free.
THEOREM FramesNeverShared ==
    ASSUME Forkers \subseteq {shell}
    PROVE  Spec => []NoSharedFrames
<1>1. MInv => NoSharedFrames
  <2> SUFFICES ASSUME MInv PROVE NoSharedFrames
    OBVIOUS
  <2>1. mem.twice = {}
    BY TypedParts DEF MemOK
  <2>2. ASSUME NEW p \in InUse
        PROVE  /\ Uses(p) \cap mem.free = {}
               /\ Cardinality(Uses(p)) =
                     Cardinality(DOMAIN page_table[p]) + Cardinality(tables[p])
                       + Cardinality(image[p]) + Cardinality(tf_page[p])
               /\ \A q \in InUse \ {p} : Uses(p) \cap Uses(q) = {}
    <3>1. SpaceOK(p) /\ Divided
      BY DEF MInv
    <3>2. Uses(p) \subseteq Taken(mem)
      BY <3>1 DEF Divided, AllUsed
    <3>3. Uses(p) \cap mem.free = {}
      BY <3>2 DEF Taken
    <3>4. \A q \in InUse \ {p} : Uses(p) \cap Uses(q) = {}
      BY <3>1 DEF Divided
    <3> QED
      BY <3>1, <3>3, <3>4, UsesCounted
  <2> QED
    BY <2>1, <2>2 DEF NoSharedFrames
<1> QED
  BY <1>1, FramesDivided, PTL

\* Every frame ever handed out is free, used, or one that create_init_process(), exec,
\* sbrk or free_proc() is known to forget: trap frames, images, and what was mapped where
\* the stack or the heap is mapped again.
THEOREM NothingElseLeaks ==
    ASSUME Forkers \subseteq {shell}
    PROVE  Spec => []NothingForgotten
<1>1. MInv => NothingForgotten
  <2> SUFFICES ASSUME MInv PROVE NothingForgotten
    OBVIOUS
  <2>1. mem.free \subseteq 1 .. (mem.next - 1)
    BY TypedParts DEF MemOK
  <2>2. Taken(mem) = AllUsed \cup Lost
    BY DEF MInv, Divided
  <2>3. 1 .. (mem.next - 1) = mem.free \cup AllUsed \cup Lost
    BY <2>1, <2>2 DEF Taken
  <2> QED
    BY <2>3 DEF NothingForgotten, Lost
<1> QED
  BY <1>1, FramesDivided, PTL

\* What a reaped process had forgotten is free again, except frames tracked under a
\* process that is still there, the tail of a replaced image and frames that were handed
\* out while alloc_table was full, however many entries it has.
THEOREM ReapedMemoryReturns ==
    ASSUME Forkers \subseteq {shell}
    PROVE  Spec => []ReapReclaims
<1>1. MInv => ReapReclaims
  <2> SUFFICES ASSUME MInv, NEW l \in lost, l.by = NoProc
               PROVE  \/ \E p \in InUse : mem.owner[l.frame] = Pid(p)
                      \/ mem.owner[l.frame] = Untracked
                            /\ (l.kind = "image" \/ l.frame \in mem.unseen)
    BY DEF ReapReclaims
  <2>1. Accounted(l) /\ idle_proc \in InUse /\ shell \in InUse
    BY DEF MInv, Family
  <2>2. CASE Mark(mem, l.frame) \in {Pid(shell), Pid(idle_proc)}
    BY <2>1, <2>2, Pids DEF Mark
  <2>3. CASE Mark(mem, l.frame) = Hidden
    <3>1. l.frame \in Frame
      BY Border, Pids DEF Lost
    <3>2. mem.owner[l.frame] # Hidden
      BY <3>1, TypedParts DEF MemOK, Hidden, Untracked
    <3> QED
      BY <2>3, <3>2 DEF Mark
  <2>4. CASE l.kind = "image" /\ Mark(mem, l.frame) = Untracked
    BY <2>4 DEF Mark, Untracked, Hidden
  <2> QED
    BY <2>1, <2>2, <2>3, <2>4 DEF Accounted
<1> QED
  BY <1>1, FramesDivided, PTL

-----------------------------------------------------------------------------
(* The life of processes                                                    *)

Life == INSTANCE ProcessLife WITH
    Slot <- Procs, NoSlot <- NoProc, Root <- idle_proc, First <- shell

LifeTyped ==
    /\ life \in [Procs -> {"UNUSED", "ALIVE", "ZOMBIE"}]
    /\ parent \in [Procs -> Procs \cup {NoProc}]

\* The life cycle that module Process implements is the one module ProcMem starts
\* from: with a wait in one step and memory that may run out, processes are made, end
\* and are freed by the same rules.  Any process may fork here.
THEOREM SameLife == Spec => Life!LifeSpec
<1>1. Init => Life!LifeInit /\ LifeTyped
  <2> SUFFICES ASSUME Init PROVE Life!LifeInit /\ LifeTyped
    OBVIOUS
  <2>1. idle_proc \in Procs /\ shell \in Procs /\ idle_proc # shell
    BY ProcMemAssumption DEF idle_proc, shell, Procs
  <2>2. /\ life = [p \in Procs |-> CASE p = idle_proc -> "ALIVE" [] p = shell -> "ALIVE"
                                     [] OTHER -> "UNUSED"]
        /\ parent = [p \in Procs |-> CASE p = idle_proc -> NoProc [] p = shell -> idle_proc
                                       [] OTHER -> NoProc]
    BY DEF Init
  <2>3. \A p \in Procs :
           /\ life[p] = IF p \in {idle_proc, shell} THEN "ALIVE" ELSE "UNUSED"
           /\ parent[p] = IF p = shell THEN idle_proc ELSE NoProc
    BY <2>1, <2>2
  <2> QED
    BY <2>1, <2>2, <2>3 DEF Life!LifeInit, LifeTyped
<1>2. ASSUME LifeTyped, [Next]_vars
      PROVE  LifeTyped' /\ [Life!LifeNext]_<<life, parent>>
  <2> USE DEF LifeTyped
  <2>1. ASSUME NEW p \in Procs, sys_fork(p)
        PROVE  LifeTyped' /\ Life!LifeNext
    <3> DEFINE c == Min(FreeSlots)
    <3>1. c \in Procs /\ life[c] = "UNUSED"
      BY <2>1, MinIsElement, ProcMemAssumption DEF sys_fork, FreeSlots, Procs
    <3>2. /\ life' = [life EXCEPT ![c] = "ALIVE"] /\ parent' = [parent EXCEPT ![c] = p]
          /\ p # idle_proc /\ life[p] = "ALIVE"
      BY <2>1 DEF sys_fork, Calls
    <3> HIDE DEF c
    <3> QED
      BY <1>2, <3>1, <3>2 DEF Life!LifeNext, Life!Fork
  <2>2. ASSUME NEW p \in Procs, sys_exit(p)
        PROVE  LifeTyped' /\ Life!LifeNext
    BY <1>2, <2>2 DEF sys_exit, Calls, Life!LifeNext, Life!Exit
  <2>3. ASSUME NEW p \in Procs, free_proc(p)
        PROVE  LifeTyped' /\ Life!LifeNext
    <3> DEFINE dead == {c \in Procs : life[c] = "ZOMBIE" /\ parent[c] = p}
               c    == Min(dead)
    <3>1. c \in dead
      <4>1. dead # {}
        BY <2>3 DEF free_proc
      <4>2. dead \in SUBSET Nat
        <5>1. Procs \subseteq Nat
          BY ProcMemAssumption DEF Procs
        <5> QED
          BY <5>1
      <4> HIDE DEF dead
      <4> QED
        BY <4>1, <4>2, MinIsElement
    <3>2. /\ life' = [life EXCEPT ![c] = "UNUSED"] /\ parent' = [parent EXCEPT ![c] = NoProc]
          /\ p # idle_proc /\ life[p] = "ALIVE"
      BY <2>3 DEF free_proc, Calls
    <3>3. c \in Procs /\ life[c] = "ZOMBIE" /\ parent[c] = p
      BY <3>1
    <3> HIDE DEF c, dead
    <3> QED
      BY <1>2, <3>2, <3>3 DEF Life!LifeNext, Life!Reap
  <2>4. ASSUME NEW p \in Procs,
               sys_exec(p) \/ sbrk_grow(p) \/ sbrk_shrink(p) \/ out_of_memory(p)
        PROVE  UNCHANGED <<life, parent>>
    BY <2>4 DEF sys_exec, sbrk_grow, sbrk_shrink, out_of_memory
  <2>5. CASE UNCHANGED vars
    BY <1>2, <2>5 DEF vars
  <2> QED
    BY <1>2, <2>1, <2>2, <2>3, <2>4, <2>5 DEF Next
<1> QED
  BY <1>1, <1>2, PTL DEF Spec, Life!LifeSpec
=============================================================================
