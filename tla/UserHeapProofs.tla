--------------------------- MODULE UserHeapProofs ---------------------------
(***************************************************************************)
(* Proofs about the heap of user programs, for any page size, any amount   *)
(* of memory, any requests and any restarts of sbrk: blocks never overlap, *)
(* what the blocks have of mapped pages, and that malloc and free          *)
(* implement HeapStore.                                                    *)
(***************************************************************************)
EXTENDS UserHeap, TLAPS

-----------------------------------------------------------------------------
(* Arithmetic of pages.                                                    *)

\* Quotient and remainder.
LEMMA DivMod ==
    ASSUME NEW a \in Nat, NEW P \in Nat \ {0}
    PROVE  a = P * (a \div P) + (a % P) /\ a % P \in 0 .. P - 1 /\ a \div P \in Nat
  OBVIOUS

\* A product has no remainder.
LEMMA Multiple ==
    ASSUME NEW k \in Nat, NEW P \in Nat \ {0}
    PROVE  (P * k) % P = 0 /\ P * k \in Nat
  OBVIOUS

\* Multiplication is monotonic.
LEMMA Monotonic ==
    ASSUME NEW k \in Int, NEW m \in Int, NEW P \in Nat \ {0}
    PROVE  (P * k < P * m => k < m) /\ (k <= m => P * k <= P * m)
  OBVIOUS

\* The page of an address starts at or below it.
LEMMA PageOf ==
    ASSUME NEW a \in Nat
    PROVE  /\ a - (a % PAGE_SIZE) \in Nat
           /\ (a - (a % PAGE_SIZE)) % PAGE_SIZE = 0
           /\ a - (a % PAGE_SIZE) <= a
  <1>1. PAGE_SIZE \in Nat \ {0}  BY UserHeapAssumption
  <1> DEFINE q == a \div PAGE_SIZE
  <1>2. a = PAGE_SIZE * q + (a % PAGE_SIZE) /\ a % PAGE_SIZE \in 0 .. PAGE_SIZE - 1 /\ q \in Nat
    BY <1>1, DivMod
  <1> HIDE DEF q
  <1>3. PAGE_SIZE * q \in Nat /\ (PAGE_SIZE * q) % PAGE_SIZE = 0
    BY <1>1, <1>2, Multiple
  <1>4. a - (a % PAGE_SIZE) = PAGE_SIZE * q /\ PAGE_SIZE * q <= a
    BY <1>1, <1>2, <1>3
  <1> QED BY <1>3, <1>4

\* A multiple of the page size that is at most an address is at most its page.
LEMMA PageAbove ==
    ASSUME NEW s \in Nat, s % PAGE_SIZE = 0, NEW a \in Nat, s <= a
    PROVE  s <= a - (a % PAGE_SIZE)
  <1>1. PAGE_SIZE \in Nat \ {0}  BY UserHeapAssumption
  <1> DEFINE q == a \div PAGE_SIZE
             p == s \div PAGE_SIZE
             m == a % PAGE_SIZE
  <1>2. a = PAGE_SIZE * q + m /\ m \in 0 .. PAGE_SIZE - 1 /\ q \in Nat
    BY <1>1, DivMod
  <1>3. s = PAGE_SIZE * p /\ p \in Nat
    BY <1>1, DivMod
  <1> HIDE DEF q, p, m
  <1>4. PAGE_SIZE * q \in Nat /\ PAGE_SIZE * p \in Nat /\ PAGE_SIZE * (q + 1) = PAGE_SIZE * q + PAGE_SIZE
    BY <1>1, <1>2, <1>3
  <1>5. PAGE_SIZE * p < PAGE_SIZE * (q + 1)
    BY <1>1, <1>2, <1>3, <1>4
  <1>6. p <= q
    BY <1>1, <1>2, <1>3, <1>5, Monotonic
  <1>7. PAGE_SIZE * p <= PAGE_SIZE * q
    BY <1>1, <1>2, <1>3, <1>6, Monotonic
  <1> QED BY <1>2, <1>3, <1>4, <1>7 DEF m

\* PGROUNDUP() gives the least multiple of the page size that is not below x.
LEMMA RoundUp ==
    ASSUME NEW x \in Nat
    PROVE  /\ PGROUNDUP(x) \in Nat
           /\ \A p \in Nat : p % PAGE_SIZE = 0 /\ p < PGROUNDUP(x) => p < x
  <1>1. PAGE_SIZE \in Nat \ {0}  BY UserHeapAssumption
  <1> DEFINE y == x + PAGE_SIZE - 1
             m == y \div PAGE_SIZE
  <1>2. y \in Nat  BY <1>1
  <1>3. y = PAGE_SIZE * m + (y % PAGE_SIZE) /\ y % PAGE_SIZE \in 0 .. PAGE_SIZE - 1 /\ m \in Nat
    BY <1>1, <1>2, DivMod
  <1>4. PGROUNDUP(x) = m * PAGE_SIZE  BY DEF PGROUNDUP
  <1> HIDE DEF m
  <1>5. PGROUNDUP(x) = PAGE_SIZE * m /\ PAGE_SIZE * m \in Nat
    BY <1>1, <1>3, <1>4
  <1>6. ASSUME NEW p \in Nat, p % PAGE_SIZE = 0, p < PAGE_SIZE * m PROVE p < x
    <2> DEFINE k == p \div PAGE_SIZE
    <2>1. p = PAGE_SIZE * k /\ k \in Nat  BY <1>1, <1>6, DivMod
    <2> HIDE DEF k
    <2>2. k < m  BY <1>1, <1>3, <1>6, <2>1, Monotonic
    <2>3. PAGE_SIZE * k <= PAGE_SIZE * (m - 1)  BY <1>1, <1>3, <2>1, <2>2, Monotonic
    <2>4. PAGE_SIZE * (m - 1) = PAGE_SIZE * m - PAGE_SIZE  BY <1>1, <1>3
    <2>5. PAGE_SIZE * m <= x + PAGE_SIZE - 1  BY <1>1, <1>3, <1>5
    <2> QED BY <1>1, <1>5, <2>1, <2>3, <2>4, <2>5
  <1> QED BY <1>5, <1>6

-----------------------------------------------------------------------------
(* The invariant.                                                          *)

\* Payloads are aligned and have the size asked for, the library's break too is
\* aligned and at or above the start of the heap.
Usable ==
    /\ lib_end % 8 = 0 /\ heap_start <= lib_end
    /\ \A b \in Blocks : b.addr % 8 = 0 /\ b.len <= b.size

\* Where the breaks are, the pages mapped below the kernel's and the blocks below
\* the library's.
Extent ==
    /\ kern_end + missing = lib_end + PAGE_SIZE
    /\ \A a \in heap_start .. kern_end - 1 : a - (a % PAGE_SIZE) \in mapped
    /\ \A b \in Blocks : heap_start <= b.addr /\ End(b) <= lib_end

\* The inductive invariant.
IInv == TypeOK /\ BlocksApart /\ Extent /\ NothingLost /\ Usable

\* The size of a header.
LEMMA Header == BLOCK_SIZE \in Nat /\ BLOCK_SIZE > 0
  BY UserHeapAssumption

\* Sums of multiples of eight are multiples of eight.
LEMMA Mod8 ==
    ASSUME NEW x \in Nat, NEW y \in Nat, x % 8 = 0, y % 8 = 0
    PROVE  (x + y) % 8 = 0
  OBVIOUS

\* The size of a header is a multiple of eight.
LEMMA Header8 == BLOCK_SIZE % 8 = 0
  BY UserHeapAssumption

\* malloc() rounds up to a multiple of eight.
LEMMA Align8 ==
    ASSUME NEW r \in Requests
    PROVE  /\ r \in Nat /\ ALIGN8(r) \in Nat /\ ALIGN8(r) >= r /\ ALIGN8(r) % 8 = 0
  <1>1. r \in Nat  BY UserHeapAssumption
  <1> QED BY <1>1 DEF ALIGN8

\* The fields of a block.
LEMMA BlockFacts ==
    ASSUME NEW b \in Block
    PROVE  /\ b.addr \in Nat /\ b.size \in Nat /\ b.len \in Nat
           /\ End(b) = b.addr + BLOCK_SIZE + b.size
           /\ End(b) \in Nat /\ b.addr < End(b)
  <1>1. b.addr \in Nat /\ b.size \in Nat /\ b.len \in Nat  BY DEF Block
  <1> QED BY <1>1, Header DEF End

\* The blocks are what the list and the program have.
LEMMA BlocksTyped ==
    ASSUME TypeOK
    PROVE  /\ Blocks \subseteq Block
           /\ \A i \in DOMAIN free_list : free_list[i] \in Block /\ free_list[i] \in Blocks
           /\ used \subseteq Blocks
           /\ Len(free_list) \in Nat /\ DOMAIN free_list = 1 .. Len(free_list)
  <1>1. free_list \in Seq(Block) /\ used \subseteq Block  BY DEF TypeOK
  <1> QED BY <1>1 DEF Blocks

\* What lies inside a block is apart from whatever the block is apart from.
LEMMA Inside ==
    ASSUME NEW b \in Block, NEW c \in Block, NEW x \in Block,
           b.addr <= c.addr, End(c) <= End(b), Apart(b, x) \/ Apart(x, b)
    PROVE  Apart(c, x) /\ Apart(x, c)
  <1>1. b.addr \in Nat /\ End(b) \in Nat  BY BlockFacts
  <1>2. c.addr \in Nat /\ End(c) \in Nat  BY BlockFacts
  <1>3. x.addr \in Nat /\ End(x) \in Nat  BY BlockFacts
  <1> QED BY <1>1, <1>2, <1>3 DEF Apart

\* The program starts with an empty heap.
LEMMA InitIInv == Init => IInv
  <1> SUFFICES ASSUME Init PROVE IInv
    OBVIOUS
  <1>1. free_list = <<>> /\ DOMAIN free_list = {} /\ used = {} /\ Blocks = {}
    BY DEF Init, Blocks
  <1>2. /\ lib_end = heap_start /\ kern_end = heap_start + PAGE_SIZE /\ mapped = {heap_start}
        /\ call = NoCall /\ missing = 0
    BY DEF Init
  <1>3. heap_start \in Nat /\ PAGE_SIZE \in Nat \ {0} /\ heap_start % PAGE_SIZE = 0
    BY UserHeapAssumption
  <1>4. TypeOK
    <2>1. free_list \in Seq(Block)  BY <1>1
    <2>2. panicked \in BOOLEAN  BY DEF Init
    <2> QED BY <1>1, <1>2, <1>3, <2>1, <2>2 DEF TypeOK
  <1>5. BlocksApart  BY <1>1 DEF BlocksApart
  <1>6. Extent
    <2>1. ASSUME NEW a \in heap_start .. kern_end - 1 PROVE a - (a % PAGE_SIZE) = heap_start
      <3> DEFINE p == a - (a % PAGE_SIZE)
      <3>1. a \in Nat /\ heap_start <= a /\ a < heap_start + PAGE_SIZE  BY <1>2, <1>3
      <3>2. p \in Nat /\ p <= a /\ p % PAGE_SIZE = 0  BY <3>1, PageOf
      <3>3. heap_start <= p  BY <3>1, <1>3, PageAbove
      <3> DEFINE k == p \div PAGE_SIZE
                 h == heap_start \div PAGE_SIZE
      <3> HIDE DEF p
      <3>4. p = PAGE_SIZE * k /\ k \in Nat  BY <3>2, <1>3, DivMod
      <3>5. heap_start = PAGE_SIZE * h /\ h \in Nat
        <4>1. heap_start = PAGE_SIZE * h + (heap_start % PAGE_SIZE) /\ h \in Nat
          BY <1>3, DivMod
        <4> HIDE DEF h
        <4> QED BY <4>1, <1>3
      <3> HIDE DEF k, h
      <3>6. PAGE_SIZE * k < PAGE_SIZE * (h + 1)
        BY <3>1, <3>2, <3>4, <3>5, <1>3
      <3>7. k < h + 1  BY <3>4, <3>5, <3>6, <1>3, Monotonic
      <3>8. k <= h  BY <3>7, <3>4, <3>5
      <3>9. p <= heap_start  BY <3>8, <3>4, <3>5, <1>3, Monotonic
      <3> QED BY <3>2, <3>3, <3>9, <1>3 DEF p
    <2> QED BY <1>1, <1>2, <1>3, <2>1 DEF Extent
  <1>7. NothingLost  BY <1>1, <1>2, <1>3 DEF NothingLost
  <1>8. Usable  BY <1>1, <1>2, UserHeapAssumption DEF Usable
  <1> QED BY <1>4, <1>5, <1>6, <1>7, <1>8 DEF IInv

\* Blocks that are cut or relabelled: if the new blocks lie inside old ones, keep
\* their first addresses and end where an old one ended or a new one starts, the
\* invariants about the extent of the heap carry over.
LEMMA Reshape ==
    ASSUME IInv, TypeOK', UNCHANGED <<lib_end, kern_end, mapped, missing>>,
           \A b \in Blocks : \E c \in Blocks' : c.addr = b.addr,
           \A c \in Blocks' : \E b \in Blocks : b.addr <= c.addr /\ End(c) <= End(b),
           \A c \in Blocks' : \/ \E b \in Blocks : End(c) = End(b)
                              \/ \E d \in Blocks' : End(c) = d.addr
    PROVE  Extent' /\ NothingLost'
  <1>1. TypeOK /\ Extent /\ NothingLost  BY DEF IInv
  <1>2. Blocks \subseteq Block  BY <1>1, BlocksTyped
  <1>3. Blocks' \subseteq Block
    BY DEF TypeOK, Blocks
  <1>4. lib_end \in Nat /\ heap_start \in Nat  BY <1>1, UserHeapAssumption DEF TypeOK
  <1>5. ASSUME NEW c \in Blocks' PROVE heap_start <= c.addr /\ End(c) <= lib_end
    <2>1. PICK b \in Blocks : b.addr <= c.addr /\ End(c) <= End(b)  OBVIOUS
    <2>2. heap_start <= b.addr /\ End(b) <= lib_end  BY <1>1 DEF Extent
    <2>3. b.addr \in Nat /\ End(b) \in Nat  BY <1>2, BlockFacts
    <2>4. c.addr \in Nat /\ End(c) \in Nat  BY <1>3, BlockFacts
    <2> QED BY <2>1, <2>2, <2>3, <2>4, <1>4
  <1>6. Extent'
    BY <1>1, <1>5 DEF Extent, End
  <1>7. ASSUME lib_end > heap_start PROVE \E c \in Blocks' : c.addr = heap_start
    BY <1>1, <1>7 DEF NothingLost
  <1>8. ASSUME NEW c \in Blocks'
        PROVE  End(c) = lib_end \/ \E d \in Blocks' : d.addr = End(c)
    <2>1. CASE \E d \in Blocks' : End(c) = d.addr  BY <2>1
    <2>2. CASE \E b \in Blocks : End(c) = End(b)
      <3>1. PICK b \in Blocks : End(c) = End(b)  BY <2>2
      <3>2. CASE End(b) = lib_end  BY <3>1, <3>2
      <3>3. CASE \E e \in Blocks : e.addr = End(b)  BY <3>1, <3>3
      <3> QED BY <3>2, <3>3, <1>1 DEF NothingLost
    <2> QED BY <2>1, <2>2
  <1>9. NothingLost'
    BY <1>7, <1>8 DEF NothingLost, End
  <1> QED BY <1>6, <1>9

\* malloc() that cuts a block.
LEMMA SplitIInv ==
    ASSUME IInv, NEW r \in Requests, NEW i \in DOMAIN free_list, malloc_split(r, i)
    PROVE  IInv'
  <1> DEFINE n == ALIGN8(r)
             b == free_list[i]
             c == [addr |-> b.addr, size |-> n, len |-> r]
             d == Rest(b, n)
  <1>1. TypeOK /\ BlocksApart /\ Usable  BY DEF IInv
  <1>2. r \in Nat /\ n \in Nat /\ n >= r /\ n % 8 = 0  BY Align8
  <1>3. /\ Blocks \subseteq Block /\ used \subseteq Blocks /\ b \in Block /\ b \in Blocks
        /\ \A k \in DOMAIN free_list : free_list[k] \in Block
    BY <1>1, BlocksTyped
  <1>4. b.addr \in Nat /\ b.size \in Nat /\ End(b) = b.addr + BLOCK_SIZE + b.size
    BY <1>3, BlockFacts
  <1>5. b.size >= n + BLOCK_SIZE + 8  BY DEF malloc_split, Splits
  <1>6. /\ free_list' = [free_list EXCEPT ![i] = d] /\ used' = used \cup {c}
        /\ UNCHANGED <<lib_end, kern_end, mapped, call, missing, panicked>>
    BY DEF malloc_split
  <1>7. /\ c.addr = b.addr /\ c.size = n /\ c.len = r
        /\ d.addr = b.addr + BLOCK_SIZE + n /\ d.size = b.size - n - BLOCK_SIZE /\ d.len = 0
    BY DEF Rest
  <1>8. c \in Block /\ d \in Block
    BY <1>2, <1>4, <1>5, Header DEF Block, Rest
  <1> HIDE DEF c, d, n
  <1>9. End(c) = d.addr /\ End(d) = End(b)
    <2>1. End(c) = b.addr + BLOCK_SIZE + n  BY <1>7 DEF End
    <2>2. End(d) = b.addr + BLOCK_SIZE + n + BLOCK_SIZE + (b.size - n - BLOCK_SIZE)
      BY <1>7 DEF End
    <2>3. d.addr = b.addr + BLOCK_SIZE + n  BY <1>7
    <2> HIDE DEF b
    <2> QED BY <2>1, <2>2, <2>3, <1>2, <1>4, Header
  <1>10. b.addr <= d.addr /\ End(c) <= End(b) /\ b.addr <= c.addr /\ End(d) <= End(b)
    BY <1>2, <1>4, <1>5, <1>7, <1>9, Header
  <1>11. /\ DOMAIN free_list' = DOMAIN free_list /\ free_list'[i] = d
         /\ \A k \in DOMAIN free_list : k # i => free_list'[k] = free_list[k]
         /\ free_list' \in Seq(Block)
    BY <1>1, <1>6, <1>8 DEF TypeOK
  <1>12. TypeOK'
    <2>1. used' \subseteq Block  BY <1>1, <1>6, <1>8 DEF TypeOK
    <2> QED BY <1>1, <1>6, <1>11, <2>1 DEF TypeOK
  <1>13. Blocks' = {free_list'[k] : k \in DOMAIN free_list'} \cup used'
    BY DEF Blocks
  <1>14. Blocks' \subseteq Blocks \cup {c, d} /\ c \in Blocks' /\ d \in Blocks'
         /\ Blocks \subseteq Blocks' \cup {b}
    BY <1>6, <1>11, <1>13 DEF Blocks
  <1>15. BlocksApart'
    <2>1. \A x \in Block : Apart(b, x) \/ Apart(x, b)
                             => Apart(c, x) /\ Apart(x, c) /\ Apart(d, x) /\ Apart(x, d)
      BY <1>3, <1>8, <1>10, Inside
    <2>2. Apart(c, d) /\ Apart(d, c)
      <3>1. End(c) \in Nat  BY <1>8, BlockFacts
      <3> QED BY <3>1, <1>9 DEF Apart
    <2>3. ASSUME NEW j \in DOMAIN free_list', NEW k \in DOMAIN free_list', j # k
          PROVE  Apart(free_list'[j], free_list'[k])
      BY <2>1, <2>3, <1>1, <1>3, <1>11 DEF BlocksApart
    <2>4. ASSUME NEW j \in DOMAIN free_list', NEW x \in used' PROVE Apart(free_list'[j], x)
      <3>1. CASE x \in used
        BY <3>1, <2>1, <1>1, <1>3, <1>11 DEF BlocksApart
      <3>2. CASE x = c
        <4>1. CASE j = i  BY <4>1, <3>2, <2>2, <1>11
        <4>2. CASE j # i  BY <4>2, <3>2, <2>1, <1>1, <1>3, <1>11 DEF BlocksApart
        <4> QED BY <4>1, <4>2
      <3> QED BY <3>1, <3>2, <1>6
    <2>5. ASSUME NEW x \in used', NEW y \in used', x # y PROVE Apart(x, y)
      BY <2>1, <2>5, <1>1, <1>3, <1>6 DEF BlocksApart
    <2> QED BY <2>3, <2>4, <2>5 DEF BlocksApart, Apart, End
  <1>16. Extent' /\ NothingLost'
    <2>1. \A x \in Blocks : \E y \in Blocks' : y.addr = x.addr
      BY <1>7, <1>14
    <2>2. \A y \in Blocks' : \E x \in Blocks : x.addr <= y.addr /\ End(y) <= End(x)
      <3> SUFFICES ASSUME NEW y \in Blocks'
                   PROVE  \E x \in Blocks : x.addr <= y.addr /\ End(y) <= End(x)
        OBVIOUS
      <3>1. CASE y \in Blocks
        <4>1. y.addr \in Nat /\ End(y) \in Nat  BY <3>1, <1>3, BlockFacts
        <4> QED BY <3>1, <4>1
      <3>2. CASE y \in {c, d}  BY <3>2, <1>3, <1>10
      <3> QED BY <3>1, <3>2, <1>14
    <2>3. \A y \in Blocks' : \/ \E x \in Blocks : End(y) = End(x)
                             \/ \E x \in Blocks' : End(y) = x.addr
      BY <1>3, <1>9, <1>14
    <2> QED BY <2>1, <2>2, <2>3, <1>6, <1>12, Reshape
  <1>17. Usable'
    <2>1. b.addr % 8 = 0  BY <1>1, <1>3 DEF Usable
    <2>2. d.addr % 8 = 0
      <3>1. (b.addr + BLOCK_SIZE) % 8 = 0  BY <2>1, <1>4, Header, Header8, Mod8
      <3>2. b.addr + BLOCK_SIZE \in Nat  BY <1>4, Header
      <3>3. (b.addr + BLOCK_SIZE + n) % 8 = 0  BY <3>1, <3>2, <1>2, Mod8
      <3> QED BY <3>3, <1>7
    <2>3. c.len <= c.size /\ d.len <= d.size  BY <1>2, <1>4, <1>5, <1>7, Header
    <2>4. \A x \in Blocks' : x.addr % 8 = 0 /\ x.len <= x.size
      BY <2>1, <2>2, <2>3, <1>1, <1>7, <1>14 DEF Usable
    <2> QED BY <2>4, <1>1, <1>6 DEF Usable
  <1> QED BY <1>12, <1>15, <1>16, <1>17 DEF IInv

\* malloc() that takes a whole block.
LEMMA WholeIInv ==
    ASSUME IInv, NEW r \in Requests, NEW i \in DOMAIN free_list, malloc_whole(r, i)
    PROVE  IInv'
  <1> DEFINE b == free_list[i]
             c == [addr |-> b.addr, size |-> b.size, len |-> r]
             L == Len(free_list)
  <1>1. TypeOK /\ BlocksApart /\ Usable  BY DEF IInv
  <1>2. r \in Nat /\ ALIGN8(r) \in Nat /\ ALIGN8(r) >= r  BY Align8
  <1>3. /\ Blocks \subseteq Block /\ used \subseteq Blocks /\ b \in Block /\ b \in Blocks
        /\ \A k \in DOMAIN free_list : free_list[k] \in Block /\ free_list[k] \in Blocks
        /\ L \in Nat /\ DOMAIN free_list = 1 .. L /\ i \in 1 .. L
    BY <1>1, BlocksTyped
  <1>4. b.addr \in Nat /\ b.size \in Nat  BY <1>3, BlockFacts
  <1>5. r <= b.size
    <2>1. b.size >= ALIGN8(r)  BY DEF malloc_whole, FirstFit
    <2> QED BY <2>1, <1>2, <1>4
  <1>6. /\ free_list' = Without(i) /\ used' = used \cup {c}
        /\ UNCHANGED <<lib_end, kern_end, mapped, call, missing, panicked>>
    BY DEF malloc_whole
  <1>7. c \in Block /\ c.addr = b.addr /\ c.size = b.size /\ c.len = r
    BY <1>2, <1>4 DEF Block
  <1> HIDE DEF c
  <1>8. End(c) = End(b) /\ End(b) \in Nat  BY <1>3, <1>7, BlockFacts
  <1>9. free_list' \in [1 .. L - 1 -> Block]
    BY <1>3, <1>6 DEF Without
  <1>10. free_list' \in Seq(Block) /\ DOMAIN free_list' = 1 .. L - 1
    <2>1. L - 1 \in Nat  BY <1>3
    <2> HIDE DEF L
    <2> QED BY <2>1, <1>9
  <1>11. \A k \in 1 .. L - 1 :
            free_list'[k] = IF k < i THEN free_list[k] ELSE free_list[k + 1]
    BY <1>3, <1>6 DEF Without
  <1>12. TypeOK'
    <2>1. used' \subseteq Block  BY <1>1, <1>6, <1>7 DEF TypeOK
    <2> QED BY <1>1, <1>6, <1>10, <2>1 DEF TypeOK
  <1> DEFINE at(k) == IF k < i THEN k ELSE k + 1
  <1>13. \A k \in 1 .. L - 1 : at(k) \in 1 .. L /\ at(k) # i /\ free_list'[k] = free_list[at(k)]
    BY <1>3, <1>11
  <1>14. \A j, k \in 1 .. L - 1 : j # k => at(j) # at(k)
    BY <1>3
  <1>15. \A m \in 1 .. L : m # i => \E k \in 1 .. L - 1 : free_list'[k] = free_list[m]
    <2> SUFFICES ASSUME NEW m \in 1 .. L, m # i
                 PROVE  \E k \in 1 .. L - 1 : free_list'[k] = free_list[m]
      OBVIOUS
    <2>1. CASE m < i  BY <2>1, <1>3, <1>11
    <2>2. CASE m > i
      <3>1. m - 1 \in 1 .. L - 1 /\ ~(m - 1 < i) /\ (m - 1) + 1 = m  BY <2>2, <1>3
      <3> QED BY <3>1, <1>11
    <2> QED BY <2>1, <2>2, <1>3
  <1> HIDE DEF at
  <1>16. Blocks' = {free_list'[k] : k \in 1 .. L - 1} \cup used'
    BY <1>10 DEF Blocks
  <1>17. Blocks' \subseteq Blocks \cup {c} /\ c \in Blocks' /\ Blocks \subseteq Blocks' \cup {b}
    <2>1. Blocks' \subseteq Blocks \cup {c}  BY <1>3, <1>6, <1>13, <1>16
    <2>2. c \in Blocks'  BY <1>6, <1>16
    <2>3. ASSUME NEW x \in Blocks, x # b PROVE x \in Blocks'
      <3>1. CASE x \in used  BY <3>1, <1>6, <1>16
      <3>2. CASE x \notin used
        <4>1. PICK m \in 1 .. L : x = free_list[m]  BY <3>2, <1>3 DEF Blocks
        <4> QED BY <4>1, <2>3, <1>15, <1>16
      <3> QED BY <3>1, <3>2
    <2> QED BY <2>1, <2>2, <2>3
  <1>18. BlocksApart'
    <2>1. \A x \in Block : Apart(b, x) \/ Apart(x, b) => Apart(c, x) /\ Apart(x, c)
      <3>1. b.addr <= c.addr /\ End(c) <= End(b)  BY <1>4, <1>7, <1>8
      <3> QED BY <3>1, <1>3, <1>7, Inside
    <2>2. ASSUME NEW j \in 1 .. L - 1, NEW k \in 1 .. L - 1, j # k
          PROVE  Apart(free_list'[j], free_list'[k])
      BY <2>2, <1>1, <1>3, <1>13, <1>14 DEF BlocksApart
    <2>3. ASSUME NEW j \in 1 .. L - 1, NEW x \in used' PROVE Apart(free_list'[j], x)
      <3>1. CASE x \in used  BY <3>1, <1>1, <1>3, <1>13 DEF BlocksApart
      <3>2. CASE x = c
        <4>1. Apart(free_list[at(j)], b) /\ free_list[at(j)] \in Block
          BY <1>1, <1>3, <1>13 DEF BlocksApart
        <4> QED BY <4>1, <3>2, <2>1, <1>13
      <3> QED BY <3>1, <3>2, <1>6
    <2>4. ASSUME NEW x \in used', NEW y \in used', x # y PROVE Apart(x, y)
      BY <2>1, <2>4, <1>1, <1>3, <1>6 DEF BlocksApart
    <2> QED BY <2>2, <2>3, <2>4, <1>10 DEF BlocksApart, Apart, End
  <1>19. Extent' /\ NothingLost'
    <2>1. \A x \in Blocks : \E y \in Blocks' : y.addr = x.addr
      BY <1>7, <1>17
    <2>2. \A y \in Blocks' : \E x \in Blocks : x.addr = y.addr /\ End(y) = End(x)
      BY <1>3, <1>7, <1>8, <1>17
    <2>3. \A y \in Blocks' : \E x \in Blocks : x.addr <= y.addr /\ End(y) <= End(x)
      <3> SUFFICES ASSUME NEW y \in Blocks'
                   PROVE  \E x \in Blocks : x.addr <= y.addr /\ End(y) <= End(x)
        OBVIOUS
      <3>1. PICK x \in Blocks : x.addr = y.addr /\ End(y) = End(x)  BY <2>2
      <3>2. x.addr \in Nat /\ End(x) \in Nat  BY <1>3, BlockFacts
      <3> QED BY <3>1, <3>2
    <2> QED BY <2>1, <2>2, <2>3, <1>6, <1>12, Reshape
  <1>20. Usable'
    <2>1. b.addr % 8 = 0  BY <1>1, <1>3 DEF Usable
    <2>2. \A x \in Blocks' : x.addr % 8 = 0 /\ x.len <= x.size
      BY <2>1, <1>1, <1>5, <1>7, <1>17 DEF Usable
    <2> QED BY <2>2, <1>1, <1>6 DEF Usable
  <1> QED BY <1>12, <1>18, <1>19, <1>20 DEF IInv

\* free() puts a block back.
LEMMA FreeIInv ==
    ASSUME IInv, NEW b \in used, free(b)
    PROVE  IInv'
  <1> DEFINE c == [b EXCEPT !.len = 0]
             L == Len(free_list)
  <1>1. TypeOK /\ BlocksApart /\ Usable  BY DEF IInv
  <1>2. /\ Blocks \subseteq Block /\ used \subseteq Blocks /\ b \in Block /\ b \in Blocks
        /\ \A k \in DOMAIN free_list : free_list[k] \in Block /\ free_list[k] \in Blocks
        /\ L \in Nat /\ DOMAIN free_list = 1 .. L
    BY <1>1, BlocksTyped
  <1>3. b.addr \in Nat /\ b.size \in Nat /\ End(b) \in Nat  BY <1>2, BlockFacts
  <1>4. /\ free_list' = <<c>> \o free_list /\ used' = used \ {b}
        /\ UNCHANGED <<lib_end, kern_end, mapped, call, missing, panicked>>
    BY DEF free
  <1>5. c \in Block /\ c.addr = b.addr /\ c.size = b.size /\ c.len = 0
    BY <1>2 DEF Block
  <1> HIDE DEF c
  <1>6. End(c) = End(b)  BY <1>2, <1>5, BlockFacts
  <1>7. free_list \in Seq(Block)  BY <1>1 DEF TypeOK
  <1>8. /\ free_list' \in Seq(Block) /\ DOMAIN free_list' = 1 .. L + 1
        /\ free_list'[1] = c
        /\ \A k \in 2 .. L + 1 : free_list'[k] = free_list[k - 1]
    BY <1>2, <1>4, <1>5, <1>7
  <1>9. TypeOK'
    <2>1. used' \subseteq Block  BY <1>1, <1>4 DEF TypeOK
    <2> QED BY <1>1, <1>4, <1>8, <2>1 DEF TypeOK
  <1>10. Blocks' = {free_list'[k] : k \in 1 .. L + 1} \cup used'
    BY <1>8 DEF Blocks
  <1>11. Blocks' \subseteq Blocks \cup {c} /\ c \in Blocks' /\ Blocks \subseteq Blocks' \cup {b}
    <2>1. \A k \in 1 .. L + 1 : free_list'[k] \in Blocks \cup {c}
      <3> SUFFICES ASSUME NEW k \in 1 .. L + 1 PROVE free_list'[k] \in Blocks \cup {c}
        OBVIOUS
      <3>1. CASE k = 1  BY <3>1, <1>8
      <3>2. CASE k > 1
        <4>1. k - 1 \in DOMAIN free_list /\ free_list'[k] = free_list[k - 1]
          BY <3>2, <1>2, <1>8
        <4> QED BY <4>1, <1>2
      <3> QED BY <3>1, <3>2
    <2>2. c \in Blocks'
      <3>1. 1 \in 1 .. L + 1  BY <1>2
      <3> QED BY <3>1, <1>8, <1>10
    <2>3. \A k \in DOMAIN free_list : free_list[k] \in Blocks'
      <3> SUFFICES ASSUME NEW k \in 1 .. L PROVE free_list[k] \in Blocks'
        BY <1>2
      <3>1. k + 1 \in 2 .. L + 1 /\ (k + 1) - 1 = k /\ k + 1 \in 1 .. L + 1  BY <1>2
      <3>2. free_list'[k + 1] = free_list[k]  BY <3>1, <1>8
      <3> QED BY <3>1, <3>2, <1>10
    <2>4. Blocks \subseteq Blocks' \cup {b}  BY <2>3, <1>4, <1>10 DEF Blocks
    <2> QED BY <2>1, <2>2, <2>4, <1>2, <1>4, <1>10
  <1>12. BlocksApart'
    <2>1. \A x \in Block : Apart(b, x) \/ Apart(x, b) => Apart(c, x) /\ Apart(x, c)
      <3>1. b.addr <= c.addr /\ End(c) <= End(b)  BY <1>3, <1>5, <1>6
      <3> QED BY <3>1, <1>2, <1>5, Inside
    <2>2. \A k \in DOMAIN free_list : Apart(free_list[k], b)
      BY <1>1 DEF BlocksApart
    <2>3. ASSUME NEW j \in 1 .. L + 1, NEW k \in 1 .. L + 1, j # k
          PROVE  Apart(free_list'[j], free_list'[k])
      <3>1. CASE j = 1
        <4>1. k - 1 \in DOMAIN free_list /\ free_list'[k] = free_list[k - 1]
          BY <3>1, <2>3, <1>2, <1>8
        <4> QED BY <3>1, <4>1, <2>1, <2>2, <1>2, <1>8
      <3>2. CASE k = 1
        <4>1. j - 1 \in DOMAIN free_list /\ free_list'[j] = free_list[j - 1]
          BY <3>2, <2>3, <1>2, <1>8
        <4> QED BY <3>2, <4>1, <2>1, <2>2, <1>2, <1>8
      <3>3. CASE j # 1 /\ k # 1
        <4>1. /\ j - 1 \in DOMAIN free_list /\ free_list'[j] = free_list[j - 1]
              /\ k - 1 \in DOMAIN free_list /\ free_list'[k] = free_list[k - 1]
              /\ j - 1 # k - 1
          BY <3>3, <2>3, <1>2, <1>8
        <4> QED BY <4>1, <1>1 DEF BlocksApart
      <3> QED BY <3>1, <3>2, <3>3
    <2>4. ASSUME NEW j \in 1 .. L + 1, NEW x \in used' PROVE Apart(free_list'[j], x)
      <3>1. CASE j = 1
        <4>1. x \in used /\ x # b /\ x \in Block  BY <1>2, <1>4
        <4>2. Apart(b, x)  BY <4>1, <1>1 DEF BlocksApart
        <4> QED BY <3>1, <4>1, <4>2, <2>1, <1>8
      <3>2. CASE j # 1
        <4>1. j - 1 \in DOMAIN free_list /\ free_list'[j] = free_list[j - 1]
          BY <3>2, <1>2, <1>8
        <4> QED BY <4>1, <1>1, <1>4 DEF BlocksApart
      <3> QED BY <3>1, <3>2
    <2>5. ASSUME NEW x \in used', NEW y \in used', x # y PROVE Apart(x, y)
      BY <2>5, <1>1, <1>4 DEF BlocksApart
    <2> QED BY <2>3, <2>4, <2>5, <1>8 DEF BlocksApart, Apart, End
  <1>13. Extent' /\ NothingLost'
    <2>1. \A x \in Blocks : \E y \in Blocks' : y.addr = x.addr
      BY <1>5, <1>11
    <2>2. \A y \in Blocks' : \E x \in Blocks : x.addr = y.addr /\ End(y) = End(x)
      BY <1>2, <1>5, <1>6, <1>11
    <2>3. \A y \in Blocks' : \E x \in Blocks : x.addr <= y.addr /\ End(y) <= End(x)
      <3> SUFFICES ASSUME NEW y \in Blocks'
                   PROVE  \E x \in Blocks : x.addr <= y.addr /\ End(y) <= End(x)
        OBVIOUS
      <3>1. PICK x \in Blocks : x.addr = y.addr /\ End(y) = End(x)  BY <2>2
      <3>2. x.addr \in Nat /\ End(x) \in Nat  BY <1>2, BlockFacts
      <3> QED BY <3>1, <3>2
    <2> QED BY <2>1, <2>2, <2>3, <1>4, <1>9, Reshape
  <1>14. Usable'
    <2>1. b.addr % 8 = 0  BY <1>1, <1>2 DEF Usable
    <2>2. \A x \in Blocks' : x.addr % 8 = 0 /\ x.len <= x.size
      BY <2>1, <1>1, <1>3, <1>5, <1>11 DEF Usable
    <2> QED BY <2>2, <1>1, <1>4 DEF Usable
  <1> QED BY <1>9, <1>12, <1>13, <1>14 DEF IInv

\* sys_sbrk() moves the kernel's break, sbrk() the library's.
LEMMA SbrkIInv ==
    ASSUME IInv, sys_sbrk
    PROVE  IInv'
  <1> DEFINE r == call.len
             n == ALIGN8(r)
             c == [addr |-> lib_end, size |-> n, len |-> r]
             new == NewPages(kern_end, kern_end + call.a0)
  <1>1. TypeOK /\ BlocksApart /\ Extent /\ NothingLost /\ Usable  BY DEF IInv
  <1>0. call.len \in Requests /\ call.a0 \in Nat  BY <1>1 DEF TypeOK, sys_sbrk
  <1>2. r \in Nat /\ n \in Nat /\ n >= r /\ n % 8 = 0  BY <1>0, Align8
  <1>3. /\ lib_end \in Nat /\ kern_end \in Nat /\ heap_start \in Nat /\ missing \in Int
        /\ PAGE_SIZE \in Nat \ {0} /\ heap_start % PAGE_SIZE = 0
    BY <1>1, UserHeapAssumption DEF TypeOK
  <1>4. Blocks \subseteq Block /\ used \subseteq Blocks
        /\ \A k \in DOMAIN free_list : free_list[k] \in Block /\ free_list[k] \in Blocks
    BY <1>1, BlocksTyped
  <1>5. /\ free_list' = free_list /\ used' = used \cup {c} /\ panicked' = panicked
        /\ kern_end' = kern_end + call.a0 /\ lib_end' = lib_end + (n + BLOCK_SIZE)
        /\ missing' = missing + ((n + BLOCK_SIZE) - call.a0) /\ call' = NoCall
        /\ mapped' = mapped \cup new
    BY DEF sys_sbrk, Increment, Grown, Wanted
  <1>6. c \in Block /\ c.addr = lib_end /\ c.size = n /\ c.len = r
    BY <1>2, <1>3 DEF Block
  <1>7. new = {a \in PGROUNDUP(kern_end) .. kern_end' - 1 : a % PAGE_SIZE = 0}
    BY <1>5 DEF NewPages
  <1>8. PGROUNDUP(kern_end) \in Nat
        /\ \A p \in Nat : p % PAGE_SIZE = 0 /\ p < PGROUNDUP(kern_end) => p < kern_end
    BY <1>3, RoundUp
  <1> HIDE DEF c, n, r, new
  <1>9. End(c) = lib_end' /\ lib_end' \in Nat /\ kern_end' \in Nat
        /\ kern_end <= kern_end' /\ lib_end <= lib_end' /\ lib_end < End(c)
    <2>1. End(c) = lib_end + BLOCK_SIZE + n  BY <1>6 DEF End
    <2> QED BY <2>1, <1>0, <1>2, <1>3, <1>5, Header
  <1>10. \A x \in Blocks : /\ heap_start <= x.addr /\ End(x) <= lib_end
                            /\ x.addr \in Nat /\ End(x) \in Nat
    BY <1>1, <1>4, BlockFacts DEF Extent
  <1>11. TypeOK'
    <2>1. used' \subseteq Block  BY <1>1, <1>5, <1>6 DEF TypeOK
    <2>2. new \subseteq Nat  BY <1>7, <1>8, <1>9
    <2>3. mapped' \subseteq Nat  BY <2>2, <1>1, <1>5 DEF TypeOK
    <2>4. missing' \in Int  BY <1>0, <1>2, <1>3, <1>5, Header
    <2> QED BY <1>1, <1>5, <1>9, <2>1, <2>3, <2>4 DEF TypeOK
  <1>12. Blocks' = Blocks \cup {c}
    BY <1>5 DEF Blocks
  <1>13. BlocksApart'
    <2>1. \A x \in Blocks : Apart(x, c) /\ Apart(c, x)
      BY <1>6, <1>10 DEF Apart
    <2>2. \A j, k \in DOMAIN free_list' : j # k => Apart(free_list'[j], free_list'[k])
      BY <1>1, <1>5 DEF BlocksApart
    <2>3. \A j \in DOMAIN free_list' : \A x \in used' : Apart(free_list'[j], x)
      BY <2>1, <1>1, <1>4, <1>5 DEF BlocksApart
    <2>4. \A x, y \in used' : x # y => Apart(x, y)
      BY <2>1, <1>1, <1>4, <1>5 DEF BlocksApart
    <2> QED BY <2>2, <2>3, <2>4 DEF BlocksApart, Apart, End
  <1>14. Extent'
    <2>1. kern_end' + missing' = lib_end' + PAGE_SIZE
      <3>1. kern_end + missing = lib_end + PAGE_SIZE  BY <1>1 DEF Extent
      <3> QED BY <3>1, <1>0, <1>2, <1>3, <1>5, Header
    <2>2. PICK e \in Nat : e = kern_end' /\ kern_end <= e  BY <1>9
    <2>3. ASSUME NEW a \in heap_start .. e - 1 PROVE a - (a % PAGE_SIZE) \in mapped'
      <3> DEFINE p == a - (a % PAGE_SIZE)
      <3>1. a \in Nat /\ heap_start <= a /\ a < e  BY <1>3
      <3>2. p \in Nat /\ p % PAGE_SIZE = 0 /\ p <= a  BY <3>1, PageOf
      <3>3. CASE a < kern_end
        <4>1. a \in heap_start .. kern_end - 1  BY <3>1, <3>3, <1>3
        <4> QED BY <4>1, <1>1, <1>5 DEF Extent
      <3>4. CASE ~(a < kern_end) /\ PGROUNDUP(kern_end) <= p
        <4> HIDE DEF p
        <4>1. p \in PGROUNDUP(kern_end) .. e - 1
          BY <3>1, <3>2, <3>4, <1>8
        <4>2. p \in new  BY <4>1, <3>2, <2>2, <1>7
        <4> QED BY <4>2, <1>5 DEF p
      <3>5. CASE ~(a < kern_end) /\ p < PGROUNDUP(kern_end)
        <4>1. heap_start <= p  BY <3>1, <1>3, PageAbove
        <4>2. p < kern_end  BY <3>2, <3>5, <1>8
        <4>3. p - (p % PAGE_SIZE) = p
          <5> HIDE DEF p
          <5> QED BY <3>2
        <4>4. p \in heap_start .. kern_end - 1
          <5> HIDE DEF p
          <5> QED BY <4>1, <4>2, <3>2, <1>3
        <4>5. p - (p % PAGE_SIZE) \in mapped
          <5> HIDE DEF p
          <5> QED BY <4>4, <1>1 DEF Extent
        <4> QED BY <4>3, <4>5, <1>5
      <3> HIDE DEF p
      <3>6. PGROUNDUP(kern_end) <= p \/ p < PGROUNDUP(kern_end)  BY <3>2, <1>8
      <3> QED BY <3>3, <3>4, <3>5, <3>6 DEF p
    <2>4. ASSUME NEW x \in Blocks' PROVE heap_start <= x.addr /\ End(x) <= lib_end'
      <3>1. CASE x \in Blocks  BY <3>1, <1>3, <1>9, <1>10
      <3>2. CASE x = c
        <4>1. heap_start <= lib_end  BY <1>1 DEF Usable
        <4> QED BY <4>1, <3>2, <1>6, <1>9, <1>3
      <3> QED BY <3>1, <3>2, <1>12
    <2>5. \A a \in heap_start .. kern_end' - 1 : a - (a % PAGE_SIZE) \in mapped'
      BY <2>2, <2>3
    <2> QED BY <2>1, <2>4, <2>5 DEF Extent, End
  <1>15. NothingLost'
    <2>1. ASSUME lib_end' > heap_start PROVE \E x \in Blocks' : x.addr = heap_start
      <3>1. CASE lib_end > heap_start  BY <3>1, <1>1, <1>12 DEF NothingLost
      <3>2. CASE lib_end = heap_start  BY <3>2, <1>6, <1>12
      <3> QED BY <3>1, <3>2, <1>1, <1>3 DEF Usable
    <2>2. ASSUME NEW x \in Blocks'
          PROVE  End(x) = lib_end' \/ \E y \in Blocks' : y.addr = End(x)
      <3>1. CASE x = c  BY <3>1, <1>9
      <3>2. CASE x \in Blocks
        <4>1. CASE End(x) = lib_end  BY <4>1, <1>6, <1>12
        <4>2. CASE \E y \in Blocks : y.addr = End(x)  BY <4>2, <1>12
        <4> QED BY <4>1, <4>2, <3>2, <1>1 DEF NothingLost
      <3> QED BY <3>1, <3>2, <1>12
    <2> QED BY <2>1, <2>2 DEF NothingLost, End
  <1>16. Usable'
    <2>1. (n + BLOCK_SIZE) % 8 = 0 /\ n + BLOCK_SIZE \in Nat  BY <1>2, Header, Header8, Mod8
    <2>2. lib_end' % 8 = 0  BY <2>1, <1>1, <1>3, <1>5, Mod8 DEF Usable
    <2>4. heap_start <= lib_end'  BY <1>1, <1>3, <1>9 DEF Usable
    <2>3. \A x \in Blocks' : x.addr % 8 = 0 /\ x.len <= x.size
      BY <1>1, <1>2, <1>6, <1>12 DEF Usable
    <2> QED BY <2>2, <2>3, <2>4 DEF Usable
  <1> QED BY <1>11, <1>13, <1>14, <1>15, <1>16 DEF IInv

\* A step that leaves the heap alone.
LEMMA SameHeap ==
    ASSUME IInv, UNCHANGED <<free_list, used, lib_end, kern_end, mapped, missing>>,
           call' \in [len : Requests, a0 : Nat] \cup {NoCall}, panicked' \in BOOLEAN
    PROVE  IInv'
  BY DEF IInv, TypeOK, BlocksApart, Apart, End, Extent, Blocks, NothingLost, Usable

\* Every step preserves the invariant.
LEMMA NextIInv == IInv /\ [Next]_vars => IInv'
  <1> SUFFICES ASSUME IInv, [Next]_vars PROVE IInv'
    OBVIOUS
  <1>b. panicked \in BOOLEAN  BY DEF IInv, TypeOK
  <1>1. ASSUME NEW r \in Requests, NEW i \in DOMAIN free_list, malloc_split(r, i) PROVE IInv'
    BY <1>1, SplitIInv
  <1>2. ASSUME NEW r \in Requests, NEW i \in DOMAIN free_list, malloc_whole(r, i) PROVE IInv'
    BY <1>2, WholeIInv
  <1>3. ASSUME NEW r \in Requests, malloc_sbrk(r) PROVE IInv'
    <2>1. /\ UNCHANGED <<free_list, used, lib_end, kern_end, mapped, missing, panicked>>
          /\ call' = [len |-> r, a0 |-> ALIGN8(r) + BLOCK_SIZE]
      BY <1>3 DEF malloc_sbrk, Increment
    <2>2. ALIGN8(r) + BLOCK_SIZE \in Nat  BY Align8, Header
    <2> QED BY <1>b, <2>1, <2>2, SameHeap
  <1>4. CASE timer_switch
    <2>1. call \in [len : Requests, a0 : Nat]  BY <1>4 DEF timer_switch, IInv, TypeOK
    <2>2. call' \in [len : Requests, a0 : Nat]
      BY <1>4, <2>1, UserHeapAssumption DEF timer_switch
    <2> QED BY <1>b, <1>4, <2>2, SameHeap DEF timer_switch
  <1>5. ASSUME NEW b \in used, free(b) PROVE IInv'
    BY <1>5, FreeIInv
  <1>6. CASE sys_sbrk
    BY <1>6, SbrkIInv
  <1>7. CASE page_fault \/ sys_sbrk_panic \/ UNCHANGED vars
    <2>1. call' = call /\ call \in [len : Requests, a0 : Nat] \cup {NoCall}
      BY <1>7 DEF page_fault, sys_sbrk_panic, vars, IInv, TypeOK
    <2> QED BY <1>7, <2>1, SameHeap DEF page_fault, sys_sbrk_panic, vars, IInv, TypeOK
  <1> QED BY <1>1, <1>2, <1>3, <1>4, <1>5, <1>6, <1>7 DEF Next, Library

\* The invariant holds throughout.
LEMMA Invariant == Spec => []IInv
  <1> QED BY InitIInv, NextIInv, PTL DEF Spec

\* Sizes and addresses stay natural numbers through all cuts.
THEOREM TypeCorrect == Spec => []TypeOK
  <1>1. IInv => TypeOK BY DEF IInv
  <1> QED BY Invariant, <1>1, PTL

\* No two blocks of the user heap overlap, free or used.
THEOREM NoOverlap == Spec => []BlocksApart
  <1>1. IInv => BlocksApart BY DEF IInv
  <1> QED BY Invariant, <1>1, PTL

\* The page the kernel starts ahead covers what restarted calls failed to add.
LEMMA SpareCovers == IInv => BlocksMapped
  <1> SUFFICES ASSUME IInv PROVE BlocksMapped
    OBVIOUS
  <1>1. TypeOK /\ Extent  BY DEF IInv
  <1>2. /\ lib_end \in Nat /\ kern_end \in Nat /\ missing \in Int /\ PAGE_SIZE \in Nat
        /\ heap_start \in Nat
    BY <1>1, UserHeapAssumption DEF TypeOK
  <1>3. ASSUME missing <= PAGE_SIZE, NEW b \in Blocks, NEW a \in b.addr .. End(b) - 1
        PROVE  Mapped(a)
    <2>1. b.addr \in Nat /\ End(b) \in Nat  BY <1>1, BlocksTyped, BlockFacts
    <2>2. heap_start <= b.addr /\ End(b) <= lib_end /\ kern_end + missing = lib_end + PAGE_SIZE
      BY <1>1 DEF Extent
    <2>3. lib_end <= kern_end  BY <1>2, <1>3, <2>2
    <2>4. a \in heap_start .. kern_end - 1  BY <1>2, <2>1, <2>2, <2>3
    <2> QED BY <2>4, <1>1 DEF Extent, Mapped
  <1> QED BY <1>1, <1>3 DEF BlocksMapped, Extent, Mapped

\* Every page below the kernel's break is mapped, and every block lies on mapped
\* pages as long as ticks at the ecall of sbrk() have not set the kernel's break
\* back by more than the page it starts ahead of the library's.
THEOREM AlwaysMapped == Spec => []BlocksMapped
  <1> QED BY Invariant, SpareCovers, PTL

\* No byte obtained from sbrk() is lost to the blocks.
THEOREM NoByteLost == Spec => []NothingLost
  <1>1. IInv => NothingLost BY DEF IInv
  <1> QED BY Invariant, <1>1, PTL

-----------------------------------------------------------------------------
(* Refinement.                                                             *)

\* The extent of r bytes in block b.
Of(b, r) == [ptr |-> b.addr + BLOCK_SIZE, len |-> r]

\* Extents in blocks that are apart are apart.
LEMMA ExtentsApart ==
    ASSUME NEW b \in Block, NEW c \in Block, Apart(b, c) \/ Apart(c, b),
           NEW r \in Nat, r <= b.size, c.len <= c.size
    PROVE  Store!Apart(Of(b, r), Of(c, c.len))
  <1>1. b.addr \in Nat /\ b.size \in Nat /\ End(b) = b.addr + BLOCK_SIZE + b.size  BY BlockFacts
  <1>2. /\ c.addr \in Nat /\ c.size \in Nat /\ c.len \in Nat
        /\ End(c) = c.addr + BLOCK_SIZE + c.size
    BY BlockFacts
  <1>3. /\ b.addr + BLOCK_SIZE # c.addr + BLOCK_SIZE
        /\ \/ b.addr + BLOCK_SIZE + r <= c.addr + BLOCK_SIZE
           \/ c.addr + BLOCK_SIZE + c.len <= b.addr + BLOCK_SIZE
    BY <1>1, <1>2, Header DEF Apart
  <1> QED BY <1>3 DEF Store!Apart, Of

\* malloc() in a block apart from all used ones is a step of HeapStore.
LEMMA MallocStep ==
    ASSUME IInv, NEW b \in Block, b.addr % 8 = 0, NEW r \in Nat, r <= b.size,
           \A x \in used : Apart(b, x) \/ Apart(x, b),
           Live' = Live \cup {Of(b, r)}
    PROVE  Store!Next
  <1>1. b.addr \in Nat  BY BlockFacts
  <1>2. (b.addr + BLOCK_SIZE) % 8 = 0  BY <1>1, Header, Header8, Mod8
  <1>3. Of(b, r).ptr % 8 = 0  BY <1>2 DEF Of
  <1>4. ASSUME NEW y \in Live PROVE Store!Apart(Of(b, r), y)
    <2>1. PICK x \in used : y = Of(x, x.len)  BY DEF Live, Of
    <2>2. x \in Block /\ x.len <= x.size  BY DEF IInv, TypeOK, Usable, Blocks
    <2> QED BY <2>1, <2>2, ExtentsApart
  <1>5. Store!Malloc(Of(b, r))  BY <1>3, <1>4 DEF Store!Malloc
  <1> QED BY <1>5 DEF Store!Next

\* A block the program obtains adds its extent.
LEMMA LiveAdd ==
    ASSUME NEW c, used' = used \cup {c}
    PROVE  Live' = Live \cup {Of(c, c.len)}
  <1>1. Live' = {[ptr |-> b.addr + BLOCK_SIZE, len |-> b.len] : b \in used'}  BY DEF Live
  <1>2. Live = {[ptr |-> b.addr + BLOCK_SIZE, len |-> b.len] : b \in used}  BY DEF Live
  <1>3. Of(c, c.len) = [ptr |-> c.addr + BLOCK_SIZE, len |-> c.len]  BY DEF Of
  <1> QED BY <1>1, <1>2, <1>3

\* The library over sbrk() implements HeapStore, for every sequence of requests:
\* memory that is handed out overlaps nothing the program holds.
THEOREM Refinement == Spec => ImplementsStore
  <1>1. Init => Store!Init
    BY DEF Init, Store!Init, Live
  <1>2. IInv /\ [Next]_vars => [Store!Next]_Live
    <2> SUFFICES ASSUME IInv, [Next]_vars PROVE Store!Next \/ Live' = Live
      OBVIOUS
    <2>0. TypeOK /\ BlocksApart /\ Usable /\ Extent  BY DEF IInv
    <2>1. ASSUME NEW r \in Requests, NEW i \in DOMAIN free_list,
                 malloc_split(r, i) \/ malloc_whole(r, i)
          PROVE  Store!Next
      <3>1. free_list[i] \in Block /\ free_list[i] \in Blocks  BY <2>0, BlocksTyped
      <3>2. r \in Nat /\ r <= free_list[i].size
        <4>1. free_list[i].size >= ALIGN8(r)
          BY <2>1 DEF malloc_split, malloc_whole, FirstFit
        <4>2. r \in Nat /\ ALIGN8(r) \in Nat /\ ALIGN8(r) >= r  BY Align8
        <4>3. free_list[i].size \in Nat  BY <3>1, BlockFacts
        <4> QED BY <4>1, <4>2, <4>3
      <3>3. Live' = Live \cup {Of(free_list[i], r)}
        <4>1. CASE malloc_split(r, i)
          <5> DEFINE c == [addr |-> free_list[i].addr, size |-> ALIGN8(r), len |-> r]
          <5>1. used' = used \cup {c}  BY <4>1 DEF malloc_split
          <5>2. Of(c, c.len) = Of(free_list[i], r)  BY DEF Of
          <5> HIDE DEF c
          <5> QED BY <5>1, <5>2, LiveAdd
        <4>2. CASE malloc_whole(r, i)
          <5> DEFINE c == [addr |-> free_list[i].addr, size |-> free_list[i].size, len |-> r]
          <5>1. used' = used \cup {c}  BY <4>2 DEF malloc_whole
          <5>2. Of(c, c.len) = Of(free_list[i], r)  BY DEF Of
          <5> HIDE DEF c
          <5> QED BY <5>1, <5>2, LiveAdd
        <4> QED BY <2>1, <4>1, <4>2
      <3>4. free_list[i].addr % 8 = 0  BY <2>0, <3>1 DEF Usable
      <3>5. \A x \in used : Apart(free_list[i], x)  BY <2>0 DEF BlocksApart
      <3> QED BY <3>1, <3>2, <3>3, <3>4, <3>5, MallocStep
    <2>2. CASE sys_sbrk
      <3> DEFINE r == call.len
                 c == [addr |-> lib_end, size |-> ALIGN8(r), len |-> r]
      <3>0. r \in Requests  BY <2>0, <2>2 DEF TypeOK, sys_sbrk
      <3>1. r \in Nat /\ ALIGN8(r) \in Nat /\ r <= ALIGN8(r)  BY <3>0, Align8
      <3>2. lib_end \in Nat /\ lib_end % 8 = 0  BY <2>0 DEF TypeOK, Usable
      <3>3. c \in Block /\ c.addr = lib_end /\ c.size = ALIGN8(r)  BY <3>1, <3>2 DEF Block
      <3>4. used' = used \cup {c}  BY <2>2 DEF sys_sbrk
      <3>5. Live' = Live \cup {Of(c, r)}  BY <3>4, LiveAdd DEF Of
      <3> HIDE DEF c, r
      <3>6. ASSUME NEW x \in used PROVE Apart(x, c)
        <4>1. End(x) <= lib_end  BY <2>0 DEF Extent, Blocks
        <4> QED BY <4>1, <3>3 DEF Apart
      <3> QED BY <3>1, <3>2, <3>3, <3>5, <3>6, MallocStep
    <2>3. ASSUME used' = used PROVE Live' = Live
      BY <2>3 DEF Live
    <2>4. ASSUME NEW b \in used, free(b) PROVE Store!Next
      <3>1. used' = used \ {b}  BY <2>4 DEF free
      <3>2. ASSUME NEW x \in used, x # b PROVE Of(x, x.len) # Of(b, b.len)
        <4>1. x \in Block /\ b \in Block /\ Apart(x, b)
          BY <2>0, <3>2 DEF TypeOK, BlocksApart
        <4>2. x.len <= x.size /\ b.len <= b.size  BY <2>0 DEF Usable, Blocks
        <4>3. x.len \in Nat  BY <4>1, BlockFacts
        <4>4. Store!Apart(Of(x, x.len), Of(b, b.len))  BY <4>1, <4>2, <4>3, ExtentsApart
        <4> QED BY <4>4 DEF Store!Apart
      <3>3. Live' = Live \ {Of(b, b.len)} /\ Of(b, b.len) \in Live
        BY <3>1, <3>2 DEF Live, Of
      <3> QED BY <3>3 DEF Store!Next, Store!Free
    <2>5. CASE \/ \E r \in Requests : malloc_sbrk(r)
               \/ page_fault \/ timer_switch \/ sys_sbrk_panic \/ UNCHANGED vars
      <3>1. used' = used
        BY <2>5 DEF malloc_sbrk, page_fault, timer_switch, sys_sbrk_panic, vars
      <3> QED BY <3>1, <2>3
    <2> QED BY <2>1, <2>2, <2>4, <2>5 DEF Next, Library
  <1> QED BY <1>1, <1>2, Invariant, PTL DEF Spec, ImplementsStore, Store!StoreSpec
=============================================================================
