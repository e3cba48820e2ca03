-------------------------- MODULE KernelHeapProofs --------------------------
(***************************************************************************)
(* Proofs about kernel/heap.c, for any heap and any requests: the blocks   *)
(* tile the heap, and malloc and free implement HeapStore.                 *)
(***************************************************************************)
EXTENDS KernelHeap, TLAPS

\* Blocks further down the chain lie further up in memory.
Ordered == \A i, j \in DOMAIN list : i < j => End(list[i]) <= list[j].addr

\* The inductive invariant.
IInv == TypeOK /\ Tiles /\ Usable /\ Ordered

\* A function over 1 .. n is a sequence of length n.
LEMMA SeqOfFunction ==
    ASSUME NEW S, NEW n \in Nat, NEW f \in [1 .. n -> S]
    PROVE  f \in Seq(S) /\ Len(f) = n /\ DOMAIN f = 1 .. n
  OBVIOUS

\* ALIGN8() rounds up to a multiple of eight.
LEMMA Align8 ==
    ASSUME NEW r \in Nat
    PROVE  ALIGN8(r) \in Nat /\ ALIGN8(r) >= r /\ ALIGN8(r) % 8 = 0
  BY DEF ALIGN8

\* Sums of multiples of eight are multiples of eight.
LEMMA Mod8 ==
    ASSUME NEW x \in Nat, NEW y \in Nat, x % 8 = 0, y % 8 = 0
    PROVE  (x + y) % 8 = 0
  OBVIOUS

\* The size of a header.
LEMMA Header == BLOCK_SIZE \in Nat /\ BLOCK_SIZE > 0
  BY KernelHeapAssumption

\* What a sequence of blocks gives at each position.
LEMMA BlockFacts ==
    ASSUME TypeOK, NEW i \in DOMAIN list
    PROVE  /\ list[i] \in Block
           /\ list[i].addr \in Nat /\ list[i].size \in Nat /\ list[i].len \in Nat
           /\ End(list[i]) = list[i].addr + BLOCK_SIZE + list[i].size
           /\ End(list[i]) \in Nat
           /\ Len(list) \in Nat /\ i \in 1 .. Len(list) /\ DOMAIN list = 1 .. Len(list)
  <1>1. list \in Seq(Block) BY DEF TypeOK
  <1>2. /\ list[i] \in Block /\ Len(list) \in Nat
        /\ i \in 1 .. Len(list) /\ DOMAIN list = 1 .. Len(list)
    BY <1>1
  <1>3. list[i].addr \in Nat /\ list[i].size \in Nat /\ list[i].len \in Nat
    BY <1>2 DEF Block
  <1> QED BY <1>2, <1>3, Header DEF End

\* What heap_init() establishes.
LEMMA InitIInv == Init => IInv
  <1> SUFFICES ASSUME Init PROVE IInv
    OBVIOUS
  <1> DEFINE b == [addr |-> heap_start, size |-> heap_end - heap_start - BLOCK_SIZE,
                   free |-> TRUE, len |-> 0]
  <1>1. list = <<b>> /\ Len(list) = 1 /\ DOMAIN list = {1} /\ list[1] = b
    BY DEF Init
  <1>2. b \in Block
    BY KernelHeapAssumption DEF Block
  <1>3. TypeOK
    <2>1. list \in Seq(Block)  BY <1>1, <1>2
    <2>2. refused \in BOOLEAN  BY DEF Init
    <2> QED BY <2>1, <2>2 DEF TypeOK
  <1>4. Tiles
    BY <1>1, KernelHeapAssumption DEF Tiles, End
  <1>5. Usable
    <2>1. (heap_start + BLOCK_SIZE) % 8 = 0
      BY Mod8, KernelHeapAssumption
    <2> QED BY <1>1, <2>1, KernelHeapAssumption DEF Usable
  <1>6. Ordered
    BY <1>1 DEF Ordered
  <1> QED BY <1>3, <1>4, <1>5, <1>6 DEF IInv

\* malloc() that cuts a block preserves the invariant.
LEMMA SplitIInv ==
    ASSUME IInv, NEW r \in Requests, NEW i \in DOMAIN list, malloc_split(r, i)
    PROVE  IInv'
  <1> DEFINE n == ALIGN8(r)
             b == list[i]
             c == [addr |-> b.addr, size |-> n, free |-> FALSE, len |-> r]
             d == Rest(b, n)
             L == Len(list)
  <1>1. TypeOK /\ Tiles /\ Usable /\ Ordered /\ list \in Seq(Block) BY DEF IInv, TypeOK
  <1>2. n \in Nat /\ n >= r /\ n % 8 = 0 /\ r \in Nat
    BY Align8, KernelHeapAssumption
  <1>3. b.addr \in Nat /\ b.size \in Nat /\ L \in Nat /\ i \in 1 .. L /\ DOMAIN list = 1 .. L
    BY <1>1, BlockFacts
  <1>4. b.size >= n + BLOCK_SIZE + 8
    BY DEF malloc_split, Splits
  <1>5. /\ d.addr = b.addr + BLOCK_SIZE + n /\ d.size = b.size - n - BLOCK_SIZE
        /\ d.len = 0
        /\ c.addr = b.addr /\ c.size = n /\ c.len = r
    BY DEF Rest
  <1>6. c \in Block /\ d \in Block
    BY <1>2, <1>3, <1>4, KernelHeapAssumption DEF Block, Rest
  <1>7. list' = [k \in 1 .. L + 1 |-> IF k <= i THEN [list EXCEPT ![i] = c][k]
                                      ELSE IF k = i + 1 THEN d
                                      ELSE [list EXCEPT ![i] = c][k - 1]]
    BY <1>1, <1>3 DEF malloc_split, InsertAfter
  <1>8. list' \in [1 .. L + 1 -> Block]
    BY <1>1, <1>3, <1>6, <1>7
  <1>9. list' \in Seq(Block) /\ Len(list') = L + 1 /\ DOMAIN list' = 1 .. L + 1
    BY <1>3, <1>8, SeqOfFunction
  <1>10. /\ \A k \in 1 .. i - 1 : list'[k] = list[k]
         /\ list'[i] = c /\ list'[i + 1] = d
         /\ \A k \in i + 2 .. L + 1 : list'[k] = list[k - 1]
    BY <1>1, <1>3, <1>7
  <1> HIDE DEF c, d, n
  <1>11. End(c) = d.addr /\ End(d) = End(b) /\ End(c) <= End(b) /\ b.addr <= d.addr
         /\ End(b) \in Nat /\ d.addr \in Nat
    <2>1. End(c) = b.addr + BLOCK_SIZE + n /\ End(b) = b.addr + BLOCK_SIZE + b.size
      BY <1>5 DEF End
    <2>2. End(d) = b.addr + BLOCK_SIZE + n + BLOCK_SIZE + (b.size - n - BLOCK_SIZE)
      BY <1>5 DEF End
    <2>3. b.addr \in Nat /\ b.size \in Nat /\ n \in Nat /\ b.size >= n + BLOCK_SIZE + 8
      BY <1>2, <1>3, <1>4
    <2>4. d.addr = b.addr + BLOCK_SIZE + n  BY <1>5
    <2> HIDE DEF b
    <2> QED BY <2>1, <2>2, <2>3, <2>4, Header
  <1>12. \A k \in 1 .. L : /\ list[k].addr \in Nat /\ End(list[k]) \in Nat
                            /\ list[k].size \in Nat /\ list[k].len \in Nat
    BY <1>1, <1>3, BlockFacts
  <1>13. TypeOK'
    BY <1>9 DEF TypeOK, malloc_split
  <1>14. Tiles'
    <2>1. list'[1].addr = heap_start
      BY <1>1, <1>3, <1>5, <1>10 DEF Tiles
    <2>2. End(list'[L + 1]) = heap_end
      BY <1>1, <1>3, <1>10, <1>11 DEF Tiles
    <2>3. ASSUME NEW k \in 1 .. L PROVE End(list'[k]) = list'[k + 1].addr
      <3>1. CASE k < i - 1  BY <3>1, <1>1, <1>3, <1>10 DEF Tiles
      <3>2. CASE k = i - 1  BY <3>2, <1>1, <1>3, <1>5, <1>10 DEF Tiles
      <3>3. CASE k = i      BY <3>3, <1>3, <1>10, <1>11
      <3>4. CASE k = i + 1  BY <3>4, <1>1, <1>3, <1>10, <1>11 DEF Tiles
      <3>5. CASE k > i + 1
        <4>1. list'[k] = list[k - 1] /\ list'[k + 1] = list[k] /\ k - 1 \in 1 .. L - 1
          BY <3>5, <1>3, <1>10
        <4> QED BY <4>1, <1>1, <1>3 DEF Tiles
      <3> QED BY <3>1, <3>2, <3>3, <3>4, <3>5, <1>3
    <2> QED BY <1>3, <1>9, <2>1, <2>2, <2>3 DEF Tiles, End
  <1>15. Usable'
    <2>1. (d.addr + BLOCK_SIZE) % 8 = 0
      <3>1. (b.addr + BLOCK_SIZE) % 8 = 0  BY <1>1, <1>3 DEF Usable
      <3>2. (b.addr + BLOCK_SIZE + n) % 8 = 0
        <4>1. b.addr + BLOCK_SIZE \in Nat  BY <1>3, Header
        <4> HIDE DEF b, n
        <4> QED BY <4>1, <3>1, <1>2, Mod8
      <3>3. (b.addr + BLOCK_SIZE + n + BLOCK_SIZE) % 8 = 0
        <4>1. b.addr + BLOCK_SIZE + n \in Nat /\ BLOCK_SIZE % 8 = 0
          BY <1>2, <1>3, Header, KernelHeapAssumption
        <4> QED BY <4>1, <3>2, Header, Mod8
      <3> QED BY <3>3, <1>5
    <2>2. d.len <= d.size  BY <1>2, <1>3, <1>4, <1>5, Header
    <2>3. ASSUME NEW k \in 1 .. L + 1
          PROVE  (list'[k].addr + BLOCK_SIZE) % 8 = 0 /\ list'[k].len <= list'[k].size
      <3>1. CASE k < i      BY <3>1, <1>1, <1>3, <1>10 DEF Usable
      <3>2. CASE k = i      BY <3>2, <1>1, <1>2, <1>3, <1>5, <1>10 DEF Usable
      <3>3. CASE k = i + 1  BY <3>3, <2>1, <2>2, <1>3, <1>10
      <3>4. CASE k > i + 1
        <4>1. list'[k] = list[k - 1] /\ k - 1 \in 1 .. L
          BY <3>4, <1>3, <1>10
        <4> QED BY <4>1, <1>1, <1>3 DEF Usable
      <3> QED BY <3>1, <3>2, <3>3, <3>4, <1>3
    <2> QED BY <1>9, <2>3 DEF Usable
  <1>16. Ordered'
    <2>1. ASSUME NEW j \in 1 .. L + 1, NEW k \in 1 .. L + 1, j < k
          PROVE  End(list'[j]) <= list'[k].addr
      <3> DEFINE old(x) == IF x <= i THEN x ELSE x - 1
      <3>1. old(j) \in 1 .. L /\ old(k) \in 1 .. L /\ old(j) <= old(k)
        BY <2>1, <1>3
      <3>2. End(list'[j]) <= End(list[old(j)]) /\ End(list'[j]) \in Nat
        <4>1. CASE j < i
          <5>1. list'[j] = list[j] /\ old(j) = j /\ j \in 1 .. L  BY <4>1, <1>3, <1>10
          <5> QED BY <5>1, <1>12
        <4>2. CASE j = i      BY <4>2, <1>3, <1>10, <1>11
        <4>3. CASE j = i + 1  BY <4>3, <1>3, <1>10, <1>11
        <4>4. CASE j > i + 1
          <5>1. list'[j] = list[j - 1] /\ old(j) = j - 1  BY <4>4, <1>3, <1>10
          <5> QED BY <5>1, <3>1, <1>12
        <4> QED BY <4>1, <4>2, <4>3, <4>4, <1>3
      <3>3. list[old(k)].addr <= list'[k].addr /\ list'[k].addr \in Nat
        <4>1. CASE k < i
          <5>1. old(k) = k /\ list'[k] = list[k]  BY <4>1, <1>3, <1>10
          <5> QED BY <5>1, <3>1, <1>12
        <4>2. CASE k = i
          <5>1. old(k) = i /\ list'[k] = c  BY <4>2, <1>3, <1>10
          <5> QED BY <5>1, <1>3, <1>5
        <4>3. CASE k = i + 1
          <5>1. old(k) = i /\ list'[k] = d  BY <4>3, <1>3, <1>10
          <5> QED BY <5>1, <1>3, <1>11
        <4>4. CASE k > i + 1
          <5>1. list'[k] = list[k - 1] /\ old(k) = k - 1  BY <4>4, <1>3, <1>10
          <5> QED BY <5>1, <3>1, <1>12
        <4> QED BY <4>1, <4>2, <4>3, <4>4, <1>3
      <3>4. CASE old(j) < old(k)
        <4>1. End(list[old(j)]) <= list[old(k)].addr
          BY <3>1, <3>4, <1>1, <1>3 DEF Ordered
        <4> HIDE DEF old
        <4> QED BY <4>1, <3>1, <3>2, <3>3, <1>12
      <3>5. CASE old(j) = old(k)
        <4>1. j = i /\ k = i + 1  BY <3>5, <2>1, <1>3
        <4> QED BY <4>1, <1>10, <1>11
      <3> QED BY <3>1, <3>4, <3>5
    <2> QED BY <1>9, <2>1 DEF Ordered, End
  <1> QED BY <1>13, <1>14, <1>15, <1>16 DEF IInv

\* malloc() that takes a whole block, and free() without a merge, change no size
\* and no address.
LEMMA RelabelIInv ==
    ASSUME IInv, NEW i \in DOMAIN list, NEW f \in BOOLEAN, NEW l \in 0 .. list[i].size,
           list' = [list EXCEPT ![i] = [addr |-> list[i].addr, size |-> list[i].size,
                                        free |-> f, len |-> l]],
           refused' \in BOOLEAN
    PROVE  IInv'
  <1> DEFINE c == [addr |-> list[i].addr, size |-> list[i].size, free |-> f, len |-> l]
             L == Len(list)
  <1>1. TypeOK /\ Tiles /\ Usable /\ Ordered /\ list \in Seq(Block) BY DEF IInv, TypeOK
  <1>2. /\ list[i].addr \in Nat /\ list[i].size \in Nat
        /\ L \in Nat /\ i \in 1 .. L /\ DOMAIN list = 1 .. L
    BY <1>1, BlockFacts
  <1>3. c \in Block
    BY <1>2 DEF Block
  <1>4. list' \in Seq(Block) /\ Len(list') = L /\ DOMAIN list' = 1 .. L
    BY <1>1, <1>2, <1>3
  <1>5. \A k \in 1 .. L : list'[k].addr = list[k].addr /\ list'[k].size = list[k].size
    BY <1>1, <1>2
  <1>6. \A k \in 1 .. L : (k # i => list'[k].len = list[k].len) /\ list'[i].len = l
    BY <1>1, <1>2
  <1>7. \A k \in 1 .. L : list'[k].addr + BLOCK_SIZE + list'[k].size
                           = list[k].addr + BLOCK_SIZE + list[k].size
    BY <1>5
  <1>8. TypeOK'
    BY <1>4 DEF TypeOK
  <1>9. Tiles'
    BY <1>1, <1>2, <1>4, <1>5, <1>7 DEF Tiles, End
  <1>10. Usable'
    BY <1>1, <1>2, <1>4, <1>5, <1>6 DEF Usable
  <1>11. Ordered'
    BY <1>1, <1>2, <1>4, <1>5, <1>7 DEF Ordered, End
  <1> QED BY <1>8, <1>9, <1>10, <1>11 DEF IInv

\* free() that absorbs the next block preserves the invariant.
LEMMA MergeIInv ==
    ASSUME IInv, NEW i \in DOMAIN list, free_merge(i)
    PROVE  IInv'
  <1> DEFINE b == list[i]
             e == list[i + 1]
             c == [addr |-> b.addr, size |-> Merged(b, e), free |-> TRUE, len |-> 0]
             L == Len(list)
  <1>1. TypeOK /\ Tiles /\ Usable /\ Ordered /\ list \in Seq(Block) BY DEF IInv, TypeOK
  <1>2. /\ L \in Nat /\ i \in 1 .. L - 1 /\ DOMAIN list = 1 .. L
    BY <1>1, BlockFacts DEF free_merge, FreeNext
  <1>3. \A k \in 1 .. L : /\ list[k].addr \in Nat /\ list[k].size \in Nat
                           /\ list[k].len \in Nat /\ End(list[k]) \in Nat
    BY <1>1, <1>2, BlockFacts
  <1>4. b.addr \in Nat /\ b.size \in Nat /\ e.addr \in Nat /\ e.size \in Nat
    BY <1>2, <1>3
  <1>5. c.addr = b.addr /\ c.size = b.size + BLOCK_SIZE + e.size /\ c.len = 0
    BY DEF Merged
  <1>6. c \in Block
    BY <1>4, Header DEF Block, Merged
  <1>7. list' = [k \in 1 .. L - 1 |-> IF k <= i THEN [list EXCEPT ![i] = c][k]
                                      ELSE [list EXCEPT ![i] = c][k + 1]]
    BY <1>1, <1>2 DEF free_merge, RemoveAfter
  <1>8. list' \in [1 .. L - 1 -> Block]
    BY <1>1, <1>2, <1>6, <1>7
  <1>9. list' \in Seq(Block) /\ Len(list') = L - 1 /\ DOMAIN list' = 1 .. L - 1
    <2>1. L - 1 \in Nat  BY <1>2
    <2> HIDE DEF L
    <2> QED BY <2>1, <1>8, SeqOfFunction
  <1>10. /\ \A k \in 1 .. i - 1 : list'[k] = list[k]
         /\ list'[i] = c
         /\ \A k \in i + 1 .. L - 1 : list'[k] = list[k + 1]
    BY <1>1, <1>2, <1>7
  <1> HIDE DEF c
  <1>11. End(c) = End(e)
    <2>1. End(c) = b.addr + BLOCK_SIZE + (b.size + BLOCK_SIZE + e.size)
      BY <1>5 DEF End
    <2>2. e.addr = b.addr + BLOCK_SIZE + b.size
      BY <1>1, <1>2 DEF Tiles, End
    <2>3. End(e) = e.addr + BLOCK_SIZE + e.size
      BY DEF End
    <2> HIDE DEF b, e
    <2> QED BY <2>1, <2>2, <2>3, <1>4, Header
  <1>12. TypeOK'
    <2>1. refused' \in BOOLEAN  BY <1>1 DEF TypeOK, free_merge
    <2> QED BY <1>9, <2>1 DEF TypeOK
  <1>13. Tiles'
    <2>1. list'[1].addr = heap_start
      BY <1>1, <1>2, <1>5, <1>10 DEF Tiles
    <2>2. End(list'[L - 1]) = heap_end
      <3>1. CASE i = L - 1  BY <3>1, <1>1, <1>2, <1>10, <1>11 DEF Tiles
      <3>2. CASE i < L - 1  BY <3>2, <1>1, <1>2, <1>10 DEF Tiles
      <3> QED BY <3>1, <3>2, <1>2
    <2>3. ASSUME NEW k \in 1 .. L - 2 PROVE End(list'[k]) = list'[k + 1].addr
      <3>1. CASE k < i - 1  BY <3>1, <1>1, <1>2, <1>10 DEF Tiles
      <3>2. CASE k = i - 1
        <4>1. list'[k] = list[k] /\ list'[k + 1] = c  BY <3>2, <1>2, <1>10
        <4> QED BY <4>1, <3>2, <1>1, <1>2, <1>5 DEF Tiles
      <3>3. CASE k = i
        <4>1. list'[k] = c /\ list'[k + 1] = list[k + 2]  BY <3>3, <1>2, <1>10
        <4> QED BY <4>1, <3>3, <1>1, <1>2, <1>11 DEF Tiles
      <3>4. CASE k > i
        <4>1. list'[k] = list[k + 1] /\ list'[k + 1] = list[k + 2] /\ k + 1 \in 1 .. L - 1
          BY <3>4, <1>2, <1>10
        <4> QED BY <4>1, <1>1, <1>2 DEF Tiles
      <3> QED BY <3>1, <3>2, <3>3, <3>4, <1>2
    <2> QED BY <1>2, <1>9, <2>1, <2>2, <2>3 DEF Tiles, End
  <1>14. Usable'
    <2>1. ASSUME NEW k \in 1 .. L - 1
          PROVE  (list'[k].addr + BLOCK_SIZE) % 8 = 0 /\ list'[k].len <= list'[k].size
      <3>1. CASE k < i  BY <3>1, <1>1, <1>2, <1>10 DEF Usable
      <3>2. CASE k = i
        <4>1. (b.addr + BLOCK_SIZE) % 8 = 0  BY <1>1, <1>2 DEF Usable
        <4>2. c.len <= c.size  BY <1>4, <1>5, Header
        <4> QED BY <3>2, <4>1, <4>2, <1>5, <1>10
      <3>3. CASE k > i
        <4>1. list'[k] = list[k + 1] /\ k + 1 \in 1 .. L  BY <3>3, <1>2, <1>10
        <4> QED BY <4>1, <1>1, <1>2 DEF Usable
      <3> QED BY <3>1, <3>2, <3>3, <1>2
    <2> QED BY <1>9, <2>1 DEF Usable
  <1>15. Ordered'
    <2>1. ASSUME NEW j \in 1 .. L - 1, NEW k \in 1 .. L - 1, j < k
          PROVE  End(list'[j]) <= list'[k].addr
      <3>1. PICK jj \in 1 .. L : /\ End(list'[j]) = End(list[jj])
                                 /\ jj = IF j < i THEN j ELSE j + 1
        <4>1. CASE j < i  BY <4>1, <1>2, <1>10
        <4>2. CASE j = i  BY <4>2, <1>2, <1>10, <1>11
        <4>3. CASE j > i  BY <4>3, <1>2, <1>10
        <4> QED BY <4>1, <4>2, <4>3, <1>2
      <3>2. PICK kk \in 1 .. L : /\ list'[k].addr = list[kk].addr
                                 /\ kk = IF k <= i THEN k ELSE k + 1
        <4>1. CASE k < i  BY <4>1, <1>2, <1>10
        <4>2. CASE k = i  BY <4>2, <1>2, <1>5, <1>10
        <4>3. CASE k > i  BY <4>3, <1>2, <1>10
        <4> QED BY <4>1, <4>2, <4>3, <1>2
      <3>3. jj < kk  BY <2>1, <3>1, <3>2, <1>2
      <3> QED BY <3>1, <3>2, <3>3, <1>1, <1>2 DEF Ordered
    <2> QED BY <1>9, <2>1 DEF Ordered, End
  <1> QED BY <1>12, <1>13, <1>14, <1>15 DEF IInv

\* Every step preserves the invariant.
LEMMA NextIInv == IInv /\ [Next]_vars => IInv'
  <1> SUFFICES ASSUME IInv, [Next]_vars PROVE IInv'
    OBVIOUS
  <1>0. TypeOK /\ Usable  BY DEF IInv
  <1>1. ASSUME NEW r \in Requests, NEW i \in DOMAIN list, malloc_split(r, i) PROVE IInv'
    BY <1>1, SplitIInv
  <1>2. ASSUME NEW r \in Requests, NEW i \in DOMAIN list, malloc_whole(r, i) PROVE IInv'
    <2>1. r \in 0 .. list[i].size
      <3>1. ALIGN8(r) \in Nat /\ ALIGN8(r) >= r /\ r \in Nat
        BY Align8, KernelHeapAssumption
      <3>2. list[i].size >= ALIGN8(r)  BY <1>2 DEF malloc_whole, FirstFit, Fits
      <3> QED BY <3>1, <3>2, <1>0, BlockFacts
    <2>2. list' = [list EXCEPT ![i] = [addr |-> list[i].addr, size |-> list[i].size,
                                       free |-> FALSE, len |-> r]]
          /\ refused' \in BOOLEAN
      BY <1>2 DEF malloc_whole
    <2> QED BY <2>1, <2>2, RelabelIInv
  <1>3. ASSUME NEW r \in Requests, malloc_null(r) PROVE IInv'
    BY <1>3 DEF malloc_null, IInv, TypeOK, Tiles, Usable, Ordered, End
  <1>4. ASSUME NEW i \in DOMAIN list, free_only(i) PROVE IInv'
    <2>1. 0 \in 0 .. list[i].size  BY <1>0, BlockFacts
    <2>2. list' = [list EXCEPT ![i] = [addr |-> list[i].addr, size |-> list[i].size,
                                       free |-> TRUE, len |-> 0]]
      BY <1>4 DEF free_only
    <2>3. refused' \in BOOLEAN  BY <1>4, <1>0 DEF free_only, TypeOK
    <2> QED BY <2>1, <2>2, <2>3, RelabelIInv
  <1>5. ASSUME NEW i \in DOMAIN list, free_merge(i) PROVE IInv'
    BY <1>5, MergeIInv
  <1>6. CASE UNCHANGED vars
    BY <1>6 DEF vars, IInv, TypeOK, Tiles, Usable, Ordered, End
  <1> QED BY <1>1, <1>2, <1>3, <1>4, <1>5, <1>6 DEF Next

\* The invariant holds throughout.
LEMMA Invariant == Spec => []IInv
  <1> QED BY InitIInv, NextIInv, PTL DEF Spec

\* The list is always a list of blocks with sizes that did not go below zero.
THEOREM TypeCorrect == Spec => []TypeOK
  <1>1. IInv => TypeOK BY DEF IInv
  <1> QED BY Invariant, <1>1, PTL

\* The blocks of kernel/heap.c tile the heap whatever malloc() and free() do:
\* cutting and merging lose no memory and make no blocks overlap.
THEOREM BlocksTile == Spec => []Tiles
  <1>1. IInv => Tiles BY DEF IInv
  <1> QED BY Invariant, <1>1, PTL

\* Whatever malloc() returns is aligned and has the size asked for.
THEOREM AlwaysUsable == Spec => []Usable
  <1>1. IInv => Usable BY DEF IInv
  <1> QED BY Invariant, <1>1, PTL

-----------------------------------------------------------------------------
\* The extent of r bytes at the payload of position i.
At(i, r) == [ptr |-> list[i].addr + BLOCK_SIZE, len |-> r]

\* Extents in different blocks are apart.
LEMMA ExtentsApart ==
    ASSUME IInv, NEW i \in DOMAIN list, NEW k \in DOMAIN list, i # k,
           NEW r \in Nat, r <= list[i].size
    PROVE  Store!Apart(At(i, r), At(k, list[k].len))
  <1>1. TypeOK /\ Ordered /\ Usable  BY DEF IInv
  <1>2. /\ list[i].addr \in Nat /\ list[i].size \in Nat /\ i \in Int
        /\ End(list[i]) = list[i].addr + BLOCK_SIZE + list[i].size
    BY <1>1, BlockFacts
  <1>3. /\ list[k].addr \in Nat /\ list[k].size \in Nat /\ list[k].len \in Nat /\ k \in Int
        /\ End(list[k]) = list[k].addr + BLOCK_SIZE + list[k].size
    BY <1>1, BlockFacts
  <1>4. list[k].len <= list[k].size  BY <1>1 DEF Usable
  <1>5. End(list[i]) <= list[k].addr \/ End(list[k]) <= list[i].addr
    BY <1>1, <1>2, <1>3 DEF Ordered
  <1>6. /\ list[i].addr + BLOCK_SIZE # list[k].addr + BLOCK_SIZE
        /\ \/ list[i].addr + BLOCK_SIZE + r <= list[k].addr + BLOCK_SIZE
           \/ list[k].addr + BLOCK_SIZE + list[k].len <= list[i].addr + BLOCK_SIZE
    BY <1>2, <1>3, <1>4, <1>5, Header
  <1> QED BY <1>6 DEF Store!Apart, At

\* A block that malloc() takes was free, so its extent is new to the program.
LEMMA MallocStep ==
    ASSUME IInv, NEW i \in DOMAIN list, list[i].free, NEW r \in Requests,
           r <= list[i].size, Live' = Live \cup {At(i, r)}
    PROVE  Store!Next
  <1>1. At(i, r) \in Live' /\ At(i, r).ptr % 8 = 0  BY DEF IInv, Usable, At
  <1>2. ASSUME NEW y \in Live PROVE Store!Apart(At(i, r), y)
    <2>1. PICK k \in DOMAIN list : ~list[k].free /\ y = At(k, list[k].len)
      BY DEF Live, At
    <2>2. r \in Nat  BY KernelHeapAssumption
    <2> QED BY <2>1, <2>2, ExtentsApart
  <1>3. Store!Malloc(At(i, r))
    BY <1>1, <1>2 DEF Store!Malloc
  <1> QED BY <1>1, <1>3 DEF Store!Next

\* Cutting a block adds its extent to those the program holds.
LEMMA SplitLive ==
    ASSUME IInv, NEW r \in Requests, NEW i \in DOMAIN list, malloc_split(r, i)
    PROVE  Live' = Live \cup {At(i, r)}
  <1> DEFINE L == Len(list)
             c == [addr |-> list[i].addr, size |-> ALIGN8(r), free |-> FALSE, len |-> r]
             d == Rest(list[i], ALIGN8(r))
  <1>1. TypeOK /\ list \in Seq(Block)  BY DEF IInv, TypeOK
  <1>2. L \in Nat /\ i \in 1 .. L /\ DOMAIN list = 1 .. L  BY <1>1, BlockFacts
  <1>3. list' = [k \in 1 .. L + 1 |-> IF k <= i THEN [list EXCEPT ![i] = c][k]
                                      ELSE IF k = i + 1 THEN d
                                      ELSE [list EXCEPT ![i] = c][k - 1]]
    BY <1>1, <1>2 DEF malloc_split, InsertAfter
  <1>4. DOMAIN list' = 1 .. L + 1  BY <1>3
  <1>5. /\ \A k \in 1 .. i - 1 : list'[k] = list[k]
        /\ list'[i] = c /\ list'[i + 1] = d
        /\ \A k \in i + 2 .. L + 1 : list'[k] = list[k - 1]
    BY <1>1, <1>2, <1>3
  <1>6. ~c.free /\ c.addr = list[i].addr /\ c.len = r /\ d.free  BY DEF Rest
  <1> HIDE DEF c, d
  <1>7. list[i].free  BY DEF malloc_split, FirstFit, Fits
  <1>8. ASSUME NEW y \in Live' PROVE y \in Live \cup {At(i, r)}
    <2>1. PICK k \in DOMAIN list' : ~list'[k].free
             /\ y = [ptr |-> list'[k].addr + BLOCK_SIZE, len |-> list'[k].len]
      BY <1>8 DEF Live
    <2>2. CASE k < i
      <3>1. k \in 1 .. L /\ list'[k] = list[k]  BY <2>2, <1>2, <1>4, <1>5
      <3> QED BY <3>1, <2>1, <1>2 DEF Live
    <2>3. CASE k = i
      BY <2>1, <2>3, <1>5, <1>6 DEF At
    <2>4. CASE k = i + 1
      BY <2>1, <2>4, <1>5, <1>6
    <2>5. CASE k > i + 1
      <3>1. k - 1 \in 1 .. L /\ list'[k] = list[k - 1]  BY <2>5, <1>2, <1>4, <1>5
      <3> QED BY <3>1, <2>1, <1>2 DEF Live
    <2> QED BY <2>2, <2>3, <2>4, <2>5, <1>2, <1>4
  <1>9. At(i, r) \in Live'
    <2>1. i \in DOMAIN list'  BY <1>2, <1>4
    <2> QED BY <2>1, <1>5, <1>6 DEF Live, At
  <1>10. ASSUME NEW y \in Live PROVE y \in Live'
    <2>1. PICK k \in DOMAIN list : ~list[k].free
             /\ y = [ptr |-> list[k].addr + BLOCK_SIZE, len |-> list[k].len]
      BY <1>10 DEF Live
    <2>2. CASE k < i
      <3>1. k \in DOMAIN list' /\ list'[k] = list[k]  BY <2>2, <1>2, <1>4, <1>5
      <3> QED BY <3>1, <2>1 DEF Live
    <2>3. CASE k = i
      BY <2>1, <2>3, <1>7
    <2>4. CASE k > i
      <3>1. k + 1 \in DOMAIN list' /\ k + 1 \in i + 2 .. L + 1 /\ (k + 1) - 1 = k
        BY <2>4, <1>2, <1>4
      <3>2. list'[k + 1] = list[k]  BY <3>1, <1>5
      <3> QED BY <3>1, <3>2, <2>1 DEF Live
    <2> QED BY <2>2, <2>3, <2>4, <1>2
  <1> QED BY <1>8, <1>9, <1>10

\* Taking a whole block adds its extent, freeing one without a merge removes it.
LEMMA RelabelLive ==
    ASSUME IInv, NEW i \in DOMAIN list, NEW f \in BOOLEAN, NEW l,
           list' = [list EXCEPT ![i] = [addr |-> list[i].addr, size |-> list[i].size,
                                        free |-> f, len |-> l]]
    PROVE  /\ list[i].free /\ ~f => Live' = Live \cup {At(i, l)}
           /\ ~list[i].free /\ f => Live' = Live \ {At(i, list[i].len)}
  <1>1. TypeOK /\ list \in Seq(Block) /\ Usable  BY DEF IInv, TypeOK
  <1>2. /\ DOMAIN list' = DOMAIN list
        /\ \A k \in DOMAIN list \ {i} : list'[k] = list[k]
        /\ list'[i].addr = list[i].addr /\ list'[i].free = f /\ list'[i].len = l
    BY <1>1
  <1>3. \A k \in DOMAIN list \ {i} : At(i, list[i].len) # At(k, list[k].len)
    <2> SUFFICES ASSUME NEW k \in DOMAIN list, k # i
                 PROVE  At(i, list[i].len) # At(k, list[k].len)
      OBVIOUS
    <2>1. list[i].len \in Nat /\ list[i].len <= list[i].size
      BY <1>1, BlockFacts DEF Usable
    <2>2. Store!Apart(At(i, list[i].len), At(k, list[k].len))
      BY <2>1, ExtentsApart
    <2> QED BY <2>2 DEF Store!Apart
  <1>4. Live' = {[ptr |-> list'[k].addr + BLOCK_SIZE, len |-> list'[k].len] :
                    k \in {k \in DOMAIN list' : ~list'[k].free}}
    BY DEF Live
  <1>5. ASSUME list[i].free, ~f PROVE Live' = Live \cup {At(i, l)}
    BY <1>2, <1>4, <1>5 DEF Live, At
  <1>6. ASSUME ~list[i].free, f PROVE Live' = Live \ {At(i, list[i].len)}
    BY <1>2, <1>3, <1>4, <1>6 DEF Live, At
  <1> QED BY <1>5, <1>6

\* A merge removes the extent of the freed block and no other.
LEMMA MergeLive ==
    ASSUME IInv, NEW i \in DOMAIN list, free_merge(i)
    PROVE  Live' = Live \ {At(i, list[i].len)} /\ At(i, list[i].len) \in Live
  <1> DEFINE L == Len(list)
             c == [addr |-> list[i].addr, size |-> Merged(list[i], list[i + 1]),
                   free |-> TRUE, len |-> 0]
  <1>1. TypeOK /\ list \in Seq(Block) /\ Usable  BY DEF IInv, TypeOK
  <1>2. L \in Nat /\ i \in 1 .. L - 1 /\ DOMAIN list = 1 .. L
    BY <1>1, BlockFacts DEF free_merge, FreeNext
  <1>3. list' = [k \in 1 .. L - 1 |-> IF k <= i THEN [list EXCEPT ![i] = c][k]
                                      ELSE [list EXCEPT ![i] = c][k + 1]]
    BY <1>1, <1>2 DEF free_merge, RemoveAfter
  <1>4. DOMAIN list' = 1 .. L - 1  BY <1>3
  <1>5. /\ \A k \in 1 .. i - 1 : list'[k] = list[k]
        /\ list'[i] = c
        /\ \A k \in i + 1 .. L - 1 : list'[k] = list[k + 1]
    BY <1>1, <1>2, <1>3
  <1>6. c.free /\ ~list[i].free /\ list[i + 1].free  BY DEF free_merge, FreeNext
  <1> HIDE DEF c
  <1>7. ASSUME NEW k \in DOMAIN list, k # i
        PROVE  At(i, list[i].len) # At(k, list[k].len)
    <2>1. list[i].len \in Nat /\ list[i].len <= list[i].size
      BY <1>1, BlockFacts DEF Usable
    <2>2. Store!Apart(At(i, list[i].len), At(k, list[k].len))
      BY <2>1, <1>7, ExtentsApart
    <2> QED BY <2>2 DEF Store!Apart
  <1>8. ASSUME NEW y \in Live' PROVE y \in Live \ {At(i, list[i].len)}
    <2>1. PICK k \in DOMAIN list' : ~list'[k].free
             /\ y = [ptr |-> list'[k].addr + BLOCK_SIZE, len |-> list'[k].len]
      BY <1>8 DEF Live
    <2>2. PICK j \in DOMAIN list \ {i} : list'[k] = list[j]
      <3>1. CASE k < i  BY <3>1, <1>2, <1>4, <1>5
      <3>2. CASE k = i  BY <3>2, <2>1, <1>5, <1>6
      <3>3. CASE k > i
        <4>1. k + 1 \in DOMAIN list \ {i} /\ list'[k] = list[k + 1]
          BY <3>3, <1>2, <1>4, <1>5
        <4> QED BY <4>1
      <3> QED BY <3>1, <3>2, <3>3, <1>2, <1>4
    <2>3. y = At(j, list[j].len) /\ ~list[j].free  BY <2>1, <2>2 DEF At
    <2>4. y \in Live  BY <2>3 DEF Live, At
    <2> QED BY <2>3, <2>4, <1>7
  <1>9. ASSUME NEW y \in Live, y # At(i, list[i].len) PROVE y \in Live'
    <2>1. PICK k \in DOMAIN list : ~list[k].free /\ y = At(k, list[k].len)
      BY <1>9 DEF Live, At
    <2>2. k # i /\ k # i + 1  BY <2>1, <1>6, <1>9
    <2>3. PICK j \in DOMAIN list' : list'[j] = list[k]
      <3>1. CASE k < i  BY <3>1, <1>2, <1>4, <1>5
      <3>2. CASE k > i + 1
        <4>1. k - 1 \in i + 1 .. L - 1 /\ k - 1 \in DOMAIN list' /\ (k - 1) + 1 = k
          BY <3>2, <1>2, <1>4
        <4>2. list'[k - 1] = list[k]  BY <4>1, <1>5
        <4> QED BY <4>1, <4>2
      <3> QED BY <3>1, <3>2, <2>2, <1>2
    <2> QED BY <2>1, <2>3 DEF Live, At
  <1>10. At(i, list[i].len) \in Live  BY <1>6 DEF Live, At
  <1> QED BY <1>8, <1>9, <1>10

\* kernel/heap.c implements HeapStore, for every heap and every sequence of
\* requests: memory that is handed out overlaps nothing the program holds.
THEOREM Refinement == Spec => ImplementsStore
  <1>1. Init => Store!Init
    <2> SUFFICES ASSUME Init PROVE Live = {}
      BY DEF Store!Init
    <2>1. DOMAIN list = {1} /\ list[1].free  BY DEF Init
    <2> QED BY <2>1 DEF Live
  <1>2. IInv /\ [Next]_vars => [Store!Next]_Live
    <2> SUFFICES ASSUME IInv, [Next]_vars PROVE Store!Next \/ Live' = Live
      OBVIOUS
    <2>0. TypeOK  BY DEF IInv
    <2>1. ASSUME NEW r \in Requests, NEW i \in DOMAIN list,
                 malloc_split(r, i) \/ malloc_whole(r, i)
          PROVE  Store!Next
      <3>1. list[i].free /\ list[i].size >= ALIGN8(r)
        BY <2>1 DEF malloc_split, malloc_whole, FirstFit, Fits
      <3>2. r <= list[i].size
        <4>1. ALIGN8(r) \in Nat /\ ALIGN8(r) >= r /\ r \in Nat
          BY Align8, KernelHeapAssumption
        <4>2. list[i].size \in Nat  BY <2>0, BlockFacts
        <4> QED BY <4>1, <4>2, <3>1
      <3>3. Live' = Live \cup {At(i, r)}
        <4>1. CASE malloc_split(r, i)  BY <4>1, SplitLive
        <4>2. CASE malloc_whole(r, i)
          <5>1. list' = [list EXCEPT ![i] = [addr |-> list[i].addr, size |-> list[i].size,
                                             free |-> FALSE, len |-> r]]
            BY <4>2 DEF malloc_whole
          <5> QED BY <5>1, <3>1, RelabelLive
        <4> QED BY <2>1, <4>1, <4>2
      <3> QED BY <3>1, <3>2, <3>3, MallocStep
    <2>2. ASSUME NEW r \in Requests, malloc_null(r) PROVE Live' = Live
      BY <2>2 DEF malloc_null, Live
    <2>3. ASSUME NEW i \in DOMAIN list, free_only(i) PROVE Store!Next
      <3>1. list' = [list EXCEPT ![i] = [addr |-> list[i].addr, size |-> list[i].size,
                                         free |-> TRUE, len |-> 0]]
            /\ ~list[i].free
        BY <2>3 DEF free_only
      <3>2. Live' = Live \ {At(i, list[i].len)}  BY <3>1, RelabelLive
      <3>3. At(i, list[i].len) \in Live  BY <3>1 DEF Live, At
      <3> QED BY <3>2, <3>3 DEF Store!Next, Store!Free
    <2>4. ASSUME NEW i \in DOMAIN list, free_merge(i) PROVE Store!Next
      BY <2>4, MergeLive DEF Store!Next, Store!Free
    <2>5. CASE UNCHANGED vars
      BY <2>5 DEF vars, Live
    <2> QED BY <2>1, <2>2, <2>3, <2>4, <2>5 DEF Next
  <1> QED BY <1>1, <1>2, Invariant, PTL DEF Spec, ImplementsStore, Store!StoreSpec
=============================================================================
