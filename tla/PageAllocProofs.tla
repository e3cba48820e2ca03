-------------------------- MODULE PageAllocProofs --------------------------
(***************************************************************************)
(* Proofs about module PageAlloc, for every size of memory, of block and   *)
(* of tracker table, and every set of process ids.                         *)
(*                                                                         *)
(* The allocator is correct because three views of memory agree at every   *)
(* step: the free list, the blocks the callers hold, and the entries of    *)
(* the tracker, each of which stands for the first page of its own block.  *)
(* The lemmas say what a push, a pop, track_alloc and track_free do to one *)
(* view; the invariant ties the views together.                            *)
(***************************************************************************)
EXTENDS PageAlloc, SetLemmas

-----------------------------------------------------------------------------
(* The inductive invariant                                                  *)

\* Two blocks share no frame.
Apart(B) == \A b, c \in B : b # c => Frames(b) \cap Frames(c) = {}

\* Every active entry is for one page, the first of a block of its owner, and no
\* two entries are for the same page.
TrackerOK(t, B) ==
    /\ \A i \in Entry : t[i].used =>
          /\ t[i].npages = 1
          /\ \E b \in B : b.pa = t[i].pa /\ b.owner = t[i].owner
    /\ \A i, j \in Entry : t[i].used /\ t[j].used /\ t[i].pa = t[j].pa => i = j

\* The two halves of PagesAccountedFor.
Conserved      == {p \in Page : p < next_paddr} = Range(free_list) \cup Held \cup lost
FreeCountExact == g_free_pages = Len(free_list)

\* What a loop under way has still to free is a block, and a panic ends no loop.
LoopOK ==
    /\ op.kind = "range" =>
          /\ op.i < op.n
          /\ \E b \in blocks : b.pa = op.pa + op.i /\ b.n = op.n - op.i
    /\ op.kind = "sweep" => op.i \in Entry
    /\ op.kind # "none" => ~panicked

IInv ==
    /\ TypeOK
    /\ Apart(blocks)
    /\ Held \cap lost = {}
    /\ FreeListSound
    /\ Conserved
    /\ FreeCountExact
    /\ TrackerOK(alloc_table, blocks)
    /\ LoopOK
    /\ ~panicked => next_paddr <= NPAGES + 1

-----------------------------------------------------------------------------
(* The free list                                                            *)

\* A page pushed on a list that does not hold it: the list stays free of
\* duplicates.
LEMMA PushList ==
    ASSUME NEW s \in Seq(Page), NEW pa \in Page, IsInjective(s), pa \notin Range(s)
    PROVE  /\ <<pa>> \o s \in Seq(Page)
           /\ Range(<<pa>> \o s) = Range(s) \cup {pa}
           /\ IsInjective(<<pa>> \o s)
           /\ Len(<<pa>> \o s) = Len(s) + 1
<1> DEFINE u == <<pa>> \o s
<1>1. u \in Seq(Page) /\ Len(u) = Len(s) + 1
  OBVIOUS
<1>2. u[1] = pa /\ \A k \in 1..Len(s) : u[k + 1] = s[k]
  OBVIOUS
<1>3. DOMAIN u = 1..(Len(s) + 1) /\ DOMAIN s = 1..Len(s) /\ Len(s) \in Nat
  OBVIOUS
<1> HIDE DEF u
<1>4. \A k \in DOMAIN u : k = 1 \/ (k - 1 \in DOMAIN s /\ u[k] = s[k - 1])
  BY <1>2, <1>3
<1>5. Range(u) = Range(s) \cup {pa}
  <2>1. Range(u) \subseteq Range(s) \cup {pa}
    BY <1>2, <1>4 DEF Range
  <2>2. pa \in Range(u)
    BY <1>2, <1>3 DEF Range
  <2>3. ASSUME NEW k \in DOMAIN s
        PROVE  s[k] \in Range(u)
    BY <1>2, <1>3 DEF Range
  <2> QED
    BY <2>1, <2>2, <2>3 DEF Range
<1>6. IsInjective(u)
  <2> SUFFICES ASSUME NEW a \in DOMAIN u, NEW b \in DOMAIN u, u[a] = u[b]
               PROVE  a = b
    BY DEF IsInjective
  <2>1. a \in Nat /\ b \in Nat
    BY <1>3
  <2>2. \A k \in DOMAIN s : s[k] # pa
    BY DEF Range
  <2>3. CASE a = 1 \/ b = 1
    BY <1>2, <1>4, <2>2, <2>3
  <2>4. CASE a # 1 /\ b # 1
    <3>1. s[a - 1] = s[b - 1] /\ a - 1 \in DOMAIN s /\ b - 1 \in DOMAIN s
      BY <1>4, <2>4
    <3>2. a - 1 = b - 1
      BY <3>1 DEF IsInjective
    <3> QED
      BY <2>1, <3>2
  <2> QED
    BY <2>3, <2>4
<1> QED
  BY <1>1, <1>5, <1>6 DEF u

\* The head is taken off a list without duplicates.
LEMMA PopList ==
    ASSUME NEW s \in Seq(Page), s # <<>>, IsInjective(s)
    PROVE  /\ Head(s) \in Page /\ Head(s) \in Range(s)
           /\ Tail(s) \in Seq(Page)
           /\ Range(Tail(s)) = Range(s) \ {Head(s)}
           /\ IsInjective(Tail(s))
           /\ Len(Tail(s)) = Len(s) - 1
<1> DEFINE u == Tail(s)
<1>1. u \in Seq(Page) /\ Len(u) = Len(s) - 1 /\ Len(s) \in Nat \ {0}
  OBVIOUS
<1>2. DOMAIN u = 1..(Len(s) - 1) /\ DOMAIN s = 1..Len(s)
  OBVIOUS
<1>3. \A k \in 1..(Len(s) - 1) : u[k] = s[k + 1]
  OBVIOUS
<1>4. Head(s) = s[1] /\ Head(s) \in Page
  OBVIOUS
<1> HIDE DEF u
<1>5. Head(s) \in Range(s)
  BY <1>1, <1>2, <1>4 DEF Range
<1>6. IsInjective(u)
  <2> SUFFICES ASSUME NEW a \in DOMAIN u, NEW b \in DOMAIN u, u[a] = u[b]
               PROVE  a = b
    BY DEF IsInjective
  <2>1. a + 1 \in DOMAIN s /\ b + 1 \in DOMAIN s /\ s[a + 1] = s[b + 1]
    BY <1>1, <1>2, <1>3
  <2>2. a + 1 = b + 1
    BY <2>1 DEF IsInjective
  <2> QED
    BY <2>2, <1>1, <1>2
<1>7. Range(u) = Range(s) \ {Head(s)}
  <2>1. ASSUME NEW k \in DOMAIN u
        PROVE  u[k] \in Range(s) /\ u[k] # Head(s)
    <3>1. k + 1 \in DOMAIN s /\ u[k] = s[k + 1] /\ 1 \in DOMAIN s /\ k + 1 # 1
      BY <1>1, <1>2, <1>3
    <3>2. s[k + 1] # s[1]
      BY <3>1 DEF IsInjective
    <3> QED
      BY <3>1, <3>2, <1>4 DEF Range
  <2>2. ASSUME NEW k \in DOMAIN s, s[k] # Head(s)
        PROVE  s[k] \in Range(u)
    <3>1. k # 1
      BY <2>2, <1>4
    <3>2. k - 1 \in DOMAIN u /\ u[k - 1] = s[k]
      BY <3>1, <1>1, <1>2, <1>3
    <3> QED
      BY <3>2 DEF Range
  <2> QED
    BY <2>1, <2>2 DEF Range
<1> QED
  BY <1>1, <1>4, <1>5, <1>6, <1>7 DEF u

-----------------------------------------------------------------------------
(* Blocks                                                                   *)

\* The first frame of a block is one of its frames.
LEMMA StartInFrames ==
    ASSUME NEW b \in Block
    PROVE  b.pa \in Page /\ b.pa \in Frames(b) /\ b.n \in Nat \ {0} /\ b.pa \in Nat
  BY PageAllocAssumption DEF Block, Frames, Page

\* A block is known by its first frame.
LEMMA StartIsUnique ==
    ASSUME NEW B \in SUBSET Block, Apart(B), NEW b \in B
    PROVE  {c \in B : c.pa # b.pa} = B \ {b}
<1>1. ASSUME NEW c \in B, c.pa = b.pa PROVE c = b
  BY <1>1, StartInFrames DEF Apart
<1> QED
  BY <1>1

HeldBy(B) == UNION {Frames(c) : c \in B}

\* A frame is held when it is a frame of some block.
LEMMA InSomeBlock ==
    ASSUME NEW B, NEW p
    PROVE  p \in HeldBy(B) <=> \E c \in B : p \in Frames(c)
  BY DEF HeldBy

\* Without block b its frames, and only they, are gone.
LEMMA RemoveBlock ==
    ASSUME NEW B, Apart(B), NEW b \in B
    PROVE  HeldBy(B \ {b}) = HeldBy(B) \ Frames(b) /\ Apart(B \ {b})
<1>1. Apart(B \ {b})
  BY DEF Apart
<1>2. \A c \in B \ {b} : Frames(c) \cap Frames(b) = {}
  BY DEF Apart
<1>3. \A p : p \in HeldBy(B \ {b}) <=> p \in HeldBy(B) /\ p \notin Frames(b)
  BY <1>2, InSomeBlock
<1> QED
  BY <1>1, <1>3

\* A block of frames that nobody has is added.
LEMMA AddBlock ==
    ASSUME NEW B, Apart(B), NEW b, Frames(b) \cap HeldBy(B) = {}
    PROVE  HeldBy(B \cup {b}) = HeldBy(B) \cup Frames(b) /\ Apart(B \cup {b})
<1>1. \A c \in B : Frames(c) \cap Frames(b) = {}
  BY InSomeBlock
<1>2. ASSUME NEW x \in B \cup {b}, NEW y \in B \cup {b}, x # y
      PROVE  Frames(x) \cap Frames(y) = {}
  <2>1. CASE x \in B /\ y \in B
    BY <1>2, <2>1 DEF Apart
  <2>2. CASE x = b \/ y = b
    BY <1>1, <1>2, <2>2
  <2> QED
    BY <2>1, <2>2
<1>3. \A p : p \in HeldBy(B \cup {b}) <=> p \in HeldBy(B) \/ p \in Frames(b)
  BY InSomeBlock
<1> QED
  BY <1>2, <1>3 DEF Apart

\* What is left of a block when its first page has been freed.
LEMMA RestOfBlock ==
    ASSUME NEW b \in Block
    PROVE  LET r == [pa |-> b.pa + 1, n |-> b.n - 1, owner |-> b.owner]
           IN  /\ Frames(r) = Frames(b) \ {b.pa}
               /\ b.n = 1 => Frames(b) = {b.pa}
<1>1. b.pa \in Nat /\ b.n \in Nat \ {0}
  BY StartInFrames
<1> QED
  BY <1>1 DEF Frames

-----------------------------------------------------------------------------
(* The tracker                                                              *)

\* Entry sets are sets of numbers, so the scans find their first element.
LEMMA ScanFinds ==
    ASSUME NEW S \in SUBSET Entry, S # {}
    PROVE  Min(S) \in S
<1>1. S \in SUBSET Nat
  BY PageAllocAssumption DEF Entry
<1> QED
  BY <1>1, MinIsElement

\* track_alloc() fills one unused entry, or none when the table is full.
LEMMA TrackAlloc ==
    ASSUME NEW t \in [Entry -> EntryType], NEW pa \in Page, NEW pid \in Pids
    PROVE  LET e == [used |-> TRUE, pa |-> pa, npages |-> 1, owner |-> pid]
               u == track_alloc(t, pa, 1, pid)
           IN  /\ u \in [Entry -> EntryType]
               /\ \/ u = t
                  \/ \E k \in Entry : ~t[k].used /\ u = [t EXCEPT ![k] = e]
<1> DEFINE e == [used |-> TRUE, pa |-> pa, npages |-> 1, owner |-> pid]
<1>1. e \in EntryType
  BY PageAllocAssumption DEF EntryType, Page
<1>2. CASE Unused(t) = {}
  BY <1>2 DEF track_alloc
<1>3. CASE Unused(t) # {}
  <2>1. Min(Unused(t)) \in Unused(t)
    BY <1>3, ScanFinds DEF Unused
  <2>2. track_alloc(t, pa, 1, pid) = [t EXCEPT ![Min(Unused(t))] = e]
    BY <1>3 DEF track_alloc
  <2> QED
    BY <1>1, <2>1, <2>2 DEF Unused
<1> QED
  BY <1>2, <1>3

\* Table u has only entries of t, and none for page pa.
Without(u, t, pa) == \A i \in Entry : u[i].used => u[i] = t[i] /\ u[i].pa # pa

\* track_free() clears at most one entry, and no entry for the page remains.
LEMMA TrackFree ==
    ASSUME NEW t \in [Entry -> EntryType], NEW pa, NEW B, TrackerOK(t, B)
    PROVE  LET u == track_free(t, pa, 1)
           IN  /\ u \in [Entry -> EntryType]
               /\ Without(u, t, pa)
<1>1. NullEntry \in EntryType /\ ~NullEntry.used
  BY PageAllocAssumption DEF NullEntry, EntryType
<1>2. CASE Matches(t, pa, 1) = {}
  BY <1>2 DEF track_free, Matches, TrackerOK, Without
<1>3. CASE Matches(t, pa, 1) # {}
  <2>1. Min(Matches(t, pa, 1)) \in Matches(t, pa, 1)
    BY <1>3, ScanFinds DEF Matches
  <2>2. track_free(t, pa, 1) = [t EXCEPT ![Min(Matches(t, pa, 1))] = NullEntry]
    BY <1>3 DEF track_free
  <2> QED
    BY <1>1, <2>1, <2>2 DEF Matches, TrackerOK, Without
<1> QED
  BY <1>2, <1>3

\* The tracker stays sound when the entries for a page go before its block does.
LEMMA Untracked ==
    ASSUME NEW t, NEW B, TrackerOK(t, B), NEW pa, NEW u, NEW C,
           Without(u, t, pa),
           \A b \in B : b.pa # pa => b \in C
    PROVE  TrackerOK(u, C)
<1>1. ASSUME NEW i \in Entry, u[i].used
      PROVE  /\ u[i].npages = 1
             /\ \E b \in C : b.pa = u[i].pa /\ b.owner = u[i].owner
  <2>1. u[i] = t[i] /\ u[i].pa # pa /\ t[i].used
    BY <1>1 DEF Without
  <2>2. t[i].npages = 1
    BY <2>1 DEF TrackerOK
  <2>3. PICK b \in B : b.pa = t[i].pa /\ b.owner = t[i].owner
    BY <2>1 DEF TrackerOK
  <2>4. b \in C
    BY <2>1, <2>3
  <2> QED
    BY <2>1, <2>2, <2>3, <2>4
<1>2. ASSUME NEW i \in Entry, NEW j \in Entry, u[i].used, u[j].used, u[i].pa = u[j].pa
      PROVE  i = j
  <2>1. u[i] = t[i] /\ u[j] = t[j]
    BY <1>2 DEF Without
  <2> QED
    BY <1>2, <2>1 DEF TrackerOK
<1> QED
  BY <1>1, <1>2 DEF TrackerOK

\* The tracker stays sound when a block nobody has is allocated.
LEMMA Tracked ==
    ASSUME NEW t \in [Entry -> EntryType], NEW B \in SUBSET Block, TrackerOK(t, B),
           NEW b \in Block, \A c \in B : c.pa # b.pa
    PROVE  TrackerOK(track_alloc(t, b.pa, 1, b.owner), B \cup {b})
<1> DEFINE e == [used |-> TRUE, pa |-> b.pa, npages |-> 1, owner |-> b.owner]
           u == track_alloc(t, b.pa, 1, b.owner)
<1>1. b.pa \in Page /\ b.owner \in Pids
  BY DEF Block
<1>2. u = t \/ \E k \in Entry : ~t[k].used /\ u = [t EXCEPT ![k] = e]
  BY <1>1, TrackAlloc
<1>3. CASE u = t
  BY <1>3 DEF TrackerOK
<1>4. ASSUME NEW k \in Entry, ~t[k].used, u = [t EXCEPT ![k] = e]
      PROVE  TrackerOK(u, B \cup {b})
  <2>1. u[k] = e /\ \A i \in Entry \ {k} : u[i] = t[i]
    BY <1>4
  <2>2. e.npages = 1 /\ e.pa = b.pa /\ e.owner = b.owner
    OBVIOUS
  <2>3. \A i \in Entry : t[i].used => t[i].pa # b.pa
    BY DEF TrackerOK
  <2> HIDE DEF u, e
  <2>4. ASSUME NEW i \in Entry, u[i].used
        PROVE  /\ u[i].npages = 1
               /\ \E c \in B \cup {b} : c.pa = u[i].pa /\ c.owner = u[i].owner
    <3>1. CASE i = k
      BY <3>1, <2>1, <2>2
    <3>2. CASE i # k
      BY <3>2, <2>1, <2>4 DEF TrackerOK
    <3> QED
      BY <3>1, <3>2
  <2>5. ASSUME NEW i \in Entry, NEW j \in Entry, u[i].used, u[j].used, u[i].pa = u[j].pa
        PROVE  i = j
    <3>1. CASE i # k /\ j # k
      BY <3>1, <2>1, <2>5 DEF TrackerOK
    <3>2. CASE i = k \/ j = k
      BY <3>2, <2>1, <2>2, <2>3, <2>5
    <3> QED
      BY <3>1, <3>2
  <2> QED
    BY <2>4, <2>5 DEF TrackerOK
<1> QED
  BY <1>2, <1>3, <1>4

-----------------------------------------------------------------------------
(* What a step does to the three views                                      *)

\* A frame leaves the hands of the callers and goes on the list.
LEMMA Pushed ==
    ASSUME IInv, NEW pa \in Held, Push(pa), next_paddr' = next_paddr,
           Held' \cup lost' = (Held \cup lost) \ {pa}
    PROVE  /\ pa \in Page
           /\ free_list' \in Seq(Page) /\ g_free_pages' \in Int
           /\ FreeListSound' /\ Conserved' /\ FreeCountExact'
<1>1. /\ free_list \in Seq(Page) /\ IsInjective(free_list)
      /\ Range(free_list) \cap (Held \cup lost) = {}
      /\ {p \in Page : p < next_paddr} = Range(free_list) \cup Held \cup lost
      /\ g_free_pages = Len(free_list)
  BY DEF IInv, TypeOK, FreeListSound, Conserved, FreeCountExact
<1>2. pa \in Page /\ pa \notin Range(free_list)
  BY <1>1
<1>3. /\ free_list' \in Seq(Page)
      /\ Range(free_list') = Range(free_list) \cup {pa}
      /\ IsInjective(free_list')
      /\ Len(free_list') = Len(free_list) + 1
  BY <1>1, <1>2, PushList DEF Push
<1>4. FreeListSound'
  BY <1>1, <1>2, <1>3 DEF FreeListSound
<1>5. Conserved'
  <2>1. {p \in Page : p < next_paddr'} = Range(free_list') \cup Held' \cup lost'
    BY <1>1, <1>2, <1>3
  <2> QED
    BY <2>1 DEF Conserved
<1>6. FreeCountExact' /\ g_free_pages' \in Int
  BY <1>1, <1>3 DEF FreeCountExact, Push
<1> QED
  BY <1>2, <1>3, <1>4, <1>5, <1>6

\* A block disappears.
LEMMA BlockGone ==
    ASSUME IInv, NEW b \in blocks, blocks' = {c \in blocks : c.pa # b.pa}
    PROVE  /\ blocks' \subseteq Block /\ blocks' = blocks \ {b}
           /\ Held' = Held \ Frames(b) /\ Apart(blocks')
           /\ b.pa \in Frames(b) /\ Frames(b) \subseteq Held
<1>1. blocks \subseteq Block /\ Apart(blocks)
  BY DEF IInv, TypeOK
<1>2. blocks' = blocks \ {b}
  BY <1>1, StartIsUnique
<1>3. Held' = HeldBy(blocks') /\ Held = HeldBy(blocks)
  BY DEF Held, HeldBy
<1>4. b.pa \in Frames(b)
  BY <1>1, StartInFrames
<1>5. Frames(b) \subseteq Held
  BY <1>3, InSomeBlock
<1>6. HeldBy(blocks \ {b}) = HeldBy(blocks) \ Frames(b) /\ Apart(blocks \ {b})
  BY <1>1, RemoveBlock
<1> QED
  BY <1>1, <1>2, <1>3, <1>4, <1>5, <1>6

\* The first page of a block goes and the rest stays as a block.
LEMMA BlockShrinks ==
    ASSUME IInv, NEW b \in blocks, b.n > 1,
           NEW r, r = [pa |-> b.pa + 1, n |-> b.n - 1, owner |-> b.owner],
           blocks' = (blocks \ {b}) \cup {r}
    PROVE  /\ blocks' \subseteq Block /\ r \in blocks'
           /\ Held' = Held \ {b.pa} /\ Apart(blocks')
<1>1. blocks \subseteq Block /\ Apart(blocks)
  BY DEF IInv, TypeOK
<1>2. Held' = HeldBy(blocks') /\ Held = HeldBy(blocks)
  BY DEF Held, HeldBy
<1>3. Frames(r) = Frames(b) \ {b.pa} /\ b.pa \in Frames(b)
  BY <1>1, RestOfBlock, StartInFrames
<1>4. HeldBy(blocks \ {b}) = Held \ Frames(b) /\ Apart(blocks \ {b})
  BY <1>1, <1>2, RemoveBlock
<1>5. HeldBy(blocks') = HeldBy(blocks \ {b}) \cup Frames(r) /\ Apart(blocks')
  BY <1>3, <1>4, AddBlock
<1>6. Frames(b) \subseteq Held
  BY <1>2, InSomeBlock
<1>7. r \in Block
  <2>1. b.pa \in Nat \ {0} /\ b.n \in 1..MAX_BLOCK /\ b.owner \in Pids
    BY <1>1 DEF Block, Page
  <2>2. b.pa + 1 \in Frames(b)
    BY <2>1 DEF Frames
  <2>3. b.pa + 1 \in Page
    BY <2>2, <1>6 DEF IInv, Conserved
  <2> QED
    BY <2>1, <2>3, PageAllocAssumption DEF Block
<1> QED
  BY <1>1, <1>2, <1>3, <1>4, <1>5, <1>6, <1>7

\* alloc_pages() hands out frames nobody has.
LEMMA Obtained ==
    ASSUME IInv, NEW pa \in Page, NEW n \in 1..MAX_BLOCK, NEW pid \in Pids,
           Obtain(pa, n, pid),
           (pa .. (pa + n - 1)) \cap (Held \cup lost) = {}
    PROVE  /\ alloc_table' \in [Entry -> EntryType]
           /\ alloc_table_count' \in 0..(SIZE_MOD - 1)
           /\ blocks' \subseteq Block /\ op' = op /\ lost' = lost
           /\ Apart(blocks')
           /\ Held' = Held \cup (pa .. (pa + n - 1))
           /\ TrackerOK(alloc_table', blocks')
<1> DEFINE b == [pa |-> pa, n |-> n, owner |-> pid]
<1>1. /\ blocks \subseteq Block /\ Apart(blocks) /\ alloc_table \in [Entry -> EntryType]
      /\ TrackerOK(alloc_table, blocks) /\ alloc_table_count \in Int
  BY DEF IInv, TypeOK
<1>2. /\ blocks' = blocks \cup {b}
      /\ alloc_table' = track_alloc(alloc_table, pa, 1, pid)
      /\ alloc_table_count' = (alloc_table_count + tracked_by(alloc_table)) % SIZE_MOD
      /\ op' = op /\ lost' = lost
  BY DEF Obtain
<1>3. b \in Block /\ b.pa = pa /\ b.owner = pid /\ Frames(b) = pa .. (pa + n - 1)
  BY DEF Block, Frames
<1> HIDE DEF b
<1>4. Held' = HeldBy(blocks') /\ Held = HeldBy(blocks)
  BY DEF Held, HeldBy
<1>5. Held' = Held \cup Frames(b) /\ Apart(blocks')
  BY <1>1, <1>2, <1>3, <1>4, AddBlock
<1>6. \A c \in blocks : c.pa # b.pa
  <2>1. b.pa \in Frames(b)
    BY <1>3, StartInFrames
  <2>2. \A c \in blocks : c.pa \in Held
    BY <1>1, <1>4, StartInFrames, InSomeBlock
  <2> QED
    BY <2>1, <2>2, <1>3
<1>7. TrackerOK(alloc_table', blocks')
  BY <1>1, <1>2, <1>3, <1>6, Tracked
<1>8. alloc_table' \in [Entry -> EntryType]
  BY <1>1, <1>2, TrackAlloc
<1>9. alloc_table_count' \in 0..(SIZE_MOD - 1)
  <2>1. alloc_table_count + tracked_by(alloc_table) \in Int
    BY <1>1 DEF tracked_by
  <2> QED
    BY <1>2, <2>1, PageAllocAssumption
<1> QED
  BY <1>1, <1>2, <1>3, <1>5, <1>7, <1>8, <1>9

-----------------------------------------------------------------------------
(* The invariant is inductive                                               *)

\* The invariant holds when paging_init() has run.
LEMMA InitIInv == Init => IInv
<1> SUFFICES ASSUME Init PROVE IInv
  OBVIOUS
<1>1. NullEntry \in EntryType /\ ~NullEntry.used
  BY PageAllocAssumption DEF NullEntry, EntryType
<1>2. Held = {} /\ Range(free_list) = {} /\ lost = {}
  BY DEF Init, Held, Range
<1>3. NoLoop \in LoopType /\ NoLoop.kind = "none"
  BY PageAllocAssumption DEF NoLoop, LoopType
<1>4. TypeOK
  <2>1. alloc_table \in [Entry -> EntryType]
    BY <1>1 DEF Init
  <2>2. /\ next_paddr \in 1..(NPAGES + 2) /\ g_free_pages \in Int
        /\ alloc_table_count \in 0..(SIZE_MOD - 1)
    BY PageAllocAssumption DEF Init
  <2>3. /\ op \in LoopType /\ panicked \in BOOLEAN
        /\ blocks \subseteq Block /\ lost \subseteq Page
    BY <1>3 DEF Init
  <2>4. free_list \in Seq(Page)
    BY DEF Init
  <2> QED
    BY <2>1, <2>2, <2>3, <2>4 DEF TypeOK
<1>5. FreeListSound /\ FreeCountExact
  BY <1>2 DEF Init, FreeListSound, FreeCountExact, IsInjective
<1>6. Conserved
  BY <1>2 DEF Init, Conserved, Page
<1>7. TrackerOK(alloc_table, blocks)
  BY <1>1 DEF Init, TrackerOK
<1>8. LoopOK
  BY <1>3 DEF Init, LoopOK
<1>9. Apart(blocks) /\ Held \cap lost = {} /\ next_paddr <= NPAGES + 1
  BY <1>2, PageAllocAssumption DEF Init, Apart
<1> QED
  BY <1>4, <1>5, <1>6, <1>7, <1>8, <1>9 DEF IInv

\* A step that frees no frame and hands none out.
LEMMA NothingMoves ==
    ASSUME IInv, UNCHANGED <<free_list, g_free_pages, alloc_table, alloc_table_count,
                             blocks, lost>>,
           next_paddr' = next_paddr \/ next_paddr > NPAGES,
           next_paddr' \in 1..(NPAGES + 2), op' \in LoopType, panicked' \in BOOLEAN,
           LoopOK',
           ~panicked' => next_paddr' <= NPAGES + 1,
           next_paddr' >= next_paddr
    PROVE  IInv'
<1>1. TypeOK'
  BY DEF IInv, TypeOK
<1>2. Held' = Held
  BY DEF Held
<1>3. {p \in Page : p < next_paddr'} = {p \in Page : p < next_paddr}
  BY PageAllocAssumption DEF IInv, TypeOK, Page
<1>4. FreeListSound' /\ Conserved' /\ FreeCountExact'
  BY <1>2, <1>3 DEF IInv, FreeListSound, Conserved, FreeCountExact
<1> QED
  BY <1>1, <1>2, <1>4 DEF IInv

\* alloc_pages(1) from the free list keeps the invariant and hands out its head.
LEMMA AllocFreeList ==
    ASSUME IInv, NEW pid \in Pids, alloc_free_list(pid)
    PROVE  /\ IInv'
           /\ Head(free_list) \in Page \ (Held \cup lost)
           /\ Held' \cup lost' = (Held \cup lost) \cup {Head(free_list)}
<1> DEFINE pa == Head(free_list)
<1>1. /\ free_list \in Seq(Page) /\ IsInjective(free_list)
      /\ Range(free_list) \cap (Held \cup lost) = {} /\ Held \cap lost = {}
      /\ {p \in Page : p < next_paddr} = Range(free_list) \cup Held \cup lost
      /\ g_free_pages = Len(free_list)
  BY DEF IInv, TypeOK, FreeListSound, Conserved, FreeCountExact
<1>2. /\ free_list' = Tail(free_list) /\ g_free_pages' = g_free_pages - 1
      /\ Obtain(pa, 1, pid) /\ next_paddr' = next_paddr /\ panicked' = panicked
      /\ op.kind = "none" /\ free_list # <<>>
  BY DEF alloc_free_list
<1>3. /\ pa \in Page /\ pa \in Range(free_list)
      /\ Tail(free_list) \in Seq(Page)
      /\ Range(Tail(free_list)) = Range(free_list) \ {pa}
      /\ IsInjective(Tail(free_list))
      /\ Len(Tail(free_list)) = Len(free_list) - 1
  BY <1>1, <1>2, PopList
<1> HIDE DEF pa
<1>4. pa .. (pa + 1 - 1) = {pa} /\ 1 \in 1..MAX_BLOCK
  BY <1>3, PageAllocAssumption DEF Page
<1>5. /\ alloc_table' \in [Entry -> EntryType]
      /\ alloc_table_count' \in 0..(SIZE_MOD - 1)
      /\ blocks' \subseteq Block /\ op' = op /\ lost' = lost
      /\ Apart(blocks')
      /\ Held' = Held \cup {pa}
      /\ TrackerOK(alloc_table', blocks')
  BY <1>1, <1>2, <1>3, <1>4, Obtained
<1>6. TypeOK'
  BY <1>1, <1>2, <1>3, <1>5 DEF IInv, TypeOK
<1>7. FreeListSound' /\ FreeCountExact' /\ Conserved' /\ Held' \cap lost' = {}
  <2>1. {p \in Page : p < next_paddr'} = Range(free_list') \cup Held' \cup lost'
    BY <1>1, <1>2, <1>3, <1>5
  <2> QED
    BY <2>1, <1>1, <1>2, <1>3, <1>5 DEF FreeListSound, FreeCountExact, Conserved
<1>8. LoopOK' /\ (~panicked' => next_paddr' <= NPAGES + 1)
  BY <1>2, <1>5 DEF IInv, LoopOK
<1> QED
  BY <1>1, <1>3, <1>5, <1>6, <1>7, <1>8 DEF IInv, pa

\* alloc_pages(n) from the bump pointer keeps the invariant and hands out n frames.
LEMMA AllocBump ==
    ASSUME IInv, NEW n \in 1..MAX_BLOCK, NEW pid \in Pids, alloc_bump(n, pid)
    PROVE  /\ IInv'
           /\ next_paddr .. (next_paddr + n - 1) \subseteq Page \ (Held \cup lost)
           /\ Held' \cup lost' = (Held \cup lost) \cup (next_paddr .. (next_paddr + n - 1))
<1> DEFINE pa == next_paddr
           S  == pa .. (pa + n - 1)
<1>1. /\ Range(free_list) \cap (Held \cup lost) = {} /\ Held \cap lost = {}
      /\ {p \in Page : p < pa} = Range(free_list) \cup Held \cup lost
      /\ pa \in Nat \ {0} /\ n \in Nat \ {0}
  BY DEF IInv, TypeOK, FreeListSound, Conserved
<1>2. /\ next_paddr' = pa + n /\ pa + n - 1 <= NPAGES
      /\ Obtain(pa, n, pid) /\ UNCHANGED <<free_list, g_free_pages, panicked>>
      /\ op.kind = "none"
  BY DEF alloc_bump
<1>3. /\ pa \in Page /\ S \subseteq Page /\ \A p \in S : ~(p < pa)
  BY <1>1, <1>2, PageAllocAssumption DEF Page
<1>4. S \cap (Held \cup lost \cup Range(free_list)) = {}
  BY <1>1, <1>3
<1>5. {p \in Page : p < pa + n} = {p \in Page : p < pa} \cup S
  BY <1>1, <1>3 DEF Page
<1>6. /\ alloc_table' \in [Entry -> EntryType]
      /\ alloc_table_count' \in 0..(SIZE_MOD - 1)
      /\ blocks' \subseteq Block /\ op' = op /\ lost' = lost
      /\ Apart(blocks')
      /\ Held' = Held \cup S
      /\ TrackerOK(alloc_table', blocks')
  BY <1>2, <1>3, <1>4, Obtained
<1>7. next_paddr' \in 1..(NPAGES + 1)
  BY <1>1, <1>2, PageAllocAssumption
<1> HIDE DEF S
<1>8. TypeOK'
  BY <1>2, <1>6, <1>7, PageAllocAssumption DEF IInv, TypeOK
<1>9. FreeListSound' /\ FreeCountExact' /\ Conserved' /\ Held' \cap lost' = {}
  <2>1. {p \in Page : p < next_paddr'} = Range(free_list) \cup Held' \cup lost'
    BY <1>1, <1>2, <1>5, <1>6
  <2>2. Range(free_list) \cap (Held' \cup lost') = {}
    BY <1>1, <1>4, <1>6
  <2> QED
    BY <2>1, <2>2, <1>1, <1>2, <1>4, <1>6
       DEF IInv, FreeListSound, FreeCountExact, Conserved
<1>10. LoopOK' /\ next_paddr' <= NPAGES + 1
  BY <1>2, <1>6, <1>7 DEF LoopOK
<1> QED
  BY <1>3, <1>4, <1>6, <1>8, <1>9, <1>10 DEF IInv, S

\* The tracker's counter is an unsigned number whatever is subtracted from it.
LEMMA CountTyped ==
    ASSUME NEW x \in Int
    PROVE  x % SIZE_MOD \in 0..(SIZE_MOD - 1)
  BY PageAllocAssumption

\* free_page() keeps the invariant and takes back one held frame.
LEMMA FreePage ==
    ASSUME IInv, NEW b \in blocks, b.n = 1, free_page(b.pa)
    PROVE  /\ IInv'
           /\ b.pa \in Page \cap (Held \cup lost)
           /\ Held' \cup lost' = (Held \cup lost) \ {b.pa}
<1>1. /\ alloc_table' = track_free(alloc_table, b.pa, 1)
      /\ alloc_table_count' =
            (alloc_table_count - untracked_by(alloc_table, b.pa, 1)) % SIZE_MOD
      /\ Push(b.pa) /\ blocks' = {c \in blocks : c.pa # b.pa}
      /\ UNCHANGED <<next_paddr, op, panicked, lost>> /\ op.kind = "none"
  BY DEF free_page
<1>2. /\ alloc_table \in [Entry -> EntryType] /\ TrackerOK(alloc_table, blocks)
      /\ Held \cap lost = {} /\ blocks \subseteq Block
      /\ alloc_table_count \in Int
  BY DEF IInv, TypeOK
<1>3. /\ blocks' \subseteq Block
      /\ Held' = Held \ Frames(b) /\ Apart(blocks')
      /\ b.pa \in Frames(b) /\ Frames(b) \subseteq Held
  BY <1>1, BlockGone
<1>4. Frames(b) = {b.pa}
  BY <1>2, RestOfBlock
<1>5. Held' \cup lost' = (Held \cup lost) \ {b.pa} /\ Held' \cap lost' = {}
  BY <1>1, <1>2, <1>3, <1>4
<1>6. /\ b.pa \in Page
      /\ free_list' \in Seq(Page) /\ g_free_pages' \in Int
      /\ FreeListSound' /\ Conserved' /\ FreeCountExact'
  BY <1>1, <1>3, <1>5, Pushed
<1>7. /\ alloc_table' \in [Entry -> EntryType]
      /\ Without(alloc_table', alloc_table, b.pa)
  BY <1>1, <1>2, TrackFree
<1>8. TrackerOK(alloc_table', blocks')
  <2>1. \A c \in blocks : c.pa # b.pa => c \in blocks'
    BY <1>1
  <2> QED
    BY <2>1, <1>2, <1>7, Untracked
<1>9. alloc_table_count' \in 0..(SIZE_MOD - 1)
  BY <1>1, <1>2, CountTyped DEF untracked_by
<1>10. TypeOK'
  BY <1>1, <1>3, <1>6, <1>7, <1>9 DEF IInv, TypeOK
<1>11. LoopOK' /\ (~panicked' => next_paddr' <= NPAGES + 1)
  BY <1>1 DEF IInv, LoopOK
<1> QED
  BY <1>3, <1>5, <1>6, <1>8, <1>10, <1>11 DEF IInv

\* An iteration of free_pages_range() keeps the invariant and takes back one frame.
LEMMA RangeStep ==
    ASSUME IInv, free_pages_range_step
    PROVE  /\ IInv'
           /\ op.pa + op.i \in Page \cap (Held \cup lost)
           /\ Held' \cup lost' = (Held \cup lost) \ {op.pa + op.i}
<1> DEFINE pa == op.pa + op.i
           t1 == track_free(alloc_table, op.pa, 1)
<1>1. /\ op.kind = "range" /\ op.i < op.n
      /\ alloc_table' = track_free(t1, pa, 1)
      /\ alloc_table_count' = (alloc_table_count - untracked_by(alloc_table, op.pa, 1)
                                                 - untracked_by(t1, pa, 1)) % SIZE_MOD
      /\ Push(pa)
      /\ op' = IF op.i + 1 = op.n THEN NoLoop ELSE [op EXCEPT !.i = op.i + 1]
      /\ blocks' = {c \in blocks : c.pa # pa} \cup
                   {[pa |-> c.pa + 1, n |-> c.n - 1, owner |-> c.owner] :
                      c \in {d \in blocks : d.pa = pa /\ d.n > 1}}
      /\ UNCHANGED <<next_paddr, panicked, lost>>
  BY DEF free_pages_range_step
<1>2. /\ alloc_table \in [Entry -> EntryType] /\ TrackerOK(alloc_table, blocks)
      /\ Held \cap lost = {} /\ blocks \subseteq Block /\ Apart(blocks)
      /\ alloc_table_count \in Int /\ op \in LoopType
  BY DEF IInv, TypeOK
<1>3. PICK b \in blocks : b.pa = pa /\ b.n = op.n - op.i
  BY <1>1 DEF IInv, LoopOK
<1>4. /\ op.pa \in Nat /\ op.i \in Nat /\ op.n \in Nat /\ b.n \in Nat \ {0}
      /\ b \in Block /\ b.pa \in Frames(b)
  BY <1>2, <1>3, StartInFrames DEF LoopType
<1> HIDE DEF pa, t1
<1>5. {c \in blocks : c.pa # pa} = blocks \ {b}
  BY <1>2, <1>3, StartIsUnique
<1>6. Frames(b) \subseteq Held /\ Held = HeldBy(blocks) /\ Held' = HeldBy(blocks')
  BY InSomeBlock DEF Held, HeldBy
<1>7. /\ blocks' \subseteq Block /\ Held' = Held \ {pa} /\ Apart(blocks')
      /\ b.n > 1 => [pa |-> b.pa + 1, n |-> b.n - 1, owner |-> b.owner] \in blocks'
  <2>1. {d \in blocks : d.pa = pa /\ d.n > 1} = IF b.n > 1 THEN {b} ELSE {}
    BY <1>3, <1>5
  <2>2. CASE b.n > 1
    <3> DEFINE r == [pa |-> b.pa + 1, n |-> b.n - 1, owner |-> b.owner]
    <3>1. blocks' = (blocks \ {b}) \cup {r}
      BY <1>1, <1>5, <2>1, <2>2
    <3> HIDE DEF r
    <3>2. /\ blocks' \subseteq Block /\ r \in blocks'
          /\ Held' = Held \ {b.pa} /\ Apart(blocks')
      BY <2>2, <3>1, BlockShrinks DEF r
    <3> QED
      BY <1>3, <3>2 DEF r
  <2>3. CASE ~(b.n > 1)
    <3>1. blocks' = blocks \ {b}
      BY <1>1, <1>5, <2>1, <2>3
    <3>2. Frames(b) = {pa}
      <4>1. b.n = 1
        BY <1>4, <2>3
      <4> QED
        BY <1>3, <1>4, <4>1, RestOfBlock
    <3>3. HeldBy(blocks \ {b}) = HeldBy(blocks) \ Frames(b) /\ Apart(blocks \ {b})
      BY <1>2, RemoveBlock
    <3> QED
      BY <1>2, <1>6, <2>3, <3>1, <3>2, <3>3
  <2> QED
    BY <2>2, <2>3
<1>8. pa \in Held
  BY <1>3, <1>4, <1>6
<1>9. Held' \cup lost' = (Held \cup lost) \ {pa} /\ Held' \cap lost' = {}
  BY <1>1, <1>2, <1>7, <1>8
<1>10. /\ pa \in Page
       /\ free_list' \in Seq(Page) /\ g_free_pages' \in Int
       /\ FreeListSound' /\ Conserved' /\ FreeCountExact'
  BY <1>1, <1>8, <1>9, Pushed
<1>11. TrackerOK(alloc_table', blocks') /\ alloc_table' \in [Entry -> EntryType]
  <2> DEFINE C == {c \in blocks : c.pa # op.pa}
  <2>1. /\ t1 \in [Entry -> EntryType]
        /\ Without(t1, alloc_table, op.pa)
    BY <1>2, TrackFree DEF t1
  <2>2. TrackerOK(t1, C)
    <3>1. \A c \in blocks : c.pa # op.pa => c \in C
      OBVIOUS
    <3> HIDE DEF C
    <3> QED
      BY <1>2, <2>1, <3>1, Untracked
  <2>3. /\ alloc_table' \in [Entry -> EntryType]
        /\ Without(alloc_table', t1, pa)
    BY <1>1, <2>1, <2>2, TrackFree
  <2>4. \A c \in C : c.pa # pa => c \in blocks'
    BY <1>1
  <2> HIDE DEF C
  <2> QED
    BY <2>2, <2>3, <2>4, Untracked
<1>12. alloc_table_count' \in 0..(SIZE_MOD - 1)
  <2>1. untracked_by(alloc_table, op.pa, 1) \in Int /\ untracked_by(t1, pa, 1) \in Int
    BY DEF untracked_by
  <2> QED
    BY <1>1, <1>2, <2>1, CountTyped
<1>13. op' \in LoopType /\ LoopOK'
  <2>1. CASE op.i + 1 = op.n
    BY <1>1, <2>1, PageAllocAssumption DEF NoLoop, LoopType, LoopOK
  <2>2. CASE op.i + 1 # op.n
    <3>1. /\ op' = [op EXCEPT !.i = op.i + 1] /\ op' \in LoopType
          /\ op'.kind = "range" /\ op'.i = op.i + 1 /\ op'.n = op.n /\ op'.pa = op.pa
      BY <1>1, <1>2, <1>4, <2>2 DEF LoopType
    <3>2. b.n > 1
      BY <1>1, <1>3, <1>4, <2>2
    <3>3. \E c \in blocks' : c.pa = op'.pa + op'.i /\ c.n = op'.n - op'.i
      <4> DEFINE r == [pa |-> b.pa + 1, n |-> b.n - 1, owner |-> b.owner]
      <4>1. r \in blocks' /\ r.pa = b.pa + 1 /\ r.n = b.n - 1
        BY <1>7, <3>2
      <4>2. b.pa + 1 = op'.pa + op'.i /\ b.n - 1 = op'.n - op'.i
        BY <1>3, <1>4, <3>1 DEF pa
      <4> QED
        BY <4>1, <4>2
    <3>4. op'.i < op'.n /\ ~panicked'
      BY <1>1, <1>4, <2>2, <3>1 DEF IInv, LoopOK
    <3> QED
      BY <3>1, <3>3, <3>4 DEF LoopOK
  <2> QED
    BY <2>1, <2>2
<1>14. TypeOK'
  BY <1>1, <1>7, <1>10, <1>11, <1>12, <1>13 DEF IInv, TypeOK
<1> QED
  BY <1>1, <1>7, <1>8, <1>9, <1>10, <1>11, <1>13, <1>14 DEF IInv, pa

\* The sweep goes on to the next entry, or ends.
LEMMA SweepGoesOn ==
    ASSUME IInv, op.kind = "sweep", SweepOn, panicked' = panicked
    PROVE  op' \in LoopType /\ LoopOK'
<1>1. op \in LoopType /\ op.i \in Entry /\ ~panicked
  BY DEF IInv, TypeOK, LoopOK
<1>2. CASE op.i = MAX_TRACKED_ALLOCS
  BY <1>2, PageAllocAssumption DEF SweepOn, NoLoop, LoopType, LoopOK
<1>3. CASE op.i # MAX_TRACKED_ALLOCS
  <2>1. op' = [op EXCEPT !.i = op.i + 1]
    BY <1>3 DEF SweepOn
  <2>2. op.i \in Nat /\ op.i + 1 \in Entry
    BY <1>1, <1>3, PageAllocAssumption DEF Entry
  <2>3. op' \in LoopType /\ op'.kind = "sweep" /\ op'.i = op.i + 1
    BY <1>1, <2>1, <2>2 DEF LoopType
  <2> QED
    BY <1>1, <2>2, <2>3 DEF LoopOK
<1> QED
  BY <1>2, <1>3

\* An entry of the swept process: the invariant is kept and one frame taken back.
LEMMA SweepFree ==
    ASSUME IInv, sweep_free
    PROVE  /\ IInv'
           /\ alloc_table[op.i].pa \in Page \cap (Held \cup lost)
           /\ Held' \cup lost' = (Held \cup lost) \ {alloc_table[op.i].pa}
<1> DEFINE pa == alloc_table[op.i].pa
           t1 == track_free(alloc_table, pa, 1)
<1>1. /\ op.kind = "sweep" /\ alloc_table[op.i].used
      /\ alloc_table' = [t1 EXCEPT ![op.i] = NullEntry]
      /\ alloc_table_count' =
            (alloc_table_count - untracked_by(alloc_table, pa, 1) - 1) % SIZE_MOD
      /\ Push(pa) /\ blocks' = {c \in blocks : c.pa # pa}
      /\ lost' = lost \cup UNION {Frames(c) \ {pa} : c \in {d \in blocks : d.pa = pa}}
      /\ SweepOn /\ UNCHANGED <<next_paddr, panicked>>
  BY DEF sweep_free
<1>2. /\ alloc_table \in [Entry -> EntryType] /\ TrackerOK(alloc_table, blocks)
      /\ Held \cap lost = {} /\ blocks \subseteq Block /\ Apart(blocks)
      /\ alloc_table_count \in Int /\ op.i \in Entry /\ lost \subseteq Page
  BY <1>1 DEF IInv, TypeOK, LoopOK
<1>3. PICK b \in blocks : b.pa = pa
  BY <1>1, <1>2 DEF TrackerOK
<1> HIDE DEF pa, t1
<1>4. /\ blocks' \subseteq Block /\ blocks' = blocks \ {b}
      /\ Held' = Held \ Frames(b) /\ Apart(blocks')
      /\ pa \in Frames(b) /\ Frames(b) \subseteq Held
  BY <1>1, <1>3, BlockGone
<1>5. lost' = lost \cup (Frames(b) \ {pa})
  <2>1. {d \in blocks : d.pa = pa} = {b}
    BY <1>1, <1>3, <1>4
  <2> QED
    BY <1>1, <2>1
<1>6. Held' \cup lost' = (Held \cup lost) \ {pa} /\ Held' \cap lost' = {}
  BY <1>2, <1>4, <1>5
<1>7. /\ pa \in Page
      /\ free_list' \in Seq(Page) /\ g_free_pages' \in Int
      /\ FreeListSound' /\ Conserved' /\ FreeCountExact'
  BY <1>1, <1>4, <1>6, Pushed
<1>8. lost' \subseteq Page
  BY <1>4, <1>5, <1>2 DEF IInv, Conserved
<1>9. TrackerOK(alloc_table', blocks') /\ alloc_table' \in [Entry -> EntryType]
  <2>1. t1 \in [Entry -> EntryType] /\ Without(t1, alloc_table, pa)
    BY <1>2, TrackFree DEF t1
  <2>2. NullEntry \in EntryType /\ ~NullEntry.used
    BY PageAllocAssumption DEF NullEntry, EntryType
  <2>3. alloc_table' \in [Entry -> EntryType] /\ Without(alloc_table', alloc_table, pa)
    BY <1>1, <1>2, <2>1, <2>2 DEF Without
  <2>4. \A c \in blocks : c.pa # pa => c \in blocks'
    BY <1>1
  <2> QED
    BY <1>2, <2>3, <2>4, Untracked
<1>10. alloc_table_count' \in 0..(SIZE_MOD - 1)
  <2>1. untracked_by(alloc_table, pa, 1) \in Int
    BY DEF untracked_by
  <2> QED
    BY <1>1, <1>2, <2>1, CountTyped
<1>11. op' \in LoopType /\ LoopOK'
  BY <1>1, SweepGoesOn
<1>12. TypeOK'
  BY <1>1, <1>4, <1>7, <1>8, <1>9, <1>10, <1>11 DEF IInv, TypeOK
<1> QED
  BY <1>1, <1>4, <1>6, <1>7, <1>9, <1>11, <1>12 DEF IInv, pa

\* Steps that start a loop, pass an entry over or panic.
LEMMA OtherStep ==
    ASSUME IInv,
           \/ \E n \in 1..MAX_BLOCK : alloc_panic(n)
           \/ \E b \in blocks : free_pages_range(b.pa, b.n)
           \/ \E pid \in Pids \ {0} : free_all_tracked_for_pid(pid)
           \/ sweep_skip
    PROVE  IInv' /\ Held' \cup lost' = Held \cup lost
<1>t. /\ next_paddr \in 1..(NPAGES + 2) /\ panicked \in BOOLEAN /\ op \in LoopType
      /\ ~panicked => next_paddr <= NPAGES + 1
      /\ blocks \subseteq Block
  BY DEF IInv, TypeOK
<1>1. ASSUME NEW n \in 1..MAX_BLOCK, alloc_panic(n)
      PROVE  IInv' /\ Held' \cup lost' = Held \cup lost
  <2>1. n = 1 => next_paddr > NPAGES
    BY <1>1, <1>t, PageAllocAssumption DEF alloc_panic
  <2>2. /\ next_paddr' = next_paddr \/ next_paddr > NPAGES
        /\ next_paddr' \in 1..(NPAGES + 2) /\ next_paddr' >= next_paddr
    BY <1>1, <1>t, <2>1, PageAllocAssumption DEF alloc_panic
  <2>3. LoopOK' /\ panicked' /\ panicked' \in BOOLEAN
    BY <1>1 DEF alloc_panic, LoopOK
  <2>4. IInv'
    BY <1>1, <1>t, <2>2, <2>3, NothingMoves DEF alloc_panic
  <2> QED
    BY <1>1, <2>4 DEF alloc_panic, Held
<1>2. ASSUME NEW b \in blocks, free_pages_range(b.pa, b.n)
      PROVE  IInv' /\ Held' \cup lost' = Held \cup lost
  <2>1. /\ b.pa \in Page /\ b.n \in 1..MAX_BLOCK
    BY <1>t DEF Block
  <2>2. op' = [kind |-> "range", pa |-> b.pa, n |-> b.n, i |-> 0, pid |-> 0]
    BY <1>2 DEF free_pages_range
  <2>3. op' \in LoopType
    BY <2>1, <2>2 DEF LoopType, Page
  <2>4. LoopOK'
    BY <1>2, <2>1, <2>2 DEF free_pages_range, LoopOK, Page
  <2>5. IInv'
    BY <1>2, <1>t, <2>3, <2>4, NothingMoves DEF free_pages_range
  <2> QED
    BY <1>2, <2>5 DEF free_pages_range, Held
<1>3. ASSUME NEW pid \in Pids \ {0}, free_all_tracked_for_pid(pid)
      PROVE  IInv' /\ Held' \cup lost' = Held \cup lost
  <2>1. op' = [kind |-> "sweep", pa |-> 0, n |-> 0, i |-> 1, pid |-> pid]
    BY <1>3 DEF free_all_tracked_for_pid
  <2>2. op' \in LoopType
    BY <2>1, PageAllocAssumption DEF LoopType
  <2>3. LoopOK'
    BY <1>3, <2>1, PageAllocAssumption DEF free_all_tracked_for_pid, LoopOK, Entry
  <2>4. IInv'
    BY <1>3, <1>t, <2>2, <2>3, NothingMoves DEF free_all_tracked_for_pid
  <2> QED
    BY <1>3, <2>4 DEF free_all_tracked_for_pid, Held
<1>4. CASE sweep_skip
  <2>1. op' \in LoopType /\ LoopOK'
    BY <1>4, SweepGoesOn DEF sweep_skip
  <2>2. IInv'
    BY <1>4, <1>t, <2>1, NothingMoves DEF sweep_skip
  <2> QED
    BY <1>4, <2>2 DEF sweep_skip, Held
<1> QED
  BY <1>1, <1>2, <1>3, <1>4

\* Every step of the allocator keeps the invariant.
LEMMA NextIInv == IInv /\ [Next]_vars => IInv'
<1> SUFFICES ASSUME IInv, [Next]_vars PROVE IInv'
  OBVIOUS
<1>1. ASSUME NEW pid \in Pids, alloc_free_list(pid) PROVE IInv'
  BY <1>1, AllocFreeList
<1>2. ASSUME NEW n \in 1..MAX_BLOCK, NEW pid \in Pids, alloc_bump(n, pid) PROVE IInv'
  BY <1>2, AllocBump
<1>3. ASSUME NEW b \in blocks, b.n = 1, free_page(b.pa) PROVE IInv'
  BY <1>3, FreePage
<1>4. CASE free_pages_range_step
  BY <1>4, RangeStep
<1>5. CASE sweep_free
  BY <1>5, SweepFree
<1>6. CASE \/ \E n \in 1..MAX_BLOCK : alloc_panic(n)
           \/ \E b \in blocks : free_pages_range(b.pa, b.n)
           \/ \E pid \in Pids \ {0} : free_all_tracked_for_pid(pid)
           \/ sweep_skip
  BY <1>6, OtherStep
<1>7. CASE UNCHANGED vars
  BY <1>7 DEF vars, IInv, TypeOK, Apart, Held, FreeListSound, Conserved,
              FreeCountExact, TrackerOK, LoopOK
<1> QED
  BY <1>1, <1>2, <1>3, <1>4, <1>5, <1>6, <1>7 DEF Next

-----------------------------------------------------------------------------
(* Theorems                                                                 *)

\* The type invariant of the allocator holds in every reachable state.
THEOREM TypeCorrect == Spec => []TypeOK
  BY InitIInv, NextIInv, PTL DEF Spec, IInv

\* No frame is on the free list twice or while somebody holds it, for memory of
\* any size and any sequence of allocations, frees and sweeps.
THEOREM NoDoubleFree == Spec => []FreeListSound
  BY InitIInv, NextIInv, PTL DEF Spec, IInv

\* Every frame below the bump pointer is free, held or lost by a sweep, and
\* g_free_pages is the length of the free list.
THEOREM NoFrameForgotten == Spec => []PagesAccountedFor
<1>1. IInv => PagesAccountedFor
  BY DEF IInv, Conserved, FreeCountExact, PagesAccountedFor
<1> QED
  BY <1>1, InitIInv, NextIInv, PTL DEF Spec

\* The tracker's active entries stand for different outstanding allocations.
THEOREM TrackerCorrect == Spec => []TrackerSound
<1>1. IInv => TrackerSound
  BY DEF IInv, TrackerOK, TrackerSound
<1> QED
  BY <1>1, InitIInv, NextIInv, PTL DEF Spec

\* The allocator implements the abstract pool of frames: a step hands out frames
\* that nobody has, takes one back, or changes nothing a client can see.
THEOREM Refinement == Spec => ImplementsPool
<1>1. Init => Pool!PoolInit
  BY DEF Init, Pool!PoolInit, Held
<1>2. ASSUME IInv, [Next]_vars
      PROVE  [Pool!PoolNext]_(Held \cup lost)
  <2>1. ASSUME NEW S \in SUBSET Page, S # {}, S \cap (Held \cup lost) = {},
               Held' \cup lost' = (Held \cup lost) \cup S
        PROVE  Pool!PoolNext
    BY <2>1 DEF Pool!PoolNext, Pool!Grant
  <2>2. ASSUME NEW p \in Page \cap (Held \cup lost),
               Held' \cup lost' = (Held \cup lost) \ {p}
        PROVE  Pool!PoolNext
    BY <2>2 DEF Pool!PoolNext, Pool!Release
  <2>3. ASSUME NEW pid \in Pids, alloc_free_list(pid) PROVE Pool!PoolNext
    <3> DEFINE S == {Head(free_list)}
    <3>1. /\ Head(free_list) \in Page \ (Held \cup lost)
          /\ Held' \cup lost' = (Held \cup lost) \cup S
      BY <1>2, <2>3, AllocFreeList
    <3>2. /\ S \in SUBSET Page /\ S # {} /\ S \cap (Held \cup lost) = {}
      BY <3>1
    <3> HIDE DEF S
    <3> QED
      BY <2>1, <3>1, <3>2
  <2>4. ASSUME NEW n \in 1..MAX_BLOCK, NEW pid \in Pids, alloc_bump(n, pid)
        PROVE  Pool!PoolNext
    <3> DEFINE S == next_paddr .. (next_paddr + n - 1)
    <3>1. next_paddr \in S
      BY <1>2 DEF IInv, TypeOK
    <3>2. /\ S \subseteq Page \ (Held \cup lost)
          /\ Held' \cup lost' = (Held \cup lost) \cup S
      BY <1>2, <2>4, AllocBump
    <3> HIDE DEF S
    <3> QED
      BY <2>1, <3>1, <3>2
  <2>5. ASSUME NEW b \in blocks, b.n = 1, free_page(b.pa) PROVE Pool!PoolNext
    BY <1>2, <2>2, <2>5, FreePage
  <2>6. CASE free_pages_range_step
    BY <1>2, <2>2, <2>6, RangeStep
  <2>7. CASE sweep_free
    BY <1>2, <2>2, <2>7, SweepFree
  <2>8. CASE \/ \E n \in 1..MAX_BLOCK : alloc_panic(n)
             \/ \E b \in blocks : free_pages_range(b.pa, b.n)
             \/ \E pid \in Pids \ {0} : free_all_tracked_for_pid(pid)
             \/ sweep_skip
    BY <1>2, <2>8, OtherStep
  <2>9. CASE UNCHANGED vars
    BY <2>9 DEF vars, Held
  <2> QED
    BY <1>2, <2>3, <2>4, <2>5, <2>6, <2>7, <2>8, <2>9 DEF Next
<1> QED
  BY <1>1, <1>2, InitIInv, NextIInv, PTL DEF Spec, ImplementsPool, Pool!PoolSpec
=============================================================================
