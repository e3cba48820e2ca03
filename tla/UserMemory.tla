----------------------------- MODULE UserMemory -----------------------------
(***************************************************************************)
(* What the kernel puts into the memory of a program: the flat image of an *)
(* ELF file and its mapping (kernel/elf-loader.c, kernel/process.c), and   *)
(* the data of copy_to_user() with walkaddr() (kernel/user.c, page.c).     *)
(***************************************************************************)
EXTENDS Integers, Sequences, FiniteSets, FiniteSetsExt

CONSTANTS
    PAGE_SIZE,
    ADDRESSES,        \* values of an address (2^64 in the source)
    USER_BASE,        \* where programs are linked and mapped
    kernel_base       \* user addresses lie below __kernel_base

ASSUME UserMemoryAssumption ==
    /\ PAGE_SIZE \in Nat \ {0}
    /\ ADDRESSES \in Nat /\ ADDRESSES % PAGE_SIZE = 0
    /\ USER_BASE \in Nat /\ USER_BASE % PAGE_SIZE = 0
    /\ kernel_base \in Nat

-----------------------------------------------------------------------------
(* ELF.  A program header is [load, vaddr, filesz, memsz]; byte k of the    *)
(* file contents of header i is <<i, k>>, zero is <<0, 0>>.                 *)

Zero         == <<0, 0>>
PageDown(a)  == a - (a % PAGE_SIZE)
PageUp(a)    == PageDown((a + PAGE_SIZE - 1) % ADDRESSES)
Loads(phdrs) == {i \in DOMAIN phdrs : phdrs[i].load}

\* Without a loadable segment they keep the values they start with.
MinVaddr(phdrs) == PageDown(Min({ADDRESSES - 1} \cup {phdrs[i].vaddr : i \in Loads(phdrs)}))
MaxVaddr(phdrs) == PageUp(Max({0} \cup {phdrs[i].vaddr + phdrs[i].memsz : i \in Loads(phdrs)}))

image_size(phdrs) == (MaxVaddr(phdrs) - MinVaddr(phdrs)) % ADDRESSES

\* Variant: a segment is placed by its distance from the first segment, not from the
\* page that begins the image.
Dest_unaligned(phdrs, i) == phdrs[i].vaddr - Min({phdrs[j].vaddr : j \in Loads(phdrs)})

Dest(phdrs, i) == phdrs[i].vaddr - MinVaddr(phdrs)

\* The zeroed buffer with the file contents of each segment, later ones on top.
extract_flat_binary_from_elf(phdrs) ==
    LET Covers(i, o) == phdrs[i].load /\ o - Dest(phdrs, i) \in 0 .. (phdrs[i].filesz - 1)
    IN  [o \in 0 .. (image_size(phdrs) - 1) |->
            LET over == {i \in DOMAIN phdrs : Covers(i, o)}
            IN  IF over = {} THEN Zero ELSE <<Max(over), o - Dest(phdrs, Max(over))>>]

\* exec_process() maps a copy of the image, page by page, at USER_BASE.
MapImage(image) ==
    [a \in USER_BASE .. (USER_BASE + Cardinality(DOMAIN image) - 1) |-> image[a - USER_BASE]]

-----------------------------------------------------------------------------
(* copy_to_user.  A page table maps page numbers to an entry: a frame, or   *)
(* no table on the way, an invalid entry, an entry without permissions.     *)

NoPage == {"no_table", "invalid", "no_rwx"}

Fail == 0                        \* no user page has physical address 0

walkaddr(pt, va) ==
    IF va >= kernel_base THEN Fail
    ELSE LET pte == pt[va \div PAGE_SIZE]
         IN  IF pte.why \in NoPage THEN Fail ELSE pte.frame * PAGE_SIZE + (va % PAGE_SIZE)

\* Variant: the destination is translated once.
Target_once(pt, dst_user, i) ==
    IF walkaddr(pt, dst_user) = Fail THEN Fail ELSE walkaddr(pt, dst_user) + i

\* Every byte has its address translated.
Target(pt, dst_user, i) == walkaddr(pt, dst_user + i)

\* Bytes written before the first one that has no page, as pairs of address and
\* byte number.
copy_to_user(pt, dst_user, len) ==
    LET bad  == {i \in 0 .. (len - 1) : Target(pt, dst_user, i) = Fail}
        done == IF bad = {} THEN len ELSE Min(bad)
    IN  [ret     |-> IF bad = {} THEN 0 ELSE -1,
         written |-> {<<Target(pt, dst_user, i), i>> : i \in 0 .. (done - 1)}]

-----------------------------------------------------------------------------
(* Reference                                                                *)

\* Segments a linker makes: file contents no longer than the memory, apart from each
\* other, from USER_BASE on.
WellFormed(phdrs) ==
    /\ Loads(phdrs) # {}
    /\ \A i \in Loads(phdrs) : phdrs[i].filesz <= phdrs[i].memsz
    /\ \A i, j \in Loads(phdrs) :
          i # j => \/ phdrs[i].vaddr + phdrs[i].memsz <= phdrs[j].vaddr
                   \/ phdrs[j].vaddr + phdrs[j].memsz <= phdrs[i].vaddr
    /\ PageDown(Min({phdrs[i].vaddr : i \in Loads(phdrs)})) = USER_BASE

\* Every byte of a loadable segment is found at the address it was linked for, and the
\* rest of its memory is zero.
AsLinked(phdrs, memory) ==
    \A i \in Loads(phdrs) : \A k \in 0 .. (phdrs[i].memsz - 1) :
        memory[phdrs[i].vaddr + k] = IF k < phdrs[i].filesz THEN <<i, k>> ELSE Zero

Mapped(pt, va) == va < kernel_base /\ pt[va \div PAGE_SIZE].why = "mapped"

\* Where the byte at va lies: at its offset in the frame of its own page.
Home(pt, va) == pt[va \div PAGE_SIZE].frame * PAGE_SIZE + (va % PAGE_SIZE)

\* The bytes of a copy that have a page, up to the first that has none.
Reached(pt, dst, len) == {i \in 0 .. (len - 1) : \A j \in 0 .. i : Mapped(pt, dst + j)}

\* A copy reports success only if every byte went to its home; otherwise the bytes
\* reached, and no others, were written.
Lands(pt, dst, len, copied) ==
    /\ copied.written = {<<Home(pt, dst + i), i>> : i \in Reached(pt, dst, len)}
    /\ copied.ret = 0 <=> Cardinality(Reached(pt, dst, len)) = len
=============================================================================
