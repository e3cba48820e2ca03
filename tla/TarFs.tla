------------------------------- MODULE TarFs -------------------------------
(***************************************************************************)
(* The tar archive programs are found in: kernel/tar-parser.c and sys_ls() *)
(* of kernel/syscall.c.                                                    *)
(***************************************************************************)
EXTENDS Integers, Sequences, SequencesExt

CONSTANT TAR_BLOCK_SIZE

ASSUME TarFsAssumption == TAR_BLOCK_SIZE \in Nat \ {0}

-----------------------------------------------------------------------------
(* An archive is a sequence of files: a name, and the octal digits of its   *)
(* size.  Header of file k and its data lie where tar puts them.            *)

\* The size field, digit by digit.
Size(digits) == FoldLeft(LAMBDA size, d : size * 8 + d, 0, digits)

Blocks(size) == (size + TAR_BLOCK_SIZE - 1) \div TAR_BLOCK_SIZE

\* tar, which wrote the archive: a header, and the data padded to whole blocks.
HeaderAt(archive, k) ==
    LET bytes(f) == LET n == Size(f.size) IN
            IF n % TAR_BLOCK_SIZE = 0 THEN n ELSE n + TAR_BLOCK_SIZE - (n % TAR_BLOCK_SIZE)
    IN  FoldLeft(LAMBDA at, f : at + TAR_BLOCK_SIZE + bytes(f), 0, SubSeq(archive, 1, k - 1))

\* What lies at ptr: a file's header, a block of zeros behind the last file, or the
\* inside of a file.
Found(archive, ptr) ==
    IF \E k \in DOMAIN archive : HeaderAt(archive, k) = ptr
    THEN archive[CHOOSE k \in DOMAIN archive : HeaderAt(archive, k) = ptr]
    ELSE IF ptr = HeaderAt(archive, Len(archive) + 1) THEN [name |-> "", size |-> <<0>>]
    ELSE [name |-> "garbage", size |-> <<0>>]

Skip(ptr, file) == ptr + (1 + Blocks(Size(file.size))) * TAR_BLOCK_SIZE

NotFound == [at |-> -1, size |-> 0]

RECURSIVE LookupFrom(_, _, _)
LookupFrom(archive, ptr, filename) ==
    LET hdr == Found(archive, ptr)
    IN  IF ptr > HeaderAt(archive, Len(archive) + 1) \/ hdr.name = "" THEN NotFound
        ELSE IF hdr.name = filename
        THEN [at |-> ptr + TAR_BLOCK_SIZE, size |-> Size(hdr.size)]
        ELSE LookupFrom(archive, Skip(ptr, hdr), filename)

tarfs_lookup(archive, filename) == LookupFrom(archive, 0, filename)

\* The names sys_ls prints.
RECURSIVE ListFrom(_, _)
ListFrom(archive, ptr) ==
    LET hdr == Found(archive, ptr)
    IN  IF ptr > HeaderAt(archive, Len(archive) + 1) \/ hdr.name = "" THEN <<>>
        ELSE <<hdr.name>> \o ListFrom(archive, Skip(ptr, hdr))

sys_ls(archive) == ListFrom(archive, 0)
=============================================================================
