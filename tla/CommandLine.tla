---------------------------- MODULE CommandLine ----------------------------
(***************************************************************************)
(* From the keyboard to main(): the line editor of user/shell.c, strtok()  *)
(* of user/lib/string.c, the shell's choice of what to run, the copy       *)
(* sys_exec() makes of the arguments, and their layout on the new stack by *)
(* setup_user_arguments() of kernel/arguments.c.                           *)
(*                                                                         *)
(* A character is a model of its class: letters, the space, the erase key; *)
(* a C string is the sequence of its characters before the null byte.      *)
(***************************************************************************)
EXTENDS Integers, Sequences, SequencesExt

CONSTANTS
    MAXLINE,          \* bytes of the shell's line buffer
    MAX_ARGS,         \* entries of argv
    MAX_ARG_LENGTH,   \* bytes sys_exec keeps of an argument
    PTR,              \* sizeof(char *), and the alignment of the stack: 8
    Letters,          \* characters other than space and erase
    Refused           \* names the shell does not start (shell, idle, init, ...)

SPACE == " "
ERASE == "erase"
NUL   == "NUL"
JUNK  == "junk"       \* what a fresh stack holds

ASSUME CommandLineAssumption ==
    /\ MAXLINE \in Nat \ {0} /\ MAX_ARGS \in Nat \ {0} /\ MAX_ARG_LENGTH \in Nat \ {0}
    /\ PTR \in Nat \ {0}
    /\ Letters \cap {SPACE, ERASE, NUL, JUNK} = {}
    /\ Refused \subseteq Seq(Letters)

-----------------------------------------------------------------------------
(* The shell                                                                *)

\* One key before ENTER.  An erase on an empty line is stored like any character.
Pressed(line, c) ==
    IF c = ERASE /\ line # <<>> THEN Front(line)
    ELSE IF Len(line) < MAXLINE - 1 THEN Append(line, c) ELSE line

ReadLine(keys) == FoldLeft(Pressed, <<>>, keys)

\* Length of the longest prefix of s whose characters are all in C.
Span(s, C) ==
    CHOOSE n \in 0 .. Len(s) :
        /\ \A i \in 1 .. n : s[i] \in C
        /\ n = Len(s) \/ s[n + 1] \notin C

Chars == Letters \cup {ERASE}

\* strtok(.., " ") on what its static pointer leads to: the token, and what is left
\* behind the space that ended it (nothing: the pointer becomes NULL).
strtok(saved) ==
    LET s == SubSeq(saved, Span(saved, {SPACE}) + 1, Len(saved))
        n == Span(s, Chars)
    IN  [token |-> SubSeq(s, 1, n), saved |-> SubSeq(s, n + 2, Len(s))]

RECURSIVE Tokens(_, _)
Tokens(saved, argc) ==
    LET t == strtok(saved)
    IN  IF t.token = <<>> \/ argc = MAX_ARGS THEN <<>>
        ELSE <<t.token>> \o Tokens(t.saved, argc + 1)

\* strtok() put a null byte behind the first token: what strcmp(line, ..) sees.
Cut(line) ==
    LET n == Span(line, {SPACE})
    IN  SubSeq(line, 1, n + Len(strtok(line).token))

\* What becomes of a line, for programs that all exist in the archive.
Command(line) ==
    LET argv == Tokens(line, 0)
    IN  IF argv = <<>> THEN [does |-> "nothing", argv |-> argv]
        ELSE IF Cut(line) \in Refused THEN [does |-> "refuse", argv |-> argv]
        ELSE [does |-> "exec", argv |-> argv]

-----------------------------------------------------------------------------
(* The kernel                                                               *)

strncpy(src, n) == SubSeq(src, 1, IF Len(src) < n THEN Len(src) ELSE n)

\* argv_buf of sys_exec.
Copied(argv) == [i \in DOMAIN argv |-> strncpy(argv[i], MAX_ARG_LENGTH - 1)]

Align(sp) == sp - (sp % PTR)

\* Variant: no room for the null byte.
StrBytes_bare(s) == Len(s)

\* strnlen() + 1.
StrBytes(s) == Len(s) + 1

\* Where the strings go, the last one highest, and the array below them.
RECURSIVE Place(_, _, _)
Place(args, i, sp) ==
    IF i = 0 THEN <<>>
    ELSE LET at == Align(sp - StrBytes(args[i])) IN Append(Place(args, i - 1, at), at)

ArrayAt(args, top) ==
    LET at == Place(args, Len(args), top) IN Align(at[1] - (Len(args) + 1) * PTR)

\* memcpy of the strings, in their order, and then of the array with its NULL.  A
\* byte of memory is a record: a character, or byte k of pointer `to'.
Str(c)      == [char |-> c, to |-> 0, k |-> 0]
Pointer(to) == [k \in 0 .. (PTR - 1) |-> [char |-> "", to |-> to, k |-> k]]

Write(mem, at, bytes, n) ==
    [a \in DOMAIN mem |-> IF a \in at .. (at + n - 1) THEN bytes[a - at] ELSE mem[a]]

RECURSIVE WriteStrings(_, _, _, _)
WriteStrings(mem, args, at, i) ==
    IF i = 0 THEN mem
    ELSE WriteStrings(
            Write(mem, at[i],
                  [k \in 0 .. Len(args[i]) |->
                      Str(IF k < Len(args[i]) THEN args[i][k + 1] ELSE NUL)],
                  StrBytes(args[i])),
            args, at, i - 1)

\* The stack main() finds, or a PANIC when the arguments do not fit.
setup_user_arguments(args, bottom, top) ==
    LET at    == Place(args, Len(args), top)
        array == ArrayAt(args, top)
        fresh == [a \in bottom .. (top - 1) |-> Str(JUNK)]
        strs  == WriteStrings(fresh, args, at, Len(args))
    IN  IF at[1] < bottom \/ array < bottom THEN [panic |-> TRUE, sp |-> top, mem |-> fresh]
        ELSE [panic |-> FALSE,
              sp    |-> array,
              mem   |-> Write(strs, array,
                          [k \in 0 .. ((Len(args) + 1) * PTR - 1) |->
                              Pointer(IF k \div PTR < Len(args) THEN at[k \div PTR + 1]
                                      ELSE 0)[k % PTR]],
                          (Len(args) + 1) * PTR)]

\* Arguments are laid out only when there is more than the name.
sys_exec(argv, bottom, top) ==
    IF Len(argv) > 1 THEN setup_user_arguments(Copied(argv), bottom, top)
    ELSE [panic |-> FALSE, sp |-> top, mem |-> <<>>]

-----------------------------------------------------------------------------
(* Reference                                                                *)

\* The words of a line: its longest stretches without a space, from the left.
Words(line) ==
    LET Inside(i, j) == \A k \in i .. j : line[k] # SPACE
        Starts == {i \in DOMAIN line : line[i] # SPACE /\ (i = 1 \/ line[i - 1] = SPACE)}
        End(i) == CHOOSE j \in i .. Len(line) :
                      Inside(i, j) /\ (j = Len(line) \/ line[j + 1] = SPACE)
        starts == SetToSortSeq(Starts, LAMBDA i, j : i < j)
    IN  [n \in DOMAIN starts |-> SubSeq(line, starts[n], End(starts[n]))]

\* More characters than erasures in keys i..j.
Surplus(keys, i, j) ==
    Len(SelectSeq(SubSeq(keys, i, j), LAMBDA c : c # ERASE))
        > Len(SelectSeq(SubSeq(keys, i, j), LAMBDA c : c = ERASE))

\* The text a typist means: key i stays if no later erasure is meant for it.
Meant(keys) ==
    LET stays == {i \in DOMAIN keys : \A j \in i .. Len(keys) : Surplus(keys, i, j)}
        order == SetToSortSeq(stays, LAMBDA i, j : i < j)
    IN  [n \in DOMAIN order |-> keys[order[n]]]

\* No erasure meets an empty line and no key a full one.
WithinBounds(keys) ==
    \A j \in DOMAIN keys :
        LET text == Meant(SubSeq(keys, 1, j - 1))
        IN  IF keys[j] = ERASE THEN text # <<>> ELSE Len(text) < MAXLINE - 1

\* What main() reads: pointers of the array, and the strings they lead to.
ReadPtr(mem, a) == mem[a].to

ReadStr(mem, a) ==
    LET ends == {k \in 0 .. Cardinality(DOMAIN mem) :
                     IF a + k \in DOMAIN mem THEN mem[a + k].char = NUL ELSE TRUE}
    IN  [k \in 1 .. Min(ends) |-> mem[a + k - 1].char]

ReadArgv(stack, argc) ==
    [i \in 1 .. argc |-> ReadStr(stack.mem, ReadPtr(stack.mem, stack.sp + (i - 1) * PTR))]
=============================================================================
