------------------------------ MODULE Library ------------------------------
(***************************************************************************)
(* The pure computations of the system, each run once on every input of a  *)
(* bounded set and compared with a reference definition: dates, command    *)
(* lines, loading, copies to user memory, numbers as text.                 *)
(***************************************************************************)
EXTENDS Calendar, CommandLine, Format, TarFs, UserMemory

CONSTANTS
    Days,             \* days since 1970
    Seconds,          \* seconds of the day
    MaxKeys,          \* keys typed before ENTER
    Stacks,           \* sizes of the user stack
    MaxValue          \* width of fields and size of buffers

VARIABLES input, output

None == [kind |-> "none"]

-----------------------------------------------------------------------------
(* Inputs                                                                   *)

Dates == {[kind |-> "date", epoch |-> Epoch(d, s)] : d \in Days, s \in Seconds}

Lines ==
    {[kind |-> "line", keys |-> keys, stack |-> size] :
        keys \in BoundedSeq(Letters \cup {SPACE, ERASE}, MaxKeys), size \in Stacks}

Archives ==
    {[kind |-> "tar", archive |-> files, name |-> n] :
        files \in BoundedSeq([name : {"a", "b"}, size : {<<0, 0>>, <<0, 3>>, <<1, 0>>, <<1, 3>>}], 3),
        n \in {"a", "b"}}

Phdrs ==
    [load : BOOLEAN, vaddr : USER_BASE .. (USER_BASE + 6), filesz : 0..3, memsz : {1, 3, 6}]

Images == {[kind |-> "elf", phdrs |-> phdrs] : phdrs \in {<<a, b>> : a, b \in Phdrs}}

\* Page tables of three user pages, no two with the same frame.
Ptes == [why : NoPage, frame : {0}] \cup [why : {"mapped"}, frame : 1..3]

Spaces ==
    {pt \in [0 .. 2 -> Ptes] :
        \A i, j \in 0 .. 2 : i # j /\ pt[i].why = "mapped" => pt[i].frame # pt[j].frame}

Copies ==
    {[kind |-> "copy", pt |-> pt, dst |-> dst, len |-> len] :
        pt \in Spaces, dst \in {0, 2, PAGE_SIZE, kernel_base - 2}, len \in {0, 1, 3, 6}}

Numbers == {[kind |-> "number", word |-> w, width |-> n] : w \in 0 .. (WORD - 1), n \in 0 .. MaxValue}

Items ==
    [spec : {"d", "u", "x", "p"}, val : {-WORD \div 2, 5, WORD \div 3}]
    \cup [spec : {"s"}, text : {<<>>, <<Other, Other>>}]
    \cup [spec : {"%", "unknown", "literal"}]

\* An argument as it is passed: an int, signed or not, is extended by its sign.
Passed(length) ==
    IF length > 0 THEN {0, 5, WORD \div 2, WORD - 1}
    ELSE {Unsigned(v) : v \in {0, 5, INT \div 2 - 1, -1, -(INT \div 2)}}

Directives ==
    UNION {[spec : {"d", "u", "x"}, arg : Passed(length), length : {length},
            width : {0, MaxValue}, zero_pad : BOOLEAN] : length \in 0..2}
    \cup [spec : {"p"}, arg : Passed(2)]
    \cup [spec : {"s"}, text : {<<>>, <<Other, Other>>}]
    \cup [spec : {"%", "unknown", "literal"}]

Prints == {[kind |-> "printf", fmt |-> <<d, e>>] : d \in Directives, e \in [spec : {"literal"}]}

Formats == {[kind |-> "format", items |-> <<i, j>>, size |-> n] : i, j \in Items, n \in 1 .. MaxValue}

-----------------------------------------------------------------------------
Init ==
    /\ \/ input \in Dates    \/ input \in Lines  \/ input \in Archives \/ input \in Images
       \/ input \in Copies   \/ input \in Numbers \/ input \in Formats \/ input \in Prints
    /\ output = None

Pending(kind) == output = None /\ input.kind = kind /\ UNCHANGED input

Date ==
    /\ Pending("date")
    /\ output' = [kind |-> "date", dt |-> compute_datetime_from_epoch(input.epoch)]

Line ==
    /\ Pending("line")
    /\ LET line == ReadLine(input.keys)
           todo == Command(line)
       IN  output' = [kind |-> "line", line |-> line, does |-> todo.does, argv |-> todo.argv,
                      stack |-> sys_exec(todo.argv, 0, input.stack)]

Tar ==
    /\ Pending("tar")
    /\ output' = [kind |-> "tar", file |-> tarfs_lookup(input.archive, input.name),
                  names |-> sys_ls(input.archive)]

Elf ==
    /\ Pending("elf")
    /\ output' = [kind |-> "elf",
                  memory |-> MapImage(extract_flat_binary_from_elf(input.phdrs))]

Copy ==
    /\ Pending("copy")
    /\ output' = [kind |-> "copy", copied |-> copy_to_user(input.pt, input.dst, input.len)]

Number ==
    /\ Pending("number")
    /\ output' = [kind |-> "number",
                  plain |-> itoa_signed(Signed(input.word), 10),
                  hex   |-> itoa_signed(Signed(input.word), 16),
                  dec   |-> uart_put_dec(Signed(input.word)),
                  field |-> uart_putpad(input.word, 10, input.width, TRUE, TRUE),
                  blank |-> uart_putpad(input.word, 10, input.width, FALSE, FALSE),
                  zeros |-> uart_puthex(input.word, input.width)]

Text ==
    /\ Pending("format")
    /\ output' = [kind |-> "format", buf |-> kvnprintf(input.size, input.items)]

Printf ==
    /\ Pending("printf")
    /\ output' = [kind |-> "printf", text |-> uart_printf(input.fmt)]

Next == Date \/ Line \/ Tar \/ Elf \/ Copy \/ Number \/ Text \/ Printf

Spec == Init /\ [][Next]_<<input, output>>

-----------------------------------------------------------------------------
(* Properties                                                               *)

\* compute_datetime_from_epoch() gives the Gregorian date of the local time: a day
\* later it gives the next date and weekday, starting from Thursday 1970-01-01, and
\* compute_epoch() brings the date back, two hours ahead.  The clock of date shows
\* each of the 24 hours differently.
DatesAgree ==
    output.kind = "date" =>
        LET dt    == output.dt
            epoch == input.epoch
            local == Epoch(epoch.days, epoch.secs + TIMEZONE_OFFSET_SECS)
            clock == Clock(dt.hour)
        IN  /\ local.days = 0 => dt = FirstDay(local.secs)
            /\ compute_datetime_from_epoch(Epoch(epoch.days + 1, epoch.secs)) = Tomorrow(dt)
            /\ compute_epoch(dt) = local
            /\ compute_datetime(dt, 0) = compute_datetime_from_epoch(local)
            /\ clock.hour \in 1..12
            /\ dt.hour = (clock.hour % 12) + (IF clock.pm THEN 12 ELSE 0)

\* What is typed reaches main(): unless a key met a full or an empty line, the line
\* is the text that was meant; its words, as many as argv holds, are the arguments,
\* complete, and main() finds them through the array on its stack, which ends in
\* NULL.  The kernel panics only if they do not fit the stack.  A name the shell
\* refuses is started only from a line that begins with a space (shell.c compares
\* the line, not the name).
TypedReachesMain ==
    output.kind = "line" =>
        LET words == Words(output.line)
            argc  == Len(output.argv)
            need  == FoldLeft(LAMBDA n, w : n + Len(w) + 1 + ((-(Len(w) + 1)) % PTR),
                                0, output.argv)
                     + (argc + 1) * PTR
        IN  /\ WithinBounds(input.keys) => output.line = Meant(input.keys)
            /\ Len(output.line) < MAXLINE
            /\ output.argv = SubSeq(words, 1, IF Len(words) < MAX_ARGS THEN Len(words) ELSE MAX_ARGS)
            /\ argc > 1 => (output.stack.panic <=> need > input.stack)
            /\ argc > 1 /\ ~output.stack.panic =>
                  /\ ReadArgv(output.stack, argc) = output.argv
                  /\ ReadPtr(output.stack.mem, output.stack.sp + argc * PTR) = 0
            /\ output.does = "exec" /\ output.argv[1] \in Refused => output.line[1] = SPACE

\* tarfs_lookup() finds the first file of that name where tar put it, or reports
\* that there is none, and sys_ls() names every file; every byte of a loadable
\* segment is found at the address it was linked for, and the rest of its memory is
\* zero.
ProgramLoaded ==
    /\ output.kind = "tar" =>
          LET archive == input.archive
              same    == {k \in DOMAIN archive : archive[k].name = input.name}
          IN  /\ output.names = [k \in DOMAIN archive |-> archive[k].name]
              /\ output.file = IF same = {} THEN NotFound
                               ELSE [at   |-> HeaderAt(archive, Min(same)) + TAR_BLOCK_SIZE,
                                     size |-> Size(archive[Min(same)].size)]
    /\ output.kind = "elf" /\ WellFormed(input.phdrs) => AsLinked(input.phdrs, output.memory)

\* copy_to_user() reports success only if every byte went to the frame of its own
\* page, across page borders too; when a page is missing, the bytes before it and no
\* others were written, and never one at a kernel address.
CopyLands ==
    output.kind = "copy" => Lands(input.pt, input.dst, input.len, output.copied)

\* A number printed is the number: the text has no superfluous digit and reads back
\* as the value, the most negative one included, however it is padded.  A field of
\* uart_putpad() is one narrower than asked for; that of uart_puthex() is not.  What
\* kvnprintf() leaves in a buffer, null byte included, is as much of the text as fits.
\* uart_printf() prints an int or a long as the number it is in its own type,
\* although both are passed in a register of a long.
NumbersReadBack ==
    /\ output.kind = "number" =>
          LET value  == Signed(input.word)
              digits == Len(Unpadded(output.dec))
          IN  /\ ReadNumber(output.plain, 10) = value /\ Plain(Unpadded(output.plain), 10)
              /\ output.dec = output.plain
              /\ ReadNumber(output.hex, 16) = input.word /\ Plain(output.hex, 16)
              /\ ReadNumber(output.field, 10) = value
              /\ Len(Unpadded(output.field)) = Max({digits, input.width - 1})
              /\ ReadDigits(Unpadded(output.blank), 10) = input.word
              /\ Plain(Unpadded(output.blank), 10)
              /\ ReadDigits(output.zeros, 16) = input.word
              /\ Len(output.zeros) = Max({Len(output.hex), input.width})
    /\ output.kind = "format" =>
          LET whole == Expand(input.items[1]) \o Expand(input.items[2])
          IN  /\ Len(output.buf) + 1 <= input.size
              /\ output.buf = SubSeq(whole, 1, Min({Len(whole), input.size - 1}))
    /\ output.kind = "printf" /\ input.fmt[1].spec \in {"d", "u", "x"} =>
          LET d      == input.fmt[1]
              values == IF d.length = 0 THEN INT ELSE WORD
              text   == Front(output.text)
          IN  /\ Last(output.text) = Other
              /\ d.spec = "d" =>
                    ReadNumber(SelectSeq(text, LAMBDA c : c # Blank), 10) = Signed(d.arg)
              /\ d.spec = "u" => ReadDigits(Unpadded(text), 10) = d.arg % values
              /\ d.spec = "x" => ReadDigits(text, 16) = d.arg % values
=============================================================================
