------------------------------- MODULE Format -------------------------------
(***************************************************************************)
(* Numbers as text: itoa_unsigned(), itoa_signed() and kvnprintf() of      *)
(* common.c, uart_put_dec(), uart_putpad(), uart_puthex() and uart_printf()*)
(* of kernel/uart.c and their twins in user/lib/printf.c.                  *)
(*                                                                         *)
(* A character is a number: a digit is its value, and a few others follow. *)
(***************************************************************************)
EXTENDS Integers, Sequences, SequencesExt

CONSTANTS
    WORD,            \* values of an unsigned word (2^64; 2^32 in common.c)
    INT              \* values of an unsigned int (2^32)

ASSUME FormatAssumption ==
    /\ WORD \in Nat /\ INT \in Nat \ {0}
    /\ INT % 2 = 0 /\ WORD % INT = 0 /\ WORD > 0

Minus == -1
Blank == -2
Hex   == -3          \* the x of 0x
Sign  == -4          \* the character %
Other == -5          \* any other character

\* A word read as signed, and back.
Signed(word)   == IF word < WORD \div 2 THEN word ELSE word - WORD
Unsigned(value) == value % WORD

\* The digits a division loop yields, highest first; zero has one.
DigitsOf(value, base) ==
    LET digits[v \in 0 .. (WORD - 1)] ==
            IF v < base THEN <<v>> ELSE Append(digits[v \div base], v % base)
    IN  digits[value]

itoa_unsigned(value, base) ==
    IF base < 2 \/ base > 16 THEN <<>> ELSE DigitsOf(value, base)

\* -value is negated in an int: the least one is its own negative.
itoa_signed(value, base) ==
    IF base < 2 \/ base > 16 THEN <<>>
    ELSE IF value < 0 /\ base = 10
    THEN <<Minus>> \o itoa_unsigned(Unsigned(-value), base)
    ELSE itoa_unsigned(Unsigned(value), base)

uart_put_udec(value) == DigitsOf(value, 10)

uart_put_dec(value) ==
    IF value < 0 THEN <<Minus>> \o uart_put_udec(Unsigned(-value)) ELSE uart_put_udec(value)

Repeat(c, n) == [i \in 1 .. (IF n > 0 THEN n ELSE 0) |-> c]

\* The digits without a sign; putpad and puthex start from them.
Magnitude(val, signed_val) ==
    IF signed_val /\ Signed(val) < 0 THEN Unsigned(-Signed(val)) ELSE val

Negative(val, signed_val) == IF signed_val /\ Signed(val) < 0 THEN <<Minus>> ELSE <<>>

\* The null byte is counted: len is one more than the digits.
putpad_len(digits) == Len(digits) + 1

uart_putpad(val, base, width, zero_pad, signed_val) ==
    LET digits == DigitsOf(Magnitude(val, signed_val), base)
        pad    == IF zero_pad THEN 0 ELSE Blank
    IN  Negative(val, signed_val) \o Repeat(pad, width - putpad_len(digits)) \o digits

uart_puthex(value, width) ==
    LET digits == DigitsOf(value, 16)
    IN  Repeat(0, width - Len(digits)) \o digits

-----------------------------------------------------------------------------
(* uart_printf.  A format is a sequence of directives: a literal, or the    *)
(* flag, width and length that were parsed, the conversion, and the         *)
(* register or stack slot that holds the argument.                          *)

\* Variant: the argument is always taken as a long.
va_arg_long(arg, length, signed_val) == arg

\* va_arg() with no l takes an int, which is widened with or without its sign.
va_arg(arg, length, signed_val) ==
    LET low == arg % INT
    IN  IF length > 0 THEN arg
        ELSE IF signed_val /\ low >= INT \div 2 THEN Unsigned(low - INT) ELSE low

\* sizeof(void *) * 2
PointerDigits == Len(DigitsOf(WORD - 1, 16))

Directive(d) ==
    CASE d.spec = "d" -> uart_putpad(va_arg(d.arg, d.length, TRUE), 10, d.width, d.zero_pad, TRUE)
      [] d.spec = "u" -> uart_putpad(va_arg(d.arg, d.length, FALSE), 10, d.width, d.zero_pad, FALSE)
      [] d.spec = "x" -> uart_puthex(va_arg(d.arg, d.length, FALSE), d.width)
      [] d.spec = "p" -> <<0, Hex>> \o uart_puthex(d.arg, PointerDigits)
      [] d.spec = "s" -> d.text
      [] d.spec = "%" -> <<Sign>>
      [] d.spec = "unknown" -> <<Sign, Other>>
      [] OTHER -> <<Other>>        \* %c, a literal

uart_printf(fmt) == FlattenSeq([i \in DOMAIN fmt |-> Directive(fmt[i])])

-----------------------------------------------------------------------------
(* kvnprintf.  A format is a sequence of items: a literal, or a conversion  *)
(* with its argument.                                                       *)

Expand(item) ==
    CASE item.spec = "s" -> item.text
      [] item.spec = "d" -> itoa_signed(item.val, 10)
      [] item.spec = "u" -> itoa_unsigned(Unsigned(item.val), 10)
      [] item.spec = "x" -> itoa_unsigned(Unsigned(item.val), 16)
      [] item.spec = "p" -> <<0, Hex>> \o itoa_unsigned(Unsigned(item.val), 16)
      [] item.spec = "%" -> <<Sign>>
      [] item.spec = "unknown" -> <<Sign, Other>>
      [] OTHER -> <<Other>>        \* %c, a literal

\* Variant: the null byte is forgotten.
Room_full(size, buf) == size - Len(buf)

\* i < size - 1: one byte stays for the null byte.
Room(size, buf) == size - 1 - Len(buf)

\* The characters of an item go in as long as there is room.
Put(size, buf, item) ==
    LET text == Expand(item)
        n    == IF Len(text) < Room(size, buf) THEN Len(text) ELSE Room(size, buf)
    IN  buf \o SubSeq(text, 1, n)

kvnprintf(size, fmt) == FoldLeft(LAMBDA buf, item : Put(size, buf, item), <<>>, fmt)

-----------------------------------------------------------------------------
(* Reference: a text read as a number.                                      *)

ReadDigits(s, base) == FoldLeft(LAMBDA v, d : v * base + d, 0, s)

ReadNumber(s, base) ==
    IF s # <<>> /\ s[1] = Minus THEN -ReadDigits(Tail(s), base) ELSE ReadDigits(s, base)

\* Digits of the base, without leading zeros.
Plain(s, base) ==
    /\ s # <<>> /\ \A i \in DOMAIN s : s[i] \in 0 .. (base - 1)
    /\ s[1] = 0 => Len(s) = 1

\* A text without its sign and its padding.
Unpadded(s) == SelectSeq(s, LAMBDA c : c >= 0)
=============================================================================
