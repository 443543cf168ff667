------------------------------- MODULE Printf -------------------------------
(***************************************************************************)
(* The conversions of libc/stdio/printf.c as operators on texts, which are *)
(* sequences of characters.  A word has WordBits bits (32 in the kernel),  *)
(* the buffer of print_int BufLen characters (15).  Reading the buffer     *)
(* behind its end, or hexchars outside of it, gives a character nobody     *)
(* chose, which is Garbage here.                                           *)
(*                                                                         *)
(* The return value of vprintf, which no caller uses, is left out, and so  *)
(* is the exit of printf_try: putchar has no return statement, and the     *)
(* value it leaves behind in the default build, the character that outb    *)
(* wrote, is never negative.                                               *)
(***************************************************************************)
EXTENDS Integers, SequencesExt

CONSTANTS
  WordBits,       \* 32
  BufLen,         \* 15
  MaxPrecision    \* 10

ASSUME PrintfAssumption == {WordBits, BufLen, MaxPrecision} \subseteq Nat \ {0}

Word     == 2^WordBits
INT_MIN  == -(Word \div 2)
INT_MAX  == Word \div 2 - 1
Garbage  == "?"
hexchars == <<"0", "1", "2", "3", "4", "5", "6", "7",
              "8", "9", "A", "B", "C", "D", "E", "F">>
hexchar(d) == hexchars[d + 1]

\* The text c c ... c of n characters, empty when n is not positive.
Times(c, n) == [i \in 1..(IF n > 0 THEN n ELSE 0) |-> c]

-----------------------------------------------------------------------------
(***************************************************************************)
(* The first loop of print_int writes digit k to buffer[k] and stops at    *)
(* the first k with nothing left above it, or runs out of buffer.          *)
(***************************************************************************)
last_digit(unum, base) ==
  LET stops == {k \in 0..(BufLen - 1) : unum \div base^k < base}
  IN  IF stops = {} THEN BufLen ELSE Min(stops)

\* buffer[k] when it is printed.
buffer_at(unum, base, k) ==
  IF k < BufLen THEN hexchar((unum \div base^k) % base) ELSE Garbage

print_int(num, base, sig, width, pad_char) ==
  LET neg  == sig /\ num < 0
      unum == (IF neg THEN -num ELSE num) % Word
      i    == last_digit(unum, base)
      w    == IF neg THEN width - 1 ELSE width
  IN  (IF neg THEN <<"-">> ELSE <<>>)
        \o Times(pad_char, w - 1 - i)
        \o [j \in 1..(i + 1) |-> buffer_at(unum, base, i + 1 - j)]

(***************************************************************************)
(* print_double.  A number is q / Scale with an integer q: what a decimal  *)
(* fraction of a few places is before rounding to binary.  The conversion  *)
(* to int of a number that does not fit gives INT_MIN on this processor,   *)
(* whose last digit is negative and indexes in front of hexchars.          *)
(***************************************************************************)
Scale == 100

to_int(n, d) == IF n \div d <= INT_MAX THEN n \div d ELSE INT_MIN

decimal(q, i) ==
  LET num_int == to_int(q * 10^i, Scale)
  IN  IF num_int >= 0 THEN hexchar(num_int % 10) ELSE Garbage

print_double(q, width, precision, pad_char) ==
  LET p == IF precision > MaxPrecision THEN MaxPrecision ELSE precision
      w == IF q < 0 THEN width - 1 ELSE width
      a == IF q < 0 THEN -q ELSE q
  IN  (IF q < 0 THEN <<"-">> ELSE <<>>)
        \o print_int(to_int(a, Scale), 10, FALSE, w - p - 1, pad_char)
        \o <<".">>
        \o [i \in 1..p |-> decimal(a, i)]

-----------------------------------------------------------------------------
(***************************************************************************)
(* vprintf, one turn of its loop at a time, on a nonempty format f.        *)
(***************************************************************************)
\* f without its first n characters, and the character at the pointer.
Advance(f, n) == SubSeq(f, n + 1, Len(f))
At(f)         == IF f = <<>> THEN "NUL" ELSE Head(f)

\* The characters up to the next one outside of S.
RECURSIVE Span(_, _)
Span(f, S) == IF At(f) \notin S THEN <<>> ELSE <<Head(f)>> \o Span(Tail(f), S)

Digits == {"0", "1", "2", "3", "4", "5", "6", "7", "8", "9"}
digit_value(c) == (CHOOSE d \in 1..10 : hexchars[d] = c) - 1

parse_uint(f) == FoldLeft(LAMBDA n, c : n * 10 + digit_value(c), 0, Span(f, Digits))
after_uint(f) == Advance(f, Len(Span(f, Digits)))

\* f after an optional c.
skip(f, c) == IF At(f) = c THEN Tail(f) ELSE f

\* The literal run: with %% the first of the two is passed over, and the
\* second is printed whatever it is.
is_literal(f) == f[1] # "%" \/ (Len(f) > 1 /\ f[2] = "%")
amount(f)     == LET stops == {k \in 2..Len(f) : f[k] = "%"}
                 IN  IF stops = {} THEN Len(f) ELSE Min(stops) - 1
literal_run(f) == LET g == skip(f, "%") IN SubSeq(g, 1, amount(g))
after_run(f)   == LET g == skip(f, "%") IN Advance(g, amount(g))

\* The first fields of a directive, up to the precision, and what follows.
read_fields(f) ==
  LET f1 == skip(Tail(f), "0")
      f2 == after_uint(f1)
      f3 == IF At(f2) = "." THEN after_uint(Tail(f2)) ELSE f2
  IN  [pad   |-> IF At(Tail(f)) = "0" THEN "0" ELSE " ",
       width |-> parse_uint(f1),
       prec  |-> IF At(f2) = "." THEN parse_uint(Tail(f2)) ELSE 6,
       rest  |-> f3]

\* The rest of it: the two length flags and the specifier.
read_specifier(f) ==
  LET f4 == skip(f, "u")
      f5 == skip(f4, "l")
  IN  [sig   |-> At(f) # "u",
       large |-> At(f4) = "l",
       spec  |-> At(f5),
       rest  |-> Advance(f5, 1)]

Specifiers == {"s", "d", "x", "b", "f"}

\* The words that a directive takes from args.
n_args(sp) == IF sp.spec = "x" /\ sp.large THEN 2 ELSE 1

\* Mutant: the high word is printed behind the low one.
print_long_swapped(low, high, width, pad_char) ==
  print_int(low, 16, FALSE, width, pad_char)
    \o print_int(high, 16, FALSE, width - WordBits \div 4, pad_char)

print_long(low, high, width, pad_char) ==
  print_int(high, 16, FALSE, width - WordBits \div 4, pad_char)
    \o print_int(low, 16, FALSE, width, pad_char)

\* The switch: d holds the fields, sp the flags and the specifier.
convert(d, sp, args) ==
  CASE sp.spec = "s" -> Times(d.pad, d.width - Len(args[1])) \o args[1]
    [] sp.spec = "d" -> print_int(args[1], 10, sp.sig, d.width, d.pad)
    [] sp.spec = "x" /\ sp.large -> print_long(args[1], args[2], d.width, d.pad)
    [] sp.spec = "x" /\ ~ sp.large -> print_int(args[1], 16, FALSE, d.width, d.pad)
    [] sp.spec = "b" -> print_int(args[1], 2, FALSE, d.width, d.pad)
    [] sp.spec = "f" -> print_double(args[1], d.width, d.prec, d.pad)

=============================================================================
