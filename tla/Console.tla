------------------------------ MODULE Console ------------------------------
(***************************************************************************)
(* printf on the screen: vprintf of libc/stdio/printf.c, one turn of its   *)
(* loop per step, with every character going through putchar to the text   *)
(* console.  A call is given by its items, from which the format string    *)
(* and the arguments are made; vprintf only sees those two, and the        *)
(* properties compare what it prints with what the items mean.             *)
(***************************************************************************)
EXTENDS Printf, Tty

CONSTANTS
  Calls,       \* the calls of printf, sequences of items
  MaxDepth     \* nested calls of printf for which there is stack

VARIABLES
  call,        \* the call of printf, as items
  frames,      \* the calls in progress, the innermost one last
  fields,      \* the fields of the directive being read, or NoFields
  todo,        \* the characters that print, print_int, ... have yet to put
  out,         \* history: the characters printed
  t            \* the console

vars == <<call, frames, fields, todo, out, t>>
-----------------------------------------------------------------------------
(***************************************************************************)
(* Items: a literal text, %%, a % at the end, or a directive with its      *)
(* arguments.                                                              *)
(***************************************************************************)
Text(s) == [kind |-> "text", text |-> s]
Percent == [kind |-> "percent"]
Lone    == [kind |-> "lone"]
\* prec is -1 when the directive has none.
Dir(pad, width, prec, u, l, spec, args) ==
  [kind |-> "dir", pad |-> pad, width |-> width, prec |-> prec, u |-> u, l |-> l,
   spec |-> spec, args |-> args]

RECURSIVE Numeral(_, _)
Numeral(v, base) ==
  IF v < base THEN <<hexchar(v)>>
              ELSE Numeral(v \div base, base) \o <<hexchar(v % base)>>

Optional(yes, c) == IF yes THEN <<c>> ELSE <<>>

Render(it) ==
  CASE it.kind = "text"    -> it.text
    [] it.kind = "percent" -> <<"%", "%">>
    [] it.kind = "lone"    -> <<"%">>
    [] it.kind = "dir"     ->
         <<"%">> \o Optional(it.pad = "0", "0")
           \o (IF it.width = 0 THEN <<>> ELSE Numeral(it.width, 10))
           \o (IF it.prec < 0 THEN <<>> ELSE <<".">> \o Numeral(it.prec, 10))
           \o Optional(it.u, "u") \o Optional(it.l, "l") \o <<it.spec>>

Format(c)    == FlattenSeq([k \in DOMAIN c |-> Render(c[k])])
Arguments(c) == FlattenSeq([k \in DOMAIN c |-> IF c[k].kind = "dir" THEN c[k].args ELSE <<>>])
-----------------------------------------------------------------------------
NoFields == [pad |-> "none"]

TypeOK ==
  /\ Len(frames) <= MaxDepth
  /\ t.row \in 0..(TTY_HEIGHT - 1) /\ t.col \in 0..(TTY_WIDTH - 1)
  /\ DOMAIN t.buf = Cells

Init ==
  /\ call \in Calls
  /\ frames = <<[fmt |-> Format(call), args |-> Arguments(call)]>>
  /\ fields = NoFields
  /\ todo = <<>>
  /\ out = <<>>
  /\ t = tty_init

top == Last(frames)

\* putchar; serial_putchar is the subject of Serial.
putchar ==
  /\ todo # <<>>
  /\ t' = tty_putchar(t, Head(todo))
  /\ out' = Append(out, Head(todo))
  /\ todo' = Tail(todo)
  /\ UNCHANGED <<call, frames, fields>>

\* vprintf is at the head of its loop.
AtLoop == todo = <<>> /\ frames # <<>> /\ fields = NoFields

\* The format and the arguments that the innermost call goes on with.
Continue(fmt, args) == Append(Front(frames), [fmt |-> fmt, args |-> args])

vprintf_literal ==
  /\ AtLoop /\ top.fmt # <<>> /\ is_literal(top.fmt)
  /\ todo' = literal_run(top.fmt)
  /\ frames' = Continue(after_run(top.fmt), top.args)
  /\ UNCHANGED <<call, fields, out, t>>

vprintf_fields ==
  /\ AtLoop /\ top.fmt # <<>> /\ ~ is_literal(top.fmt)
  /\ \E d \in {read_fields(top.fmt)} :
       /\ fields' = d
       /\ frames' = Continue(d.rest, top.args)
  /\ UNCHANGED <<call, todo, out, t>>

vprintf_switch ==
  /\ fields # NoFields
  /\ \E sp \in {read_specifier(top.fmt)} :
       /\ sp.spec \in Specifiers
       /\ todo' = convert(fields, sp, top.args)
       /\ frames' = Continue(sp.rest, Advance(top.args, n_args(sp)))
  /\ fields' = NoFields
  /\ UNCHANGED <<call, out, t>>

\* The default case calls printf with a format that itself ends in %c.
UnknownMessage == <<"m", "%", "c">>

\* Mutant: the message shows the specifier and no directive.
vprintf_unknown_plain ==
  /\ fields # NoFields
  /\ \E sp \in {read_specifier(top.fmt)} :
       /\ sp.spec \notin Specifiers
       /\ frames' = Continue(sp.rest, top.args)
       /\ todo' = <<"m", sp.spec>>
  /\ fields' = NoFields
  /\ UNCHANGED <<call, out, t>>

vprintf_unknown ==
  /\ fields # NoFields
  /\ Len(frames) < MaxDepth
  /\ \E sp \in {read_specifier(top.fmt)} :
       /\ sp.spec \notin Specifiers
       /\ frames' = Append(Continue(sp.rest, top.args),
                           [fmt |-> UnknownMessage, args |-> <<>>])
  /\ fields' = NoFields
  /\ UNCHANGED <<call, todo, out, t>>

vprintf_return ==
  /\ AtLoop /\ top.fmt = <<>>
  /\ frames' = Front(frames)
  /\ UNCHANGED <<call, fields, todo, out, t>>

Next ==
  \/ putchar
  \/ vprintf_literal \/ vprintf_fields \/ vprintf_switch \/ vprintf_unknown
  \/ vprintf_return

\* The only fairness is that the processor runs.
Spec == Init /\ [][Next]_vars /\ WF_vars(Next)
-----------------------------------------------------------------------------
(***************************************************************************)
(* What an item means, after the C standard where it defines the directive *)
(* (%b, the %u prefix and capital digits are this library's own): a minus  *)
(* sign goes in front of zeros and behind spaces, %lx is one number of two *)
(* words, and %f rounds to its places.                                     *)
(***************************************************************************)
\* Padding to the left.
PadTo(s, w, c) == Times(c, w - Len(s)) \o s

Signed(neg, s, w, c) ==
  IF neg /\ c = "0" THEN <<"-">> \o PadTo(s, w - 1, c)
  ELSE PadTo(Optional(neg, "-") \o s, w, c)

IsLong(it)   == it.spec = "x" /\ it.l
IsInt(it)    == it.spec \in {"d", "x", "b"} /\ ~ IsLong(it)
Base(it)     == [d |-> 10, x |-> 16, b |-> 2][it.spec]
IsSigned(it) == it.spec = "f" \/ (it.spec = "d" /\ ~ it.u)
Negative(it) == IsSigned(it) /\ it.args[1] < 0
Abs(n)       == IF n < 0 THEN -n ELSE n
Unsigned(it) == IF Negative(it) THEN -it.args[1] ELSE it.args[1] % Word
HexDigits    == WordBits \div 4
Places(it)   == IF it.prec < 0 THEN 6 ELSE it.prec

\* The digits of a number without its sign; p places behind the point.
Fraction(n, p) ==
  IF p = 0 THEN Numeral(n, 10)
  ELSE Numeral(n \div 10^p, 10) \o <<".">> \o PadTo(Numeral(n % 10^p, 10), p, "0")
Rounded(q, p)  == (q * 10^p + Scale \div 2) \div Scale
CutOff(q, p)   == (q * 10^p) \div Scale

Magnitude(it) ==
  CASE IsInt(it)     -> Numeral(Unsigned(it), Base(it))
    [] IsLong(it)    -> Numeral((it.args[2] % Word) * Word + (it.args[1] % Word), 16)
    [] it.spec = "f" -> Fraction(Rounded(Abs(it.args[1]), Places(it)), Places(it))

Meaning(it) ==
  CASE it.kind = "text"    -> it.text
    [] it.kind = "percent" -> <<"%">>
    [] it.kind = "dir" /\ it.spec = "s" -> PadTo(it.args[1], it.width, it.pad)
    [] it.kind = "dir" /\ it.spec # "s" -> Signed(Negative(it), Magnitude(it), it.width, it.pad)

Known(c) == \A k \in DOMAIN c : /\ c[k].kind # "lone"
                                /\ c[k].kind = "dir" => c[k].spec \in Specifiers

(***************************************************************************)
(* Where the library falls short of that.                                  *)
(***************************************************************************)
\* A number with more digits than print_int has room for, or one that does
\* not fit an int once its decimals are moved in front of the point.
Overruns(it) ==
  LET p == IF Places(it) > MaxPrecision THEN MaxPrecision ELSE Places(it)
  IN  \/ IsInt(it) /\ Unsigned(it) >= Base(it)^BufLen
      \/ it.spec = "f" /\ p > 0 /\ CutOff(Abs(it.args[1]), p) > INT_MAX

\* A minus sign in front of spaces.
SignMisplaced(it) ==
  Negative(it) /\ it.pad = " " /\ Len(Magnitude(it)) + 1 < it.width

\* %lx prints two numbers.  They read as one when the high word is not zero
\* and the low one shows all its digits, by itself or by %08lx.
WordsApart(it) ==
  /\ IsLong(it)
  /\ ~ /\ it.args[2] % Word # 0
       /\ \/ it.width = HexDigits /\ it.pad = "0"
          \/ it.width <= HexDigits /\ it.args[1] % Word >= 16^(HexDigits - 1)

\* %f cuts decimals off, shows at most MaxPrecision and a point in any case.
Inexact(it) ==
  /\ it.spec = "f"
  /\ \/ Places(it) = 0 \/ Places(it) > MaxPrecision
     \/ LET a == Abs(it.args[1]) IN CutOff(a, Places(it)) # Rounded(a, Places(it))

Deviates(it) ==
  it.kind = "dir" /\ it.spec # "s"
    /\ (Overruns(it) \/ SignMisplaced(it) \/ WordsApart(it) \/ Inexact(it))

(***************************************************************************)
(* What printf has printed when it returns is what the format and the      *)
(* arguments mean, for every number of every sign, base, width and         *)
(* padding, strings, %% and the text between them, as vprintf, parse_uint  *)
(* and print_int take them apart and put them together, as long as no      *)
(* directive is one of the four deviations; each of those prints something *)
(* else.  And a character nobody chose is printed exactly when a number    *)
(* has more digits than the buffer of print_int, or a fraction no longer   *)
(* fits an int.                                                            *)
(***************************************************************************)
PrintedAsSpecified ==
  LET means == FlattenSeq([k \in DOMAIN call |-> Meaning(call[k])])
  IN  frames = <<>> =>
        /\ (\A k \in DOMAIN call : ~ Deviates(call[k])) => out = means
        /\ Len(call) = 1 /\ Deviates(call[1]) => out # means
        /\ Garbage \in ToSet(out) <=>
             \E k \in DOMAIN call : call[k].kind = "dir" /\ Overruns(call[k])

(***************************************************************************)
(* The place of the character at position i of a text without wrapping:    *)
(* each paragraph of n characters takes n \div TTY_WIDTH + 1 lines, one    *)
(* more than it needs when it fills its last line exactly.                 *)
(***************************************************************************)
NewlinesBefore(s, i) == {e \in 1..(i - 1) : s[e] = "\n"}
ParagraphStart(s, i) == Max(NewlinesBefore(s, i) \cup {0})
Offset(s, i)         == i - ParagraphStart(s, i) - 1
LineOf(s, i) == MapThenSumSet(LAMBDA e : Offset(s, e) \div TTY_WIDTH + 1, NewlinesBefore(s, i))
                  + Offset(s, i) \div TTY_WIDTH
ColumnOf(s, i) == Offset(s, i) % TTY_WIDTH

(***************************************************************************)
(* The screen shows the last lines of what was printed and nothing else:   *)
(* row r holds the latest line whose number is r modulo the height, and    *)
(* the cursor is behind the last character.  newline, the wrap at the end  *)
(* of a row and the clearing of the row that comes next must agree on it.  *)
(***************************************************************************)
ScreenShowsLastLines ==
  LET here == LineOf(out, Len(out) + 1)
      shown(r) == Max({l \in 0..here : l % TTY_HEIGHT = r} \cup {-1})
  IN  /\ t.row = here % TTY_HEIGHT
      /\ t.col = ColumnOf(out, Len(out) + 1)
      /\ \A r \in 0..(TTY_HEIGHT - 1), c \in 0..(TTY_WIDTH - 1) :
           LET at == {i \in DOMAIN out : /\ out[i] # "\n"
                                         /\ LineOf(out, i) = shown(r)
                                         /\ ColumnOf(out, i) = c}
           IN  t.buf[r * TTY_WIDTH + c] = IF at = {} THEN Blank ELSE out[Max(at)]

(***************************************************************************)
(* printf returns when it knows every specifier of its format.  When it    *)
(* meets another one, a lone % at the end included, it never does: the     *)
(* message of the default case has an unknown specifier itself.            *)
(***************************************************************************)
ReturnsUnlessUnknown ==
  /\ Known(call) ~> frames = <<>>
  /\ [](~ Known(call) => frames # <<>>)

=============================================================================
