-------------------------------- MODULE Tty --------------------------------
(***************************************************************************)
(* The text console, kernel/io/tty.c: a cursor and a screen of TTY_HEIGHT  *)
(* rows that is filled from the top and, from the last row, continues with *)
(* the first one.  These are operators over a value t of the console;      *)
(* Console and Keyboard give it a state.  Colours are left out.            *)
(***************************************************************************)
EXTENDS Integers, Sequences

CONSTANTS TTY_WIDTH, TTY_HEIGHT

ASSUME TtyAssumption == {TTY_WIDTH, TTY_HEIGHT} \subseteq Nat \ {0}

\* tty_buf, by index; a cell is blank after tty_clear and after a line clear.
Cells == 0..(TTY_WIDTH * TTY_HEIGHT - 1)
Blank == " "

\* tty_row and tty_column are zero from the start; tty_init only clears.
tty_init == [row |-> 0, col |-> 0, buf |-> [i \in Cells |-> Blank]]

\* tty_putcharat; the index is not tested, and what lies behind the screen
\* is not part of it.
tty_putcharat(t, c, x, y) ==
  LET index == y * TTY_WIDTH + x
  IN  IF index \in Cells THEN [t EXCEPT !.buf[index] = c] ELSE t

\* The loop of newline that clears the line the cursor is in.
clear_line(t) ==
  [t EXCEPT !.buf = [i \in Cells |-> IF i \div TTY_WIDTH = t.row THEN Blank ELSE @[i]]]

\* Mutant: the row is not taken back to the top.
newline_no_wrap(t) == clear_line([t EXCEPT !.row = @ + 1])

\* Mutant: the new line keeps what it showed before.
newline_no_clear(t) == [t EXCEPT !.row = IF @ + 1 = TTY_HEIGHT THEN 0 ELSE @ + 1]

newline(t) ==
  clear_line([t EXCEPT !.row = IF @ + 1 = TTY_HEIGHT THEN 0 ELSE @ + 1])

\* tty_putchar, uninterrupted.
tty_putchar(t, c) ==
  IF c = "\n" THEN [newline(t) EXCEPT !.col = 0]
  ELSE IF c = "\r" THEN [t EXCEPT !.col = 0]
  ELSE LET u == [tty_putcharat(t, c, t.col, t.row) EXCEPT !.col = @ + 1]
       IN  IF u.col = TTY_WIDTH THEN newline([u EXCEPT !.col = 0]) ELSE u

tty_writebuf(t, text) ==
  LET written[k \in 0..Len(text)] ==
        IF k = 0 THEN t ELSE tty_putchar(written[k - 1], text[k])
  IN  written[Len(text)]

=============================================================================
