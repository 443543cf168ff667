------------------------------ MODULE Keyboard ------------------------------
(***************************************************************************)
(* kernel/io/keyboard.c: keyboard_init talks to the keyboard controller    *)
(* while keyboard_handler may interrupt it, and afterwards the main thread *)
(* prints while the handler prints the keys.  kernel_main has the call of  *)
(* keyboard_init commented out; this is the kernel with it.                *)
(*                                                                         *)
(* External are the controller and the keyboard, as the emulator that the  *)
(* repository runs on has them: the controller executes what is in its     *)
(* input buffer, passes its answers and, unless the port is off, the keys  *)
(* through one output buffer, and raises its line while that buffer is     *)
(* full, the interrupt is enabled and the port is on.  A byte is the set   *)
(* of its one bits.                                                        *)
(***************************************************************************)
EXTENDS Tty

CONSTANTS
  Keys,       \* the scancodes that can be struck
  MaxKeys,    \* how many keys are struck (a bound)
  Text        \* what the main thread prints after keyboard_init

ASSUME KeyboardAssumption ==
  Keys \subseteq SUBSET (0..7) /\ MaxKeys \in Nat /\ Text \in Seq({"x", "\n"})

VARIABLES
  pc, busy, conf,            \* main: place in keyboard_init, in a flush, conf
  masked, irr,               \* the PIC: line masked, request latched
  cfg, storing, ibuf,        \* controller: configuration byte, 0x60 seen, input
  answer, obuf,              \*   an answer that waits, the output buffer
  queue, struck,             \* keyboard: keys not yet passed on, keys struck
  cfg0, wrong,               \* history: cfg at boot; reads that got another byte
  text, step, reg, at,       \* main printing: text left, place in tty_putchar
  t, raced                   \* the console; history: a handler found the row off it

mainVars    == <<pc, busy, conf, wrong>>
controller  == <<cfg, storing, ibuf, answer>>
keyboard    == <<queue, struck>>
printing    == <<text, step, reg, at>>
vars == <<mainVars, masked, irr, controller, obuf, keyboard, cfg0, printing, t, raced>>

Bytes  == SUBSET (0..7)
NoByte == [src |-> "none", byte |-> {}]
Byte(src, byte) == [src |-> src, byte |-> byte]

(***************************************************************************)
(* The calls that keyboard_init makes, in order.  conf_and and conf_or     *)
(* are expect_data with the assignment that follows it, expect is          *)
(* expect_data with the ASSERT on the answer to the command in arg.  The   *)
(* handler is registered before the first of them.                         *)
(***************************************************************************)
Op(op, arg) == [op |-> op, arg |-> arg]

\* Mutant: the output buffer is not flushed.
keyboard_init_no_flush ==
  << Op("irq_clear_mask", ""),
     Op("send_command", "AD"), Op("send_command", "A7"),
     Op("send_command", "20"), Op("conf_and", "20"), Op("send_command", "60"), Op("send_data", ""),
     Op("send_command", "AA"), Op("expect", "AA"),
     Op("send_command", "AB"), Op("expect", "AB"),
     Op("send_command", "AE"),
     Op("send_command", "20"), Op("conf_or", "20"), Op("send_command", "60"), Op("send_data", "") >>

keyboard_init ==
  << Op("irq_clear_mask", ""),
     Op("send_command", "AD"), Op("send_command", "A7"), Op("flush_output_buffer", ""),
     Op("send_command", "20"), Op("conf_and", "20"), Op("send_command", "60"), Op("send_data", ""),
     Op("send_command", "AA"), Op("expect", "AA"),
     Op("send_command", "AB"), Op("expect", "AB"),
     Op("send_command", "AE"),
     Op("send_command", "20"), Op("conf_or", "20"), Op("send_command", "60"), Op("send_data", "") >>

Returned == Len(keyboard_init) + 1
Panic    == 0
At(op)   == pc \in DOMAIN keyboard_init /\ keyboard_init[pc].op = op
Arg      == keyboard_init[pc].arg

\* The interrupt line, and the latch that keeps its rising edge.
Line  == obuf # NoByte /\ 0 \in cfg /\ 4 \notin cfg
Latch == irr' = (irr \/ (~ Line /\ Line'))

\* A pending interrupt is taken before the next instruction, and every step
\* of the main thread below is at least one.
Runs == ~ (irr /\ ~ masked)

TypeOK ==
  /\ pc \in 0..Returned /\ busy \in BOOLEAN /\ conf \in Bytes
  /\ {masked, irr, storing, raced} \subseteq BOOLEAN
  /\ {cfg, cfg0} \subseteq Bytes
  /\ {ibuf.byte, answer.byte, obuf.byte} \subseteq Bytes
  /\ queue \in Seq(Keys) /\ struck \in 0..MaxKeys /\ wrong \subseteq 1..Len(keyboard_init)
  /\ t.row \in Nat /\ t.col \in 0..TTY_WIDTH

(***************************************************************************)
(* The boot firmware has left the port on, its interrupt enabled or not,   *)
(* scancode translation (bit 6) on, and possibly a key in the buffer; the  *)
(* PIC is masked and has latched what came so far.                         *)
(***************************************************************************)
Init ==
  /\ pc = 1 /\ busy = FALSE /\ conf = {} /\ wrong = {}
  /\ cfg \in {{2, 6}, {0, 2, 6}} /\ cfg0 = cfg
  /\ storing = FALSE /\ ibuf = NoByte /\ answer = NoByte
  /\ obuf \in {NoByte} \cup {Byte("key", k) : k \in Keys}
  /\ masked = TRUE /\ irr \in BOOLEAN /\ (Line => irr)
  /\ queue = <<>> /\ struck = 0
  /\ text = Text /\ step = "next" /\ reg = 0 /\ at = <<0, 0>>
  /\ t = tty_init /\ raced = FALSE
-----------------------------------------------------------------------------
irq_clear_mask ==
  /\ At("irq_clear_mask") /\ Runs
  /\ masked' = FALSE /\ pc' = pc + 1
  /\ UNCHANGED <<busy, conf, wrong, irr, controller, obuf, keyboard, cfg0, printing, t, raced>>

\* The outb of send_command and of send_data.
send(byte) ==
  /\ Runs /\ ~ busy
  /\ ibuf' = byte /\ busy' = TRUE
  /\ UNCHANGED <<pc, conf, wrong, masked, irr, cfg, storing, answer, obuf, keyboard, cfg0,
                 printing, t, raced>>

send_command == At("send_command") /\ send(Byte(Arg, {}))
send_data    == At("send_data") /\ send(Byte("data", conf))

flush_input_buffer ==
  /\ Runs /\ busy /\ ibuf = NoByte
  /\ busy' = FALSE /\ pc' = pc + 1
  /\ UNCHANGED <<conf, wrong, masked, irr, controller, obuf, keyboard, cfg0, printing, t, raced>>

\* Reading the status and then the data is one step: with the buffer full
\* and Runs, nothing can change the buffer in between.
flush_output_buffer ==
  /\ At("flush_output_buffer") /\ Runs
  /\ obuf' = NoByte
  /\ pc' = IF obuf = NoByte THEN pc + 1 ELSE pc
  /\ UNCHANGED <<busy, conf, wrong, masked, controller, keyboard, cfg0, printing, t, raced>>
  /\ Latch

\* The answers that the two ASSERTs expect, 0x55 and 0x00.
Good(cmd) == IF cmd = "AA" THEN {0, 2, 4, 6} ELSE {}

\* Mutant: the second read of the configuration goes back as it was.
after_read_no_or(op, byte) == IF op = "conf_and" THEN byte \ {0, 1, 6} ELSE byte

\* What keyboard_init makes of the configuration byte.
after_read(op, byte) == IF op = "conf_and" THEN byte \ {0, 1, 6} ELSE byte \cup {0}

expect_data ==
  /\ At("conf_and") \/ At("conf_or") \/ At("expect")
  /\ Runs /\ obuf # NoByte
  /\ obuf' = NoByte
  /\ \/ /\ At("expect")
        /\ pc' = IF obuf.byte = Good(Arg) THEN pc + 1 ELSE Panic
        /\ UNCHANGED conf
     \/ /\ ~ At("expect")
        /\ conf' = after_read(keyboard_init[pc].op, obuf.byte)
        /\ pc' = pc + 1
  /\ wrong' = IF obuf.src = Arg THEN wrong ELSE wrong \cup {pc}
  /\ UNCHANGED <<busy, masked, controller, keyboard, cfg0, printing, t, raced>>
  /\ Latch

(***************************************************************************)
(* isr_handle_irq and keyboard_handler: acknowledge, read the data port    *)
(* and print it.  Interrupts are off, so main sees it as one step.         *)
(***************************************************************************)
keyboard_handler ==
  /\ irr /\ ~ masked
  /\ irr' = FALSE
  /\ obuf' = NoByte
  /\ t' = tty_writebuf(t, <<"k", "\n">>)
  /\ raced' = (raced \/ t.row >= TTY_HEIGHT)
  /\ UNCHANGED <<mainVars, masked, controller, keyboard, cfg0, printing>>
-----------------------------------------------------------------------------
\* External: the controller executes the command or stores the byte.
Execute ==
  /\ ibuf # NoByte
  /\ ibuf' = NoByte
  /\ LET c == ibuf.src
     IN  /\ cfg' = CASE c = "AD" -> cfg \cup {4}
                     [] c = "AE" -> cfg \ {4}
                     [] c = "A7" -> cfg \cup {5}
                     [] c = "data" /\ storing -> ibuf.byte
                     [] OTHER -> cfg
         /\ storing' = (c = "60")
         /\ answer' = CASE c = "20" -> Byte("20", cfg)
                        [] c \in {"AA", "AB"} -> Byte(c, Good(c))
                        [] OTHER -> answer
  /\ UNCHANGED <<mainVars, masked, obuf, keyboard, cfg0, printing, t, raced>>
  /\ Latch

\* External: an answer, or a key of a port that is on, enters the buffer.
Answer ==
  /\ obuf = NoByte /\ answer # NoByte
  /\ obuf' = answer /\ answer' = NoByte
  /\ UNCHANGED <<mainVars, masked, cfg, storing, ibuf, keyboard, cfg0, printing, t, raced>>
  /\ Latch

PassKey ==
  /\ obuf = NoByte /\ queue # <<>> /\ 4 \notin cfg
  /\ obuf' = Byte("key", Head(queue)) /\ queue' = Tail(queue)
  /\ UNCHANGED <<mainVars, masked, controller, struck, cfg0, printing, t, raced>>
  /\ Latch

Strike(k) ==
  /\ struck < MaxKeys
  /\ struck' = struck + 1 /\ queue' = Append(queue, k)
  /\ UNCHANGED <<mainVars, masked, irr, controller, obuf, cfg0, printing, t, raced>>
-----------------------------------------------------------------------------
(***************************************************************************)
(* The main thread in tty_putchar, as the default build without            *)
(* optimisation runs it: ++tty_column == TTY_WIDTH loads, stores, loads    *)
(* again and compares, and the same for tty_row in newline.  Clearing the  *)
(* line does not move the cursor and is one step, although a handler may   *)
(* come in between and the loop then go on in another row: the text in the *)
(* cells is in no property here.                                           *)
(***************************************************************************)
ch == Head(text)

Go(here, next) ==
  /\ pc = Returned /\ Runs /\ text # <<>>
  /\ step = here /\ step' = next
  /\ UNCHANGED <<mainVars, masked, irr, controller, obuf, keyboard, cfg0, raced>>

putchar_switch ==
  /\ Go("next", IF ch = "\n" THEN "load_row" ELSE "load_cell")
  /\ UNCHANGED <<text, reg, at, t>>

load_cell == Go("load_cell", "put") /\ at' = <<t.col, t.row>> /\ UNCHANGED <<text, reg, t>>
put_cell  == Go("put", "load_col") /\ t' = tty_putcharat(t, ch, at[1], at[2])
               /\ UNCHANGED <<text, reg, at>>

load_col  == Go("load_col", "store_col") /\ reg' = t.col /\ UNCHANGED <<text, at, t>>
store_col == Go("store_col", "cmp_col") /\ t' = [t EXCEPT !.col = reg + 1] /\ UNCHANGED <<text, reg, at>>

\* Mutant: tty_column++ == TTY_WIDTH, which compares the old column.
cmp_col_old_value ==
             /\ Go("cmp_col", IF reg = TTY_WIDTH THEN "reset_col" ELSE "next")
             /\ text' = IF reg = TTY_WIDTH THEN text ELSE Tail(text)
             /\ UNCHANGED <<reg, at, t>>

cmp_col   == /\ Go("cmp_col", IF t.col = TTY_WIDTH THEN "reset_col" ELSE "next")
             /\ text' = IF t.col = TTY_WIDTH THEN text ELSE Tail(text)
             /\ UNCHANGED <<reg, at, t>>
reset_col == Go("reset_col", "load_row") /\ t' = [t EXCEPT !.col = 0] /\ UNCHANGED <<text, reg, at>>

load_row  == Go("load_row", "store_row") /\ reg' = t.row /\ UNCHANGED <<text, at, t>>
store_row == Go("store_row", "cmp_row") /\ t' = [t EXCEPT !.row = reg + 1] /\ UNCHANGED <<text, reg, at>>
cmp_row   == /\ Go("cmp_row", IF t.row = TTY_HEIGHT THEN "reset_row" ELSE "clear")
             /\ UNCHANGED <<text, reg, at, t>>
reset_row == Go("reset_row", "clear") /\ t' = [t EXCEPT !.row = 0] /\ UNCHANGED <<text, reg, at>>
clear     == /\ Go("clear", IF ch = "\n" THEN "return" ELSE "next")
             /\ t' = clear_line(t)
             /\ text' = IF ch = "\n" THEN text ELSE Tail(text)
             /\ UNCHANGED <<reg, at>>
carriage_return ==
             Go("return", "next") /\ t' = [t EXCEPT !.col = 0]
             /\ text' = Tail(text) /\ UNCHANGED <<reg, at>>

tty_steps ==
  \/ putchar_switch \/ load_cell \/ put_cell
  \/ load_col \/ store_col \/ cmp_col \/ reset_col
  \/ load_row \/ store_row \/ cmp_row \/ reset_row \/ clear \/ carriage_return
-----------------------------------------------------------------------------
main ==
  \/ irq_clear_mask \/ send_command \/ send_data \/ flush_input_buffer
  \/ flush_output_buffer \/ expect_data \/ tty_steps

Next ==
  \/ main \/ keyboard_handler
  \/ Execute \/ Answer \/ PassKey \/ \E k \in Keys : Strike(k)

(***************************************************************************)
(* The processor runs and takes its interrupts, and the controller does    *)
(* its work.  Nobody has to strike a key.                                  *)
(***************************************************************************)
Spec ==
  /\ Init /\ [][Next]_vars
  /\ WF_vars(main) /\ WF_vars(keyboard_handler)
  /\ WF_vars(Execute) /\ WF_vars(Answer) /\ WF_vars(PassKey)
-----------------------------------------------------------------------------
\* The second read of the configuration byte.
LastRead == CHOOSE i \in DOMAIN keyboard_init : keyboard_init[i].op = "conf_or"

(***************************************************************************)
(* Every expect_data of keyboard_init gets the answer to the command just  *)
(* sent, although the handler reads the same port and keys come at any     *)
(* time; the only exception is the last one, which can get a key struck    *)
(* after the port was turned on.  The two tests never fail, and without    *)
(* the exception keyboard_init leaves the configuration that the firmware  *)
(* had, with the first interrupt on, the second port and the translation   *)
(* off.                                                                    *)
(***************************************************************************)
AnswersMatched ==
  /\ pc # Panic
  /\ wrong \subseteq {LastRead}
  /\ pc = Returned /\ wrong = {} => cfg = (cfg0 \ {1, 4, 6}) \cup {0, 5}

(***************************************************************************)
(* keyboard_init returns: none of its three busy loops waits for ever for  *)
(* a byte that the handler has taken.  And from then on every key that is  *)
(* struck is taken from the controller by the handler, unless a key was    *)
(* mistaken for the configuration.                                         *)
(***************************************************************************)
KeysReported ==
  /\ <>(pc = Returned)
  /\ (pc = Returned /\ wrong = {}) ~> (queue = <<>> /\ obuf = NoByte)

(***************************************************************************)
(* Between two characters of the main thread the cursor is on the screen,  *)
(* and main addresses no cell outside of it, wherever handlers have        *)
(* printed in the middle of tty_putchar and newline.  A handler that finds *)
(* the column behind the end of the line does no lasting harm.  One that   *)
(* finds the row behind the last, between the increment and the reset in   *)
(* newline, is the exception: of the row nothing is promised afterwards.   *)
(***************************************************************************)
CursorOnScreen ==
  /\ step = "next" => t.col < TTY_WIDTH
  /\ at[1] < TTY_WIDTH
  /\ ~ raced => /\ step = "next" => t.row < TTY_HEIGHT
                /\ at[2] < TTY_HEIGHT

=============================================================================
