------------------------------- MODULE Serial -------------------------------
(***************************************************************************)
(* kernel/io/serial.c with the interrupt dispatch of isr.c, isr.asm and    *)
(* tables.c, from idt_init to the first lines kernel_main prints: the main *)
(* thread masks the PIC, enables interrupts, sets up the serial port and   *)
(* the timer and prints through serial_putchar, while serial_handler       *)
(* echoes what is received.  The steps are the port accesses, since an     *)
(* interrupt may come between any two of them.                             *)
(*                                                                         *)
(* External are the PIC (it latches the rising edge of a line, also of a   *)
(* masked one) and the UART: a receive queue whose line is high while the  *)
(* queue holds at least Threshold characters or a character has waited for *)
(* a while, and a transmit queue.                                          *)
(***************************************************************************)
EXTENDS Integers, Sequences

CONSTANTS
  FifoSize,    \* length of the UART's queues (16)
  Threshold,   \* characters that raise the line at once (14)
  Text,        \* what timer_init and then kernel_main print
  Input        \* what is received, a bounded sequence

ASSUME SerialAssumption ==
  /\ FifoSize \in Nat \ {0, 1} /\ Threshold \in 1..FifoSize
  /\ {Text, Input} \subseteq Seq({"x", "\n"}) /\ Text # <<>>

Lines == {"timer", "com1"}

VARIABLES
  pc, text, todo, ready,             \* main: step, text left, putchar's bytes
  handlers, active_port,             \* interrupt_handlers, serial_active_port
  imr, irr, in_service, iflag,       \* the PIC and IF
  isr, line, echo,                   \* the handler: step, line, bytes left
  ier, rx, timeout, received, tx,    \* the UART
  sent                               \* history: the bytes written to it

main    == <<pc, text, todo, ready>>
setup   == <<handlers, active_port>>
pic     == <<imr, in_service, iflag>>
handler == <<isr, line, echo>>
vars    == <<main, setup, pic, irr, handler, ier, rx, timeout, received, tx, sent>>

\* idt_init has not run yet: requests may wait, and the BIOS may have used
\* the port.
Init ==
  /\ pc = "idt_init" /\ text = <<>> /\ todo = <<>> /\ ready = FALSE
  /\ handlers = {} /\ active_port = FALSE
  /\ imr = {} /\ irr \in SUBSET Lines /\ in_service = FALSE /\ iflag = FALSE
  /\ isr = "none" /\ line = "timer" /\ echo = <<>>
  /\ ier \in BOOLEAN /\ rx = <<>> /\ timeout = FALSE /\ received = 0
  /\ tx = 0 /\ sent = <<>>
-----------------------------------------------------------------------------
(***************************************************************************)
(* The UART and the PIC.                                                   *)
(***************************************************************************)
High(enabled, queue, late) == enabled /\ (Len(queue) >= Threshold \/ late)

\* A change of the UART; a rising edge of its line is latched.
Uart(enabled, queue, late) ==
  /\ ier' = enabled /\ rx' = queue /\ timeout' = late
  /\ irr' = IF High(enabled, queue, late) /\ ~ High(ier, rx, timeout)
            THEN irr \cup {"com1"} ELSE irr

\* A character arrives; it is lost when the queue is full.
Receive ==
  /\ received < Len(Input)
  /\ received' = received + 1
  /\ Uart(ier, IF Len(rx) = FifoSize THEN rx
               ELSE Append(rx, [from |-> "input", n |-> received + 1,
                                 byte |-> Input[received + 1]]),
          timeout)
  /\ UNCHANGED <<main, setup, pic, handler, tx, sent>>

\* Characters have waited for the time of four.
Wait ==
  /\ rx # <<>> /\ ~ timeout
  /\ Uart(ier, rx, TRUE)
  /\ UNCHANGED <<main, setup, pic, handler, received, tx, sent>>

Transmit ==
  /\ tx > 0
  /\ tx' = tx - 1
  /\ UNCHANGED <<main, setup, pic, irr, handler, ier, rx, timeout, received, sent>>

\* Ticks are 55 ms apart, so none falls into the handler of the one before.
Tick ==
  /\ "timer" \notin irr
  /\ isr # "none" => line # "timer"
  /\ irr' = irr \cup {"timer"}
  /\ UNCHANGED <<main, setup, pic, handler, ier, rx, timeout, received, tx, sent>>
-----------------------------------------------------------------------------
(***************************************************************************)
(* serial_putchar writes a carriage return before a newline; both go       *)
(* through the loop that waits for an empty transmit queue.                *)
(***************************************************************************)
\* Mutant: the carriage return follows the newline.
bytes_swapped(c) == IF c.byte = "\n" THEN <<c, [c EXCEPT !.byte = "\r"]>> ELSE <<c>>

bytes(c) == IF c.byte = "\n" THEN <<[c EXCEPT !.byte = "\r"], c>> ELSE <<c>>

serial_tx_empty == tx = 0

outb(byte) == tx' = tx + 1 /\ sent' = Append(sent, byte)

(***************************************************************************)
(* The interrupt path: the gate clears IF, isr_handle_irq sends the EOI    *)
(* and looks up the handler, and iret sets IF again.  timer_handler is     *)
(* described in Sleep.  Without a handler a message is printed.            *)
(***************************************************************************)
Deliver(l) ==
  /\ iflag /\ isr = "none" /\ ~ in_service
  /\ l \in irr \ imr
  /\ l = "com1" => "timer" \notin irr \ imr
  /\ irr' = irr \ {l}
  /\ in_service' = TRUE /\ iflag' = FALSE
  /\ isr' = "eoi" /\ line' = l
  /\ UNCHANGED <<main, setup, imr, echo, ier, rx, timeout, received, tx, sent>>

\* Mutant: no EOI is sent.
isr_handle_irq_no_eoi ==
  /\ isr = "eoi"
  /\ isr' = IF line \notin handlers THEN "unhandled"
            ELSE IF line = "com1" THEN "inb" ELSE "iret"
  /\ UNCHANGED <<main, setup, pic, irr, line, echo, ier, rx, timeout, received, tx, sent>>

isr_handle_irq ==
  /\ isr = "eoi"
  /\ in_service' = FALSE
  /\ isr' = IF line \notin handlers THEN "unhandled"
            ELSE IF line = "com1" THEN "inb" ELSE "iret"
  /\ UNCHANGED <<main, setup, imr, irr, iflag, line, echo, ier, rx, timeout,
                 received, tx, sent>>

\* Of an empty queue, inb returns what the UART likes.
serial_handler_read ==
  /\ isr = "inb"
  /\ echo' = bytes(IF rx = <<>> THEN [from |-> "stale", n |-> 0, byte |-> "x"] ELSE Head(rx))
  /\ Uart(ier, IF rx = <<>> THEN rx ELSE Tail(rx), FALSE)
  /\ isr' = "tx_empty"
  /\ UNCHANGED <<main, setup, pic, line, received, tx, sent>>

serial_handler_wait ==
  /\ isr = "tx_empty" /\ serial_tx_empty
  /\ isr' = "outb"
  /\ UNCHANGED <<main, setup, pic, irr, line, echo, ier, rx, timeout, received, tx, sent>>

serial_handler_write ==
  /\ isr = "outb"
  /\ outb(Head(echo))
  /\ echo' = Tail(echo)
  /\ isr' = IF Len(echo) = 1 THEN "iret" ELSE "tx_empty"
  /\ UNCHANGED <<main, setup, pic, irr, line, ier, rx, timeout, received>>

iret ==
  /\ isr \in {"iret", "unhandled"}
  /\ isr' = "none" /\ iflag' = TRUE
  /\ UNCHANGED <<main, setup, imr, irr, in_service, line, echo, ier, rx, timeout,
                 received, tx, sent>>

Isr == isr_handle_irq \/ serial_handler_read \/ serial_handler_wait
       \/ serial_handler_write \/ iret
-----------------------------------------------------------------------------
(***************************************************************************)
(* The main thread.                                                        *)
(***************************************************************************)
At(p) == pc = p /\ isr = "none"

\* Mutant: the PIC is remapped and left unmasked.
idt_init_unmasked ==
  /\ At("idt_init")
  /\ irr' = {} /\ imr' = {} /\ iflag' = TRUE
  /\ pc' = "register_com1"
  /\ UNCHANGED <<text, todo, ready, setup, in_service, handler, ier, rx, timeout,
                 received, tx, sent>>

\* Both PICs are initialised, which forgets their requests, and masked; then
\* idt_flush enables interrupts.
idt_init ==
  /\ At("idt_init")
  /\ irr' = {} /\ imr' = Lines /\ iflag' = TRUE
  /\ pc' = "register_com1"
  /\ UNCHANGED <<text, todo, ready, setup, in_service, handler, ier, rx, timeout,
                 received, tx, sent>>

irq_register_handler(l, next) ==
  /\ handlers' = handlers \cup {l}
  /\ pc' = next
  /\ UNCHANGED <<todo, ready, active_port, pic, irr, handler, ier, rx, timeout,
                 received, tx, sent>>

irq_clear_mask(l, next) ==
  /\ imr' = imr \ {l}
  /\ pc' = next
  /\ UNCHANGED <<todo, ready, setup, irr, in_service, iflag, handler, ier, rx,
                 timeout, received, tx, sent>>

\* The steps of serial_init: interrupts of the port off and its queues
\* cleared, the port made known, interrupts of the port on.
serial_init_port(step, port, enabled, queue, next) ==
  /\ At(step)
  /\ active_port' = port
  /\ Uart(enabled, queue, timeout /\ queue # <<>>)
  /\ pc' = next
  /\ UNCHANGED <<text, todo, ready, handlers, pic, handler, received, tx, sent>>

serial_init ==
  \/ At("register_com1") /\ UNCHANGED text /\ irq_register_handler("com1", "reset")
  \/ serial_init_port("reset", FALSE, FALSE, <<>>, "activate")
  \/ serial_init_port("activate", TRUE, FALSE, rx, "enable")
  \/ serial_init_port("enable", TRUE, TRUE, rx, "unmask_com1")
  \/ At("unmask_com1") /\ UNCHANGED text /\ irq_clear_mask("com1", "drain")

\* while (serial_rx_data_ready()) inb(port); the byte is dropped.
drain ==
  \/ /\ At("drain")
     /\ pc' = IF rx # <<>> THEN "drain_inb" ELSE "register_timer"
     /\ UNCHANGED <<irr, ier, rx, timeout>>
     /\ UNCHANGED <<text, todo, ready, setup, pic, handler, received, tx, sent>>
  \/ /\ At("drain_inb")
     /\ pc' = "drain"
     /\ Uart(ier, IF rx = <<>> THEN rx ELSE Tail(rx), FALSE)
     /\ UNCHANGED <<text, todo, ready, setup, pic, handler, received, tx, sent>>

\* timer_init registers its handler, prints, and clears its mask.
timer_init ==
  \/ At("register_timer") /\ text' = Text /\ irq_register_handler("timer", "print")
  \/ At("unmask_timer") /\ text' = Text /\ irq_clear_mask("timer", "print")

\* The number of the character among all that main prints.
place == (IF "timer" \in imr THEN 1 ELSE 1 + Len(Text)) + Len(Text) - Len(text)

putchar ==
  /\ At("print") /\ todo = <<>> /\ text # <<>>
  /\ todo' = bytes([from |-> "main", n |-> place, byte |-> Head(text)])
  /\ text' = Tail(text)
  /\ UNCHANGED <<pc, ready, setup, pic, irr, handler, ier, rx, timeout, received, tx, sent>>

\* Mutant: the loop of serial_putchar is left at once.
serial_putchar_wait_not ==
  /\ At("print") /\ todo # <<>> /\ ~ ready
  /\ ready' = TRUE
  /\ UNCHANGED <<pc, text, todo, setup, pic, irr, handler, ier, rx, timeout, received, tx, sent>>

serial_putchar_wait ==
  /\ At("print") /\ todo # <<>> /\ ~ ready
  /\ serial_tx_empty
  /\ ready' = TRUE
  /\ UNCHANGED <<pc, text, todo, setup, pic, irr, handler, ier, rx, timeout, received, tx, sent>>

serial_putchar_write ==
  /\ At("print") /\ ready
  /\ outb(Head(todo))
  /\ todo' = Tail(todo) /\ ready' = FALSE
  /\ UNCHANGED <<pc, text, setup, pic, irr, handler, ier, rx, timeout, received>>

printed ==
  /\ At("print") /\ todo = <<>> /\ text = <<>>
  /\ pc' = IF "timer" \in imr THEN "unmask_timer" ELSE "done"
  /\ UNCHANGED <<text, todo, ready, setup, pic, irr, handler, ier, rx, timeout,
                 received, tx, sent>>

Main == idt_init \/ serial_init \/ drain \/ timer_init \/ putchar
        \/ serial_putchar_wait \/ serial_putchar_write \/ printed

Next ==
  \/ Main \/ Isr \/ Receive \/ Wait \/ Transmit \/ Tick
  \/ \E l \in Lines : Deliver(l)

(***************************************************************************)
(* The UART sends what it has and times out, handlers run to their end,    *)
(* and neither the timer nor the main thread can keep a request of the     *)
(* port, or the port the main thread, from its turn for ever: the ticks    *)
(* are 55 ms apart.                                                        *)
(***************************************************************************)
Spec ==
  /\ Init /\ [][Next]_vars
  /\ WF_vars(Wait) /\ WF_vars(Transmit) /\ WF_vars(Isr)
  /\ WF_vars(Deliver("timer")) /\ SF_vars(Deliver("com1")) /\ SF_vars(Main)
-----------------------------------------------------------------------------
Bytes == [from : {"input", "main", "stale"}, n : Nat, byte : {"x", "\n", "\r"}]

TypeOK ==
  /\ text \in Seq({"x", "\n"}) /\ {todo, echo, rx, sent} \subseteq Seq(Bytes)
  /\ {ready, active_port, in_service, iflag, ier, timeout} \subseteq BOOLEAN
  /\ {handlers, imr, irr} \subseteq SUBSET Lines
  /\ isr \in {"none", "eoi", "inb", "tx_empty", "outb", "iret", "unhandled"}
  /\ Len(rx) <= FifoSize /\ tx \in 0..FifoSize
  /\ received \in 0..Len(Input)

(***************************************************************************)
(* No interrupt comes too early: whatever the PIC has latched while a line *)
(* was masked, it is delivered only when the handler is registered         *)
(* (isr_handle_irq prints "IRQ%d" otherwise), and serial_handler only      *)
(* reads when serial_active_port is the port it serves.                    *)
(***************************************************************************)
HandlersReady ==
  /\ isr # "unhandled"
  /\ isr = "inb" => active_port

(***************************************************************************)
(* Echo and main thread share the port without disturbing each other: each *)
(* writes its own bytes in order and none twice, and a newline of the echo *)
(* directly follows its carriage return.  serial_putchar tests for an      *)
(* empty transmit queue and then writes, and the echo may come in between: *)
(* at most two bytes follow one test, so the queue of the UART, which      *)
(* serial_init turns on, loses none.                                       *)
(***************************************************************************)
OutputInOrder ==
  /\ tx <= 2
  /\ \A i, j \in DOMAIN sent :
       i < j /\ sent[i].from = sent[j].from /\ sent[i].from # "stale" =>
         \/ sent[i].n < sent[j].n
         \/ /\ sent[i].n = sent[j].n
            /\ sent[i].byte = "\r" /\ sent[j].byte = "\n"
            /\ sent[i].from = "input" => j = i + 1

(***************************************************************************)
(* The queue is full enough to hold the line high, the edge of which is    *)
(* gone: no request waits, and neither the handler nor the loop of         *)
(* serial_init is about to read.                                           *)
(***************************************************************************)
Stuck ==
  /\ ier /\ Len(rx) >= Threshold /\ "com1" \notin irr
  /\ ~ (line = "com1" /\ isr \in {"eoi", "inb"})
  /\ pc \notin {"drain", "drain_inb"}

Waiting(n) == \E i \in DOMAIN rx : rx[i].n = n

(***************************************************************************)
(* serial_handler takes one character per interrupt.  Nevertheless every   *)
(* character is taken from the queue in the end: a queue below the         *)
(* threshold raises the line again by its time-out, also when the line had *)
(* just been raised by the threshold.  The one exception is a read that    *)
(* leaves the threshold reached: the line stays high, no edge follows, and *)
(* the port is silent for good.                                            *)
(***************************************************************************)
InputTakenUnlessStuck ==
  \A n \in 1..Len(Input) : Waiting(n) ~> (~ Waiting(n) \/ []Stuck)

=============================================================================
