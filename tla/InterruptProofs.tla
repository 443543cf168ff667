---------------------------- MODULE InterruptProofs --------------------------
(***************************************************************************)
(* Kernel code and interrupts, first during the set-up (Serial), then in   *)
(* the main loop (Sleep, at the end of the module, as an instance that     *)
(* shares the processor, the PIC and its lines with Serial).               *)
(*                                                                         *)
(* Set-up: no interrupt of the serial port or of the timer comes before    *)
(* its handler is ready, and the output stays in order, for every size of  *)
(* the queues and every text and input.  A request may have been latched   *)
(* at any time, so the argument is about masks: a line is unmasked only    *)
(* after its handler is registered and the port is known, and the mask of  *)
(* a line under service stays off.                                         *)
(*                                                                         *)
(* Main loop: sleep() is never over too early, for every width of the two  *)
(* halves of the clock, every tick and every duration.  The invariant adds *)
(* what the properties do not say: which steps run with interrupts masked, *)
(* and that a half once read is still the clock's.                         *)
(***************************************************************************)
EXTENDS Serial, TLAPS

\* The provers in the usual order, and once more with more time.
USE SMTT(5), ZenonT(10), SMTT(20), ZenonT(20), SMTT(30)

\* Where kernel_main is: idt_init comes first, then serial_init up to the
\* unmasking, then the rest.
Known      == {"enable", "unmask_com1"}
BeforeCom1 == {"register_com1", "reset", "activate"} \cup Known
Timer      == {"print", "unmask_timer", "done"}
Places     == {"idt_init"} \cup BeforeCom1 \cup {"drain", "drain_inb", "register_timer"} \cup Timer

Progress ==
  /\ pc \in Places
  /\ pc = "idt_init" => iflag = FALSE /\ isr = "none"
  /\ pc \in BeforeCom1 => "com1" \in imr
  /\ pc \in BeforeCom1 \ {"register_com1"} => "com1" \in handlers
  /\ pc \in Known => active_port = TRUE
  /\ pc \in Timer => "timer" \in handlers

\* An unmasked line is ready.
Unmasked ==
  pc # "idt_init" => /\ \A l \in Lines : l \notin imr => l \in handlers
                     /\ "com1" \notin imr => active_port = TRUE

\* The handler that runs is that of an unmasked line.
Serving ==
  /\ isr # "none" => line \in Lines /\ line \notin imr
  /\ isr # "unhandled"
  /\ isr = "inb" => line = "com1"

Inv == Progress /\ Unmasked /\ Serving

\* Before idt_init no interrupt is taken.
LEMMA InvInit == Init => Inv
BY DEF Init, Inv, Progress, Unmasked, Serving, Places, BeforeCom1, Known, Timer

\* The steps of the devices do not touch what the invariant speaks of.
LEMMA InvDevices ==
  Inv /\ UNCHANGED <<pc, handlers, active_port, imr, iflag, isr, line>> => Inv'
BY DEF Inv, Progress, Unmasked, Serving

\* A delivery, and the steps of the handler.
LEMMA InvInterrupt == Inv /\ (Isr \/ \E l \in Lines : Deliver(l)) => Inv'
<1> SUFFICES ASSUME Inv, Isr \/ \E l \in Lines : Deliver(l) PROVE Inv'
  OBVIOUS
<1>1. UNCHANGED <<pc, handlers, active_port, imr>>
  BY DEF Isr, isr_handle_irq, serial_handler_read, serial_handler_wait, serial_handler_write, iret,
         Deliver, main, setup, pic
<1>2. pc # "idt_init"
  BY DEF Inv, Progress, Isr, isr_handle_irq, serial_handler_read, serial_handler_wait,
         serial_handler_write, iret, Deliver
<1>3. Progress' /\ Unmasked'
  BY <1>1, <1>2 DEF Inv, Progress, Unmasked
<1>4. Serving'
  <2>1. CASE \E l \in Lines : Deliver(l)
    BY <1>1, <2>1 DEF Deliver, Serving
  <2>2. CASE isr_handle_irq
    BY <1>1, <1>2, <2>2 DEF isr_handle_irq, Inv, Serving, Unmasked
  <2>3. CASE serial_handler_read \/ serial_handler_wait \/ serial_handler_write \/ iret
    BY <1>1, <2>3 DEF serial_handler_read, serial_handler_wait, serial_handler_write, iret, Inv, Serving
  <2> QED  BY <2>1, <2>2, <2>3 DEF Isr
<1> QED  BY <1>3, <1>4 DEF Inv

\* The main thread, one step for each of its calls.
LEMMA InvMain == Inv /\ Main => Inv'
<1> SUFFICES ASSUME Inv, Main PROVE Inv'
  OBVIOUS
<1>1. isr = "none" /\ isr' = "none" /\ line' = line
  BY DEF Main, idt_init, serial_init, serial_init_port, irq_register_handler, irq_clear_mask, drain,
         timer_init, putchar, serial_putchar_wait, serial_putchar_write, printed, At, handler
<1>2. Serving'
  BY <1>1 DEF Serving
<1> USE DEF Inv, Progress, Unmasked, Places, BeforeCom1, Known, Timer, Lines, At
<1>3. CASE idt_init
  BY <1>1, <1>2, <1>3 DEF idt_init, setup
<1>4. CASE At("register_com1") /\ irq_register_handler("com1", "reset")
  BY <1>1, <1>2, <1>4 DEF irq_register_handler, pic
<1>5. CASE serial_init_port("reset", FALSE, FALSE, <<>>, "activate")
  BY <1>1, <1>2, <1>5 DEF serial_init_port, pic
<1>6. CASE serial_init_port("activate", TRUE, FALSE, rx, "enable")
  BY <1>1, <1>2, <1>6 DEF serial_init_port, pic
<1>7. CASE serial_init_port("enable", TRUE, TRUE, rx, "unmask_com1")
  BY <1>1, <1>2, <1>7 DEF serial_init_port, pic
<1>8. CASE At("unmask_com1") /\ irq_clear_mask("com1", "drain")
  BY <1>1, <1>2, <1>8 DEF irq_clear_mask, setup
<1>9. CASE drain
  BY <1>1, <1>2, <1>9 DEF drain, setup, pic
<1>10. CASE At("register_timer") /\ irq_register_handler("timer", "print")
  BY <1>1, <1>2, <1>10 DEF irq_register_handler, pic
<1>11. CASE At("unmask_timer") /\ irq_clear_mask("timer", "print")
  BY <1>1, <1>2, <1>11 DEF irq_clear_mask, setup
<1>12. CASE putchar \/ serial_putchar_wait \/ serial_putchar_write
  <2>1. UNCHANGED <<pc, handlers, active_port, imr, iflag, isr, line>>
    BY <1>12 DEF putchar, serial_putchar_wait, serial_putchar_write, setup, pic, handler
  <2> QED  BY <2>1, InvDevices
<1>13. CASE printed
  BY <1>1, <1>2, <1>13 DEF printed, setup, pic
<1> QED
  BY <1>3, <1>4, <1>5, <1>6, <1>7, <1>8, <1>9, <1>10, <1>11, <1>12, <1>13
     DEF Main, serial_init, timer_init

\* Every step keeps the invariant.
LEMMA InvNext == Inv /\ [Next]_vars => Inv'
<1> SUFFICES ASSUME Inv, [Next]_vars PROVE Inv'
  OBVIOUS
<1>1. CASE Receive \/ Wait \/ Transmit \/ Tick \/ UNCHANGED vars
  <2>1. UNCHANGED <<pc, handlers, active_port, imr, iflag, isr, line>>
    BY <1>1 DEF Receive, Wait, Transmit, Tick, vars, main, setup, pic, handler
  <2> QED  BY <2>1, InvDevices
<1> QED  BY <1>1, InvInterrupt, InvMain DEF Next

(***************************************************************************)
(* No interrupt finds the table of isr.c without a handler, and            *)
(* serial_handler never reads while serial_active_port is unset, whatever  *)
(* the PIC has latched and whenever it delivers.                           *)
(***************************************************************************)
THEOREM AlwaysReady == Spec => []HandlersReady
<1>1. Inv => HandlersReady
  <2>1. Inv /\ isr = "inb" => active_port = TRUE
    BY DEF Inv, Serving, Unmasked, Progress
  <2> QED  BY <2>1 DEF Inv, Serving, HandlersReady
<1> QED  BY <1>1, InvInit, InvNext, PTL DEF Spec

-----------------------------------------------------------------------------
(***************************************************************************)
(* That echo and main thread do not disturb each other on the serial port, *)
(* for every text, input and length of the queues.  The argument is about  *)
(* what is still to be written: the bytes that putchar or the echo have    *)
(* left fit behind the bytes already sent, and what either takes next has  *)
(* a higher number than all of its own before.                             *)
(***************************************************************************)

Ordered(s) ==
  \A i, j \in DOMAIN s :
    i < j /\ s[i].from = s[j].from /\ s[i].from # "stale" =>
      \/ s[i].n < s[j].n
      \/ /\ s[i].n = s[j].n
         /\ s[i].byte = "\r" /\ s[j].byte = "\n"
         /\ s[i].from = "input" => j = i + 1

\* The bytes of one character, or what is left of them.
Char(e) ==
  /\ e \in Seq(Bytes) /\ Len(e) <= 2
  /\ Len(e) = 2 => /\ e[1].from = e[2].from /\ e[1].n = e[2].n
                   /\ e[1].byte = "\r" /\ e[2].byte = "\n"

\* They can be sent after s.
Fits(e, s) ==
  Len(e) > 0 /\ e[1].from # "stale" =>
    \A i \in DOMAIN s : s[i].from = e[1].from =>
      \/ s[i].n < e[1].n
      \/ /\ Len(e) = 1 /\ s[i].n = e[1].n
         /\ s[i].byte = "\r" /\ e[1].byte = "\n"
         /\ s[i].from = "input" => i = Len(s)

\* All of one writer's bytes in s have numbers below n.
Below(s, writer, n) == \A i \in DOMAIN s : s[i].from = writer => s[i].n < n

SentInv == sent \in Seq(Bytes) /\ Ordered(sent)

MainInv ==
  /\ Char(todo) /\ Fits(todo, sent)
  /\ \A i \in DOMAIN todo : todo[i].from = "main"
  /\ text \in Seq({"x", "\n"}) /\ Len(text) <= Len(Text)
  /\ ready \in BOOLEAN /\ (ready => Len(todo) > 0)
  /\ pc \in Places
  /\ pc \notin Timer => Len(todo) = 0 /\ Below(sent, "main", 0)
  /\ pc \in Timer => Below(sent, "main", place) /\ Below(todo, "main", place)
  /\ pc = "unmask_timer" => text = <<>> /\ todo = <<>> /\ "timer" \in imr

EchoInv ==
  /\ Char(echo) /\ Fits(echo, sent)
  /\ \A i \in DOMAIN echo : echo[i].from # "main"
  /\ Len(echo) > 0 <=> isr \in {"tx_empty", "outb"}

QueueInv ==
  /\ rx \in Seq(Bytes) /\ received \in 0..Len(Input)
  /\ \A i \in DOMAIN rx :
       /\ rx[i].from = "input" /\ rx[i].byte # "\r" /\ rx[i].n <= received
       /\ Below(sent, "input", rx[i].n) /\ Below(echo, "input", rx[i].n)
       /\ \A j \in DOMAIN rx : i < j => rx[i].n < rx[j].n
  /\ Below(sent, "input", received + 1) /\ Below(echo, "input", received + 1)

TxInv ==
  /\ tx \in 0..2
  /\ ready => tx <= 1
  /\ isr = "outb" => tx = 0

OutInv == SentInv /\ MainInv /\ EchoInv /\ QueueInv /\ TxInv
-----------------------------------------------------------------------------
\* What Append does to the bytes of a sequence.
LEMMA AppendFacts ==
  ASSUME NEW s \in Seq(Bytes), NEW b \in Bytes
  PROVE  LET a == Append(s, b)
         IN  /\ a \in Seq(Bytes) /\ Len(a) = Len(s) + 1 /\ Len(s) \in Nat
             /\ DOMAIN s = 1..Len(s) /\ DOMAIN a = 1..(Len(s) + 1)
             /\ \A i \in 1..Len(s) : a[i] = s[i]
             /\ a[Len(s) + 1] = b
OBVIOUS

\* What Tail and Head do.
LEMMA TailFacts ==
  ASSUME NEW s \in Seq(Bytes), Len(s) > 0
  PROVE  /\ Tail(s) \in Seq(Bytes) /\ Len(Tail(s)) = Len(s) - 1 /\ Len(s) \in Nat
         /\ DOMAIN s = 1..Len(s) /\ DOMAIN Tail(s) = 1..(Len(s) - 1)
         /\ \A i \in 1..(Len(s) - 1) : Tail(s)[i] = s[i + 1]
         /\ Head(s) = s[1] /\ s[1] \in Bytes
OBVIOUS

\* What every sequence of bytes has.
LEMMA SeqFacts ==
  ASSUME NEW s \in Seq(Bytes)
  PROVE  /\ Len(s) \in Nat /\ DOMAIN s = 1..Len(s) /\ \A i \in 1..Len(s) : s[i] \in Bytes
         /\ s = <<>> <=> Len(s) = 0
OBVIOUS

\* What serial_putchar makes of a character that is not a carriage return.
LEMMA BytesFacts ==
  ASSUME NEW c \in Bytes, c.byte # "\r"
  PROVE  /\ Char(bytes(c)) /\ Len(bytes(c)) > 0
         /\ \A i \in DOMAIN bytes(c) : bytes(c)[i].from = c.from /\ bytes(c)[i].n = c.n
<1>1. CASE c.byte = "\n"
  <2> DEFINE r == [c EXCEPT !.byte = "\r"]
  <2>1. r \in Bytes /\ r.from = c.from /\ r.n = c.n /\ r.byte = "\r"
    BY DEF Bytes
  <2> HIDE DEF r
  <2>2. bytes(c) = <<r, c>>
    BY <1>1 DEF bytes, r
  <2>3. <<r, c>> \in Seq(Bytes) /\ Len(<<r, c>>) = 2 /\ DOMAIN <<r, c>> = 1..2
        /\ <<r, c>>[1] = r /\ <<r, c>>[2] = c
    BY <2>1
  <2> QED  BY <1>1, <2>1, <2>2, <2>3 DEF Char
<1>2. CASE c.byte # "\n"
  <2>1. bytes(c) = <<c>>
    BY <1>2 DEF bytes
  <2>2. <<c>> \in Seq(Bytes) /\ Len(<<c>>) = 1 /\ DOMAIN <<c>> = 1..1 /\ <<c>>[1] = c
    OBVIOUS
  <2> QED  BY <2>1, <2>2 DEF Char
<1> QED  BY <1>1, <1>2

\* Writing the first of the bytes that fit keeps the order, and the rest of
\* them fits behind it.
LEMMA WriteKeepsOrder ==
  ASSUME NEW s \in Seq(Bytes), Ordered(s), NEW e, Char(e), Len(e) > 0, Fits(e, s)
  PROVE  /\ Append(s, Head(e)) \in Seq(Bytes) /\ Ordered(Append(s, Head(e)))
         /\ Char(Tail(e)) /\ Fits(Tail(e), Append(s, Head(e)))
<1> DEFINE b == Head(e)
           a == Append(s, b)
<1>1. /\ e \in Seq(Bytes) /\ b = e[1] /\ b \in Bytes /\ Len(Tail(e)) = Len(e) - 1
      /\ Tail(e) \in Seq(Bytes) /\ Len(e) \in {1, 2} /\ (Len(e) = 2 => Tail(e)[1] = e[2])
  <2>1. e \in Seq(Bytes) /\ Len(e) <= 2
    BY DEF Char
  <2>2. /\ Tail(e) \in Seq(Bytes) /\ Len(Tail(e)) = Len(e) - 1 /\ Len(e) \in Nat
        /\ \A i \in 1..(Len(e) - 1) : Tail(e)[i] = e[i + 1]
        /\ b = e[1] /\ b \in Bytes
    BY <2>1, TailFacts
  <2> HIDE DEF b
  <2>3. Len(e) \in {1, 2}
    BY <2>1, <2>2
  <2>4. ASSUME Len(e) = 2
        PROVE  Tail(e)[1] = e[2]
    <3>1. 1 \in 1..(Len(e) - 1) /\ 1 + 1 = 2
      BY <2>4
    <3>2. Tail(e)[1] = e[1 + 1]
      BY <2>2, <3>1, Zenon
    <3> QED  BY <3>1, <3>2
  <2> QED  BY <2>1, <2>2, <2>3, <2>4
<1>2. /\ a \in Seq(Bytes) /\ Len(a) = Len(s) + 1 /\ Len(s) \in Nat
      /\ DOMAIN s = 1..Len(s) /\ DOMAIN a = 1..(Len(s) + 1)
      /\ \A i \in 1..Len(s) : a[i] = s[i]
      /\ a[Len(s) + 1] = b
  BY <1>1, AppendFacts
<1> HIDE DEF a, b
<1>3. Ordered(a)
  <2> SUFFICES ASSUME NEW i \in DOMAIN a, NEW j \in DOMAIN a, i < j,
                      a[i].from = a[j].from, a[i].from # "stale"
               PROVE  \/ a[i].n < a[j].n
                      \/ /\ a[i].n = a[j].n
                         /\ a[i].byte = "\r" /\ a[j].byte = "\n"
                         /\ a[i].from = "input" => j = i + 1
    BY DEF Ordered
  <2>1. i \in DOMAIN s /\ a[i] = s[i]
    BY <1>2
  <2>2. CASE j \in DOMAIN s
    BY <1>2, <2>1, <2>2 DEF Ordered
  <2>3. CASE j = Len(s) + 1
    <3>1. a[j] = e[1] /\ s[i].from = e[1].from /\ e[1].from # "stale"
      BY <1>1, <1>2, <2>1, <2>3
    <3>2. \/ s[i].n < e[1].n
          \/ /\ Len(e) = 1 /\ s[i].n = e[1].n
             /\ s[i].byte = "\r" /\ e[1].byte = "\n"
             /\ s[i].from = "input" => i = Len(s)
      BY <2>1, <3>1 DEF Fits
    <3> QED  BY <2>1, <2>3, <3>1, <3>2
  <2> QED  BY <1>2, <2>2, <2>3
<1>4. Char(Tail(e))
  BY <1>1 DEF Char
<1>5. Fits(Tail(e), a)
  <2> SUFFICES ASSUME Len(e) = 2, e[2].from # "stale", NEW i \in DOMAIN a, a[i].from = e[2].from
               PROVE  \/ a[i].n < e[2].n
                      \/ /\ a[i].n = e[2].n
                         /\ a[i].byte = "\r" /\ e[2].byte = "\n"
                         /\ a[i].from = "input" => i = Len(a)
    BY <1>1 DEF Fits
  <2>1. CASE i \in DOMAIN s
    BY <1>1, <1>2, <2>1 DEF Fits, Char
  <2>2. CASE i = Len(s) + 1
    BY <1>1, <1>2, <2>2 DEF Char
  <2> QED  BY <1>2, <2>1, <2>2
<1> QED  BY <1>2, <1>3, <1>4, <1>5 DEF a, b

\* Bytes of another writer do not matter to main's.
LEMMA OthersDoNotMatter ==
  ASSUME NEW s \in Seq(Bytes), NEW b \in Bytes, NEW e, Fits(e, s), Len(e) > 0 => e[1].from = "main",
         b.from # "main"
  PROVE  Fits(e, Append(s, b))
BY AppendFacts DEF Fits

\* Appending a byte with a lower number.
LEMMA BelowAppend ==
  ASSUME NEW s \in Seq(Bytes), NEW b \in Bytes, NEW w, NEW n, Below(s, w, n), b.from = w => b.n < n
  PROVE  Below(Append(s, b), w, n)
BY AppendFacts DEF Below

\* A higher bound.
LEMMA BelowMore ==
  ASSUME NEW s \in Seq(Bytes), NEW w, NEW m \in Int, NEW n \in Int, m <= n, Below(s, w, m)
  PROVE  Below(s, w, n)
<1>1. \A i \in DOMAIN s : s[i].n \in Nat
  BY SeqFacts DEF Bytes
<1> QED  BY <1>1 DEF Below

\* And taking one off.
LEMMA BelowTail ==
  ASSUME NEW s \in Seq(Bytes), Len(s) > 0, NEW w, NEW n, Below(s, w, n)
  PROVE  Below(Tail(s), w, n)
BY TailFacts DEF Below
-----------------------------------------------------------------------------
\* A step that sends nothing keeps the order of what is sent.
LEMMA SentFrame == SentInv /\ UNCHANGED sent => SentInv'
BY DEF SentInv, Ordered

\* The same for what the main thread has left.
LEMMA MainFrame == MainInv /\ UNCHANGED <<todo, sent, text, ready, pc, imr>> => MainInv'
BY DEF MainInv, Char, Fits, Below, place

\* The same for the echo.
LEMMA EchoFrame == EchoInv /\ UNCHANGED <<echo, sent, isr>> => EchoInv'
BY DEF EchoInv, Char, Fits

\* The same for the receive queue.
LEMMA QueueFrame == QueueInv /\ UNCHANGED <<rx, received, sent, echo>> => QueueInv'
BY DEF QueueInv, Below

\* The same for the transmit queue.
LEMMA TxFrame == TxInv /\ UNCHANGED <<tx, ready, isr>> => TxInv'
BY DEF TxInv

\* Main before it prints.
LEMMA MainMoves ==
  MainInv /\ UNCHANGED <<todo, sent, text, ready>> /\ pc \notin Timer /\ pc' \in Places \ Timer => MainInv'
<1> SUFFICES ASSUME MainInv, UNCHANGED <<todo, sent, text, ready>>, pc \notin Timer, pc' \in Places \ Timer
             PROVE  MainInv'
  OBVIOUS
<1>1. pc' # "unmask_timer"
  BY DEF Timer
<1> QED  BY <1>1 DEF MainInv, Char, Fits, Below

\* Characters taken from the receive queue.
LEMMA QueueShrinks ==
  ASSUME QueueInv, UNCHANGED <<received, sent, echo>>,
         rx' = rx \/ rx' = <<>> \/ (Len(rx) > 0 /\ rx' = Tail(rx))
  PROVE  QueueInv'
<1>1. CASE rx' = rx
  BY <1>1, QueueFrame
<1>2. CASE rx' = <<>>
  BY <1>2 DEF QueueInv, Below
<1>3. CASE Len(rx) > 0 /\ rx' = Tail(rx)
  <2>1. /\ rx' \in Seq(Bytes) /\ Len(rx) \in Nat /\ DOMAIN rx = 1..Len(rx)
        /\ DOMAIN rx' = 1..(Len(rx) - 1)
        /\ \A i \in DOMAIN rx' : rx'[i] = rx[i + 1] /\ i + 1 \in DOMAIN rx
    BY <1>3, TailFacts DEF QueueInv
  <2>2. \A i, j \in DOMAIN rx' : i < j => i + 1 < j + 1
    BY <2>1
  <2>3. ASSUME NEW i \in DOMAIN rx'
        PROVE  /\ rx'[i].from = "input" /\ rx'[i].byte # "\r" /\ rx'[i].n <= received'
               /\ Below(sent', "input", rx'[i].n) /\ Below(echo', "input", rx'[i].n)
               /\ \A j \in DOMAIN rx' : i < j => rx'[i].n < rx'[j].n
    BY <2>1, <2>2 DEF QueueInv
  <2> QED  BY <2>1, <2>3 DEF QueueInv, Below
<1> QED  BY <1>1, <1>2, <1>3

\* Nothing is sent or received at the start.
LEMMA OutInit == Init => OutInv
<1> SUFFICES ASSUME Init PROVE OutInv
  OBVIOUS
<1>1. /\ sent = <<>> /\ todo = <<>> /\ echo = <<>> /\ rx = <<>> /\ text = <<>>
      /\ received = 0 /\ tx = 0 /\ ready = FALSE /\ pc = "idt_init" /\ isr = "none"
  BY DEF Init
<1>2. Len(Text) \in Nat /\ Len(Input) \in Nat
  BY SerialAssumption
<1>3. SentInv
  BY <1>1 DEF SentInv, Ordered
<1>4. MainInv
  <2>1. pc \in Places /\ pc \notin Timer /\ pc # "unmask_timer" /\ ready \in BOOLEAN /\ ~ ready
    BY <1>1 DEF Places, Timer
  <2>2. Char(todo) /\ Fits(todo, sent) /\ Len(todo) = 0 /\ DOMAIN todo = {} /\ Below(sent, "main", 0)
    BY <1>1 DEF Char, Fits, Below
  <2>3. text \in Seq({"x", "\n"}) /\ Len(text) <= Len(Text)
    BY <1>1, <1>2
  <2> QED  BY <2>1, <2>2, <2>3 DEF MainInv
<1>5. EchoInv
  BY <1>1 DEF EchoInv, Char, Fits
<1>6. QueueInv
  BY <1>1, <1>2 DEF QueueInv, Below
<1>7. TxInv
  BY <1>1 DEF TxInv
<1> QED  BY <1>3, <1>4, <1>5, <1>6, <1>7 DEF OutInv

\* A character received has a higher number than all before.
LEMMA OutReceive == OutInv /\ Receive => OutInv'
<1> SUFFICES ASSUME OutInv, Receive PROVE OutInv'
  OBVIOUS
<1>1. UNCHANGED <<sent, todo, text, ready, pc, imr, echo, isr, tx>>
  BY DEF Receive, main, pic, handler
<1>2. QueueInv'
  <2> DEFINE c == [from |-> "input", n |-> received + 1, byte |-> Input[received + 1]]
  <2>1. /\ received \in Nat /\ received' = received + 1 /\ received' \in 0..Len(Input)
        /\ rx' = rx \/ rx' = Append(rx, c)
    BY SerialAssumption DEF Receive, Uart, OutInv, QueueInv
  <2>2. c \in Bytes /\ c.from = "input" /\ c.byte # "\r" /\ c.n = received + 1
    <3>1. Input[received + 1] \in {"x", "\n"}
      BY <2>1, SerialAssumption
    <3> QED  BY <2>1, <3>1 DEF Bytes
  <2> HIDE DEF c
  <2>3. Below(sent', "input", received' + 1) /\ Below(echo', "input", received' + 1)
    <3>1. received + 1 \in Int /\ received' + 1 \in Int /\ received + 1 <= received' + 1
      BY <2>1
    <3>2. sent \in Seq(Bytes) /\ echo \in Seq(Bytes)
      BY DEF OutInv, SentInv, EchoInv, Char
    <3>3. Below(sent, "input", received + 1) /\ Below(echo, "input", received + 1)
      BY DEF OutInv, QueueInv
    <3>4. Below(sent, "input", received' + 1) /\ Below(echo, "input", received' + 1)
      BY <3>1, <3>2, <3>3, BelowMore
    <3> QED  BY <1>1, <3>4
  <2>4. CASE rx' = rx
    <3>1. \A i \in DOMAIN rx : rx[i].n \in Nat
      BY SeqFacts DEF OutInv, QueueInv, Bytes
    <3> QED  BY <1>1, <2>1, <2>3, <2>4, <3>1 DEF OutInv, QueueInv, Below
  <2>5. CASE rx' = Append(rx, c)
    <3>1. /\ rx' \in Seq(Bytes) /\ Len(rx) \in Nat /\ DOMAIN rx = 1..Len(rx)
          /\ DOMAIN rx' = 1..(Len(rx) + 1)
          /\ \A i \in DOMAIN rx : rx'[i] = rx[i] /\ rx[i].n \in Nat
          /\ rx'[Len(rx) + 1] = c
      BY <2>2, <2>5, AppendFacts, SeqFacts DEF OutInv, QueueInv, Bytes
    <3>2. ASSUME NEW i \in DOMAIN rx'
          PROVE  /\ rx'[i].from = "input" /\ rx'[i].byte # "\r" /\ rx'[i].n <= received'
                 /\ Below(sent', "input", rx'[i].n) /\ Below(echo', "input", rx'[i].n)
                 /\ \A j \in DOMAIN rx' : i < j => rx'[i].n < rx'[j].n
      <4>1. CASE i \in DOMAIN rx
        <5>1. /\ rx[i].from = "input" /\ rx[i].byte # "\r" /\ rx[i].n <= received
              /\ Below(sent, "input", rx[i].n) /\ Below(echo, "input", rx[i].n)
              /\ \A j \in DOMAIN rx : i < j => rx[i].n < rx[j].n
          BY <4>1 DEF OutInv, QueueInv
        <5>2. rx'[i] = rx[i] /\ rx[i].n \in Nat /\ rx[i].n < received + 1
          BY <2>1, <3>1, <4>1, <5>1
        <5>3. \A j \in DOMAIN rx' : j \in DOMAIN rx \/ j = Len(rx) + 1
          BY <3>1
        <5>4. \A j \in DOMAIN rx' : i < j => rx[i].n < rx'[j].n
          BY <2>2, <3>1, <5>1, <5>2, <5>3
        <5> QED  BY <1>1, <2>1, <5>1, <5>2, <5>4
      <4>2. CASE i = Len(rx) + 1
        BY <1>1, <2>1, <2>2, <3>1, <4>2 DEF OutInv, QueueInv
      <4> QED  BY <3>1, <4>1, <4>2
    <3> QED  BY <2>1, <2>3, <3>1, <3>2 DEF QueueInv, Below
  <2> QED  BY <2>1, <2>4, <2>5
<1> QED  BY <1>1, <1>2, SentFrame, MainFrame, EchoFrame, TxFrame DEF OutInv

\* The UART waits and transmits, and the PIC ticks.
LEMMA OutDevices == OutInv /\ (Wait \/ Transmit \/ Tick \/ UNCHANGED vars) => OutInv'
<1> SUFFICES ASSUME OutInv, Wait \/ Transmit \/ Tick \/ UNCHANGED vars PROVE OutInv'
  OBVIOUS
<1>1. UNCHANGED <<sent, todo, text, ready, pc, imr, echo, isr, rx, received>>
  BY DEF Wait, Transmit, Tick, Uart, vars, main, pic, handler
<1>2. TxInv'
  <2>1. UNCHANGED tx \/ (tx > 0 /\ tx' = tx - 1)
    BY DEF Wait, Transmit, Tick, vars
  <2> QED  BY <1>1, <2>1 DEF OutInv, TxInv
<1> QED  BY <1>1, <1>2, SentFrame, MainFrame, EchoFrame, QueueFrame DEF OutInv

\* Delivery, EOI, the test of the transmit queue and the return.
LEMMA OutHandler ==
  OutInv /\ (isr_handle_irq \/ serial_handler_wait \/ iret \/ \E l \in Lines : Deliver(l)) => OutInv'
<1> SUFFICES ASSUME OutInv, isr_handle_irq \/ serial_handler_wait \/ iret \/ \E l \in Lines : Deliver(l)
             PROVE  OutInv'
  OBVIOUS
<1>1. UNCHANGED <<sent, todo, text, ready, pc, imr, echo, rx, received, tx>>
  BY DEF isr_handle_irq, serial_handler_wait, iret, Deliver, main, pic
<1>2. /\ isr' \in {"tx_empty", "outb"} <=> isr \in {"tx_empty", "outb"}
      /\ isr' = "outb" => tx = 0
  BY DEF isr_handle_irq, serial_handler_wait, serial_tx_empty, iret, Deliver
<1>3. EchoInv'
  BY <1>1, <1>2 DEF OutInv, EchoInv, Char, Fits
<1>4. TxInv'
  BY <1>1, <1>2 DEF OutInv, TxInv
<1> QED  BY <1>1, <1>3, <1>4, SentFrame, MainFrame, QueueFrame DEF OutInv

\* serial_handler takes the first character of the queue, whose number is
\* above those sent.
LEMMA OutRead == OutInv /\ serial_handler_read => OutInv'
<1> SUFFICES ASSUME OutInv, serial_handler_read PROVE OutInv'
  OBVIOUS
<1> DEFINE c == IF rx = <<>> THEN [from |-> "stale", n |-> 0, byte |-> "x"] ELSE Head(rx)
<1>1. /\ isr = "inb" /\ isr' = "tx_empty" /\ echo' = bytes(c)
      /\ rx' = (IF rx = <<>> THEN rx ELSE Tail(rx))
      /\ UNCHANGED <<sent, todo, text, ready, pc, imr, received, tx>>
  BY DEF serial_handler_read, Uart, main, pic
<1>2. rx \in Seq(Bytes) /\ sent \in Seq(Bytes) /\ Len(rx) \in Nat /\ DOMAIN rx = 1..Len(rx)
      /\ (rx = <<>> <=> Len(rx) = 0)
  BY SeqFacts DEF OutInv, QueueInv, SentInv
<1>3. /\ c \in Bytes /\ c.byte # "\r" /\ c.from # "main"
      /\ c.from = "input" => /\ Below(sent, "input", c.n) /\ c.n <= received
                             /\ \A i \in DOMAIN Tail(rx) : c.n < Tail(rx)[i].n
  <2>1. CASE rx = <<>>
    BY <2>1 DEF Bytes
  <2>2. CASE rx # <<>>
    <3>1. /\ c = rx[1] /\ rx[1] \in Bytes /\ 1 \in DOMAIN rx
          /\ DOMAIN Tail(rx) = 1..(Len(rx) - 1)
          /\ \A i \in 1..(Len(rx) - 1) : Tail(rx)[i] = rx[i + 1]
      BY <1>2, <2>2, TailFacts
    <3>2. \A i \in DOMAIN Tail(rx) : i + 1 \in DOMAIN rx /\ 1 < i + 1
      BY <1>2, <3>1
    <3> QED  BY <3>1, <3>2 DEF OutInv, QueueInv
  <2> QED  BY <2>1, <2>2
<1> HIDE DEF c
<1>4. /\ Char(echo') /\ Len(echo') > 0 /\ Len(echo') \in Nat /\ DOMAIN echo' = 1..Len(echo')
      /\ \A i \in DOMAIN echo' : echo'[i].from = c.from /\ echo'[i].n = c.n
  BY <1>1, <1>3, BytesFacts, SeqFacts DEF Char
<1>5. EchoInv'
  <2>1. Fits(echo', sent')
    <3>1. 1 \in DOMAIN echo'
      BY <1>4
    <3>2. c.from \in {"input", "stale"}
      BY <1>3 DEF Bytes
    <3> QED  BY <1>1, <1>3, <1>4, <3>1, <3>2 DEF Fits, Below
  <2> QED  BY <1>1, <1>3, <1>4, <2>1 DEF EchoInv
<1>6. QueueInv'
  <2>1. CASE rx = <<>>
    <3>1. c.from # "input"
      BY <2>1 DEF c
    <3>2. \A n : Below(echo', "input", n)
      BY <1>4, <3>1 DEF Below
    <3> QED  BY <1>1, <1>2, <2>1, <3>2 DEF OutInv, QueueInv, Below
  <2>2. CASE rx # <<>>
    <3>1. /\ rx' \in Seq(Bytes) /\ DOMAIN rx' = 1..(Len(rx) - 1)
          /\ \A i \in DOMAIN rx' : rx'[i] = rx[i + 1] /\ i + 1 \in DOMAIN rx
      BY <1>1, <1>2, <2>2, TailFacts
    <3>2. c.from = "input"
      BY <1>2, <2>2, TailFacts DEF c, OutInv, QueueInv
    <3>3. \A n : c.n < n => Below(echo', "input", n)
      BY <1>4 DEF Below
    <3>4. Below(echo', "input", received + 1)
      <4>1. c.n < received + 1
        BY <1>3, <3>2 DEF Bytes, OutInv, QueueInv
      <4> QED  BY <3>3, <4>1
    <3>5. \A i, j \in DOMAIN rx' : i < j => i + 1 < j + 1
      BY <1>2, <3>1
    <3>6. ASSUME NEW i \in DOMAIN rx'
          PROVE  /\ rx'[i].from = "input" /\ rx'[i].byte # "\r" /\ rx'[i].n <= received
                 /\ Below(sent, "input", rx'[i].n) /\ Below(echo', "input", rx'[i].n)
                 /\ \A j \in DOMAIN rx' : i < j => rx'[i].n < rx'[j].n
      <4>1. Below(echo', "input", rx'[i].n)
        BY <1>1, <1>3, <2>2, <3>2, <3>3
      <4> QED  BY <3>1, <3>5, <4>1 DEF OutInv, QueueInv
    <3> QED  BY <1>1, <3>1, <3>4, <3>6 DEF OutInv, QueueInv, Below
  <2> QED  BY <2>1, <2>2
<1>7. TxInv'
  BY <1>1 DEF OutInv, TxInv
<1> QED  BY <1>1, <1>5, <1>6, <1>7, SentFrame, MainFrame DEF OutInv

\* serial_handler writes a byte of the echo.
LEMMA OutEcho == OutInv /\ serial_handler_write => OutInv'
<1> SUFFICES ASSUME OutInv, serial_handler_write PROVE OutInv'
  OBVIOUS
<1> DEFINE b == Head(echo)
<1>1. /\ isr = "outb" /\ isr' = (IF Len(echo) = 1 THEN "iret" ELSE "tx_empty")
      /\ tx' = tx + 1 /\ sent' = Append(sent, b) /\ echo' = Tail(echo)
      /\ UNCHANGED <<todo, text, ready, pc, imr, rx, received>>
  BY DEF serial_handler_write, outb, main, pic
<1>2. /\ sent \in Seq(Bytes) /\ Ordered(sent) /\ Char(echo) /\ echo \in Seq(Bytes)
      /\ Len(echo) > 0 /\ Fits(echo, sent)
  BY <1>1 DEF OutInv, SentInv, EchoInv, Char
<1>3. /\ Tail(echo) \in Seq(Bytes) /\ Len(Tail(echo)) = Len(echo) - 1 /\ Len(echo) \in Nat
      /\ DOMAIN echo = 1..Len(echo) /\ DOMAIN Tail(echo) = 1..(Len(echo) - 1)
      /\ \A i \in 1..(Len(echo) - 1) : Tail(echo)[i] = echo[i + 1]
      /\ b = echo[1] /\ b \in Bytes /\ 1 \in DOMAIN echo
  BY <1>2, TailFacts
<1>4. b.from # "main"
  BY <1>3 DEF OutInv, EchoInv
<1> HIDE DEF b
<1>5. SentInv' /\ Char(echo') /\ Fits(echo', sent')
  BY <1>1, <1>2, WriteKeepsOrder DEF SentInv, b
<1>6. MainInv'
  <2>1. Fits(todo, sent')
    <3>1. Char(todo) /\ \A i \in DOMAIN todo : todo[i].from = "main"
      BY DEF OutInv, MainInv
    <3>2. Len(todo) > 0 => todo[1].from = "main"
      BY <3>1, SeqFacts DEF Char
    <3> QED  BY <1>1, <1>2, <1>3, <1>4, <3>2, OthersDoNotMatter DEF OutInv, MainInv
  <2>2. \A n : Below(sent, "main", n) => Below(sent', "main", n)
    BY <1>1, <1>2, <1>3, <1>4, BelowAppend
  <2>3. place' = place
    BY <1>1 DEF place
  <2> QED  BY <1>1, <2>1, <2>2, <2>3 DEF OutInv, MainInv, Char, Below
<1>7. EchoInv'
  <2>1. \A i \in DOMAIN echo' : echo'[i].from # "main"
    <3>1. \A i \in DOMAIN echo' : echo'[i] = echo[i + 1] /\ i + 1 \in DOMAIN echo
      BY <1>1, <1>3
    <3> QED  BY <3>1 DEF OutInv, EchoInv
  <2>2. Len(echo') > 0 <=> isr' \in {"tx_empty", "outb"}
    BY <1>1, <1>2, <1>3
  <2> QED  BY <1>5, <2>1, <2>2 DEF EchoInv
<1>8. QueueInv'
  <2>1. ASSUME NEW n, Below(sent, "input", n), Below(echo, "input", n)
        PROVE  Below(sent', "input", n) /\ Below(echo', "input", n)
    <3>1. b.from = "input" => b.n < n
      BY <1>3, <2>1 DEF Below
    <3> QED  BY <1>1, <1>2, <1>3, <2>1, <3>1, BelowAppend, BelowTail
  <2> QED  BY <1>1, <2>1 DEF OutInv, QueueInv
<1>9. TxInv'
  BY <1>1 DEF OutInv, TxInv
<1> QED  BY <1>5, <1>6, <1>7, <1>8, <1>9 DEF OutInv

\* serial_putchar of main writes a byte.
LEMMA OutWrite == OutInv /\ serial_putchar_write => OutInv'
<1> SUFFICES ASSUME OutInv, serial_putchar_write PROVE OutInv'
  OBVIOUS
<1> DEFINE b == Head(todo)
<1>1. /\ pc = "print" /\ isr = "none" /\ ready /\ ready' = FALSE
      /\ tx' = tx + 1 /\ sent' = Append(sent, b) /\ todo' = Tail(todo)
      /\ UNCHANGED <<text, pc, imr, rx, received, echo, isr>>
  BY DEF serial_putchar_write, At, outb, pic, handler
<1>2. /\ sent \in Seq(Bytes) /\ Ordered(sent) /\ Char(todo) /\ todo \in Seq(Bytes)
      /\ Len(todo) > 0 /\ Fits(todo, sent)
  BY <1>1 DEF OutInv, SentInv, MainInv, Char
<1>3. /\ Tail(todo) \in Seq(Bytes) /\ Len(todo) \in Nat
      /\ DOMAIN todo = 1..Len(todo) /\ DOMAIN Tail(todo) = 1..(Len(todo) - 1)
      /\ \A i \in 1..(Len(todo) - 1) : Tail(todo)[i] = todo[i + 1]
      /\ b = todo[1] /\ b \in Bytes /\ 1 \in DOMAIN todo
  BY <1>2, TailFacts
<1>4. b.from = "main"
  BY <1>3 DEF OutInv, MainInv
<1> HIDE DEF b
<1>5. SentInv' /\ Char(todo') /\ Fits(todo', sent')
  BY <1>1, <1>2, WriteKeepsOrder DEF SentInv, b
<1>6. MainInv'
  <2>1. Below(sent', "main", place) /\ Below(todo', "main", place)
    <3>1. Below(sent, "main", place) /\ Below(todo, "main", place)
      BY <1>1 DEF OutInv, MainInv, Timer
    <3>2. b.n < place
      BY <1>3, <1>4, <3>1 DEF Below
    <3> QED  BY <1>1, <1>2, <1>3, <3>1, <3>2, BelowAppend, BelowTail
  <2>2. place' = place
    BY <1>1 DEF place
  <2>3. \A i \in DOMAIN todo' : todo'[i].from = "main"
    <3>1. \A i \in DOMAIN todo' : todo'[i] = todo[i + 1] /\ i + 1 \in DOMAIN todo
      BY <1>1, <1>3
    <3> QED  BY <3>1 DEF OutInv, MainInv
  <2>4. pc' = "print" /\ pc' \in Timer /\ pc' \in Places /\ ready' \in BOOLEAN /\ ~ ready'
    BY <1>1 DEF Timer, Places
  <2>5. text' \in Seq({"x", "\n"}) /\ Len(text') <= Len(Text)
    BY <1>1 DEF OutInv, MainInv
  <2>6. Below(sent', "main", place') /\ Below(todo', "main", place')
    BY <2>1, <2>2
  <2> QED  BY <1>5, <2>3, <2>4, <2>5, <2>6 DEF MainInv, Below
<1>7. EchoInv'
  <2>1. Len(echo) = 0
    BY <1>1, SeqFacts DEF OutInv, EchoInv, Char
  <2> QED  BY <1>1, <2>1 DEF OutInv, EchoInv, Char, Fits
<1>8. QueueInv'
  <2>1. \A n : Below(sent, "input", n) => Below(sent', "input", n)
    BY <1>1, <1>2, <1>3, <1>4, BelowAppend
  <2> QED  BY <1>1, <2>1 DEF OutInv, QueueInv, Below
<1>9. TxInv'
  BY <1>1 DEF OutInv, TxInv
<1> QED  BY <1>5, <1>6, <1>7, <1>8, <1>9 DEF OutInv

\* putchar takes the next character, with the next number.
LEMMA OutPutchar == OutInv /\ putchar => OutInv'
<1> SUFFICES ASSUME OutInv, putchar PROVE OutInv'
  OBVIOUS
<1> DEFINE c == [from |-> "main", n |-> place, byte |-> Head(text)]
<1>1. /\ pc = "print" /\ todo = <<>> /\ text # <<>> /\ todo' = bytes(c) /\ text' = Tail(text)
      /\ UNCHANGED <<sent, ready, pc, imr, echo, isr, rx, received, tx>>
  BY DEF putchar, At, pic, handler
<1>2. /\ text \in Seq({"x", "\n"}) /\ Len(text) <= Len(Text) /\ Len(text) \in Nat /\ Len(text) > 0
      /\ Head(text) \in {"x", "\n"} /\ Tail(text) \in Seq({"x", "\n"}) /\ Len(Tail(text)) = Len(text) - 1
      /\ Len(Text) \in Nat
  <2>1. text \in Seq({"x", "\n"}) /\ Len(text) <= Len(Text)
    BY DEF OutInv, MainInv
  <2> QED  BY <1>1, <2>1, SerialAssumption
<1>3. place \in Nat /\ place' = place + 1
  BY <1>1, <1>2 DEF place
<1>4. c \in Bytes /\ c.from = "main" /\ c.byte # "\r" /\ c.n = place
  BY <1>2, <1>3 DEF Bytes
<1> HIDE DEF c
<1>5. /\ Char(todo') /\ Len(todo') > 0 /\ DOMAIN todo' = 1..Len(todo') /\ Len(todo') \in Nat
      /\ \A i \in DOMAIN todo' : todo'[i].from = "main" /\ todo'[i].n = place
  BY <1>1, <1>4, BytesFacts, SeqFacts DEF Char
<1>6. MainInv'
  <2>1. Below(sent, "main", place) /\ sent \in Seq(Bytes)
    BY <1>1 DEF OutInv, MainInv, SentInv, Timer
  <2>2. Fits(todo', sent')
    <3>1. 1 \in DOMAIN todo'
      BY <1>5
    <3> QED  BY <1>1, <1>5, <2>1, <3>1 DEF Fits, Below
  <2>3. Below(sent', "main", place') /\ Below(todo', "main", place')
    <3>1. Below(sent, "main", place + 1)
      BY <1>3, <2>1, BelowMore
    <3>2. Below(todo', "main", place + 1)
      BY <1>3, <1>5 DEF Below
    <3> QED  BY <1>1, <1>3, <3>1, <3>2
  <2>4. pc' = "print" /\ pc' \in Timer /\ pc' \in Places
    BY <1>1 DEF Timer, Places
  <2>5. ready' \in BOOLEAN
    BY <1>1 DEF OutInv, MainInv
  <2>6. text' \in Seq({"x", "\n"}) /\ Len(text') <= Len(Text)
    BY <1>1, <1>2
  <2> QED  BY <1>5, <2>2, <2>3, <2>4, <2>5, <2>6 DEF MainInv, Below
<1> QED  BY <1>1, <1>6, SentFrame, EchoFrame, QueueFrame, TxFrame DEF OutInv

\* serial_putchar finds the transmit queue empty.
LEMMA OutWait == OutInv /\ serial_putchar_wait => OutInv'
<1> SUFFICES ASSUME OutInv, serial_putchar_wait PROVE OutInv'
  OBVIOUS
<1>1. /\ pc = "print" /\ todo # <<>> /\ tx = 0 /\ ready' = TRUE
      /\ UNCHANGED <<sent, todo, text, pc, imr, echo, isr, rx, received, tx>>
  BY DEF serial_putchar_wait, serial_tx_empty, At, pic, handler
<1>2. MainInv'
  <2>1. Len(todo) > 0
    <3>1. Char(todo)
      BY DEF OutInv, MainInv
    <3> QED  BY <3>1, <1>1, SeqFacts DEF Char
  <2>2. ready' \in BOOLEAN /\ place' = place
    BY <1>1 DEF place
  <2> QED  BY <1>1, <2>1, <2>2 DEF OutInv, MainInv, Char, Fits, Below
<1>3. TxInv'
  BY <1>1 DEF OutInv, TxInv
<1> QED  BY <1>1, <1>2, <1>3, SentFrame, EchoFrame, QueueFrame DEF OutInv

\* idt_init, serial_init and the loop that drops what was received.
LEMMA OutPrepare == OutInv /\ (idt_init \/ serial_init \/ drain) => OutInv'
<1> SUFFICES ASSUME OutInv, idt_init \/ serial_init \/ drain PROVE OutInv'
  OBVIOUS
<1>1. /\ UNCHANGED <<sent, todo, text, ready, echo, isr, received, tx>>
      /\ pc \in {"idt_init", "register_com1", "reset", "activate", "enable", "unmask_com1", "drain", "drain_inb"}
      /\ pc' \in {"register_com1", "reset", "activate", "enable", "unmask_com1", "drain", "drain_inb",
                  "register_timer"}
  BY DEF idt_init, serial_init, serial_init_port, irq_register_handler, irq_clear_mask, drain, At, handler
<1>2. rx' = rx \/ rx' = <<>> \/ (rx # <<>> /\ rx' = Tail(rx))
  BY DEF idt_init, serial_init, serial_init_port, irq_register_handler, irq_clear_mask, drain, Uart
<1>3. QueueInv'
  <2>1. rx # <<>> => Len(rx) > 0
    BY SeqFacts DEF OutInv, QueueInv
  <2> QED  BY <1>1, <1>2, <2>1, QueueShrinks DEF OutInv
<1>4. MainInv'
  <2>1. pc \notin Timer /\ pc' \in Places \ Timer
    BY <1>1 DEF Timer, Places, BeforeCom1, Known
  <2> QED  BY <1>1, <2>1, MainMoves DEF OutInv
<1> QED  BY <1>1, <1>3, <1>4, SentFrame, EchoFrame, TxFrame DEF OutInv

\* timer_init begins the first text and, with the timer unmasked, main the
\* second, whose numbers go on where those of the first ended.
LEMMA OutText == OutInv /\ (timer_init \/ printed) => OutInv'
<1> SUFFICES ASSUME OutInv, timer_init \/ printed PROVE OutInv'
  OBVIOUS
<1>1. UNCHANGED <<sent, todo, ready, echo, isr, rx, received, tx>>
  BY DEF timer_init, printed, irq_register_handler, irq_clear_mask, handler
<1>2. /\ Text \in Seq({"x", "\n"}) /\ Len(Text) \in Nat
      /\ text \in Seq({"x", "\n"}) /\ Len(text) \in Nat /\ Len(text) <= Len(Text)
      /\ sent \in Seq(Bytes) /\ todo \in Seq(Bytes) /\ ready \in BOOLEAN
  BY SerialAssumption DEF OutInv, MainInv, SentInv, Char
<1>3. /\ Char(todo') /\ Fits(todo', sent') /\ (ready' => Len(todo') > 0)
      /\ \A i \in DOMAIN todo' : todo'[i].from = "main"
  BY <1>1 DEF OutInv, MainInv, Char, Fits
<1>4. CASE pc = "register_timer"
  <2>1. text' = Text /\ pc' = "print" /\ imr' = imr
    BY <1>4 DEF timer_init, printed, irq_register_handler, At, pic
  <2>2. place' \in Int /\ 0 <= place'
    BY <1>2, <2>1 DEF place
  <2>3. Len(todo) = 0 /\ Below(sent, "main", 0)
    BY <1>4 DEF OutInv, MainInv, Timer
  <2>4. Below(sent', "main", place') /\ Below(todo', "main", place')
    <3>1. Below(sent, "main", place')
      BY <1>2, <2>2, <2>3, BelowMore
    <3>2. DOMAIN todo = {}
      BY <1>2, <2>3, SeqFacts
    <3> QED  BY <1>1, <3>1, <3>2 DEF Below
  <2>5. pc' \in Places /\ pc' \in Timer /\ pc' # "unmask_timer"
    BY <2>1 DEF Places, Timer
  <2>6. MainInv'
    BY <1>1, <1>2, <1>3, <2>1, <2>4, <2>5 DEF MainInv, Below
  <2> QED  BY <1>1, <2>6, SentFrame, EchoFrame, QueueFrame, TxFrame DEF OutInv
<1>5. CASE pc = "unmask_timer"
  <2>1. text' = Text /\ pc' = "print" /\ imr' = imr \ {"timer"}
    BY <1>5 DEF timer_init, printed, irq_clear_mask, At
  <2>2. text = <<>> /\ "timer" \in imr /\ Below(sent, "main", place) /\ Below(todo, "main", place)
    BY <1>5 DEF OutInv, MainInv, Timer
  <2>3. place' = place
    BY <1>2, <2>1, <2>2 DEF place
  <2>4. Below(sent', "main", place') /\ Below(todo', "main", place')
    BY <1>1, <2>2, <2>3
  <2>5. pc' \in Places /\ pc' \in Timer /\ pc' # "unmask_timer"
    BY <2>1 DEF Places, Timer
  <2>6. MainInv'
    BY <1>1, <1>2, <1>3, <2>1, <2>4, <2>5 DEF MainInv, Below
  <2> QED  BY <1>1, <2>6, SentFrame, EchoFrame, QueueFrame, TxFrame DEF OutInv
<1>6. CASE pc = "print"
  <2>1. /\ todo = <<>> /\ text = <<>> /\ text' = text /\ imr' = imr
        /\ pc' = (IF "timer" \in imr THEN "unmask_timer" ELSE "done")
    BY <1>6 DEF timer_init, printed, At, pic
  <2>2. Below(sent, "main", place) /\ Below(todo, "main", place)
    BY <1>6 DEF OutInv, MainInv, Timer
  <2>3. place' = place
    BY <2>1 DEF place
  <2>4. Below(sent', "main", place') /\ Below(todo', "main", place')
    BY <1>1, <2>2, <2>3
  <2>5. pc' \in Places /\ pc' \in Timer
    BY <2>1 DEF Places, Timer
  <2>6. MainInv'
    BY <1>1, <1>2, <1>3, <2>1, <2>4, <2>5 DEF MainInv, Below
  <2> QED  BY <1>1, <2>6, SentFrame, EchoFrame, QueueFrame, TxFrame DEF OutInv
<1> QED  BY <1>4, <1>5, <1>6 DEF timer_init, printed, At
-----------------------------------------------------------------------------
\* Every step keeps the invariant.
LEMMA OutNext == OutInv /\ [Next]_vars => OutInv'
BY OutReceive, OutDevices, OutHandler, OutRead, OutEcho, OutWrite, OutPutchar, OutWait, OutPrepare, OutText
   DEF Next, Main, Isr

(***************************************************************************)
(* Wherever interrupts fall into serial_putchar, the bytes of the main     *)
(* thread and those of the echo leave in order and none twice, no byte     *)
(* comes between carriage return and newline of an echo, and never more    *)
(* than two bytes wait in the transmit queue.                              *)
(***************************************************************************)
THEOREM AlwaysInOrder == Spec => []OutputInOrder
<1>1. OutInv => OutputInOrder
  BY DEF OutInv, SentInv, TxInv, Ordered, OutputInOrder
<1> QED  BY <1>1, OutInit, OutNext, PTL DEF Spec
-----------------------------------------------------------------------------
(***************************************************************************)
(* The rest of the type invariant: the flags, the sets of lines and the    *)
(* length of the receive queue.                                            *)
(***************************************************************************)
Flags == /\ active_port \in BOOLEAN /\ in_service \in BOOLEAN /\ iflag \in BOOLEAN
         /\ ier \in BOOLEAN /\ timeout \in BOOLEAN

LineSets == handlers \subseteq Lines /\ imr \subseteq Lines /\ irr \subseteq Lines

Steps == {"none", "eoi", "inb", "tx_empty", "outb", "iret", "unhandled"}

Bounded == isr \in Steps /\ rx \in Seq(Bytes) /\ Len(rx) <= FifoSize

Registers == Flags /\ LineSets /\ Bounded

\* A change of the UART to a queue that fits keeps its registers typed.
LEMMA UartTyped ==
  ASSUME Registers, NEW enabled \in BOOLEAN, NEW queue, NEW late \in BOOLEAN,
         Uart(enabled, queue, late), queue \in Seq(Bytes), Len(queue) <= FifoSize
  PROVE  /\ ier' \in BOOLEAN /\ timeout' \in BOOLEAN /\ irr' \subseteq Lines
         /\ rx' \in Seq(Bytes) /\ Len(rx') <= FifoSize
<1>1. ier' \in BOOLEAN /\ timeout' \in BOOLEAN
  BY DEF Uart
<1>2. irr' \subseteq Lines
  BY DEF Uart, Registers, LineSets, Lines
<1>3. rx' \in Seq(Bytes) /\ Len(rx') <= FifoSize
  BY DEF Uart
<1> QED  BY <1>1, <1>2, <1>3

\* The queue without its first character, as inb leaves it.
LEMMA ShorterQueue ==
  ASSUME Registers
  PROVE  /\ (IF rx = <<>> THEN rx ELSE Tail(rx)) \in Seq(Bytes)
         /\ Len(IF rx = <<>> THEN rx ELSE Tail(rx)) <= FifoSize
<1>1. rx # <<>> => Tail(rx) \in Seq(Bytes) /\ Len(Tail(rx)) = Len(rx) - 1
  BY DEF Registers, Bounded
<1>2. Len(rx) \in Nat /\ FifoSize \in Nat
  BY SerialAssumption DEF Registers, Bounded
<1> QED  BY <1>1, <1>2 DEF Registers, Bounded

\* The steps of the UART and of the timer.
LEMMA RegistersDevices ==
  OutInv /\ Registers /\ (Receive \/ Wait \/ Transmit \/ Tick \/ UNCHANGED vars) => Registers'
<1> SUFFICES ASSUME OutInv, Registers, Receive \/ Wait \/ Transmit \/ Tick \/ UNCHANGED vars
             PROVE  Registers'
  OBVIOUS
<1>1. CASE Receive
  <2> DEFINE c == [from |-> "input", n |-> received + 1, byte |-> Input[received + 1]]
             queue == IF Len(rx) = FifoSize THEN rx ELSE Append(rx, c)
  <2>1. Uart(ier, queue, timeout)
    BY <1>1 DEF Receive
  <2>2. c \in Bytes
    <3>1. received \in Nat /\ received + 1 \in 1..Len(Input)
      <4>1. received \in 0..Len(Input)
        BY Zenon DEF OutInv, QueueInv
      <4>2. received < Len(Input)
        BY <1>1, Zenon DEF Receive
      <4>3. Len(Input) \in Nat
        BY SerialAssumption
      <4> QED  BY <4>1, <4>2, <4>3
    <3>2. Input[received + 1] \in {"x", "\n"}
      BY <3>1, SerialAssumption
    <3> QED  BY <3>1, <3>2 DEF Bytes
  <2> HIDE DEF c
  <2>3. Append(rx, c) \in Seq(Bytes) /\ Len(Append(rx, c)) = Len(rx) + 1
    BY <2>2 DEF Registers, Bounded
  <2>4. queue \in Seq(Bytes) /\ Len(queue) <= FifoSize
    BY <2>3, SerialAssumption DEF Registers, Bounded
  <2> HIDE DEF queue
  <2>5. ier \in BOOLEAN /\ timeout \in BOOLEAN
    BY DEF Registers, Flags
  <2>6. /\ ier' \in BOOLEAN /\ timeout' \in BOOLEAN /\ irr' \subseteq Lines
        /\ rx' \in Seq(Bytes) /\ Len(rx') <= FifoSize
    BY <2>1, <2>4, <2>5, UartTyped
  <2> QED  BY <1>1, <2>6 DEF Receive, Registers, Flags, LineSets, Bounded, setup, pic, handler
<1>2. CASE Wait
  <2>1. Uart(ier, rx, TRUE)
    BY <1>2 DEF Wait
  <2>2. ier \in BOOLEAN /\ rx \in Seq(Bytes) /\ Len(rx) <= FifoSize
    BY DEF Registers, Flags, Bounded
  <2>3. /\ ier' \in BOOLEAN /\ timeout' \in BOOLEAN /\ irr' \subseteq Lines
        /\ rx' \in Seq(Bytes) /\ Len(rx') <= FifoSize
    BY <2>1, <2>2, UartTyped
  <2> QED  BY <1>2, <2>3 DEF Wait, Registers, Flags, LineSets, Bounded, setup, pic, handler
<1>3. CASE Transmit \/ UNCHANGED vars
  BY <1>3 DEF Transmit, vars, setup, pic, handler, Registers, Flags, LineSets, Bounded
<1>4. CASE Tick
  BY <1>4 DEF Tick, setup, pic, handler, Registers, Flags, LineSets, Bounded, Lines
<1> QED  BY <1>1, <1>2, <1>3, <1>4

\* A delivery, and the steps of the handler.
LEMMA RegistersInterrupt == Registers /\ (Isr \/ \E l \in Lines : Deliver(l)) => Registers'
<1> SUFFICES ASSUME Registers, Isr \/ \E l \in Lines : Deliver(l) PROVE Registers'
  OBVIOUS
<1>1. CASE \E l \in Lines : Deliver(l)
  BY <1>1 DEF Deliver, setup, Registers, Flags, LineSets, Bounded, Steps
<1>2. CASE serial_handler_read
  <2> DEFINE queue == IF rx = <<>> THEN rx ELSE Tail(rx)
  <2>1. Uart(ier, queue, FALSE)
    BY <1>2 DEF serial_handler_read
  <2>2. queue \in Seq(Bytes) /\ Len(queue) <= FifoSize
    BY ShorterQueue
  <2> HIDE DEF queue
  <2>3. ier \in BOOLEAN
    BY DEF Registers, Flags
  <2>4. /\ ier' \in BOOLEAN /\ timeout' \in BOOLEAN /\ irr' \subseteq Lines
        /\ rx' \in Seq(Bytes) /\ Len(rx') <= FifoSize
    BY <2>1, <2>2, <2>3, UartTyped
  <2> QED  BY <1>2, <2>4 DEF serial_handler_read, setup, pic, Registers, Flags, LineSets, Bounded, Steps
<1>3. CASE isr_handle_irq \/ serial_handler_wait \/ serial_handler_write \/ iret
  BY <1>3 DEF isr_handle_irq, serial_handler_wait, serial_handler_write, iret, setup, pic,
              Registers, Flags, LineSets, Bounded, Steps
<1> QED  BY <1>1, <1>2, <1>3 DEF Isr

\* The main thread, one step for each of its calls.
LEMMA RegistersMain == Registers /\ Main => Registers'
<1> SUFFICES ASSUME Registers, Main PROVE Registers'
  OBVIOUS
<1>1. CASE idt_init
  BY <1>1 DEF idt_init, setup, handler, Registers, Flags, LineSets, Bounded
<1>2. ASSUME NEW l \in Lines, NEW next,
             irq_register_handler(l, next) \/ irq_clear_mask(l, next)
      PROVE  Registers'
  BY <1>2 DEF irq_register_handler, irq_clear_mask, setup, pic, handler, Registers, Flags,
              LineSets, Bounded
<1>3. ASSUME NEW step, NEW port \in BOOLEAN, NEW enabled \in BOOLEAN, NEW queue, NEW next,
             queue \in Seq(Bytes), Len(queue) <= FifoSize,
             serial_init_port(step, port, enabled, queue, next)
      PROVE  Registers'
  <2> DEFINE late == timeout /\ queue # <<>>
  <2>1. Uart(enabled, queue, late)
    BY <1>3 DEF serial_init_port
  <2>2. late \in BOOLEAN
    OBVIOUS
  <2> HIDE DEF late
  <2>3. /\ ier' \in BOOLEAN /\ timeout' \in BOOLEAN /\ irr' \subseteq Lines
        /\ rx' \in Seq(Bytes) /\ Len(rx') <= FifoSize
    BY <1>3, <2>1, <2>2, UartTyped
  <2> QED  BY <1>3, <2>3 DEF serial_init_port, pic, handler, Registers, Flags, LineSets, Bounded
<1>4. /\ rx \in Seq(Bytes) /\ Len(rx) <= FifoSize
      /\ <<>> \in Seq(Bytes) /\ Len(<<>>) <= FifoSize
  BY SerialAssumption DEF Registers, Bounded
<1>5. CASE serial_init
  <2>1. "com1" \in Lines
    BY DEF Lines
  <2> QED  BY <1>2, <1>3, <1>4, <1>5, <2>1 DEF serial_init
<1>6. CASE drain
  <2>1. CASE At("drain_inb") /\ Uart(ier, IF rx = <<>> THEN rx ELSE Tail(rx), FALSE)
             /\ UNCHANGED <<text, todo, ready, setup, pic, handler, received, tx, sent>>
    <3> DEFINE queue == IF rx = <<>> THEN rx ELSE Tail(rx)
    <3>1. Uart(ier, queue, FALSE)
      BY <2>1
    <3>2. queue \in Seq(Bytes) /\ Len(queue) <= FifoSize
      BY ShorterQueue
    <3> HIDE DEF queue
    <3>3. ier \in BOOLEAN
      BY DEF Registers, Flags
    <3>4. /\ ier' \in BOOLEAN /\ timeout' \in BOOLEAN /\ irr' \subseteq Lines
          /\ rx' \in Seq(Bytes) /\ Len(rx') <= FifoSize
      BY <3>1, <3>2, <3>3, UartTyped
    <3> QED  BY <2>1, <3>4 DEF setup, pic, handler, Registers, Flags, LineSets, Bounded
  <2>2. CASE UNCHANGED <<irr, ier, rx, timeout>>
             /\ UNCHANGED <<text, todo, ready, setup, pic, handler, received, tx, sent>>
    BY <2>2 DEF setup, pic, handler, Registers, Flags, LineSets, Bounded
  <2> QED  BY <1>6, <2>1, <2>2 DEF drain
<1>7. CASE timer_init
  <2>1. "timer" \in Lines
    BY DEF Lines
  <2> QED  BY <1>2, <1>7, <2>1 DEF timer_init
<1>8. CASE putchar \/ serial_putchar_wait \/ serial_putchar_write \/ printed
  BY <1>8 DEF putchar, serial_putchar_wait, serial_putchar_write, printed, setup, pic, handler,
              Registers, Flags, LineSets, Bounded
<1> QED  BY <1>1, <1>5, <1>6, <1>7, <1>8 DEF Main

(***************************************************************************)
(* TypeOK holds for every text, input and size of the queues.  It says     *)
(* that the receive queue keeps to its size, and that serial_putchar and   *)
(* the echo together never write to a full transmit queue.                 *)
(***************************************************************************)
THEOREM TypeCorrect == Spec => []TypeOK
<1>1. Init => OutInv /\ Registers
  <2>1. Init => Flags /\ LineSets
    BY DEF Init, Flags, LineSets
  <2>2. Init => Bounded
    BY SerialAssumption DEF Init, Bounded, Steps
  <2> QED  BY <2>1, <2>2, OutInit DEF Registers
<1>2. OutInv /\ Registers /\ [Next]_vars => (OutInv /\ Registers)'
  BY OutNext, RegistersDevices, RegistersInterrupt, RegistersMain DEF Next
<1>3. OutInv /\ Registers => TypeOK
  <2> SUFFICES ASSUME OutInv, Registers PROVE TypeOK
    OBVIOUS
  <2>1. text \in Seq({"x", "\n"}) /\ {todo, echo, rx, sent} \subseteq Seq(Bytes)
    BY DEF OutInv, MainInv, EchoInv, SentInv, Char, Registers, Bounded
  <2>2. {ready, active_port, in_service, iflag, ier, timeout} \subseteq BOOLEAN
    <3>1. ready \in BOOLEAN
      BY DEF OutInv, MainInv
    <3> QED  BY <3>1 DEF Registers, Flags
  <2>3. {handlers, imr, irr} \subseteq SUBSET Lines
    BY DEF Registers, LineSets
  <2>4. isr \in Steps /\ Len(rx) <= FifoSize
    BY DEF Registers, Bounded
  <2>5. tx \in 0..FifoSize /\ received \in 0..Len(Input)
    BY SerialAssumption DEF OutInv, TxInv, QueueInv
  <2> QED  BY <2>1, <2>2, <2>3, <2>4, <2>5 DEF TypeOK, Steps
<1> QED  BY <1>1, <1>2, <1>3, PTL DEF Spec
-----------------------------------------------------------------------------
(***************************************************************************)
(* The main loop of kernel_main, once the set-up is done: the same         *)
(* processor, PIC and lines, and the variables of sleep().                 *)
(***************************************************************************)
CONSTANTS Base, ns_per_tick, Durations, Horizon
VARIABLES asleep, clock, got, end_time, call

Sleeping == INSTANCE Sleep WITH Tick <- ns_per_tick

\* The steps of sleep() between a cli() and the next sti().
MaskedSteps == {"deadline", "while", "loop_sti", "sti"}

\* In those steps no handler runs and none can start.
Masked == pc \in MaskedSteps => ~ iflag /\ isr = "none" /\ ~ asleep

\* A handler runs with interrupts masked, on a processor that is awake.
HandlersMasked == isr # "none" => ~ iflag /\ ~ asleep

\* The processor sleeps only at the hlt of sleep().
AsleepAtHlt == asleep => pc = "loop_cli"

\* A half that was read is still the clock's.
HalvesCurrent ==
  pc \in {"deadline", "while"} =>
    got.lo \in {-1, clock.lo} /\ got.hi \in {-1, clock.hi}

\* Outside of a read there is none.
NothingRead == pc \notin {"deadline", "while"} => got = Sleeping!Unread

\* Until the deadline is computed the clock shows the time of the call.
CallTime == pc = "deadline" => Sleeping!Value(clock) = call.at

\* The deadline of the call in progress lies below the horizon.
CallFits == pc # "drawing" => call.at + call.millis <= Horizon

\* The loop ends only behind its deadline.
DeadlinePassed == pc = "sti" => Sleeping!Value(clock) >= end_time

SleepInv ==
  /\ Sleeping!TypeOK /\ Masked /\ HandlersMasked /\ AsleepAtHlt
  /\ HalvesCurrent /\ NothingRead
  /\ CallTime /\ CallFits /\ Sleeping!DeadlineNotTorn /\ DeadlinePassed

\* The value of a clock is a natural number.
LEMMA ValueNat ==
  ASSUME Sleeping!SleepAssumption, NEW c, c.lo \in Nat, c.hi \in Nat
  PROVE  Sleeping!Value(c) \in Nat
  BY DEF Sleeping!SleepAssumption, Sleeping!Value

\* Before the first call nothing is masked and nothing read.
LEMMA SleepInitInv == Sleeping!SleepAssumption /\ Sleeping!Init => SleepInv
<1> SUFFICES ASSUME Sleeping!SleepAssumption, Sleeping!Init PROVE SleepInv
  OBVIOUS
<1>1. Sleeping!TypeOK
  <2>1. 0 \in 0..(Base - 1) /\ 0 \in Nat /\ 0 \in 0..Horizon
    BY DEF Sleeping!SleepAssumption
  <2>2. clock \in [lo : 0..(Base - 1), hi : Nat]
    BY <2>1 DEF Sleeping!Init
  <2>3. got \in [lo : (0..(Base - 1)) \cup {-1}, hi : Nat \cup {-1}]
    BY DEF Sleeping!Init, Sleeping!Unread
  <2>4. call \in [millis : Durations \cup {0}, at : Nat]
    BY <2>1 DEF Sleeping!Init
  <2> QED  BY <2>1, <2>2, <2>3, <2>4 DEF Sleeping!Init, Sleeping!TypeOK, Sleeping!Steps
<1> QED  BY <1>1 DEF Sleeping!Init, SleepInv, Masked, MaskedSteps, HandlersMasked,
                     AsleepAtHlt, HalvesCurrent, NothingRead, CallTime, CallFits,
                     Sleeping!DeadlineNotTorn, DeadlinePassed, Sleeping!Unread
-----------------------------------------------------------------------------
(***************************************************************************)
(* The devices and handlers: they run only while sleep() is at a step that *)
(* is not masked, where nothing is said of the clock.                      *)
(***************************************************************************)
LEMMA InterruptStep ==
  ASSUME Sleeping!SleepAssumption, SleepInv, NEW l \in {"timer", "com1"},
         Sleeping!Raise(l) \/ Sleeping!Deliver(l) \/ Sleeping!Isr
  PROVE  SleepInv'
<1>1. /\ pc' = pc /\ got' = got /\ end_time' = end_time /\ call' = call
      /\ pc \in MaskedSteps => UNCHANGED <<iflag, asleep, isr, clock>>
  BY DEF SleepInv, Masked, Sleeping!Raise, Sleeping!Deliver, Sleeping!Isr, Sleeping!eoi,
         Sleeping!timer_handler, Sleeping!iret
<1>2. Sleeping!TypeOK'
  <2>1. clock' \in [lo : 0..(Base - 1), hi : Nat]
    <3>1. CASE UNCHANGED clock
      BY <3>1 DEF SleepInv, Sleeping!TypeOK
    <3>2. CASE Sleeping!timer_handler
      <4>1. clock \in [lo : 0..(Base - 1), hi : Nat]
        BY DEF SleepInv, Sleeping!TypeOK
      <4>2. (clock.lo + ns_per_tick) % Base \in 0..(Base - 1) /\ clock.hi + 1 \in Nat
        BY <4>1 DEF Sleeping!SleepAssumption
      <4> QED  BY <3>2, <4>1, <4>2 DEF Sleeping!timer_handler
    <3> QED  BY <3>1, <3>2 DEF Sleeping!Raise, Sleeping!Deliver, Sleeping!Isr,
                               Sleeping!eoi, Sleeping!iret
  <2>2. iflag' \in BOOLEAN /\ asleep' \in BOOLEAN /\ in_service' \in BOOLEAN
    BY DEF SleepInv, Sleeping!TypeOK, Sleeping!Raise, Sleeping!Deliver, Sleeping!Isr,
           Sleeping!eoi, Sleeping!timer_handler, Sleeping!iret
  <2>3. irr' \subseteq {"timer", "com1"} /\ line' \in {"timer", "com1"}
    BY DEF SleepInv, Sleeping!TypeOK, Sleeping!Raise, Sleeping!Deliver, Sleeping!Isr,
           Sleeping!eoi, Sleeping!timer_handler, Sleeping!iret
  <2>4. isr' \in {"none", "eoi", "add", "adc", "iret"}
    BY DEF SleepInv, Sleeping!TypeOK, Sleeping!Raise, Sleeping!Deliver, Sleeping!Isr,
           Sleeping!eoi, Sleeping!timer_handler, Sleeping!iret
  <2> QED  BY <1>1, <2>1, <2>2, <2>3, <2>4 DEF SleepInv, Sleeping!TypeOK
<1>3. HandlersMasked' /\ AsleepAtHlt'
  BY <1>1 DEF SleepInv, HandlersMasked, AsleepAtHlt, Sleeping!Raise, Sleeping!Deliver,
              Sleeping!Isr, Sleeping!eoi, Sleeping!timer_handler, Sleeping!iret
<1>4. Masked'
  BY <1>1 DEF SleepInv, Masked
<1>5. HalvesCurrent' /\ NothingRead'
  BY <1>1 DEF SleepInv, HalvesCurrent, NothingRead, MaskedSteps
<1>6. CallTime' /\ CallFits' /\ Sleeping!DeadlineNotTorn' /\ DeadlinePassed'
  BY <1>1 DEF SleepInv, CallTime, CallFits, Sleeping!DeadlineNotTorn, DeadlinePassed, MaskedSteps,
              Sleeping!Value
<1> QED  BY <1>2, <1>3, <1>4, <1>5, <1>6 DEF SleepInv

(***************************************************************************)
(* The main thread.                                                        *)
(***************************************************************************)
\* The call: interrupts are masked and the time of the call is the clock's.
LEMMA CliStep ==
  ASSUME Sleeping!SleepAssumption, SleepInv, NEW d \in Durations, Sleeping!cli(d)
  PROVE  SleepInv'
<1>1. Sleeping!Value(clock) \in Nat
  BY ValueNat DEF SleepInv, Sleeping!TypeOK
<1>2. Sleeping!TypeOK'
  BY <1>1 DEF SleepInv, Sleeping!TypeOK, Sleeping!cli, Sleeping!Steps
<1>3. CallFits'
  <2>1. d \in Nat /\ Sleeping!Value(clock) + d + ns_per_tick <= Horizon
        /\ call' = [millis |-> d, at |-> Sleeping!Value(clock)]
    BY DEF Sleeping!cli, Sleeping!SleepAssumption
  <2> QED  BY <1>1, <2>1 DEF CallFits, Sleeping!SleepAssumption
<1> QED  BY <1>2, <1>3 DEF SleepInv, Masked, MaskedSteps, HandlersMasked, AsleepAtHlt,
                     HalvesCurrent, NothingRead, CallTime, Sleeping!DeadlineNotTorn,
                     DeadlinePassed, Sleeping!cli, Sleeping!At, Sleeping!Unread,
                     Sleeping!Value

\* Reading one half.
LEMMA ReadStep ==
  ASSUME Sleeping!SleepAssumption, SleepInv, NEW half \in {"lo", "hi"}, Sleeping!read(half)
  PROVE  SleepInv'
<1>1. Sleeping!TypeOK'
  <2>1. CASE half = "lo"
    BY <2>1 DEF SleepInv, Sleeping!TypeOK, Sleeping!read, Sleeping!cpu
  <2>2. CASE half = "hi"
    BY <2>2 DEF SleepInv, Sleeping!TypeOK, Sleeping!read, Sleeping!cpu
  <2> QED  BY <2>1, <2>2
<1>2. HalvesCurrent'
  <2>1. CASE half = "lo"
    BY <2>1 DEF SleepInv, Sleeping!TypeOK, HalvesCurrent, Sleeping!read, Sleeping!At,
                Sleeping!cpu
  <2>2. CASE half = "hi"
    BY <2>2 DEF SleepInv, Sleeping!TypeOK, HalvesCurrent, Sleeping!read, Sleeping!At,
                Sleeping!cpu
  <2> QED  BY <2>1, <2>2
<1> QED  BY <1>1, <1>2 DEF SleepInv, Masked, MaskedSteps, HandlersMasked, AsleepAtHlt,
                           NothingRead, CallTime, CallFits, Sleeping!DeadlineNotTorn,
                           DeadlinePassed, Sleeping!read, Sleeping!At, Sleeping!cpu,
                           Sleeping!Value

\* Once both halves are read they are the clock.
LEMMA ReadIsClock ==
  ASSUME Sleeping!SleepAssumption, SleepInv, pc \in {"deadline", "while"}, Sleeping!AllRead
  PROVE  Sleeping!Value(got) = Sleeping!Value(clock) /\ Sleeping!Value(clock) \in Nat
<1>1. got.lo = clock.lo /\ got.hi = clock.hi
  BY DEF SleepInv, HalvesCurrent, Sleeping!AllRead
<1>2. Sleeping!Value(clock) \in Nat
  BY ValueNat DEF SleepInv, Sleeping!TypeOK
<1> QED  BY <1>1, <1>2 DEF Sleeping!Value

\* The deadline is the time of the call plus its argument.
LEMMA DeadlineStep ==
  ASSUME Sleeping!SleepAssumption, SleepInv, Sleeping!deadline
  PROVE  SleepInv'
<1>1. Sleeping!Value(got) = Sleeping!Value(clock) /\ Sleeping!Value(clock) \in Nat
  BY ReadIsClock DEF Sleeping!deadline, Sleeping!At
<1>2. end_time' = call.at + call.millis /\ end_time' \in 0..Horizon
  <2>1. call.at = Sleeping!Value(clock) /\ end_time' = Sleeping!Value(got) + call.millis
    BY DEF SleepInv, CallTime, Sleeping!deadline, Sleeping!At
  <2>2. call.millis \in Nat
    <3>1. call.millis \in Durations \cup {0}
      BY DEF SleepInv, Sleeping!TypeOK
    <3>2. \A m \in Durations \cup {0} : m \in Nat
      BY DEF Sleeping!SleepAssumption
    <3> QED  BY <3>1, <3>2, Zenon
  <2>3. call.at + call.millis <= Horizon
    BY DEF SleepInv, CallFits, Sleeping!deadline, Sleeping!At
  <2> QED  BY <1>1, <2>1, <2>2, <2>3 DEF Sleeping!SleepAssumption
<1>3. got' \in [lo : (0..(Base - 1)) \cup {-1}, hi : Nat \cup {-1}]
  BY DEF Sleeping!deadline, Sleeping!Unread
<1>4. Sleeping!TypeOK'
  BY <1>2, <1>3 DEF SleepInv, Sleeping!TypeOK, Sleeping!deadline, Sleeping!cpu,
                    Sleeping!Steps
<1> QED  BY <1>2, <1>4 DEF SleepInv, Masked, MaskedSteps, HandlersMasked, AsleepAtHlt,
                           HalvesCurrent, NothingRead, CallTime, CallFits,
                           Sleeping!DeadlineNotTorn, DeadlinePassed, Sleeping!deadline,
                           Sleeping!At, Sleeping!cpu, Sleeping!Unread

\* The loop is left only when the clock has reached the deadline.
LEMMA WhileStep ==
  ASSUME Sleeping!SleepAssumption, SleepInv, Sleeping!while
  PROVE  SleepInv'
<1>1. Sleeping!Value(got) = Sleeping!Value(clock) /\ Sleeping!Value(clock) \in Nat
  BY ReadIsClock DEF Sleeping!while, Sleeping!At
<1>2. got' \in [lo : (0..(Base - 1)) \cup {-1}, hi : Nat \cup {-1}]
  BY DEF Sleeping!while, Sleeping!Unread
<1>3. Sleeping!TypeOK'
  BY <1>2 DEF SleepInv, Sleeping!TypeOK, Sleeping!while, Sleeping!cpu, Sleeping!Steps
<1>4. DeadlinePassed'
  BY <1>1 DEF SleepInv, Sleeping!TypeOK, DeadlinePassed, Sleeping!while, Sleeping!cpu,
              Sleeping!Value
<1> QED  BY <1>3, <1>4 DEF SleepInv, Masked, MaskedSteps, HandlersMasked, AsleepAtHlt,
                           HalvesCurrent, NothingRead, CallTime, CallFits,
                           Sleeping!DeadlineNotTorn, Sleeping!while, Sleeping!At,
                           Sleeping!cpu, Sleeping!Unread

\* sti, hlt and cli of the loop, and the sti at its end.
LEMMA FlagStep ==
  ASSUME Sleeping!SleepAssumption, SleepInv,
         Sleeping!loop_sti \/ Sleeping!hlt \/ Sleeping!loop_cli \/ Sleeping!sti
  PROVE  SleepInv'
<1>1. Sleeping!TypeOK'
  BY DEF SleepInv, Sleeping!TypeOK, Sleeping!loop_sti, Sleeping!hlt, Sleeping!loop_cli,
         Sleeping!sti, Sleeping!Steps
<1>2. UNCHANGED <<clock, got, end_time, call>>
  BY DEF Sleeping!loop_sti, Sleeping!hlt, Sleeping!loop_cli, Sleeping!sti
<1>3. Masked' /\ HandlersMasked' /\ AsleepAtHlt'
  BY DEF SleepInv, Masked, MaskedSteps, HandlersMasked, AsleepAtHlt, Sleeping!loop_sti,
         Sleeping!hlt, Sleeping!loop_cli, Sleeping!sti, Sleeping!At
<1>4. HalvesCurrent' /\ NothingRead'
  BY <1>2 DEF SleepInv, HalvesCurrent, NothingRead, Sleeping!Unread, Sleeping!loop_sti,
              Sleeping!hlt, Sleeping!loop_cli, Sleeping!sti, Sleeping!At
<1>5. CallTime' /\ CallFits' /\ Sleeping!DeadlineNotTorn' /\ DeadlinePassed'
  BY <1>2 DEF SleepInv, CallTime, CallFits, Sleeping!DeadlineNotTorn, DeadlinePassed,
              Sleeping!loop_sti, Sleeping!hlt, Sleeping!loop_cli, Sleeping!sti,
              Sleeping!At
<1> QED  BY <1>1, <1>3, <1>4, <1>5 DEF SleepInv
-----------------------------------------------------------------------------
\* Every instruction and every interrupt keeps the invariant.
LEMMA SleepNextInv ==
  Sleeping!SleepAssumption /\ SleepInv /\ [Sleeping!Next]_(Sleeping!vars) => SleepInv'
<1> SUFFICES ASSUME Sleeping!SleepAssumption, SleepInv,
                    [Sleeping!Next]_(Sleeping!vars)
             PROVE  SleepInv'
  OBVIOUS
<1>1. ASSUME NEW d \in Durations, Sleeping!cli(d) PROVE SleepInv'
  BY <1>1, CliStep
<1>2. ASSUME NEW half \in {"lo", "hi"}, Sleeping!read(half) PROVE SleepInv'
  BY <1>2, ReadStep
<1>3. CASE Sleeping!deadline
  BY <1>3, DeadlineStep
<1>4. CASE Sleeping!while
  BY <1>4, WhileStep
<1>5. CASE Sleeping!loop_sti \/ Sleeping!hlt \/ Sleeping!loop_cli \/ Sleeping!sti
  BY <1>5, FlagStep
<1>6. ASSUME NEW l \in {"timer", "com1"},
             Sleeping!Raise(l) \/ Sleeping!Deliver(l) \/ Sleeping!Isr
      PROVE  SleepInv'
  BY <1>6, InterruptStep
<1>7. CASE UNCHANGED Sleeping!vars
  BY <1>7 DEF Sleeping!vars, SleepInv, Sleeping!TypeOK, Masked, HandlersMasked,
              AsleepAtHlt, HalvesCurrent, NothingRead, CallTime, CallFits,
              Sleeping!DeadlineNotTorn, DeadlinePassed, Sleeping!Value
<1> QED  BY <1>1, <1>2, <1>3, <1>4, <1>5, <1>6, <1>7 DEF Sleeping!Next, Sleeping!Main

\* The invariant of the interplay of sleep() with the interrupts.
THEOREM SleepInvariant ==
  ASSUME Sleeping!SleepAssumption
  PROVE  Sleeping!Spec => []SleepInv
  BY SleepInitInv, SleepNextInv, PTL DEF Sleeping!Spec

\* The variables of the model keep their types.
THEOREM SleepTypeCorrect ==
  ASSUME Sleeping!SleepAssumption
  PROVE  Sleeping!Spec => []Sleeping!TypeOK
<1>1. SleepInv => Sleeping!TypeOK
  BY DEF SleepInv
<1> QED  BY SleepInvariant, <1>1, PTL

(***************************************************************************)
(* sleep() returns only when the clock has reached the time of the call    *)
(* plus its argument, wherever the interrupts fall.                        *)
(***************************************************************************)
THEOREM SleepsLongEnough ==
  ASSUME Sleeping!SleepAssumption
  PROVE  Sleeping!Spec => []Sleeping!NeverTooEarly
<1>1. SleepInv => Sleeping!NeverTooEarly
  BY DEF SleepInv, Sleeping!TypeOK, Sleeping!DeadlineNotTorn, DeadlinePassed,
         Sleeping!NeverTooEarly
<1> QED  BY SleepInvariant, <1>1, PTL

\* The deadline of sleep() is never mixed from the clock before and after a
\* tick.
THEOREM DeadlineExact ==
  ASSUME Sleeping!SleepAssumption
  PROVE  Sleeping!Spec => []Sleeping!DeadlineNotTorn
<1>1. SleepInv => Sleeping!DeadlineNotTorn
  BY DEF SleepInv
<1> QED  BY SleepInvariant, <1>1, PTL

=============================================================================
