--------------------------- MODULE KeyboardProofs ---------------------------
(***************************************************************************)
(* That the reads of keyboard_init get their answers, for every set of     *)
(* scancodes and any number of keys.  The invariant follows the places of  *)
(* keyboard_init: which configuration the controller has by then, whether  *)
(* an interrupt can be pending, and what the output buffer can hold.       *)
(***************************************************************************)
EXTENDS Keyboard, TLAPS

\* The provers in the usual order, and once more with more time.
USE SMTT(5), ZenonT(10), SMTT(20), ZenonT(20), SMTT(30)

\* The places at which keyboard_init sends a command, and a data byte.
Sends == {2, 3, 5, 7, 9, 11, 13, 14, 16}
Datas == {8, 17}

\* The controller has executed what is sent at place p.
Done(p) == pc > p \/ (pc = p /\ busy /\ ibuf = NoByte)

\* The configuration with the port off, with both off, as written back the
\* first time, and with the port on again.
PortOff  == cfg0 \cup {4}
BothOff  == PortOff \cup {5}
Quiet    == BothOff \ {0, 1, 6}
PortOn   == Quiet \ {4}

Config ==
  /\ ~ Done(2) => cfg = cfg0
  /\ Done(2) /\ ~ Done(3) => cfg = PortOff
  /\ Done(3) /\ ~ Done(8) => cfg = BothOff
  /\ Done(8) /\ ~ Done(13) => cfg = Quiet
  /\ Done(13) /\ ~ Done(17) => cfg = PortOn
  /\ Done(17) => cfg = conf

\* What is in the input buffer is what the current place has sent.
Input ==
  /\ pc \in 1..18 /\ busy \in BOOLEAN
  /\ busy => pc \in Sends \cup Datas
  /\ ibuf # NoByte => /\ busy
                      /\ pc \in Sends => ibuf = Byte(Arg, {})
                      /\ pc \in Datas => ibuf = Byte("data", conf)
  /\ Done(7) /\ ~ Done(8) => storing = TRUE
  /\ Done(16) /\ ~ Done(17) => storing = TRUE

\* No interrupt is pending between the second command and the last byte.
NoInterrupt ==
  /\ masked \in BOOLEAN /\ irr \in BOOLEAN
  /\ masked <=> pc = 1
  /\ pc >= 3 /\ ~ Done(17) => ~ irr

Empty == answer = NoByte /\ obuf = NoByte

\* The answer waits, or it is in the output buffer.
Under(b) ==
  \/ answer = b /\ obuf = NoByte
  \/ answer = NoByte /\ obuf = b

Output ==
  /\ ~ Done(5) => answer = NoByte
  /\ pc = 5 /\ ~ Done(5) => obuf = NoByte
  /\ Done(5) /\ pc <= 6 => Under(Byte("20", BothOff))
  /\ pc >= 7 /\ ~ Done(9) => Empty
  /\ Done(9) /\ pc <= 10 => Under(Byte("AA", Good("AA")))
  /\ pc >= 11 /\ ~ Done(11) => Empty
  /\ Done(11) /\ pc <= 12 => Under(Byte("AB", Good("AB")))
  /\ pc >= 13 /\ ~ Done(13) => Empty
  /\ Done(13) /\ ~ Done(14) => answer = NoByte /\ obuf.src # "20"
  /\ Done(14) /\ pc <= 15 => /\ answer \in {NoByte, Byte("20", PortOn)}
                             /\ obuf.src = "20" => obuf = Byte("20", PortOn)

\* What keyboard_init has read, and writes back.
Read ==
  /\ wrong \subseteq {15} /\ (pc <= 15 => wrong = {})
  /\ pc \in {7, 8} => conf = Quiet
  /\ pc >= 16 /\ wrong = {} => conf = PortOn \cup {0}

Inv == Config /\ Input /\ NoInterrupt /\ Output /\ Read
-----------------------------------------------------------------------------
\* keyboard_init makes 17 calls.
LEMMA Length == DOMAIN keyboard_init = 1..17 /\ Len(keyboard_init) = 17
BY DEF keyboard_init, Op

\* What each place of keyboard_init does.
LEMMA Calls ==
  /\ keyboard_init[1].op = "irq_clear_mask"
  /\ keyboard_init[2].op = "send_command" /\ keyboard_init[2].arg = "AD"
  /\ keyboard_init[3].op = "send_command" /\ keyboard_init[3].arg = "A7"
  /\ keyboard_init[4].op = "flush_output_buffer"
  /\ keyboard_init[5].op = "send_command" /\ keyboard_init[5].arg = "20"
  /\ keyboard_init[6].op = "conf_and" /\ keyboard_init[6].arg = "20"
  /\ keyboard_init[7].op = "send_command" /\ keyboard_init[7].arg = "60"
  /\ keyboard_init[8].op = "send_data"
  /\ keyboard_init[9].op = "send_command" /\ keyboard_init[9].arg = "AA"
  /\ keyboard_init[10].op = "expect" /\ keyboard_init[10].arg = "AA"
  /\ keyboard_init[11].op = "send_command" /\ keyboard_init[11].arg = "AB"
  /\ keyboard_init[12].op = "expect" /\ keyboard_init[12].arg = "AB"
  /\ keyboard_init[13].op = "send_command" /\ keyboard_init[13].arg = "AE"
  /\ keyboard_init[14].op = "send_command" /\ keyboard_init[14].arg = "20"
  /\ keyboard_init[15].op = "conf_or" /\ keyboard_init[15].arg = "20"
  /\ keyboard_init[16].op = "send_command" /\ keyboard_init[16].arg = "60"
  /\ keyboard_init[17].op = "send_data"
BY DEF keyboard_init, Op

\* Where keyboard_init makes which call.
LEMMA Places ==
  /\ Returned = 18
  /\ At("irq_clear_mask") => pc = 1
  /\ At("send_command") => pc \in Sends
  /\ At("send_data") => pc \in Datas
  /\ At("flush_output_buffer") => pc = 4
  /\ At("conf_and") => pc = 6
  /\ At("conf_or") => pc = 15
  /\ At("expect") => pc \in {10, 12}
<1>1. Returned = 18
  BY Length DEF Returned
<1>2. ASSUME pc \in 1..17
      PROVE  \/ pc = 1 \/ pc = 2 \/ pc = 3 \/ pc = 4 \/ pc = 5 \/ pc = 6 \/ pc = 7 \/ pc = 8 \/ pc = 9
             \/ pc = 10 \/ pc = 11 \/ pc = 12 \/ pc = 13 \/ pc = 14 \/ pc = 15 \/ pc = 16 \/ pc = 17
  BY <1>2
<1> QED  BY <1>1, <1>2, Length, Calls DEF At, Sends, Datas

\* The second read of the configuration is at place 15.
LEMMA LastReadPlace == LastRead = 15
<1>1. ASSUME NEW i \in 1..17, keyboard_init[i].op = "conf_or"
      PROVE  i = 15
  <2>1. \/ i = 1 \/ i = 2 \/ i = 3 \/ i = 4 \/ i = 5 \/ i = 6 \/ i = 7 \/ i = 8 \/ i = 9
        \/ i = 10 \/ i = 11 \/ i = 12 \/ i = 13 \/ i = 14 \/ i = 15 \/ i = 16 \/ i = 17
    OBVIOUS
  <2> QED  BY <1>1, <2>1, Calls
<1>2. 15 \in DOMAIN keyboard_init /\ keyboard_init[15].op = "conf_or"
  BY Length, Calls
<1> QED  BY <1>1, <1>2, Length DEF LastRead

\* The invariant holds when the firmware starts the kernel.
LEMMA InvInit == Init => Inv
<1> SUFFICES ASSUME Init PROVE Inv
  OBVIOUS
<1>1. pc = 1 /\ ~ busy /\ ibuf = NoByte /\ answer = NoByte /\ wrong = {} /\ masked /\ irr \in BOOLEAN
      /\ cfg = cfg0 /\ busy \in BOOLEAN /\ masked \in BOOLEAN
  BY DEF Init
<1>2. Config
  BY <1>1 DEF Config, Done
<1>3. Input
  BY <1>1 DEF Input, Done
<1>4. NoInterrupt
  BY <1>1 DEF NoInterrupt, Done
<1>5. Output
  BY <1>1 DEF Output, Done
<1>6. Read
  BY <1>1 DEF Read
<1> QED  BY <1>2, <1>3, <1>4, <1>5, <1>6 DEF Inv
-----------------------------------------------------------------------------
\* While the port is off no key enters the buffer.
LEMMA PortIsOff == Config /\ Input => (Done(2) /\ ~ Done(13) => 4 \in cfg)
<1>1. Input => /\ (Done(17) => Done(13)) /\ (Done(13) => Done(8))
               /\ (Done(8) => Done(3)) /\ (Done(3) => Done(2))
  BY DEF Input, Done
<1>2. {4} \subseteq PortOff /\ {4} \subseteq BothOff /\ {4} \subseteq Quiet
  BY DEF PortOff, BothOff, Quiet
<1> QED  BY <1>1, <1>2 DEF Config

\* From the port's being off to the last byte the line is down.
LEMMA LineIsDown == Config /\ Input => (Done(2) /\ ~ Done(17) => ~ Line)
<1>1. Input => (Done(17) => Done(13)) /\ (Done(13) => Done(8))
  BY DEF Input, Done
<1>2. 0 \notin PortOn
  BY DEF PortOn, Quiet
<1> QED  BY <1>1, <1>2, PortIsOff DEF Config, Line

\* The same in the state after a step.
LEMMA LineIsDownNext == (Config /\ Input)' => (Done(2)' /\ ~ Done(17)' => ~ Line')
BY LineIsDown, PTL
-----------------------------------------------------------------------------
core == <<pc, busy, conf, wrong, masked, irr, cfg, storing, ibuf, answer, obuf, cfg0>>

\* Striking a key, printing and stuttering leave all of it alone.
LEMMA InvCore == Inv /\ UNCHANGED core => Inv'
BY DEF Inv, core, Config, Input, NoInterrupt, Output, Read, Done, Under, Empty, Arg,
       PortOff, BothOff, Quiet, PortOn

\* irq_clear_mask(1): a request that has waited may be delivered from now on.
LEMMA InvUnmask == Inv /\ irq_clear_mask => Inv'
<1> SUFFICES ASSUME Inv, irq_clear_mask PROVE Inv'
  OBVIOUS
<1>1. pc = 1 /\ pc' = 2 /\ masked' = FALSE /\ ~ busy
      /\ UNCHANGED <<busy, conf, wrong, irr, cfg, storing, ibuf, answer, obuf, cfg0>>
  BY Places DEF Inv, Input, Sends, Datas, irq_clear_mask, controller
<1>2. Config'
  BY <1>1 DEF Inv, Config, Done
<1>3. Input'
  BY <1>1 DEF Inv, Input, Done
<1>4. NoInterrupt'
  <2>1. ~ (pc' = 1) /\ ~ (pc' >= 3)
    BY <1>1
  <2> QED  BY <1>1, <2>1 DEF Inv, NoInterrupt
<1>5. Output'
  BY <1>1 DEF Inv, Output, Done
<1>6. Read'
  BY <1>1 DEF Inv, Read
<1> QED  BY <1>2, <1>3, <1>4, <1>5, <1>6 DEF Inv

\* The outb of a command, and of a data byte.
LEMMA InvSend == Inv /\ (send_command \/ send_data) => Inv'
<1> SUFFICES ASSUME Inv, send_command \/ send_data PROVE Inv'
  OBVIOUS
<1>1. /\ ~ busy /\ busy' = TRUE /\ ibuf' # NoByte /\ pc \in Sends \cup Datas
      /\ pc \in Sends => ibuf' = Byte(Arg, {})
      /\ pc \in Datas => ibuf' = Byte("data", conf)
      /\ UNCHANGED <<pc, conf, wrong, masked, irr, cfg, storing, answer, obuf, cfg0>>
  <2>1. pc \in Sends => pc \notin Datas /\ Arg # "none"
    BY Calls DEF Sends, Datas, Arg
  <2>2. CASE send_command
    BY <2>1, <2>2, Places DEF send_command, send, Byte, NoByte
  <2>3. CASE send_data
    BY <2>1, <2>3, Places DEF send_data, send, Byte, NoByte
  <2> QED  BY <2>2, <2>3
<1>2. \A p : Done(p)' <=> Done(p)
  BY <1>1 DEF Done
<1>3. Config'
  BY <1>1, <1>2 DEF Inv, Config, PortOff, BothOff, Quiet, PortOn
<1>4. Input'
  BY <1>1, <1>2 DEF Inv, Input, Arg
<1>5. NoInterrupt'
  BY <1>1, <1>2 DEF Inv, NoInterrupt
<1>6. Output'
  BY <1>1, <1>2 DEF Inv, Output, Under, Empty, PortOff, BothOff, Quiet, PortOn
<1>7. Read'
  BY <1>1 DEF Inv, Read, PortOff, BothOff, Quiet, PortOn
<1> QED  BY <1>3, <1>4, <1>5, <1>6, <1>7 DEF Inv

\* The end of the wait for the command.
LEMMA InvFlushInput == Inv /\ flush_input_buffer => Inv'
<1> SUFFICES ASSUME Inv, flush_input_buffer PROVE Inv'
  OBVIOUS
<1>1. /\ busy /\ busy' = FALSE /\ ibuf = NoByte /\ pc' = pc + 1 /\ Runs
      /\ pc \in Sends \cup Datas /\ pc \in 1..18
      /\ UNCHANGED <<conf, wrong, masked, irr, cfg, storing, ibuf, answer, obuf, cfg0>>
  BY DEF flush_input_buffer, controller, Inv, Input
<1>2. \A p \in Int : Done(p)' <=> Done(p)
  BY <1>1 DEF Done
<1>3. Config'
  BY <1>1, <1>2 DEF Inv, Config, PortOff, BothOff, Quiet, PortOn
<1>4. Input'
  <2>1. pc' \in 1..18
    BY <1>1 DEF Sends, Datas
  <2>2. (Done(7)' /\ ~ Done(8)' => storing' = TRUE) /\ (Done(16)' /\ ~ Done(17)' => storing' = TRUE)
    BY <1>1, <1>2 DEF Inv, Input
  <2>3. busy' \in BOOLEAN /\ ~ busy' /\ ibuf' = NoByte'
    BY <1>1 DEF NoByte
  <2> QED  BY <2>1, <2>2, <2>3 DEF Input
<1>5. NoInterrupt'
  BY <1>1, <1>2 DEF Inv, NoInterrupt, Runs, Sends, Datas
<1>6. Output'
  BY <1>1, <1>2 DEF Inv, Output, Under, Empty, Done, Sends, Datas, PortOff, BothOff, Quiet, PortOn
<1>7. Read'
  BY <1>1 DEF Inv, Read, Sends, Datas, PortOff, BothOff, Quiet, PortOn
<1> QED  BY <1>3, <1>4, <1>5, <1>6, <1>7 DEF Inv

\* A step that raises or lowers the line leaves no interrupt pending where
\* none may be.
LEMMA LatchKeepsQuiet ==
  ASSUME Inv, Latch, (Config /\ Input)', UNCHANGED masked, pc' = 1 <=> pc = 1,
         pc' >= 3 /\ ~ Done(17)' => Done(2)' /\ ~ irr
  PROVE  NoInterrupt'
<1>1. irr' \in BOOLEAN
  BY DEF Latch
<1>2. pc' >= 3 /\ ~ Done(17)' => ~ irr'
  BY LineIsDownNext DEF Latch, Inv, NoInterrupt
<1> QED  BY <1>1, <1>2 DEF Inv, NoInterrupt

\* The loop that empties the output buffer, with the port off.
LEMMA InvFlushOutput == Inv /\ flush_output_buffer => Inv'
<1> SUFFICES ASSUME Inv, flush_output_buffer PROVE Inv'
  OBVIOUS
<1>1. /\ pc = 4 /\ ~ busy /\ busy \in BOOLEAN /\ ibuf = NoByte /\ obuf' = NoByte
      /\ pc' = (IF obuf = NoByte THEN 5 ELSE 4)
      /\ UNCHANGED <<busy, conf, wrong, masked, cfg, storing, ibuf, answer, cfg0>>
  BY Places DEF flush_output_buffer, controller, Inv, Input, Sends, Datas
<1>2. Config'
  BY <1>1 DEF Inv, Config, Done, PortOff, BothOff, Quiet, PortOn
<1>3. Input'
  BY <1>1 DEF Inv, Input, Done
<1>4. NoInterrupt'
  <2>1. (pc' = 1 <=> pc = 1) /\ Done(2)'
    BY <1>1 DEF Done
  <2>2. ~ irr
    BY <1>1 DEF Inv, NoInterrupt, Done
  <2>3. Latch /\ UNCHANGED masked
    BY <1>1 DEF flush_output_buffer
  <2> QED  BY <1>2, <1>3, <2>1, <2>2, <2>3, LatchKeepsQuiet
<1>5. Output'
  BY <1>1 DEF Inv, Output, Done
<1>6. Read'
  BY <1>1 DEF Inv, Read
<1> QED  BY <1>2, <1>3, <1>4, <1>5, <1>6 DEF Inv

\* The handler runs before the port is off, or after the last byte.
LEMMA InvHandler == Inv /\ keyboard_handler => Inv'
<1> SUFFICES ASSUME Inv, keyboard_handler PROVE Inv'
  OBVIOUS
<1>1. /\ irr' = FALSE /\ obuf' = NoByte
      /\ UNCHANGED <<pc, busy, conf, wrong, masked, cfg, storing, ibuf, answer, cfg0>>
  BY DEF keyboard_handler, mainVars, controller
<1>2. pc = 2 \/ pc = 17 \/ pc = 18
  <2>1. irr /\ ~ masked
    BY DEF keyboard_handler
  <2> QED  BY <2>1 DEF Inv, NoInterrupt, Input, Done
<1>3. Config'
  BY <1>1 DEF Inv, Config, Done, PortOff, BothOff, Quiet, PortOn
<1>4. Input'
  BY <1>1 DEF Inv, Input, Done, Arg
<1>5. NoInterrupt'
  BY <1>1 DEF Inv, NoInterrupt
<1>6. Output'
  BY <1>1, <1>2 DEF Inv, Output, Done
<1>7. Read'
  BY <1>1 DEF Inv, Read, PortOff, BothOff, Quiet, PortOn
<1> QED  BY <1>3, <1>4, <1>5, <1>6, <1>7 DEF Inv

\* A key enters the buffer only before the port is off and after it is on.
LEMMA InvPassKey == Inv /\ PassKey => Inv'
<1> SUFFICES ASSUME Inv, PassKey PROVE Inv'
  OBVIOUS
<1>1. /\ obuf' = Byte("key", Head(queue)) /\ 4 \notin cfg
      /\ UNCHANGED <<pc, busy, conf, wrong, masked, cfg, storing, ibuf, answer, cfg0>>
  BY DEF PassKey, mainVars, controller
<1>2. Done(13) \/ ~ Done(2)
  BY <1>1, PortIsOff DEF Inv
<1>3. Config'
  BY <1>1 DEF Inv, Config, Done, PortOff, BothOff, Quiet, PortOn
<1>4. Input'
  BY <1>1 DEF Inv, Input, Done, Arg
<1>5. NoInterrupt'
  <2>1. (pc' = 1 <=> pc = 1) /\ (pc' >= 3 /\ ~ Done(17)' => Done(2)' /\ ~ irr)
    BY <1>1 DEF Inv, NoInterrupt, Input, Done
  <2>2. Latch /\ UNCHANGED masked
    BY <1>1 DEF PassKey
  <2> QED  BY <1>3, <1>4, <2>1, <2>2, LatchKeepsQuiet
<1>6. Output'
  <2>1. obuf'.src = "key"
    BY <1>1 DEF Byte
  <2> QED  BY <1>1, <1>2, <2>1 DEF Inv, Input, Output, Done, PortOn, Quiet, BothOff, PortOff
<1>7. Read'
  BY <1>1 DEF Inv, Read, PortOff, BothOff, Quiet, PortOn
<1> QED  BY <1>3, <1>4, <1>5, <1>6, <1>7 DEF Inv

\* An answer moves into the output buffer.
LEMMA InvAnswer == Inv /\ Answer => Inv'
<1> SUFFICES ASSUME Inv, Answer PROVE Inv'
  OBVIOUS
<1>1. /\ obuf = NoByte /\ answer # NoByte /\ obuf' = answer /\ answer' = NoByte
      /\ UNCHANGED <<pc, busy, conf, wrong, masked, cfg, storing, ibuf, cfg0>>
  BY DEF Answer, mainVars
<1>2. Config'
  BY <1>1 DEF Inv, Config, Done, PortOff, BothOff, Quiet, PortOn
<1>3. Input'
  BY <1>1 DEF Inv, Input, Done, Arg
<1>4. NoInterrupt'
  <2>1. (pc' = 1 <=> pc = 1) /\ (pc' >= 3 /\ ~ Done(17)' => Done(2)' /\ ~ irr)
    BY <1>1 DEF Inv, NoInterrupt, Input, Done
  <2>2. Latch /\ UNCHANGED masked
    BY <1>1 DEF Answer
  <2> QED  BY <1>2, <1>3, <2>1, <2>2, LatchKeepsQuiet
<1>5. Output'
  <2>1. \A p : Done(p)' <=> Done(p)
    BY <1>1 DEF Done
  <2>2. UNCHANGED <<BothOff, PortOn>>
    BY <1>1 DEF PortOff, BothOff, Quiet, PortOn
  <2> QED  BY <1>1, <2>1, <2>2 DEF Inv, Input, Output, Under, Empty, Done
<1>6. Read'
  BY <1>1 DEF Inv, Read, PortOff, BothOff, Quiet, PortOn
<1> QED  BY <1>2, <1>3, <1>4, <1>5, <1>6 DEF Inv

\* The reads find the answer to the command just sent, the last one perhaps
\* a key instead.
LEMMA InvExpect == Inv /\ expect_data => Inv'
<1> SUFFICES ASSUME Inv, expect_data PROVE Inv'
  OBVIOUS
<1>1. /\ ~ busy /\ busy \in BOOLEAN /\ ibuf = NoByte /\ obuf # NoByte /\ obuf' = NoByte
      /\ pc \in {6, 10, 12, 15}
      /\ UNCHANGED <<busy, masked, cfg, storing, ibuf, answer, cfg0>>
  BY Places DEF expect_data, controller, Inv, Input, Sends, Datas
<1>2. /\ pc \in {6, 15} => pc' = pc + 1 /\ conf' = after_read(keyboard_init[pc].op, obuf.byte)
      /\ pc \in {10, 12} => pc' = (IF obuf.byte = Good(Arg) THEN pc + 1 ELSE Panic) /\ conf' = conf
      /\ wrong' = IF obuf.src = Arg THEN wrong ELSE wrong \cup {pc}
  BY <1>1, Places, Length, Calls DEF expect_data, At
<1>3. /\ pc' = pc + 1
      /\ pc \in {10, 12} => conf' = conf
      /\ pc = 6 => conf' = Quiet
      /\ pc # 15 => wrong' = {} /\ answer = NoByte
      /\ pc = 15 => wrong' \subseteq {15} /\ (wrong' = {} => conf' = PortOn \cup {0})
  <2>1. CASE pc = 6
    <3>1. obuf = Byte("20", BothOff) /\ answer = NoByte /\ wrong = {}
      BY <1>1, <2>1 DEF Inv, Output, Under, Read, Done
    <3>2. obuf.src = "20" /\ obuf.byte = BothOff
      BY <3>1 DEF Byte
    <3> QED  BY <1>2, <2>1, <3>1, <3>2, Calls DEF after_read, Quiet, Arg
  <2>2. CASE pc = 10
    <3>1. obuf = Byte("AA", Good("AA")) /\ answer = NoByte /\ wrong = {}
      BY <1>1, <2>2 DEF Inv, Output, Under, Read, Done
    <3>2. obuf.src = "AA" /\ obuf.byte = Good("AA")
      BY <3>1 DEF Byte
    <3> QED  BY <1>2, <2>2, <3>1, <3>2, Calls DEF Arg
  <2>3. CASE pc = 12
    <3>1. obuf = Byte("AB", Good("AB")) /\ answer = NoByte /\ wrong = {}
      BY <1>1, <2>3 DEF Inv, Output, Under, Read, Done
    <3>2. obuf.src = "AB" /\ obuf.byte = Good("AB")
      BY <3>1 DEF Byte
    <3> QED  BY <1>2, <2>3, <3>1, <3>2, Calls DEF Arg
  <2>4. CASE pc = 15
    <3>1. wrong = {} /\ (obuf.src = "20" => obuf = Byte("20", PortOn))
      BY <1>1, <2>4 DEF Inv, Output, Read, Done
    <3>2. obuf.src = "20" => obuf.byte = PortOn
      BY <3>1 DEF Byte
    <3> QED  BY <1>2, <2>4, <3>1, <3>2, Calls DEF after_read, Arg
  <2> QED  BY <1>1, <2>1, <2>2, <2>3, <2>4
<1>4. UNCHANGED <<PortOff, BothOff, Quiet, PortOn>>
  BY <1>1 DEF PortOff, BothOff, Quiet, PortOn
<1>5. Config'
  BY <1>1, <1>3, <1>4 DEF Inv, Config, Done
<1>6. Input'
  BY <1>1, <1>3 DEF Inv, Input, Done
<1>7. NoInterrupt'
  <2>1. (pc' = 1 <=> pc = 1) /\ Done(2)' /\ ~ irr
    BY <1>1, <1>3 DEF Inv, NoInterrupt, Done
  <2>2. Latch /\ UNCHANGED masked
    BY <1>1 DEF expect_data
  <2> QED  BY <1>5, <1>6, <2>1, <2>2, LatchKeepsQuiet
<1>8. Output'
  BY <1>1, <1>3 DEF Output, Done, Empty
<1>9. Read'
  BY <1>1, <1>3, <1>4 DEF Read
<1> QED  BY <1>5, <1>6, <1>7, <1>8, <1>9 DEF Inv

\* The controller executes what the current place has sent.
LEMMA InvExecute == Inv /\ Execute => Inv'
<1> SUFFICES ASSUME Inv, Execute PROVE Inv'
  OBVIOUS
<1>1. /\ busy /\ busy \in BOOLEAN /\ ibuf # NoByte /\ ibuf' = NoByte /\ pc \in Sends \cup Datas
      /\ UNCHANGED <<pc, busy, conf, wrong, masked, obuf, cfg0>>
  BY DEF Execute, mainVars, Inv, Input
<1>2. /\ pc \in Sends => ibuf.src = Arg
      /\ pc \in Datas => ibuf.src = "data" /\ ibuf.byte = conf
  BY <1>1 DEF Inv, Input, Byte
<1>3. \A p \in Int : /\ Done(p)' <=> pc >= p
                     /\ Done(p) <=> pc > p
  BY <1>1 DEF Done, Sends, Datas
<1>4. UNCHANGED <<PortOff, BothOff, Quiet, PortOn>>
  BY <1>1 DEF PortOff, BothOff, Quiet, PortOn
<1>5. /\ pc = 2 => cfg' = cfg \cup {4}
      /\ pc = 3 => cfg' = cfg \cup {5}
      /\ pc = 13 => cfg' = cfg \ {4}
      /\ pc \in Datas => cfg' = conf
      /\ pc \notin {2, 3, 8, 13, 17} => cfg' = cfg
      /\ pc \in {7, 16} => storing' = TRUE
  <2>1. pc \in Datas => storing = TRUE
    BY <1>3 DEF Inv, Input, Datas
  <2>2. CASE pc \in Datas
    BY <1>2, <2>1, <2>2 DEF Execute, Datas
  <2>3. CASE pc \in Sends
    <3>1. /\ ibuf.src = "60" <=> pc \in {7, 16}
          /\ ibuf.src = "AD" <=> pc = 2
          /\ ibuf.src = "A7" <=> pc = 3
          /\ ibuf.src = "AE" <=> pc = 13
          /\ ibuf.src # "data" /\ pc \notin Datas
      BY <1>2, <2>3, Calls DEF Sends, Datas, Arg
    <3>2. storing' = (ibuf.src = "60")
      BY DEF Execute
    <3>3. pc \in {7, 16} => storing' = TRUE
      BY <3>1, <3>2
    <3> QED  BY <3>1, <3>3 DEF Execute
  <2> QED  BY <1>1, <2>2, <2>3
<1>6. /\ pc \in {5, 14} => answer' = Byte("20", cfg)
      /\ pc = 9 => answer' = Byte("AA", Good("AA"))
      /\ pc = 11 => answer' = Byte("AB", Good("AB"))
      /\ pc \notin {5, 9, 11, 14} => answer' = answer
  <2>1. CASE pc \in Datas
    BY <1>2, <2>1 DEF Execute, Datas
  <2>2. CASE pc \in Sends
    BY <1>2, <2>2, Calls DEF Execute, Sends, Datas, Arg
  <2> QED  BY <1>1, <2>1, <2>2
<1>7. Config'
  <2>1. /\ pc = 2 => cfg' = PortOff
        /\ pc = 3 => cfg' = BothOff
        /\ pc = 8 => cfg' = Quiet
        /\ pc = 13 => cfg' = PortOn
        /\ pc = 17 => cfg' = conf
    BY <1>3, <1>5 DEF Inv, Config, Read, PortOff, BothOff, PortOn, Datas
  <2> QED  BY <1>1, <1>3, <1>4, <1>5, <2>1 DEF Inv, Config, Sends, Datas
<1>8. Input'
  <2>1. (Done(7)' /\ ~ Done(8)' => storing' = TRUE) /\ (Done(16)' /\ ~ Done(17)' => storing' = TRUE)
    BY <1>1, <1>3, <1>5 DEF Sends, Datas
  <2> QED  BY <1>1, <2>1 DEF Inv, Input
<1>9. NoInterrupt'
  <2>1. (pc' = 1 <=> pc = 1) /\ (pc' >= 3 /\ ~ Done(17)' => Done(2)' /\ ~ irr)
    BY <1>1, <1>3 DEF Inv, NoInterrupt, Input
  <2>2. Latch /\ UNCHANGED masked
    BY <1>1 DEF Execute
  <2> QED  BY <1>7, <1>8, <2>1, <2>2, LatchKeepsQuiet
<1>10. Output'
  <2>1. /\ pc = 5 => answer' = Byte("20", BothOff)
        /\ pc = 14 => answer' = Byte("20", PortOn)
    BY <1>3, <1>6 DEF Inv, Config
  <2>2. NoByte.src # "20"
    BY DEF NoByte
  <2> QED  BY <1>1, <1>3, <1>4, <1>6, <2>1, <2>2 DEF Inv, Output, Under, Empty, Sends, Datas
<1>11. Read'
  BY <1>1, <1>4 DEF Inv, Read
<1> QED  BY <1>7, <1>8, <1>9, <1>10, <1>11 DEF Inv
-----------------------------------------------------------------------------
\* Every step of the kernel, the controller and the keyboard keeps it.
LEMMA InvNext == Inv /\ [Next]_vars => Inv'
<1> SUFFICES ASSUME Inv, [Next]_vars PROVE Inv'
  OBVIOUS
<1>1. CASE tty_steps
  <2>1. UNCHANGED core
    BY <1>1 DEF tty_steps, putchar_switch, load_cell, put_cell, load_col, store_col, cmp_col, reset_col,
                load_row, store_row, cmp_row, reset_row, clear, carriage_return, Go, core, mainVars, controller
  <2> QED  BY <2>1, InvCore
<1>2. CASE \E k \in Keys : Strike(k)
  <2>1. UNCHANGED core
    BY <1>2 DEF Strike, core, mainVars, controller
  <2> QED  BY <2>1, InvCore
<1>3. CASE UNCHANGED vars
  <2>1. UNCHANGED core
    BY <1>3 DEF vars, core, mainVars, controller
  <2> QED  BY <2>1, InvCore
<1> QED
  BY <1>1, <1>2, <1>3, InvUnmask, InvSend, InvFlushInput, InvFlushOutput, InvExpect, InvHandler,
     InvExecute, InvAnswer, InvPassKey DEF Next, main

(***************************************************************************)
(* Whatever keys are struck and whenever, each read of keyboard_init gets  *)
(* the answer to the command before it, except perhaps the last; the two   *)
(* self-tests do not fail; and unless the last read got a key, the         *)
(* controller ends up with the intended configuration.                     *)
(***************************************************************************)
THEOREM AlwaysMatched == Spec => []AnswersMatched
<1>1. Inv => AnswersMatched
  <2>1. Inv => pc # Panic /\ wrong \subseteq {LastRead}
    BY LastReadPlace DEF Inv, Input, Read, Panic
  <2>2. Inv /\ pc = Returned /\ wrong = {} => cfg = (cfg0 \ {1, 4, 6}) \cup {0, 5}
    <3>1. Inv /\ pc = Returned /\ wrong = {} => cfg = PortOn \cup {0}
      BY Places DEF Inv, Config, Read, Done
    <3>2. PortOn \cup {0} = (cfg0 \ {1, 4, 6}) \cup {0, 5}
      BY DEF PortOn, Quiet, BothOff, PortOff
    <3> QED  BY <3>1, <3>2
  <2> QED  BY <2>1, <2>2 DEF AnswersMatched
<1> QED  BY <1>1, InvInit, InvNext, PTL DEF Spec
-----------------------------------------------------------------------------
(***************************************************************************)
(* The cursor.  What the functions of tty.c do to it, on every screen.     *)
(***************************************************************************)
IsTty(u) ==
  u = [row |-> u.row, col |-> u.col, buf |-> u.buf] /\ u.row \in Nat /\ u.col \in Nat

NextRow(r) == IF r + 1 = TTY_HEIGHT THEN 0 ELSE r + 1

\* Clearing the line does not move the cursor.
LEMMA ClearLineCursor ==
  ASSUME NEW u, IsTty(u)
  PROVE  LET v == clear_line(u) IN IsTty(v) /\ v.row = u.row /\ v.col = u.col
BY DEF IsTty, clear_line

\* Nor does writing a cell.
LEMMA PutcharatCursor ==
  ASSUME NEW u, IsTty(u), NEW c, NEW x, NEW y
  PROVE  LET v == tty_putcharat(u, c, x, y) IN IsTty(v) /\ v.row = u.row /\ v.col = u.col
BY DEF IsTty, tty_putcharat

\* newline goes to the next row and leaves the column.
LEMMA NewlineCursor ==
  ASSUME NEW u, IsTty(u)
  PROVE  LET v == newline(u) IN IsTty(v) /\ v.row = NextRow(u.row) /\ v.col = u.col
<1> DEFINE w == [u EXCEPT !.row = IF @ + 1 = TTY_HEIGHT THEN 0 ELSE @ + 1]
<1>1. IsTty(w) /\ w.row = NextRow(u.row) /\ w.col = u.col
  BY DEF IsTty, NextRow
<1> HIDE DEF w
<1>2. LET v == clear_line(w) IN IsTty(v) /\ v.row = w.row /\ v.col = w.col
  BY <1>1, ClearLineCursor
<1>3. newline(u) = clear_line(w)
  BY DEF newline, w
<1> QED  BY <1>1, <1>2, <1>3

\* A line break takes the column to zero.
LEMMA LineBreakCursor ==
  ASSUME NEW u, IsTty(u)
  PROVE  LET v == tty_putchar(u, "\n") IN IsTty(v) /\ v.row = NextRow(u.row) /\ v.col = 0
<1> DEFINE w == newline(u)
<1>1. IsTty(w) /\ w.row = NextRow(u.row)
  BY NewlineCursor
<1>2. tty_putchar(u, "\n") = [w EXCEPT !.col = 0]
  BY DEF tty_putchar
<1> HIDE DEF w
<1> QED  BY <1>1, <1>2 DEF IsTty

\* A letter moves the cursor one on, or to the next line.
LEMMA LetterCursor ==
  ASSUME NEW u, IsTty(u)
  PROVE  LET v == tty_putchar(u, "k") IN IsTty(v) /\ v.row \in {u.row, NextRow(u.row)}
<1> DEFINE q == tty_putcharat(u, "k", u.col, u.row)
           w == [q EXCEPT !.col = @ + 1]
           z == [w EXCEPT !.col = 0]
<1>1. tty_putchar(u, "k") = IF w.col = TTY_WIDTH THEN newline(z) ELSE w
  BY DEF tty_putchar
<1>2. IsTty(q) /\ q.row = u.row
  BY PutcharatCursor
<1> HIDE DEF q
<1>3. IsTty(w) /\ w.row = u.row
  BY <1>2 DEF IsTty
<1> HIDE DEF w
<1>4. IsTty(z) /\ z.row = u.row
  BY <1>3 DEF IsTty
<1> HIDE DEF z
<1>5. IsTty(newline(z)) /\ newline(z).row = NextRow(u.row)
  BY <1>4, NewlineCursor
<1> QED  BY <1>1, <1>3, <1>5

\* The recursion of tty_writebuf on two characters.
LEMMA WriteTwo ==
  ASSUME NEW u, NEW a, NEW b
  PROVE  tty_writebuf(u, <<a, b>>) = tty_putchar(tty_putchar(u, a), b)
<1> DEFINE D == 0..Len(<<a, b>>)
           F(f, k) == IF k = 0 THEN u ELSE tty_putchar(f[k - 1], <<a, b>>[k])
           g == [k \in D |-> IF k = 0 THEN u ELSE IF k = 1 THEN tty_putchar(u, a)
                             ELSE tty_putchar(tty_putchar(u, a), b)]
           w == CHOOSE f : f = [k \in D |-> F(f, k)]
<1>1. D = {0, 1, 2} /\ Len(<<a, b>>) = 2 /\ <<a, b>>[1] = a /\ <<a, b>>[2] = b
  OBVIOUS
<1>2. g = [k \in D |-> F(g, k)]
  BY <1>1
<1> HIDE DEF g
<1>3. w = [k \in D |-> F(w, k)]
  BY <1>2
<1> HIDE DEF w
<1>4. w[0] = u /\ w[1] = tty_putchar(w[0], a) /\ w[2] = tty_putchar(w[1], b)
  BY <1>1, <1>3
<1>5. tty_writebuf(u, <<a, b>>) = w[2]
  BY <1>1 DEF tty_writebuf, w
<1> QED  BY <1>4, <1>5

\* Wherever the handler comes, it leaves the column at zero, and the row on
\* the screen if it found it there.
LEMMA HandlerCursor ==
  ASSUME IsTty(t), keyboard_handler
  PROVE  IsTty(t)' /\ t'.col = 0 /\ (t.row < TTY_HEIGHT => t'.row < TTY_HEIGHT)
<1> DEFINE u == tty_putchar(t, "k")
<1>1. IsTty(u) /\ u.row \in {t.row, NextRow(t.row)}
  BY LetterCursor
<1>2. t' = tty_putchar(u, "\n")
  BY WriteTwo DEF keyboard_handler
<1> HIDE DEF u
<1>3. IsTty(t)' /\ t'.row = NextRow(u.row) /\ t'.col = 0
  BY <1>1, <1>2, LineBreakCursor DEF IsTty
<1>4. t.row < TTY_HEIGHT => NextRow(t.row) < TTY_HEIGHT /\ NextRow(NextRow(t.row)) < TTY_HEIGHT
  BY TtyAssumption DEF NextRow, IsTty
<1> QED  BY <1>1, <1>3, <1>4

(***************************************************************************)
(* A coordinate is one too large only at the two places between its        *)
(* increment and its reset, and a coordinate that was loaded to be         *)
(* incremented was on the screen.                                          *)
(***************************************************************************)
ColumnInv ==
  /\ t.col <= TTY_WIDTH
  /\ t.col = TTY_WIDTH => step \in {"cmp_col", "reset_col"}
  /\ step = "store_col" => reg < TTY_WIDTH
  /\ at[1] < TTY_WIDTH

RowInv ==
  ~ raced => /\ t.row <= TTY_HEIGHT
             /\ t.row = TTY_HEIGHT => step \in {"cmp_row", "reset_row"}
             /\ step = "store_row" => reg < TTY_HEIGHT
             /\ at[2] < TTY_HEIGHT

CursorInv ==
  /\ IsTty(t) /\ reg \in Nat /\ at \in Nat \X Nat
  /\ ColumnInv /\ RowInv

\* The console begins in the first cell.
LEMMA CursorInit == Init => CursorInv
<1> SUFFICES ASSUME Init PROVE CursorInv
  OBVIOUS
<1>1. IsTty(t) /\ t.row = 0 /\ t.col = 0
  BY DEF Init, tty_init, IsTty
<1>2. step = "next" /\ reg = 0 /\ at = <<0, 0>>
  BY DEF Init
<1> QED  BY <1>1, <1>2, TtyAssumption DEF CursorInv, ColumnInv, RowInv

\* A handler that prints keeps the cursor invariant, wherever it comes.
LEMMA CursorHandler == CursorInv /\ keyboard_handler => CursorInv'
<1> SUFFICES ASSUME CursorInv, keyboard_handler PROVE CursorInv'
  OBVIOUS
<1>1. IsTty(t)' /\ t'.col = 0 /\ (t.row < TTY_HEIGHT => t'.row < TTY_HEIGHT)
  BY HandlerCursor DEF CursorInv
<1>2. UNCHANGED <<step, reg, at>> /\ (~ raced' => ~ raced /\ t.row < TTY_HEIGHT)
  <2>1. UNCHANGED <<step, reg, at>>
    BY DEF keyboard_handler, printing
  <2>2. ~ raced' => ~ raced /\ ~ (t.row >= TTY_HEIGHT)
    BY Zenon DEF keyboard_handler
  <2> QED  BY <2>1, <2>2, TtyAssumption DEF CursorInv, IsTty
<1>3. ColumnInv'
  BY <1>1, <1>2, TtyAssumption DEF CursorInv, ColumnInv
<1>4. RowInv'
  BY <1>1, <1>2, TtyAssumption DEF CursorInv, RowInv, IsTty
<1> QED  BY <1>1, <1>2, <1>3, <1>4 DEF CursorInv

\* The loads and stores of tty_putchar and newline keep it.
LEMMA CursorPrint == CursorInv /\ tty_steps => CursorInv'
<1> SUFFICES ASSUME CursorInv, tty_steps PROVE CursorInv'
  OBVIOUS
<1> USE TtyAssumption DEF CursorInv, ColumnInv, RowInv
<1>1. CASE putchar_switch
  BY <1>1 DEF putchar_switch, Go, IsTty
<1>2. CASE load_cell
  BY <1>2 DEF load_cell, Go, IsTty
<1>3. CASE put_cell
  <2>1. IsTty(t)' /\ t'.row = t.row /\ t'.col = t.col
    BY <1>3, PutcharatCursor DEF put_cell, IsTty
  <2> QED  BY <1>3, <2>1 DEF put_cell, Go
<1>4. CASE load_col
  BY <1>4 DEF load_col, Go, IsTty
<1>5. CASE store_col
  BY <1>5 DEF store_col, Go, IsTty
<1>6. CASE cmp_col
  BY <1>6 DEF cmp_col, Go, IsTty
<1>7. CASE reset_col
  BY <1>7 DEF reset_col, Go, IsTty
<1>8. CASE load_row
  BY <1>8 DEF load_row, Go, IsTty
<1>9. CASE store_row
  BY <1>9 DEF store_row, Go, IsTty
<1>10. CASE cmp_row
  BY <1>10 DEF cmp_row, Go, IsTty
<1>11. CASE reset_row
  BY <1>11 DEF reset_row, Go, IsTty
<1>12. CASE clear
  <2>1. IsTty(t)' /\ t'.row = t.row /\ t'.col = t.col
    BY <1>12, ClearLineCursor DEF clear, IsTty
  <2> QED  BY <1>12, <2>1 DEF clear, Go
<1>13. CASE carriage_return
  BY <1>13 DEF carriage_return, Go, IsTty
<1> QED
  BY <1>1, <1>2, <1>3, <1>4, <1>5, <1>6, <1>7, <1>8, <1>9, <1>10, <1>11, <1>12, <1>13 DEF tty_steps

\* Every step keeps it.
LEMMA CursorNext == CursorInv /\ [Next]_vars => CursorInv'
<1> SUFFICES ASSUME CursorInv, [Next]_vars PROVE CursorInv'
  OBVIOUS
<1>1. \/ keyboard_handler \/ tty_steps \/ UNCHANGED <<step, reg, at, t, raced>>
  BY DEF Next, main, vars, printing, irq_clear_mask, send_command, send_data, send, flush_input_buffer,
         flush_output_buffer, expect_data, Execute, Answer, PassKey, Strike
<1>2. CASE UNCHANGED <<step, reg, at, t, raced>>
  BY <1>2 DEF CursorInv, ColumnInv, RowInv, IsTty
<1> QED  BY <1>1, <1>2, CursorHandler, CursorPrint

(***************************************************************************)
(* On a screen of any size and for any text, main writes inside of the     *)
(* line and leaves the column on the screen between two characters,        *)
(* wherever handlers print; and the same for the row until a handler has   *)
(* printed between its increment and its reset in newline.                 *)
(***************************************************************************)
THEOREM CursorStaysOnScreen == Spec => []CursorOnScreen
<1>1. CursorInv => CursorOnScreen
  BY TtyAssumption DEF CursorInv, ColumnInv, RowInv, IsTty, CursorOnScreen
<1> QED  BY <1>1, CursorInit, CursorNext, PTL DEF Spec
-----------------------------------------------------------------------------
(***************************************************************************)
(* The rest of the type invariant: bytes are sets of bits, and no more     *)
(* keys wait than can be struck.                                           *)
(***************************************************************************)
BytesTyped ==
  /\ conf \in Bytes /\ cfg \in Bytes /\ cfg0 \in Bytes
  /\ ibuf.byte \in Bytes /\ answer.byte \in Bytes /\ obuf.byte \in Bytes

KeysTyped ==
  /\ queue \in Seq(Keys) /\ struck \in 0..MaxKeys
  /\ storing \in BOOLEAN /\ raced \in BOOLEAN

Registers == BytesTyped /\ KeysTyped

\* The bytes that keyboard_init sends and expects.
LEMMA ByteTyped ==
  /\ \A src, b : b \in Bytes => Byte(src, b).byte \in Bytes
  /\ NoByte.byte \in Bytes /\ {} \in Bytes
  /\ \A cmd : Good(cmd) \in Bytes
  /\ \A op, b : b \in Bytes => after_read(op, b) \in Bytes
  /\ \A k \in Keys : k \in Bytes
<1>1. \A src, b : b \in Bytes => Byte(src, b).byte \in Bytes
  BY DEF Byte
<1>2. NoByte.byte \in Bytes /\ {} \in Bytes
  BY DEF NoByte, Bytes
<1>3. \A cmd : Good(cmd) \in Bytes
  BY DEF Good, Bytes
<1>4. \A op, b : b \in Bytes => after_read(op, b) \in Bytes
  BY DEF after_read, Bytes
<1>5. \A k \in Keys : k \in Bytes
  BY KeyboardAssumption DEF Bytes
<1> QED  BY <1>1, <1>2, <1>3, <1>4, <1>5

\* The firmware leaves bytes.
LEMMA RegistersInit == Init => Registers
<1> SUFFICES ASSUME Init PROVE Registers
  OBVIOUS
<1>1. conf \in Bytes /\ cfg \in Bytes /\ cfg0 \in Bytes
  BY DEF Init, Bytes
<1>2. ibuf.byte \in Bytes /\ answer.byte \in Bytes
  BY ByteTyped DEF Init
<1>3. obuf.byte \in Bytes
  BY ByteTyped DEF Init
<1>4. queue \in Seq(Keys) /\ struck \in 0..MaxKeys
  BY KeyboardAssumption DEF Init
<1>5. storing \in BOOLEAN /\ raced \in BOOLEAN
  BY DEF Init
<1> QED  BY <1>1, <1>2, <1>3, <1>4, <1>5 DEF Registers, BytesTyped, KeysTyped

\* The main thread and the handler.
LEMMA RegistersKernel == Registers /\ (main \/ keyboard_handler) => Registers'
<1> SUFFICES ASSUME Registers, main \/ keyboard_handler PROVE Registers'
  OBVIOUS
<1>1. CASE irq_clear_mask \/ flush_input_buffer
  BY <1>1 DEF irq_clear_mask, flush_input_buffer, controller, keyboard, Registers, BytesTyped, KeysTyped
<1>2. CASE send_command
  <2>1. ibuf'.byte \in Bytes
    BY <1>2, ByteTyped DEF send_command, send
  <2> QED  BY <1>2, <2>1 DEF send_command, send, keyboard, Registers, BytesTyped, KeysTyped
<1>3. CASE send_data
  <2>1. ibuf'.byte \in Bytes
    BY <1>3, ByteTyped DEF send_data, send, Registers, BytesTyped
  <2> QED  BY <1>3, <2>1 DEF send_data, send, keyboard, Registers, BytesTyped, KeysTyped
<1>4. CASE flush_output_buffer
  <2>1. obuf'.byte \in Bytes
    BY <1>4, ByteTyped DEF flush_output_buffer
  <2> QED  BY <1>4, <2>1 DEF flush_output_buffer, controller, keyboard, Registers, BytesTyped, KeysTyped
<1>5. CASE expect_data
  <2>1. obuf'.byte \in Bytes
    BY <1>5, ByteTyped DEF expect_data
  <2>2. conf' \in Bytes
    BY <1>5, ByteTyped DEF expect_data, Registers, BytesTyped
  <2> QED  BY <1>5, <2>1, <2>2 DEF expect_data, controller, keyboard, Registers, BytesTyped, KeysTyped
<1>6. CASE keyboard_handler
  <2>1. obuf'.byte \in Bytes
    BY <1>6, ByteTyped DEF keyboard_handler
  <2>2. raced' \in BOOLEAN
    BY <1>6, Zenon DEF keyboard_handler
  <2> QED  BY <1>6, <2>1, <2>2 DEF keyboard_handler, mainVars, controller, keyboard, Registers,
                                   BytesTyped, KeysTyped
<1>7. CASE tty_steps
  <2>1. UNCHANGED <<conf, cfg, cfg0, ibuf, answer, obuf, queue, struck, storing, raced>>
    BY <1>7 DEF tty_steps, putchar_switch, load_cell, put_cell, load_col, store_col, cmp_col, reset_col,
                load_row, store_row, cmp_row, reset_row, clear, carriage_return, Go, mainVars,
                controller, keyboard
  <2> QED  BY <2>1 DEF Registers, BytesTyped, KeysTyped
<1> QED  BY <1>1, <1>2, <1>3, <1>4, <1>5, <1>6, <1>7 DEF main

\* The controller and the keyboard.
LEMMA RegistersDevices ==
  Registers /\ (Execute \/ Answer \/ PassKey \/ \E k \in Keys : Strike(k)) => Registers'
<1> SUFFICES ASSUME Registers, Execute \/ Answer \/ PassKey \/ \E k \in Keys : Strike(k)
             PROVE  Registers'
  OBVIOUS
<1>1. CASE Execute
  <2>1. cfg' \in Bytes
    BY <1>1 DEF Execute, Registers, BytesTyped, Bytes
  <2>2. ibuf'.byte \in Bytes
    BY <1>1, ByteTyped DEF Execute
  <2>3. answer'.byte \in Bytes
    BY <1>1, ByteTyped DEF Execute, Registers, BytesTyped
  <2>4. storing' \in BOOLEAN
    BY <1>1, Zenon DEF Execute
  <2> QED  BY <1>1, <2>1, <2>2, <2>3, <2>4 DEF Execute, mainVars, keyboard, Registers, BytesTyped, KeysTyped
<1>2. CASE Answer
  <2>1. answer'.byte \in Bytes /\ obuf'.byte \in Bytes
    BY <1>2, ByteTyped DEF Answer, Registers, BytesTyped
  <2> QED  BY <1>2, <2>1 DEF Answer, mainVars, keyboard, Registers, BytesTyped, KeysTyped
<1>3. CASE PassKey
  <2>1. Head(queue) \in Keys /\ queue' \in Seq(Keys)
    BY <1>3 DEF PassKey, Registers, KeysTyped
  <2>2. obuf'.byte \in Bytes
    BY <1>3, <2>1, ByteTyped DEF PassKey
  <2> QED  BY <1>3, <2>1, <2>2 DEF PassKey, mainVars, controller, Registers, BytesTyped, KeysTyped
<1>4. ASSUME NEW k \in Keys, Strike(k) PROVE Registers'
  <2>1. queue' \in Seq(Keys) /\ struck' \in 0..MaxKeys
    BY <1>4, KeyboardAssumption DEF Strike, Registers, KeysTyped
  <2> QED  BY <1>4, <2>1 DEF Strike, mainVars, controller, Registers, BytesTyped, KeysTyped
<1> QED  BY <1>1, <1>2, <1>3, <1>4

(***************************************************************************)
(* TypeOK holds on every screen and for any number of keys: keyboard_init  *)
(* and the controller exchange bytes, and the column is never further      *)
(* than one behind the line, whatever the interrupts do to the console.    *)
(***************************************************************************)
THEOREM TypeCorrect == Spec => []TypeOK
<1>1. Registers /\ [Next]_vars => Registers'
  <2>1. Registers /\ UNCHANGED vars => Registers'
    BY DEF vars, mainVars, controller, keyboard, Registers, BytesTyped, KeysTyped
  <2> QED  BY <2>1, RegistersKernel, RegistersDevices DEF Next
<1>2. Inv /\ CursorInv /\ Registers => TypeOK
  <2> SUFFICES ASSUME Inv, CursorInv, Registers PROVE TypeOK
    OBVIOUS
  <2>1. pc \in 0..Returned /\ wrong \subseteq 1..Len(keyboard_init)
    BY Length, Places DEF Inv, Input, Read, Returned
  <2>2. masked \in BOOLEAN /\ irr \in BOOLEAN /\ busy \in BOOLEAN
    BY DEF Inv, NoInterrupt, Input
  <2>3. t.row \in Nat /\ t.col \in 0..TTY_WIDTH
    BY TtyAssumption DEF CursorInv, IsTty, ColumnInv
  <2>4. {masked, irr, storing, raced} \subseteq BOOLEAN
    BY <2>2 DEF Registers, KeysTyped
  <2>5. {cfg, cfg0} \subseteq Bytes /\ {ibuf.byte, answer.byte, obuf.byte} \subseteq Bytes
    BY DEF Registers, BytesTyped
  <2> QED  BY <2>1, <2>2, <2>3, <2>4, <2>5 DEF Registers, BytesTyped, KeysTyped, TypeOK
<1> QED
  BY <1>1, <1>2, InvInit, InvNext, CursorInit, CursorNext, RegistersInit, PTL DEF Spec
=============================================================================
