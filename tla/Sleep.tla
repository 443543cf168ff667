------------------------------- MODULE Sleep -------------------------------
(***************************************************************************)
(* kernel/kernel/timer.c: sleep() in the kernel's main loop, interrupted   *)
(* by the timer (IRQ0, timer_handler) and by the serial port (IRQ4, which  *)
(* does not touch the clock).  The steps are the machine instructions that *)
(* an interrupt can separate.  ns_since_boot has 64 bits and the processor *)
(* reads and adds it in two halves, in the order the compiler likes.       *)
(*                                                                         *)
(* sti(), halt() and cli() are calls of functions in another file, so an   *)
(* interrupt may arrive between sti and hlt.                               *)
(***************************************************************************)
EXTENDS Integers

CONSTANTS
  Base,       \* 2^32: the weight of the high half
  Tick,       \* ns_per_tick
  Durations,  \* the arguments of sleep(), in the unit of the clock
  Horizon     \* bound: the clock stops short of it, no deadline lies there

ASSUME SleepAssumption ==
  /\ Base \in Nat \ {0} /\ Tick \in 1..Base /\ Horizon \in Nat
  /\ Durations \subseteq Nat

VARIABLES
  pc,          \* the main thread, "drawing" outside of sleep
  iflag,       \* IF, the interrupt flag
  asleep,      \* the processor has executed hlt
  irr,         \* interrupt requests that wait in the PIC
  in_service,  \* the PIC waits for an EOI
  line,        \* the line whose interrupt was delivered last
  isr,         \* the step its handler is at, or "none"
  clock,       \* ns_since_boot, as its two halves
  got,         \* the halves read so far
  end_time,
  call         \* the call in progress: its duration and when it began

vars == <<pc, iflag, asleep, irr, in_service, line, isr, clock, got, end_time, call>>

Unread   == [lo |-> -1, hi |-> -1]
Value(c) == c.hi * Base + c.lo

cpu == <<iflag, asleep, irr, in_service, line, isr, clock>>

Init ==
  /\ pc = "drawing" /\ iflag = TRUE /\ asleep = FALSE
  /\ irr = {} /\ in_service = FALSE /\ line = "timer" /\ isr = "none"
  /\ clock = [lo |-> 0, hi |-> 0]
  /\ got = Unread /\ end_time = 0
  /\ call = [millis |-> 0, at |-> 0]
-----------------------------------------------------------------------------
(***************************************************************************)
(* The devices and the interrupt path: the PIC latches one request per     *)
(* line and delivers the timer first; isr_handle_irq sends the EOI and     *)
(* then calls the handler; the gates clear IF and iret restores it.        *)
(***************************************************************************)
Raise(l) ==
  /\ l \notin irr
  /\ irr' = irr \cup {l}
  /\ UNCHANGED <<pc, iflag, asleep, in_service, line, isr, clock, got, end_time, call>>

Deliver(l) ==
  /\ iflag /\ isr = "none" /\ ~ in_service
  /\ l \in irr
  /\ l = "com1" => "timer" \notin irr
  /\ irr' = irr \ {l}
  /\ in_service' = TRUE
  /\ iflag' = FALSE
  /\ asleep' = FALSE
  /\ line' = l
  /\ isr' = "eoi"
  /\ UNCHANGED <<pc, clock, got, end_time, call>>

eoi ==
  /\ isr = "eoi"
  /\ in_service' = FALSE
  /\ isr' = IF line = "timer" THEN "add" ELSE "iret"
  /\ UNCHANGED <<pc, iflag, asleep, irr, line, clock, got, end_time, call>>

\* timer_handler: add to the low half, then the carry to the high half.
timer_handler ==
  /\ \/ /\ isr = "add"
        /\ Value(clock) + Tick <= Horizon
        /\ clock' = [clock EXCEPT !.lo = (@ + Tick) % Base]
        /\ isr' = IF clock.lo + Tick >= Base THEN "adc" ELSE "iret"
     \/ /\ isr = "add"
        /\ Value(clock) + Tick > Horizon
        /\ isr' = "iret"
        /\ UNCHANGED clock
     \/ /\ isr = "adc"
        /\ clock' = [clock EXCEPT !.hi = @ + 1]
        /\ isr' = "iret"
  /\ UNCHANGED <<pc, iflag, asleep, irr, in_service, line, got, end_time, call>>

iret ==
  /\ isr = "iret"
  /\ isr' = "none"
  /\ iflag' = TRUE
  /\ UNCHANGED <<pc, asleep, irr, in_service, line, clock, got, end_time, call>>

Isr == eoi \/ timer_handler \/ iret
-----------------------------------------------------------------------------
(***************************************************************************)
(* sleep(millis).  The main thread runs when no handler does and the       *)
(* processor is not halted.                                                *)
(***************************************************************************)
At(p) == pc = p /\ isr = "none" /\ ~ asleep

\* Mutant: sleep() begins without cli().
cli_forgotten(d) ==
  /\ At("drawing")
  /\ Value(clock) + d + Tick <= Horizon
  /\ pc' = "deadline"
  /\ call' = [millis |-> d, at |-> Value(clock)]
  /\ UNCHANGED <<cpu, got, end_time>>

\* The call and its cli(): from here on the clock stands still.
cli(d) ==
  /\ At("drawing")
  /\ Value(clock) + d + Tick <= Horizon
  /\ iflag' = FALSE
  /\ pc' = "deadline"
  /\ call' = [millis |-> d, at |-> Value(clock)]
  /\ UNCHANGED <<asleep, irr, in_service, line, isr, clock, got, end_time>>

\* The loads of ns_since_boot, for the deadline and for the loop condition.
read(half) ==
  /\ At("deadline") \/ At("while")
  /\ got[half] = -1
  /\ got' = [got EXCEPT ![half] = clock[half]]
  /\ UNCHANGED <<pc, cpu, end_time, call>>

AllRead == got.lo # -1 /\ got.hi # -1

deadline ==
  /\ At("deadline") /\ AllRead
  /\ end_time' = Value(got) + call.millis
  /\ got' = Unread
  /\ pc' = "while"
  /\ UNCHANGED <<cpu, call>>

while ==
  /\ At("while") /\ AllRead
  /\ got' = Unread
  /\ pc' = IF end_time > Value(got) THEN "loop_sti" ELSE "sti"
  /\ UNCHANGED <<cpu, end_time, call>>

\* Mutant: the processor is halted with interrupts disabled.
loop_sti_forgotten ==
  /\ At("loop_sti")
  /\ pc' = "hlt"
  /\ UNCHANGED <<cpu, got, end_time, call>>

loop_sti ==
  /\ At("loop_sti")
  /\ iflag' = TRUE
  /\ pc' = "hlt"
  /\ UNCHANGED <<asleep, irr, in_service, line, isr, clock, got, end_time, call>>

hlt ==
  /\ At("hlt")
  /\ asleep' = TRUE
  /\ pc' = "loop_cli"
  /\ UNCHANGED <<iflag, irr, in_service, line, isr, clock, got, end_time, call>>

\* Mutant: the condition is evaluated with interrupts enabled.
loop_cli_forgotten ==
  /\ At("loop_cli")
  /\ pc' = "while"
  /\ UNCHANGED <<cpu, got, end_time, call>>

loop_cli ==
  /\ At("loop_cli")
  /\ iflag' = FALSE
  /\ pc' = "while"
  /\ UNCHANGED <<asleep, irr, in_service, line, isr, clock, got, end_time, call>>

sti ==
  /\ At("sti")
  /\ iflag' = TRUE
  /\ pc' = "drawing"
  /\ UNCHANGED <<asleep, irr, in_service, line, isr, clock, got, end_time, call>>

Main ==
  \/ deadline \/ while \/ loop_sti \/ hlt \/ loop_cli \/ sti
  \/ \E half \in {"lo", "hi"} : read(half)

Next ==
  \/ \E d \in Durations : cli(d)
  \/ Main
  \/ Isr
  \/ \E l \in {"timer", "com1"} : Raise(l) \/ Deliver(l)

(***************************************************************************)
(* The PIT raises its line again and again, the PIC delivers what waits    *)
(* when it can, and a handler runs to its end.  The period of the PIT is   *)
(* 55 ms, so the interrupted code gets to run between two of its ticks.    *)
(***************************************************************************)
Spec ==
  /\ Init /\ [][Next]_vars
  /\ WF_vars(Raise("timer")) /\ WF_vars(Deliver("timer")) /\ WF_vars(Isr)
  /\ SF_vars(Main)
-----------------------------------------------------------------------------
Steps == {"drawing", "deadline", "while", "loop_sti", "hlt", "loop_cli", "sti"}

\* cli(d) is taken only with the deadline below the horizon, so a deadline
\* behind it is one that the processor has put together wrongly.
TypeOK ==
  /\ pc \in Steps
  /\ iflag \in BOOLEAN /\ asleep \in BOOLEAN /\ in_service \in BOOLEAN
  /\ irr \subseteq {"timer", "com1"} /\ line \in {"timer", "com1"}
  /\ isr \in {"none", "eoi", "add", "adc", "iret"}
  /\ clock \in [lo : 0..(Base - 1), hi : Nat]
  /\ got \in [lo : (0..(Base - 1)) \cup {-1}, hi : Nat \cup {-1}]
  /\ end_time \in 0..Horizon
  /\ call \in [millis : Durations \cup {0}, at : Nat]

(***************************************************************************)
(* sleep() is over only when the clock has reached the time of the call    *)
(* plus its argument, however the ticks and the serial interrupts fall     *)
(* between the two halves of a read, the hlt and the loop condition.       *)
(***************************************************************************)
NeverTooEarly == pc = "sti" => Value(clock) >= call.at + call.millis

(***************************************************************************)
(* The deadline that the loop compares with is the time of the call plus   *)
(* its argument, never a mixture of the clock before and after a tick.     *)
(***************************************************************************)
DeadlineNotTorn ==
  pc \in {"while", "loop_sti", "hlt", "loop_cli", "sti"} =>
    end_time = call.at + call.millis

(***************************************************************************)
(* Every call of sleep() returns, also when the tick it waits for arrives  *)
(* between the test of the condition and the hlt.                          *)
(***************************************************************************)
SleepReturns == pc # "drawing" ~> pc = "drawing"

=============================================================================
