------------------------------ MODULE PrtTimer ------------------------------
(***************************************************************************)
(* One timer as the eZ80 sees it: ports 0x80..0x91 of agon_machine.rs give *)
(* each timer three addresses, and execute_instruction ends with a call of *)
(* apply_ticks for the cycles the instruction took.  Every action is one   *)
(* port access or one such call, so ticks fall between any two accesses of *)
(* the program.                                                            *)
(*                                                                         *)
(* The variables bus, sample, fires, unacked and window are history: they  *)
(* are read by the properties and never by the timer.                      *)
(***************************************************************************)
EXTENDS PrtTimerOps

CONSTANTS
  CtlWrites,   \* values the program writes to the control register
  Ticks,       \* cycles an instruction can take
  MaxElapsed   \* bound: longest span of ticks the history window covers

ASSUME PrtTimerInputs ==
  /\ CtlWrites \subseteq Ctl
  /\ Ticks \subseteq Word
  /\ MaxElapsed \in Nat

VARIABLES
  timer,     \* the PrtTimer
  bus,       \* the byte the last counter read put on the data bus
  sample,    \* the counter at the last read of its low half
  fires,     \* expiries since the control register was written (2 = several)
  unacked,   \* an expiry happened and no control register access since
  window     \* ticks applied and counter moves since the window was opened

vars == <<timer, bus, sample, fires, unacked, window>>

Window == [base    : Word,   \* step_ when the window was opened
           from    : Word,   \* the counter then
           elapsed : 0 .. MaxElapsed,   \* ticks since
           moves   : Nat]               \* changes of the counter since

OpenWindow(t) == [base |-> t.step, from |-> t.counter, elapsed |-> 0, moves |-> 0]

TypeOK == /\ timer \in PrtTimer
          /\ bus \in Byte
          /\ sample \in Word
          /\ fires \in 0 .. 2
          /\ unacked \in BOOLEAN
          /\ window \in Window
-----------------------------------------------------------------------------
Init == /\ timer = new
        /\ bus = 0 /\ sample = 0
        /\ fires = 0 /\ unacked = FALSE
        /\ window = OpenWindow(new)

\* The prescaler step is not cleared: a restart inherits it.
WriteCtl(c) ==
  /\ timer' = write_ctl(timer, c)
  /\ fires' = 0 /\ unacked' = FALSE
  /\ window' = OpenWindow(timer')
  /\ UNCHANGED <<bus, sample>>

ReadCtl ==
  /\ timer' = read_ctl(timer)
  /\ unacked' = FALSE
  /\ UNCHANGED <<bus, sample, fires, window>>

ReadCounterLow ==
  /\ timer' = read_counter_low(timer)
  /\ bus' = low(timer.counter)
  /\ sample' = timer.counter
  /\ UNCHANGED <<fires, unacked, window>>

ReadCounterHigh ==
  /\ bus' = read_counter_high(timer)
  /\ UNCHANGED <<timer, sample, fires, unacked, window>>

WriteReloadLow(b) ==
  /\ timer' = write_reload_low(timer, b)
  /\ UNCHANGED <<bus, sample, fires, unacked, window>>

WriteReloadHigh(b) ==
  /\ timer' = write_reload_high(timer, b)
  /\ UNCHANGED <<bus, sample, fires, unacked, window>>

\* History of a call: what became of the counter the call started from.
Loaded == IF timer.ctl.en THEN Restarted(timer).counter ELSE timer.counter
Moved  == timer'.counter # Loaded
Fired  == Moved /\ timer'.counter = 0

\* A restart opens a window, and so does outgrowing the bound.
NextWindow(n) ==
  LET w == IF timer.ctl.rst THEN OpenWindow(Restarted(timer)) ELSE window
  IN  IF w.elapsed + n > MaxElapsed
      THEN OpenWindow(timer')
      ELSE [w EXCEPT !.elapsed = @ + n, !.moves = IF Moved THEN @ + 1 ELSE @]

ApplyTicks(n) ==
  /\ timer' = apply_ticks(timer, n)
  /\ fires' = IF Fired /\ fires < 2 THEN fires + 1 ELSE fires
  /\ unacked' = (unacked \/ Fired)
  /\ window' = IF timer.ctl.en THEN NextWindow(n) ELSE window
  /\ UNCHANGED <<bus, sample>>

Next == \/ \E c \in CtlWrites : WriteCtl(c)
        \/ ReadCtl
        \/ ReadCounterLow
        \/ ReadCounterHigh
        \/ \E b \in Byte : WriteReloadLow(b)
        \/ \E b \in Byte : WriteReloadHigh(b)
        \/ \E n \in Ticks : ApplyTicks(n)

Spec == Init /\ [][Next]_vars

\* The machine loop keeps executing instructions, and each takes a cycle or
\* more: every fetch goes through peek, which counts one.
Fairness == WF_vars(\E n \in Ticks \ {0} : ApplyTicks(n))

FairSpec == Spec /\ Fairness
-----------------------------------------------------------------------------
(***************************************************************************)
(* Properties                                                              *)
(***************************************************************************)

\* However the program's accesses fall between the ticks, a single-pass timer
\* interrupts at most once per write of its control register, and having
\* interrupted it has stopped (lines 93-100: PRT_EN is cleared with the IRQ).
OneShotFiresOnce ==
  ~ timer.ctl.cont => /\ fires <= 1
                      /\ fires = 1 => ~ timer.ctl.en

\* An expiry stays pending in PRT_IRQ until the control register is read or
\* written: no tick, reload or counter access in between loses it.
ExpiryPending == unacked => timer.ctl.irq

\* Every move of the counter is paid for with a full clock divider of ticks,
\* out of those applied since the restart and the step_ it inherited; what
\* has not been spent is at least what step_ holds (line 82 may lose ticks by
\* wrapping but never invents any).
TicksPaidFor ==
  (window.moves * clk_div(timer)) + timer.step <= window.base + window.elapsed

\* A single-pass timer is never early: from a restart with counter c, it
\* takes c full dividers of ticks, less the step_ it inherited, to expire.
NeverEarly ==
  ~ timer.ctl.cont =>
    /\ timer.counter <= window.from
    /\ (window.from - timer.counter) * clk_div(timer)
         <= window.base + window.elapsed

\* Reading the low half and later the high half gives one 16-bit value the
\* counter really had, though instructions tick the timer between the reads
\* (read_counter_low latches the high byte).
TornFreeRead ==
  [][ReadCounterHigh => bus' * ByteSize + low(sample) = sample]_vars

\* A running single-pass timer with something to count stops by itself,
\* unless the program keeps rewriting its control register.
Running ==
  timer.ctl.en /\ ~ timer.ctl.cont /\ Restarted(timer).counter > 0

SinglePassExpires ==
  <>[]Running => []<><<\E c \in CtlWrites : WriteCtl(c)>>_vars
=============================================================================
