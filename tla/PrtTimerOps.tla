----------------------------- MODULE PrtTimerOps -----------------------------
(***************************************************************************)
(* The programmable reload timer of the eZ80F92: struct PrtTimer of        *)
(* src/prt_timer.rs and its methods, as operators on a record.  The bits   *)
(* of the control register are the fields of ctl; bit 5 does nothing and   *)
(* is left out.  The operators keep the names of the methods.              *)
(***************************************************************************)
EXTENDS Naturals

CONSTANTS
  ByteSize,   \* number of values of a u8 (256 in the code)
  ClkDiv      \* clock divider of each CLK_DIV setting (4, 16, 64, 256)

\* a u8 and a u16
WordSize == ByteSize * ByteSize
Byte     == 0 .. (ByteSize - 1)
Word     == 0 .. (WordSize - 1)
Div      == DOMAIN ClkDiv

\* The last conjunct: a divider that does not fit a u16 could not be reached
\* by step_.
ASSUME PrtTimerAssumption ==
  /\ ByteSize \in Nat /\ ByteSize > 1
  /\ 0 \in Div
  /\ ClkDiv \in [Div -> Nat \ {0}]
  /\ \A d \in Div : ClkDiv[d] < WordSize

Ctl == [en    : BOOLEAN,    \* PRT_EN
        rst   : BOOLEAN,    \* RST_EN
        div   : Div,        \* CLK_DIV
        cont  : BOOLEAN,    \* PRT_MODE: continuous rather than single pass
        irqEn : BOOLEAN,    \* IRQ_EN
        irq   : BOOLEAN]    \* PRT_IRQ

PrtTimer == [ctl : Ctl, reload : Word, counter : Word, step : Word, latch : Byte]

new == [ctl     |-> [en |-> FALSE, rst |-> FALSE, div |-> 0, cont |-> FALSE,
                     irqEn |-> FALSE, irq |-> FALSE],
        reload  |-> 0, counter |-> 0, step |-> 0, latch |-> 0]

irq_due(t) == t.ctl.irq /\ t.ctl.irqEn

\* Nothing but ctl is written: the counter and the prescaler step run on.
write_ctl(t, c) == [t EXCEPT !.ctl = c]

\* Mutant: reading the control register does not acknowledge.
ReadCtlKeepingIrq(t) == t

\* Reading the control register acknowledges the interrupt.
read_ctl(t) == [t EXCEPT !.ctl.irq = FALSE]

\* Reading the low half (the byte low(t)) latches the high half.
low(w)  == w % ByteSize
high(w) == w \div ByteSize
read_counter_low(t)  == [t EXCEPT !.latch = high(t.counter)]
\* Mutant: the high half is not latched.
ReadHighUnlatched(t) == high(t.counter)

read_counter_high(t) == t.latch

write_reload_low(t, b)  == [t EXCEPT !.reload = (ByteSize * high(@)) + b]
write_reload_high(t, b) == [t EXCEPT !.reload = (ByteSize * b) + low(@)]

clk_div(t) == ClkDiv[t.ctl.div]

\* u16::wrapping_add
wrapping_add(a, b) == IF a + b < WordSize THEN a + b ELSE a + b - WordSize

\* Mutant: RST_EN is not consumed.
RestartedForever(t) == IF t.ctl.rst THEN [t EXCEPT !.counter = t.reload] ELSE t

\* RST_EN is consumed by the first call on an enabled timer.
Restarted(t) ==
  IF t.ctl.rst THEN [t EXCEPT !.counter = t.reload, !.ctl.rst = FALSE] ELSE t

\* Mutant: a single pass does not stop.
ExpiredRunsOn(t) == [t EXCEPT !.counter = 0, !.ctl = [@ EXCEPT !.irq = TRUE]]

\* Reaching zero sets PRT_IRQ, and clears PRT_EN and RST_EN in single pass.
Expired(t) ==
  LET flagged == [t.ctl EXCEPT !.irq = TRUE]
      stopped == [flagged EXCEPT !.en = FALSE, !.rst = FALSE]
  IN  [t EXCEPT !.counter = 0, !.ctl = IF t.ctl.cont THEN flagged ELSE stopped]

\* Mutant: a continuous reload acknowledges the interrupt.
CountDownAcking(t) ==
  CASE t.counter = 0 -> [t EXCEPT !.counter = IF t.ctl.cont THEN t.reload ELSE 0,
                                  !.ctl = [@ EXCEPT !.irq = FALSE]]
    [] t.counter = 1 -> Expired(t)
    [] OTHER         -> [t EXCEPT !.counter = @ - 1]

\* One period of the divided clock.
CountDown(t) ==
  CASE t.counter = 0 -> [t EXCEPT !.counter = IF t.ctl.cont THEN t.reload ELSE 0]
    [] t.counter = 1 -> Expired(t)
    [] OTHER         -> [t EXCEPT !.counter = @ - 1]

\* Mutant: the divider is not taken off the step.
AdvanceUnpaid(t, s) ==
  IF s < clk_div(t) THEN [t EXCEPT !.step = s] ELSE CountDown([t EXCEPT !.step = s])

\* Mutant: the divider is one tick short.
AdvanceEarly(t, s) ==
  IF s + 1 < clk_div(t) THEN [t EXCEPT !.step = s] ELSE CountDown([t EXCEPT !.step = 0])

\* At most one period is counted per call, however many ticks have gathered.
Advance(t, s) ==
  IF s < clk_div(t) THEN [t EXCEPT !.step = s]
                    ELSE CountDown([t EXCEPT !.step = s - clk_div(t)])

apply_ticks(t, n) ==
  IF t.ctl.en THEN Advance(Restarted(t), wrapping_add(t.step, n)) ELSE t
=============================================================================
