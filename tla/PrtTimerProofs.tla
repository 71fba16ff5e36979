--------------------------- MODULE PrtTimerProofs ---------------------------
(***************************************************************************)
(* Proofs about PrtTimer, for every byte size, divider, control value and  *)
(* range of ticks.                                                         *)
(***************************************************************************)
EXTENDS PrtTimer, TLAPS

\* The two halves of a word are bytes and make it up (the shifts and masks of
\* lines 47-62).
LEMMA WordSplit ==
  ASSUME NEW w \in Word
  PROVE  /\ high(w) \in Byte
         /\ low(w) \in Byte
         /\ high(w) * ByteSize + low(w) = w
<1> DEFINE h == w \div ByteSize
           l == w % ByteSize
<1>1. ByteSize \in Nat /\ ByteSize > 1 /\ w \in Nat /\ w < ByteSize * ByteSize
  BY PrtTimerAssumption, SMT DEF Word, WordSize
<1>2. h \in Nat /\ l \in 0 .. (ByteSize - 1) /\ w = ByteSize * h + l
  BY <1>1, SMT
<1>3. h < ByteSize
  <2> HIDE DEF h, l
  <2> QED BY <1>1, <1>2, SMT
<1>4. h * ByteSize + l = w
  <2> HIDE DEF h, l
  <2> QED BY <1>1, <1>2, SMT
<1> QED BY <1>1, <1>2, <1>3, <1>4, SMT DEF high, low, Byte

LEMMA WordJoin ==
  ASSUME NEW h \in Byte, NEW l \in Byte
  PROVE  (ByteSize * h) + l \in Word
<1>1. ByteSize \in Nat /\ ByteSize > 1 /\ h \in Nat /\ l \in Nat
      /\ h <= ByteSize - 1 /\ l <= ByteSize - 1
  BY PrtTimerAssumption, SMT DEF Byte
<1>2. ByteSize * h <= ByteSize * (ByteSize - 1)
  BY <1>1, SMT
<1> QED BY <1>1, <1>2, SMT DEF Word, WordSize

LEMMA WordSizePositive == WordSize \in Nat /\ WordSize > 0
  BY PrtTimerAssumption, SMT DEF WordSize

-----------------------------------------------------------------------------
\* A call of apply_ticks keeps the timer in range, and counts like this: the
\* counter reloads from zero or goes down by one, for one divider of ticks.
LEMMA TicksType ==
  ASSUME NEW t \in PrtTimer, NEW n \in Word
  PROVE  apply_ticks(t, n) \in PrtTimer
<1> DEFINE s == wrapping_add(t.step, n)
           r == Restarted(t)
           d == clk_div(t)
<1>1. s \in Word
  BY WordSizePositive, SMT DEF wrapping_add, Word, PrtTimer
<1>2. r \in PrtTimer /\ r.ctl.div = t.ctl.div
  BY DEF Restarted, PrtTimer, Ctl
<1>3. d \in Nat \ {0} /\ clk_div(r) = d
  BY <1>2, PrtTimerAssumption DEF clk_div, PrtTimer, Ctl
<1> HIDE DEF s, r, d
<1>4. ASSUME NEW k \in Word PROVE [r EXCEPT !.step = k] \in PrtTimer
  BY <1>2 DEF PrtTimer
<1>5. ASSUME NEW u \in PrtTimer PROVE CountDown(u) \in PrtTimer
  <2>1. Expired(u) \in PrtTimer
    <3>1. 0 \in Word
      BY WordSizePositive, SMT DEF Word
    <3> QED BY <3>1 DEF Expired, PrtTimer, Ctl
  <2>2. u.counter \in Word /\ u.reload \in Word /\ u.counter \in Nat
    BY DEF PrtTimer, Word
  <2>3. ASSUME NEW k \in Word PROVE [u EXCEPT !.counter = k] \in PrtTimer
    BY DEF PrtTimer
  <2>4. u.counter # 0 => u.counter - 1 \in Word
    BY <2>2, WordSizePositive, SMT DEF Word
  <2>5. 0 \in Word
    BY WordSizePositive, SMT DEF Word
  <2> QED BY <2>1, <2>2, <2>3, <2>4, <2>5 DEF CountDown
<1>6. s >= d => s - d \in Word
  BY <1>1, <1>3, WordSizePositive, SMT DEF Word
<1>7. Advance(r, s) \in PrtTimer
  BY <1>1, <1>3, <1>4, <1>5, <1>6, SMT DEF Advance, Word
<1> QED BY <1>7 DEF apply_ticks, s, r

\* What a call does to an enabled timer t, seen from outside.
Counts(t, u, n) ==
  LET c == Restarted(t).counter
  IN  /\ clk_div(u) = clk_div(t) /\ u.ctl.cont = t.ctl.cont
      /\ t.ctl.irq => u.ctl.irq
      /\ u.counter = c => u.step <= t.step + n
      /\ u.counter # c =>
           /\ u.step + clk_div(t) <= t.step + n
           /\ ~ t.ctl.cont => u.counter = c - 1
           /\ u.counter = 0 => u.ctl.irq /\ (~ t.ctl.cont => ~ u.ctl.en)

LEMMA TicksCount ==
  ASSUME NEW t \in PrtTimer, NEW n \in Word, t.ctl.en
  PROVE  Counts(t, apply_ticks(t, n), n)
<1> DEFINE s == wrapping_add(t.step, n)
           r == Restarted(t)
           d == clk_div(t)
           v == [r EXCEPT !.step = s - d]
           u == apply_ticks(t, n)
<1>1. /\ s \in Nat /\ s <= t.step + n /\ t.step \in Nat /\ n \in Nat
      /\ r.counter \in Nat /\ r.reload \in Nat
  <2>1. /\ t.step \in Word /\ t.counter \in Word /\ t.reload \in Word
        /\ r.counter \in {t.counter, t.reload} /\ r.reload = t.reload
    BY DEF Restarted, PrtTimer
  <2> QED BY <2>1, WordSizePositive, SMT DEF wrapping_add, Word
<1>2. /\ r \in PrtTimer /\ r.ctl.div = t.ctl.div /\ r.ctl.cont = t.ctl.cont
      /\ r.ctl.irq = t.ctl.irq
  BY DEF Restarted, PrtTimer, Ctl
<1>3. d \in Nat /\ d > 0 /\ clk_div(r) = d
  <2>1. d \in Nat \ {0} /\ clk_div(r) = d
    BY <1>2, PrtTimerAssumption DEF clk_div, PrtTimer, Ctl
  <2> QED BY <2>1, SMT
<1>4. u = IF s < d THEN [r EXCEPT !.step = s] ELSE CountDown(v)
  BY <1>3 DEF apply_ticks, Advance
<1>5. ASSUME s >= d
      PROVE  /\ v \in PrtTimer /\ v.step = s - d /\ v.counter = r.counter
             /\ v.reload = r.reload /\ v.ctl = r.ctl
  <2>1. s - d \in Word
    <3>1. s \in Word
      BY WordSizePositive, SMT DEF wrapping_add, Word, PrtTimer
    <3> QED BY <1>3, <1>5, <3>1, WordSizePositive, SMT DEF Word
  <2> HIDE DEF s, d, r
  <2> QED BY <2>1, <1>2 DEF PrtTimer
<1> HIDE DEF s, r, d, v
<1>6. CASE s < d
  <2>1. u = [r EXCEPT !.step = s]
    BY <1>4, <1>6
  <2>2. u.counter = r.counter /\ u.step = s /\ u.ctl = r.ctl
    BY <2>1, <1>2 DEF PrtTimer
  <2> QED BY <2>2, <1>1, <1>2 DEF Counts, clk_div, r
<1>7. CASE ~ (s < d)
  <2>1. u = CountDown(v) /\ s >= d
    BY <1>4, <1>7, <1>1, <1>3
  <2> HIDE DEF u
  <2>0. /\ v \in PrtTimer /\ v.step = s - d /\ v.counter = r.counter
        /\ v.reload = r.reload /\ v.ctl = r.ctl
    BY <2>1, <1>5
  <2>2. CASE v.counter = 0
    <3>1. u = [v EXCEPT !.counter = IF v.ctl.cont THEN v.reload ELSE 0]
      BY <2>1, <2>2 DEF CountDown
    <3>2. /\ u.ctl = r.ctl /\ u.step = s - d
          /\ u.counter = IF r.ctl.cont THEN r.reload ELSE 0
      BY <3>1, <2>0 DEF PrtTimer, Ctl
    <3> QED BY <3>2, <2>1, <2>2, <2>0, <1>1, <1>2, <1>3, SMT DEF Counts, clk_div, r, d, u
  <2>3. CASE v.counter = 1
    <3>1. u = Expired(v)
      BY <2>1, <2>3 DEF CountDown
    <3>2. /\ u.step = s - d /\ u.counter = 0 /\ u.ctl.irq
          /\ u.ctl.div = r.ctl.div /\ u.ctl.cont = r.ctl.cont
          /\ ~ r.ctl.cont => ~ u.ctl.en
      BY <3>1, <2>0 DEF Expired, PrtTimer, Ctl
    <3>3. s - d + d <= t.step + n /\ s - d <= t.step + n /\ 0 = r.counter - 1
      BY <2>1, <2>3, <1>1, <1>3, <2>0, SMT
    <3> QED BY <3>2, <3>3, <1>2, <2>0, <2>3 DEF Counts, clk_div, r, d, u
  <2>4. CASE v.counter \notin {0, 1}
    <3>1. u = [v EXCEPT !.counter = v.counter - 1]
      BY <2>1, <2>4 DEF CountDown
    <3>2. /\ u.ctl = r.ctl /\ u.step = s - d /\ u.counter = r.counter - 1
      BY <3>1, <2>0 DEF PrtTimer, Ctl
    <3> QED BY <3>2, <2>1, <2>4, <2>0, <1>1, <1>2, <1>3, SMT DEF Counts, clk_div, r, d, u
  <2> QED BY <2>2, <2>3, <2>4
<1> QED BY <1>6, <1>7
-----------------------------------------------------------------------------
\* What the window says of a single-pass timer: it only counts down.
SinglePassMoves ==
  ~ timer.ctl.cont => window.moves + timer.counter = window.from

\* The inductive invariant.  NeverEarly follows from its last two parts; the
\* others are the properties themselves.
IInv == /\ TypeOK
        /\ OneShotFiresOnce
        /\ ExpiryPending
        /\ TicksPaidFor
        /\ SinglePassMoves

\* A window opened on any timer satisfies its invariants.
LEMMA WindowOpens ==
  ASSUME NEW t \in PrtTimer
  PROVE  LET w == OpenWindow(t)
         IN  /\ w \in Window
             /\ w.moves * clk_div(t) + t.step <= w.base + w.elapsed
             /\ w.moves + t.counter = w.from
<1>1. t.step \in Nat /\ t.counter \in Nat
  BY DEF PrtTimer, Word
<1>2. clk_div(t) \in Nat
  BY PrtTimerAssumption DEF clk_div, PrtTimer, Ctl
<1>3. OpenWindow(t) \in Window
  BY PrtTimerInputs, SMT DEF OpenWindow, Window, PrtTimer
<1>4. 0 * clk_div(t) = 0
  BY <1>2, SMT
<1> QED BY <1>1, <1>2, <1>3, <1>4, SMT DEF OpenWindow

LEMMA InitIInv == Init => IInv
<1> SUFFICES ASSUME Init PROVE IInv
  OBVIOUS
<1>1. new \in PrtTimer
  BY PrtTimerAssumption, WordSizePositive, SMT DEF new, PrtTimer, Ctl, Word, Byte
<1>2. timer = new /\ window = OpenWindow(new)
  BY DEF Init
<1>3. TypeOK
  <2>1. window \in Window
    BY <1>1, <1>2, WindowOpens
  <2>2. 0 \in Byte /\ 0 \in Word /\ 0 \in 0 .. 2
    BY PrtTimerAssumption, WordSizePositive, SMT DEF Word, Byte
  <2> QED BY <1>1, <1>2, <2>1, <2>2 DEF Init, TypeOK
<1>4. OneShotFiresOnce /\ ExpiryPending
  BY <1>2, SMT DEF Init, OneShotFiresOnce, ExpiryPending
<1>5. TicksPaidFor /\ SinglePassMoves
  BY <1>1, <1>2, WindowOpens DEF TicksPaidFor, SinglePassMoves
<1> QED BY <1>3, <1>4, <1>5 DEF IInv

\* The history the call extends: none of the earlier window if it restarts.
LEMMA StepApplyTicks ==
  ASSUME IInv, NEW n \in Ticks, ApplyTicks(n)
  PROVE  IInv'
<1> DEFINE d == clk_div(timer)
           w == IF timer.ctl.rst THEN OpenWindow(Restarted(timer)) ELSE window
           c == Restarted(timer).counter
<1>1. n \in Word /\ n \in Nat
  BY PrtTimerInputs DEF Word
<1>2. timer \in PrtTimer /\ timer' = apply_ticks(timer, n)
  BY DEF IInv, TypeOK, ApplyTicks
<1>3. timer' \in PrtTimer
  BY <1>1, <1>2, TicksType
<1>4. CASE ~ timer.ctl.en
  <2>1. timer' = timer /\ window' = window /\ ~ Fired
    <3>1. timer' = timer
      BY <1>2, <1>4 DEF apply_ticks
    <3>2. window' = window
      BY <1>4 DEF ApplyTicks
    <3> QED BY <1>4, <3>1, <3>2 DEF Fired, Moved, Loaded
  <2>2. fires' = fires /\ unacked' = unacked /\ bus' = bus /\ sample' = sample
    BY <2>1 DEF ApplyTicks, IInv, TypeOK
  <2> QED BY <2>1, <2>2 DEF IInv, TypeOK, OneShotFiresOnce, ExpiryPending,
             TicksPaidFor, SinglePassMoves, clk_div
<1>5. CASE timer.ctl.en
  <2>1. Counts(timer, timer', n)
    BY <1>1, <1>2, <1>5, TicksCount
  <2>2. Loaded = c /\ (Moved <=> timer'.counter # c)
    BY <1>5 DEF Loaded, Moved
  <2>3. /\ Restarted(timer) \in PrtTimer
        /\ Restarted(timer).step = timer.step
        /\ clk_div(Restarted(timer)) = d
        /\ Restarted(timer) = timer \/ timer.ctl.rst
    BY <1>2 DEF Restarted, PrtTimer, Ctl, clk_div
  <2>4. OneShotFiresOnce'
    BY <1>5, <2>1, <2>2, SMT DEF IInv, TypeOK, OneShotFiresOnce, Counts, ApplyTicks, Fired
  <2>5. ExpiryPending'
    BY <2>1, <2>2 DEF IInv, ExpiryPending, Counts, ApplyTicks, Fired
  <2>6. w \in Window /\ w.moves * d + timer.step <= w.base + w.elapsed
        /\ (~ timer.ctl.cont => w.moves + c = w.from)
    <3>1. CASE timer.ctl.rst
      BY <3>1, <2>3, WindowOpens
    <3>2. CASE ~ timer.ctl.rst
      BY <3>2 DEF IInv, TypeOK, TicksPaidFor, SinglePassMoves, Restarted
    <3> QED BY <3>1, <3>2
  <2>7. /\ window' \in Window /\ TicksPaidFor' /\ SinglePassMoves'
    <3> HIDE DEF w, d, c
    <3>1. window' = IF w.elapsed + n > MaxElapsed THEN OpenWindow(timer')
                    ELSE [w EXCEPT !.elapsed = @ + n,
                                   !.moves = IF Moved THEN @ + 1 ELSE @]
      BY <1>5 DEF ApplyTicks, NextWindow, w
    <3>2. CASE w.elapsed + n > MaxElapsed
      BY <3>1, <3>2, <1>3, WindowOpens DEF TicksPaidFor, SinglePassMoves
    <3>3. CASE ~ (w.elapsed + n > MaxElapsed)
      <4>1. /\ w.moves \in Nat /\ w.base \in Nat /\ w.elapsed \in Nat
            /\ w.from \in Nat /\ d \in Nat /\ timer.step \in Nat
            /\ timer'.step \in Nat /\ timer'.counter \in Nat /\ c \in Nat
        BY <2>6, <1>2, <1>3, <2>3, PrtTimerAssumption
           DEF Window, Word, PrtTimer, Ctl, clk_div, d, c
      <4>2. /\ window'.base = w.base /\ window'.from = w.from
            /\ window'.elapsed = w.elapsed + n
            /\ window'.moves = IF Moved THEN w.moves + 1 ELSE w.moves
            /\ window' \in Window
        <5>1. /\ window'.base = w.base /\ window'.from = w.from
              /\ window'.elapsed = w.elapsed + n
              /\ window'.moves = IF Moved THEN w.moves + 1 ELSE w.moves
              /\ window' = [base |-> w.base, from |-> w.from,
                            elapsed |-> w.elapsed + n, moves |-> window'.moves]
          BY <3>1, <3>3, <2>6 DEF Window
        <5>2. w.elapsed + n \in 0 .. MaxElapsed
          BY <3>3, <4>1, <1>1, PrtTimerInputs, SMT
        <5>3. window'.moves \in Nat
          BY <5>1, <4>1, SMT
        <5>4. w.base \in Word /\ w.from \in Word
          BY <2>6 DEF Window
        <5>5. window' \in Window
          BY <5>1, <5>2, <5>3, <5>4 DEF Window
        <5> QED BY <5>1, <5>5
      <4>3. clk_div(timer') = d /\ timer'.ctl.cont = timer.ctl.cont
        BY <2>1 DEF Counts, d
      <4>4. CASE Moved
        <5>1. timer'.step + d <= timer.step + n
              /\ (~ timer.ctl.cont => timer'.counter = c - 1)
          BY <4>4, <2>1, <2>2 DEF Counts, d, c
        <5>2. (w.moves + 1) * d = w.moves * d + d /\ w.moves * d \in Nat
          BY <4>1, SMT
        <5>3. window'.moves = w.moves + 1
          BY <4>2, <4>4
        <5>4. TicksPaidFor'
          BY <5>1, <5>2, <5>3, <4>1, <4>2, <4>3, <2>6, <1>1, SMT DEF TicksPaidFor
        <5>5. SinglePassMoves'
          <6>1. ASSUME ~ timer.ctl.cont
                PROVE  window'.moves + timer'.counter = window'.from
            <7>1. w.moves + c = w.from /\ timer'.counter = c - 1
              BY <6>1, <5>1, <2>6
            <7> QED BY <7>1, <5>3, <4>1, <4>2, SMT
          <6> QED BY <6>1, <4>3 DEF SinglePassMoves
        <5> QED BY <4>2, <5>4, <5>5
      <4>5. CASE ~ Moved
        <5>1. timer'.step <= timer.step + n /\ timer'.counter = c
              /\ window'.moves = w.moves
          BY <4>5, <4>2, <2>1, <2>2 DEF Counts, c
        <5>2. w.moves * d \in Nat
          BY <4>1, SMT
        <5>3. TicksPaidFor'
          BY <5>1, <5>2, <4>1, <4>2, <4>3, <2>6, <1>1, SMT DEF TicksPaidFor
        <5>4. SinglePassMoves'
          BY <5>1, <4>2, <4>3, <2>6 DEF SinglePassMoves
        <5> QED BY <4>2, <5>3, <5>4
      <4> QED BY <4>4, <4>5
    <3> QED BY <3>2, <3>3
  <2>8. TypeOK'
    BY <1>3, <2>7, SMT DEF IInv, TypeOK, ApplyTicks
  <2> QED BY <2>4, <2>5, <2>7, <2>8 DEF IInv
<1> QED BY <1>4, <1>5

LEMMA StepWriteCtl ==
  ASSUME IInv, NEW c \in CtlWrites, WriteCtl(c)
  PROVE  IInv'
<1>1. timer' \in PrtTimer
  BY PrtTimerInputs DEF IInv, TypeOK, WriteCtl, write_ctl, PrtTimer
<1>2. /\ window' \in Window /\ TicksPaidFor' /\ SinglePassMoves'
  BY <1>1, WindowOpens DEF WriteCtl, TicksPaidFor, SinglePassMoves
<1>3. fires' = 0 /\ unacked' = FALSE /\ bus' = bus /\ sample' = sample
  BY DEF WriteCtl
<1>4. TypeOK' /\ OneShotFiresOnce' /\ ExpiryPending'
  <2>1. 0 \in 0 .. 2 /\ 0 <= 1 /\ 0 # 1
    BY SMT
  <2> QED BY <1>1, <1>2, <1>3, <2>1 DEF IInv, TypeOK, OneShotFiresOnce, ExpiryPending
<1> QED BY <1>2, <1>4 DEF IInv

\* The other accesses leave the parts of the timer the invariant relates.
LEMMA StepAccess ==
  ASSUME IInv,
         timer' \in PrtTimer, bus' \in Byte, sample' \in Word,
         unacked' \in BOOLEAN, fires' = fires, window' = window,
         timer'.counter = timer.counter, timer'.step = timer.step,
         \/ timer'.ctl = timer.ctl /\ unacked' = unacked
         \/ timer'.ctl = [timer.ctl EXCEPT !.irq = FALSE] /\ ~ unacked'
  PROVE  IInv'
<1>1. timer.ctl \in Ctl
  BY DEF IInv, TypeOK, PrtTimer
<1>2. /\ timer'.ctl.en = timer.ctl.en /\ timer'.ctl.cont = timer.ctl.cont
      /\ timer'.ctl.div = timer.ctl.div
      /\ unacked' => unacked /\ timer'.ctl.irq = timer.ctl.irq
  BY <1>1 DEF Ctl
<1> QED BY <1>2 DEF IInv, TypeOK, OneShotFiresOnce, ExpiryPending, TicksPaidFor,
           SinglePassMoves, clk_div

LEMMA NextIInv == IInv /\ [Next]_vars => IInv'
<1> SUFFICES ASSUME IInv, [Next]_vars PROVE IInv'
  OBVIOUS
<1>1. /\ timer \in PrtTimer /\ bus \in Byte /\ sample \in Word
      /\ timer.counter \in Word /\ timer.reload \in Word /\ timer.latch \in Byte
      /\ unacked \in BOOLEAN
  BY DEF IInv, TypeOK, PrtTimer
<1>2. CASE \E c \in CtlWrites : WriteCtl(c)
  BY <1>2, StepWriteCtl
<1>3. CASE ReadCtl
  <2>1. /\ timer' \in PrtTimer /\ timer'.ctl = [timer.ctl EXCEPT !.irq = FALSE]
        /\ timer'.counter = timer.counter /\ timer'.step = timer.step
    BY <1>1, <1>3 DEF ReadCtl, read_ctl, PrtTimer, Ctl
  <2> QED BY <1>1, <1>3, <2>1, StepAccess DEF ReadCtl
<1>4. CASE ReadCounterLow
  <2>1. high(timer.counter) \in Byte /\ low(timer.counter) \in Byte
    BY <1>1, WordSplit
  <2>2. /\ timer' \in PrtTimer /\ timer'.ctl = timer.ctl
        /\ timer'.counter = timer.counter /\ timer'.step = timer.step
    BY <1>1, <1>4, <2>1 DEF ReadCounterLow, read_counter_low, PrtTimer
  <2> QED BY <1>1, <1>4, <2>1, <2>2, StepAccess DEF ReadCounterLow
<1>5. CASE ReadCounterHigh
  BY <1>1, <1>5, StepAccess DEF ReadCounterHigh, read_counter_high
<1>6. CASE \E b \in Byte : WriteReloadLow(b)
  <2> PICK b \in Byte : WriteReloadLow(b)
    BY <1>6
  <2>1. (ByteSize * high(timer.reload)) + b \in Word
    BY <1>1, WordSplit, WordJoin
  <2>2. /\ timer' \in PrtTimer /\ timer'.ctl = timer.ctl
        /\ timer'.counter = timer.counter /\ timer'.step = timer.step
    BY <1>1, <2>1 DEF WriteReloadLow, write_reload_low, PrtTimer
  <2> QED BY <1>1, <2>2, StepAccess DEF WriteReloadLow
<1>7. CASE \E b \in Byte : WriteReloadHigh(b)
  <2> PICK b \in Byte : WriteReloadHigh(b)
    BY <1>7
  <2>1. (ByteSize * b) + low(timer.reload) \in Word
    BY <1>1, WordSplit, WordJoin
  <2>2. /\ timer' \in PrtTimer /\ timer'.ctl = timer.ctl
        /\ timer'.counter = timer.counter /\ timer'.step = timer.step
    BY <1>1, <2>1 DEF WriteReloadHigh, write_reload_high, PrtTimer
  <2> QED BY <1>1, <2>2, StepAccess DEF WriteReloadHigh
<1>8. CASE \E n \in Ticks : ApplyTicks(n)
  BY <1>8, StepApplyTicks
<1>9. CASE UNCHANGED vars
  BY <1>1, <1>9, StepAccess DEF vars
<1> QED BY <1>2, <1>3, <1>4, <1>5, <1>6, <1>7, <1>8, <1>9 DEF Next

THEOREM Invariance == Spec => []IInv
  BY InitIInv, NextIInv, PTL DEF Spec
-----------------------------------------------------------------------------
\* The timer and its registers stay in range (prt_timer.rs:12-16).
THEOREM TypeCorrect == Spec => []TypeOK
<1>1. IInv => TypeOK
  BY DEF IInv
<1> QED BY <1>1, Invariance, PTL

\* A single-pass timer interrupts once per write of its control register,
\* whatever accesses come between the ticks (prt_timer.rs:93-100).
THEOREM OneShot == Spec => []OneShotFiresOnce
<1>1. IInv => OneShotFiresOnce
  BY DEF IInv
<1> QED BY <1>1, Invariance, PTL

\* An expiry is pending until it is acknowledged (prt_timer.rs:41-45, 95).
THEOREM Pending == Spec => []ExpiryPending
<1>1. IInv => ExpiryPending
  BY DEF IInv
<1> QED BY <1>1, Invariance, PTL

\* Counting is paid for in ticks (prt_timer.rs:81-92).
THEOREM Accounting == Spec => []TicksPaidFor
<1>1. IInv => TicksPaidFor
  BY DEF IInv
<1> QED BY <1>1, Invariance, PTL

\* A single-pass timer never expires early (prt_timer.rs:75-104).
THEOREM Punctual == Spec => []NeverEarly
<1>1. IInv => NeverEarly
  <2> SUFFICES ASSUME IInv, ~ timer.ctl.cont
               PROVE  /\ timer.counter <= window.from
                      /\ (window.from - timer.counter) * clk_div(timer)
                           <= window.base + window.elapsed
    BY DEF NeverEarly
  <2>1. /\ timer.counter \in Nat /\ timer.step \in Nat /\ clk_div(timer) \in Nat
        /\ window.moves \in Nat /\ window.from \in Nat
        /\ window.base \in Nat /\ window.elapsed \in Nat
    BY PrtTimerAssumption DEF IInv, TypeOK, PrtTimer, Ctl, Word, Window, clk_div
  <2>2. window.moves + timer.counter = window.from
    BY DEF IInv, SinglePassMoves
  <2>3. window.moves = window.from - timer.counter /\ timer.counter <= window.from
    BY <2>1, <2>2, SMT
  <2>4. window.moves * clk_div(timer) \in Nat
    BY <2>1, SMT
  <2> QED BY <2>1, <2>3, <2>4, SMT DEF IInv, TicksPaidFor
<1> QED BY <1>1, Invariance, PTL
-----------------------------------------------------------------------------
\* The latch holds the high half of the counter last sampled.
Latched == timer.latch = high(sample)

LEMMA TicksKeepLatch ==
  ASSUME NEW t \in PrtTimer, NEW n \in Word
  PROVE  apply_ticks(t, n).latch = t.latch
<1>1. Restarted(t) \in PrtTimer /\ Restarted(t).latch = t.latch
  BY DEF Restarted, PrtTimer, Ctl
<1>2. ASSUME NEW u, NEW k, NEW m, u \in PrtTimer
      PROVE  /\ [u EXCEPT !.step = k].latch = u.latch
             /\ CountDown([u EXCEPT !.step = k]).latch = u.latch
  <2> DEFINE v == [u EXCEPT !.step = k]
  <2>1. v.latch = u.latch /\ DOMAIN v = DOMAIN u
    BY <1>2 DEF PrtTimer
  <2>2. ASSUME NEW x, NEW y PROVE [v EXCEPT !.counter = x, !.ctl = y].latch = v.latch
    BY <1>2, <2>1 DEF PrtTimer
  <2>3. ASSUME NEW x PROVE [v EXCEPT !.counter = x].latch = v.latch
    BY <1>2, <2>1 DEF PrtTimer
  <2>4. CountDown(v).latch = v.latch
    BY <2>2, <2>3 DEF CountDown, Expired
  <2> QED BY <2>1, <2>4
<1> QED BY <1>1, <1>2 DEF apply_ticks, Advance

\* A pair of reads of the two halves returns a value the counter had
\* (prt_timer.rs:47-54), whatever ticks come between.
THEOREM TornFree == Spec => TornFreeRead
<1>1. Init => Latched
  <2> SUFFICES ASSUME Init PROVE Latched
    OBVIOUS
  <2>1. timer.latch = 0 /\ sample = 0
    BY DEF Init, new
  <2>2. high(0) = 0
    BY PrtTimerAssumption, SMT DEF high
  <2> QED BY <2>1, <2>2 DEF Latched
<1>2. TypeOK /\ Latched /\ [Next]_vars => Latched'
  <2> SUFFICES ASSUME TypeOK, Latched, [Next]_vars PROVE timer'.latch = high(sample')
    BY DEF Latched
  <2> USE DEF TypeOK, Latched
  <2>1. CASE \E c \in CtlWrites : WriteCtl(c)
    BY <2>1 DEF WriteCtl, write_ctl, PrtTimer
  <2>2. CASE ReadCtl
    BY <2>2 DEF ReadCtl, read_ctl, PrtTimer
  <2>3. CASE ReadCounterLow
    BY <2>3 DEF ReadCounterLow, read_counter_low, PrtTimer
  <2>4. CASE ReadCounterHigh
    BY <2>4 DEF ReadCounterHigh
  <2>5. CASE \E b \in Byte : WriteReloadLow(b)
    BY <2>5 DEF WriteReloadLow, write_reload_low, PrtTimer
  <2>6. CASE \E b \in Byte : WriteReloadHigh(b)
    BY <2>6 DEF WriteReloadHigh, write_reload_high, PrtTimer
  <2>7. CASE \E n \in Ticks : ApplyTicks(n)
    BY <2>7, TicksKeepLatch, PrtTimerInputs DEF ApplyTicks
  <2>8. CASE UNCHANGED vars
    BY <2>8 DEF vars
  <2> QED BY <2>1, <2>2, <2>3, <2>4, <2>5, <2>6, <2>7, <2>8 DEF Next
<1>3. TypeOK /\ Latched =>
        (ReadCounterHigh => bus' * ByteSize + low(sample) = sample)
  BY WordSplit DEF TypeOK, Latched, ReadCounterHigh, read_counter_high
<1> QED BY <1>1, <1>2, <1>3, TypeCorrect, PTL DEF Spec, TornFreeRead
=============================================================================
