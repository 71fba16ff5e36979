------------------------- MODULE AgonMachineProofs -------------------------
(***************************************************************************)
(* Proofs about AgonMachine, for any number of timers, any pins and pace   *)
(* of polling: soft resets are prompt, the copy of interrupt_due stays     *)
(* right, handlers are entered for a reason and in order of priority.      *)
(***************************************************************************)
EXTENDS AgonMachine, TLAPS, WellFoundedInduction, SequenceTheorems

(***************************************************************************)
(* The operators AgonMachine is built from: what a device's operation      *)
(* returns and keeps, and how the interrupt vectors are ordered.           *)
(***************************************************************************)
\* Vectors of different causes differ, and none is Main.
LEMMA TimersDiffer ==
  ASSUME NEW i \in Timers
  PROVE  /\ TimerVector(i) \in 10 .. 20
         /\ \A j \in Timers : TimerVector(j) = TimerVector(i) => j = i
BY AgonMachineAssumption DEF TimerVector, Timers

LEMMA PinsDiffer ==
  ASSUME NEW port \in Ports, NEW p \in Pins
  PROVE  /\ PinVector(port, p) \in 48 .. 94
         /\ \A q \in Ports, r \in Pins :
              PinVector(q, r) = PinVector(port, p) => q = port /\ r = p
<1>1. p \in 0 .. 7
  BY AgonMachineAssumption
<1>2. PortBase["b"] = 48 /\ PortBase["c"] = 64 /\ PortBase["d"] = 80
  BY DEF PortBase
<1>3. ASSUME NEW q \in Ports, NEW r \in Pins, PinVector(q, r) = PinVector(port, p)
      PROVE  q = port /\ r = p
  <2>1. r \in 0 .. 7
    BY AgonMachineAssumption
  <2> QED BY <1>1, <1>2, <1>3, <2>1 DEF PinVector, Ports
<1>4. PinVector(port, p) \in 48 .. 94
  BY <1>1, <1>2 DEF PinVector, Ports
<1> QED BY <1>3, <1>4

LEMMA NotMain ==
  /\ \A i \in Timers : TimerVector(i) # Main /\ TimerVector(i) # UartVector
  /\ \A port \in Ports, p \in Pins : /\ PinVector(port, p) # Main
                                     /\ PinVector(port, p) # UartVector
                                     /\ \A i \in Timers : PinVector(port, p) # TimerVector(i)
<1>1. ASSUME NEW i \in Timers PROVE TimerVector(i) # Main /\ TimerVector(i) # UartVector
  <2>1. TimerVector(i) \in 10 .. 20
    BY TimersDiffer
  <2> QED BY <2>1, SMT DEF Main, UartVector
<1>2. ASSUME NEW port \in Ports, NEW p \in Pins
      PROVE  /\ PinVector(port, p) # Main /\ PinVector(port, p) # UartVector
             /\ \A i \in Timers : PinVector(port, p) # TimerVector(i)
  <2>1. PinVector(port, p) \in 48 .. 94 /\ \A i \in Timers : TimerVector(i) \in 10 .. 20
    BY TimersDiffer, PinsDiffer
  <2> QED BY <2>1, SMT DEF Main, UartVector
<1> QED BY <1>1, <1>2

\* A set of vectors that is not empty has a first.
LEMMA FirstIsLeast ==
  ASSUME NEW S \in SUBSET Nat, S # {}
  PROVE  First(S) \in S /\ \A w \in S : First(S) <= w
<1> DEFINE R == OpToRel(<, Nat)
<1>1. PICK v \in S : \A w \in S : ~ (<<w, v>> \in R)
  <2> HIDE DEF R
  <2>1. IsWellFoundedOn(R, Nat)
    BY NatLessThanWellFounded DEF R
  <2> QED BY <2>1, WFMin
<1>2. \A w \in S : v <= w
  <2> SUFFICES ASSUME NEW w \in S PROVE ~ (w < v)
    OBVIOUS
  <2>1. v \in Nat /\ w \in Nat
    OBVIOUS
  <2>2. w < v => <<w, v>> \in R
    BY <2>1, Zenon DEF OpToRel
  <2> QED BY <1>1, <2>2
<1> QED BY <1>2, Zenon DEF First
-----------------------------------------------------------------------------
\* The ticks of an instruction keep a timer a timer, and interrupt only when it
\* expires.
LEMMA WordHasZero == T!WordSize \in Nat /\ 0 \in T!Word
<1>1. ByteSize \in Nat /\ ByteSize > 1
  BY AgonMachineAssumption
<1>2. ByteSize * ByteSize \in Nat /\ ByteSize * ByteSize > 0
  BY <1>1, SMT
<1> QED BY <1>2, SMT DEF T!WordSize, T!Word

LEMMA CountsDown ==
  ASSUME NEW t \in T!PrtTimer
  PROVE  /\ T!CountDown(t) \in T!PrtTimer
         /\ T!CountDown(t).ctl.irq => t.ctl.irq \/ (t.counter # 0 /\ T!CountDown(t).counter = 0)
<1>1. t.counter \in T!Word /\ t.reload \in T!Word /\ t.counter \in Nat /\ t.ctl \in T!Ctl
  BY DEF T!PrtTimer, T!Word
<1>2. ASSUME NEW k \in T!Word
      PROVE  [t EXCEPT !.counter = k] \in T!PrtTimer /\ [t EXCEPT !.counter = k].ctl = t.ctl
  BY DEF T!PrtTimer
<1>3. T!Expired(t) \in T!PrtTimer /\ T!Expired(t).counter = 0
  BY WordHasZero DEF T!Expired, T!PrtTimer, T!Ctl
<1>4. t.counter # 0 => t.counter - 1 \in T!Word
  BY <1>1, WordHasZero, SMT DEF T!Word
<1>5. CASE t.counter = 0
  <2> DEFINE k == IF t.ctl.cont THEN t.reload ELSE 0
  <2>1. k \in T!Word
    BY <1>1, WordHasZero
  <2>2. 0 # 1
    BY SMT
  <2>3. T!CountDown(t) = [t EXCEPT !.counter = k]
    BY <1>5, <2>2, Zenon DEF T!CountDown
  <2> HIDE DEF k
  <2> QED BY <1>2, <2>1, <2>3
<1>6. CASE t.counter = 1
  <2>1. 1 # 0
    BY SMT
  <2>2. T!CountDown(t) = T!Expired(t)
    BY <1>6, <2>1, Zenon DEF T!CountDown
  <2> QED BY <1>3, <1>6, <2>1, <2>2
<1>7. CASE t.counter # 0 /\ t.counter # 1
  <2>1. T!CountDown(t) = [t EXCEPT !.counter = t.counter - 1]
    BY <1>7, Zenon DEF T!CountDown
  <2> QED BY <1>2, <1>4, <1>7, <2>1
<1> QED BY <1>5, <1>6, <1>7

LEMMA TicksTimer ==
  ASSUME NEW t \in T!PrtTimer, NEW n \in T!Word
  PROVE  /\ T!apply_ticks(t, n) \in T!PrtTimer
         /\ T!apply_ticks(t, n).ctl.irq => t.ctl.irq \/ Expires(t, n)
<1> DEFINE s == T!wrapping_add(t.step, n)
           r == T!Restarted(t)
           d == T!clk_div(r)
           v == [r EXCEPT !.step = s - d]
<1>1. s \in T!Word
  BY WordHasZero, SMT DEF T!wrapping_add, T!Word, T!PrtTimer
<1>2. r \in T!PrtTimer /\ r.ctl.irq = t.ctl.irq
  BY DEF T!Restarted, T!PrtTimer, T!Ctl
<1>3. d \in Nat \ {0}
  BY <1>2, AgonMachineAssumption DEF T!clk_div, T!PrtTimer, T!Ctl
<1>4. CASE ~ t.ctl.en
  BY <1>4 DEF T!apply_ticks
<1>5. CASE t.ctl.en /\ s < d
  <2>1. T!apply_ticks(t, n) = [r EXCEPT !.step = s]
    BY <1>5 DEF T!apply_ticks, T!Advance
  <2> HIDE DEF r, s, d
  <2> QED BY <1>1, <1>2, <2>1 DEF T!PrtTimer
<1>6. CASE t.ctl.en /\ ~ (s < d)
  <2>1. T!apply_ticks(t, n) = T!CountDown(v)
    BY <1>6 DEF T!apply_ticks, T!Advance
  <2>2. s - d \in T!Word
    <3> HIDE DEF r, s, d
    <3> QED BY <1>1, <1>3, <1>6, WordHasZero, SMT DEF T!Word
  <2>3. Expires(t, n) <=> r.counter # 0 /\ T!apply_ticks(t, n).counter = 0
    BY <1>6 DEF Expires
  <2> HIDE DEF r, s, d
  <2>4. v \in T!PrtTimer /\ v.counter = r.counter /\ v.ctl = r.ctl
    BY <1>2, <2>2 DEF T!PrtTimer
  <2> QED BY <1>2, <2>1, <2>3, <2>4, CountsDown
<1> QED BY <1>4, <1>5, <1>6
-----------------------------------------------------------------------------
\* The ports stay ports, whatever is done to them.
LEMMA InputPins ==
  ASSUME NEW g \in G!Gpio, NEW levels \in SUBSET Pins
  PROVE  /\ G!set_input_pins(g, levels) \in G!Gpio
         /\ g.interrupt_due \subseteq G!set_input_pins(g, levels).interrupt_due
<1> DEFINE t == G!Triggered(g, levels)
           h == G!set_input_pins(g, levels)
<1>1. t \in SUBSET Pins
  BY DEF G!Triggered, G!In
<1>2. h = [g EXCEPT !.io_level = levels, !.interrupt_due = g.interrupt_due \union t]
  BY DEF G!set_input_pins
<1> HIDE DEF t, h
<1>3. h \in G!Gpio /\ g.interrupt_due \subseteq h.interrupt_due
  BY <1>1, <1>2 DEF G!Gpio
<1> QED BY <1>3 DEF h

LEMMA OnePin ==
  ASSUME NEW g \in G!Gpio, NEW p \in Pins, NEW state
  PROVE  /\ G!set_input_pin(g, p, state) \in G!Gpio
         /\ g.interrupt_due \subseteq G!set_input_pin(g, p, state).interrupt_due
<1> DEFINE levels == IF state THEN g.io_level \union {p} ELSE g.io_level \ {p}
<1>1. levels \in SUBSET Pins
  BY DEF G!Gpio
<1>2. G!set_input_pin(g, p, state) = G!set_input_pins(g, levels)
  BY DEF G!set_input_pin
<1> QED BY <1>1, <1>2, InputPins

LEMMA Registers ==
  ASSUME NEW g \in G!Gpio, NEW v \in SUBSET Pins
  PROVE  /\ G!update(g) \in G!Gpio /\ G!set_dr(g, v) \in G!Gpio
         /\ G!set_alt1(g, v) \in G!Gpio /\ G!set_alt2(g, v) \in G!Gpio
<1>1. G!update(g) \in G!Gpio
  BY InputPins DEF G!update, G!Gpio
<1>2. \A r, m \in SUBSET Pins : G!Assign(r, v, m) \in SUBSET Pins
  BY DEF G!Assign
<1>3. \A modes : G!In(g, modes) \in SUBSET Pins
  BY DEF G!In
<1>4. G!set_dr(g, v) \in G!Gpio
  <2> DEFINE l == G!Assign(g.io_level, v, G!In(g, G!OutputModes))
             r == G!Assign(g.dr, v, G!In(g, G!OutputModes \union G!InputModes))
             d == g.interrupt_due \ (v \intersect G!Acknowledged(g))
  <2>1. l \in SUBSET Pins /\ r \in SUBSET Pins /\ d \in SUBSET Pins
    BY <1>2, <1>3 DEF G!Gpio
  <2>2. G!set_dr(g, v) = [g EXCEPT !.io_level = l, !.dr = r, !.interrupt_due = d]
    BY DEF G!set_dr
  <2> HIDE DEF l, r, d
  <2> QED BY <2>1, <2>2 DEF G!Gpio
<1>5. G!set_alt1(g, v) \in G!Gpio /\ G!set_alt2(g, v) \in G!Gpio
  BY DEF G!set_alt1, G!set_alt2, G!Gpio
<1> QED BY <1>1, <1>4, <1>5

LEMMA RisingEdgePort == ASSUME NEW ps \in SUBSET Pins PROVE RisingEdgePins(ps) \in G!Gpio
<1>1. G!new \in G!Gpio
  BY DEF G!new, G!Gpio
<1> QED BY <1>1, Registers DEF RisingEdgePins
-----------------------------------------------------------------------------
\* The pins in E are in rising-edge mode and the others inputs, which cannot
\* interrupt.
Configured(g, E) ==
  /\ g.ddr = Pins /\ g.alt1 = E /\ g.alt2 = E /\ E \subseteq g.dr
  /\ g.interrupt_due \subseteq E

LEMMA EdgeModes ==
  ASSUME NEW g \in G!Gpio, NEW E \in SUBSET Pins, NEW p \in Pins, Configured(g, E)
  PROVE  G!get_mode(g, p) = IF p \in E THEN 15 ELSE IF p \in g.dr THEN 3 ELSE 2
<1>1. CASE p \in E
  BY <1>1 DEF Configured, G!get_mode, G!Bit
<1>2. CASE p \notin E
  BY <1>2 DEF Configured, G!get_mode, G!Bit
<1> QED BY <1>1, <1>2

LEMMA EdgeSets ==
  ASSUME NEW g \in G!Gpio, NEW E \in SUBSET Pins, Configured(g, E)
  PROVE  /\ \A levels \in SUBSET Pins : G!Triggered(g, levels) = E \intersect (levels \ g.io_level)
         /\ G!Acknowledged(g) = E
         /\ G!In(g, G!OutputModes) = {}
         /\ G!In(g, G!OutputModes \union G!InputModes) = Pins \ E
<1>1. \A p \in Pins : p \in E => G!get_mode(g, p) = 15
  BY EdgeModes
<1>2. \A p \in Pins : p \notin E => G!get_mode(g, p) \in {2, 3}
  BY EdgeModes
<1>3. /\ 15 \notin G!OutputModes /\ 15 \notin G!InputModes
      /\ 2 \notin G!OutputModes /\ 3 \notin G!OutputModes
      /\ 2 \in G!InputModes /\ 3 \in G!InputModes
  BY SMT DEF G!OutputModes, G!InputModes
<1>4. /\ G!In(g, {G!RisingEdge}) = E
      /\ G!In(g, {G!DualEdge, G!FallingEdge, G!RisingEdge}) = E
      /\ G!In(g, {G!DualEdge}) = {} /\ G!In(g, {G!FallingEdge}) = {}
      /\ G!In(g, {G!ActiveLow}) = {} /\ G!In(g, {G!ActiveHigh}) = {}
  BY <1>1, <1>2, SMT DEF G!In, G!RisingEdge, G!DualEdge, G!FallingEdge, G!ActiveLow, G!ActiveHigh
<1>5. G!In(g, G!OutputModes) = {}
  BY <1>1, <1>2, <1>3 DEF G!In
<1>6. G!In(g, G!OutputModes \union G!InputModes) = Pins \ E
  BY <1>1, <1>2, <1>3 DEF G!In
<1> QED BY <1>4, <1>5, <1>6 DEF G!Triggered, G!Acknowledged

LEMMA EdgeInput ==
  ASSUME NEW g \in G!Gpio, NEW E \in SUBSET Pins, Configured(g, E), NEW levels \in SUBSET Pins
  PROVE  LET h == G!set_input_pins(g, levels)
         IN  /\ Configured(h, E) /\ h.io_level = levels
             /\ h.interrupt_due = g.interrupt_due \union (E \intersect (levels \ g.io_level))
<1> DEFINE d == g.interrupt_due \union (E \intersect (levels \ g.io_level))
           h == G!set_input_pins(g, levels)
<1>1. h = [g EXCEPT !.io_level = levels, !.interrupt_due = d]
  BY EdgeSets DEF G!set_input_pins
<1>2. d \subseteq E /\ d \in SUBSET Pins
  BY DEF Configured
<1> HIDE DEF d, h
<1>3. /\ h.ddr = g.ddr /\ h.alt1 = g.alt1 /\ h.alt2 = g.alt2 /\ h.dr = g.dr
      /\ h.io_level = levels /\ h.interrupt_due = d
  BY <1>1 DEF G!Gpio
<1> QED BY <1>2, <1>3 DEF Configured, d, h

LEMMA EdgeAcknowledge ==
  ASSUME NEW g \in G!Gpio, NEW E \in SUBSET Pins, Configured(g, E), NEW p \in Pins
  PROVE  LET h == G!update(G!set_dr(g, {p}))
         IN  Configured(h, E) /\ h.interrupt_due \subseteq g.interrupt_due \ {p}
<1> DEFINE l == G!Assign(g.io_level, {p}, {})
           r == G!Assign(g.dr, {p}, Pins \ E)
           d == g.interrupt_due \ ({p} \intersect E)
           f == G!set_dr(g, {p})
<1>1. f = [g EXCEPT !.io_level = l, !.dr = r, !.interrupt_due = d]
  BY EdgeSets DEF G!set_dr
<1>2. /\ l \in SUBSET Pins /\ r \in SUBSET Pins /\ E \subseteq r
      /\ d \subseteq E /\ d \subseteq g.interrupt_due \ {p}
  BY DEF G!Assign, G!Gpio, Configured
<1> HIDE DEF l, r, d, f
<1>3. /\ f \in G!Gpio /\ f.ddr = g.ddr /\ f.alt1 = g.alt1 /\ f.alt2 = g.alt2
      /\ f.dr = r /\ f.interrupt_due = d /\ f.io_level \in SUBSET Pins
  BY <1>1, <1>2 DEF G!Gpio
<1>4. Configured(f, E)
  BY <1>2, <1>3 DEF Configured
<1>5. G!update(f) = G!set_input_pins(f, f.io_level)
  BY DEF G!update
<1>6. /\ Configured(G!update(f), E)
      /\ G!update(f).interrupt_due = d \union (E \intersect (f.io_level \ f.io_level))
  BY <1>3, <1>4, <1>5, EdgeInput
<1> QED BY <1>2, <1>6 DEF f

\* While the pins are brought into that mode, none is in a level mode.
LEMMA Quiet ==
  ASSUME NEW g \in G!Gpio, \A p \in Pins : G!get_mode(g, p) \notin {12, 13}
  PROVE  G!update(g) = g
<1>1. G!In(g, {G!ActiveLow}) = {} /\ G!In(g, {G!ActiveHigh}) = {}
  BY SMT DEF G!In, G!ActiveLow, G!ActiveHigh
<1>2. G!Triggered(g, g.io_level) = {}
  BY <1>1 DEF G!Triggered, G!Xor
<1>3. G!update(g) = [g EXCEPT !.io_level = g.io_level,
                              !.interrupt_due = g.interrupt_due \union G!Triggered(g, g.io_level)]
  BY DEF G!update, G!set_input_pins
<1> QED BY <1>2, <1>3 DEF G!Gpio

LEMMA RisingEdgeConfigured ==
  ASSUME NEW E \in SUBSET Pins
  PROVE  Configured(RisingEdgePins(E), E) /\ RisingEdgePins(E).interrupt_due = {}
<1> DEFINE Port(dr, a1, a2) == [io_level |-> {}, interrupt_due |-> {}, dr |-> dr,
                                ddr |-> Pins, alt1 |-> a1, alt2 |-> a2]
<1>1. ASSUME NEW dr \in SUBSET Pins, NEW a1 \in SUBSET Pins, NEW a2 \in SUBSET Pins,
             a1 \subseteq dr, a2 = {} \/ a2 = a1
      PROVE  Port(dr, a1, a2) \in G!Gpio /\ G!update(Port(dr, a1, a2)) = Port(dr, a1, a2)
  <2> DEFINE g == Port(dr, a1, a2)
  <2>1. g \in G!Gpio
    BY DEF G!Gpio
  <2>2. \A p \in Pins : G!get_mode(g, p) \notin {12, 13}
    BY <1>1, SMT DEF G!get_mode, G!Bit
  <2> QED BY <2>1, <2>2, Quiet
<1>2. G!new = Port({}, {}, {})
  BY DEF G!new
<1>3. G!set_dr(G!new, E) = Port(E, {}, {})
  <2>1. \A p \in Pins : G!get_mode(G!new, p) = 2
    BY SMT DEF G!get_mode, G!Bit, G!new
  <2>2. 2 \notin G!OutputModes /\ 2 \in G!InputModes
    BY SMT DEF G!OutputModes, G!InputModes
  <2>3. G!In(G!new, G!OutputModes) = {} /\ G!In(G!new, G!OutputModes \union G!InputModes) = Pins
    BY <2>1, <2>2 DEF G!In
  <2>4. /\ G!Assign({}, E, {}) = {} /\ G!Assign({}, E, Pins) = E
        /\ {} \ (E \intersect G!Acknowledged(G!new)) = {}
    BY DEF G!Assign
  <2>5. G!set_dr(G!new, E) = [Port({}, {}, {}) EXCEPT !.io_level = {}, !.dr = E, !.interrupt_due = {}]
    BY <1>2, <2>3, <2>4 DEF G!set_dr
  <2> QED BY <2>5
<1>4. G!set_alt1(Port(E, {}, {}), E) = Port(E, E, {})
  <2>1. {} \ G!Xor(Pins, E) = {}
    OBVIOUS
  <2>2. G!set_alt1(Port(E, {}, {}), E) = [Port(E, {}, {}) EXCEPT !.alt1 = E, !.interrupt_due = {}]
    BY <2>1 DEF G!set_alt1
  <2> QED BY <2>2
<1>5. G!set_alt2(Port(E, E, {}), E) = Port(E, E, E)
  <2>1. {} \ G!Xor(Pins, E) = {}
    OBVIOUS
  <2>2. G!set_alt2(Port(E, E, {}), E) = [Port(E, E, {}) EXCEPT !.alt2 = E, !.interrupt_due = {}]
    BY <2>1 DEF G!set_alt2
  <2> QED BY <2>2
<1>6. /\ G!update(Port(E, {}, {})) = Port(E, {}, {})
      /\ G!update(Port(E, E, {})) = Port(E, E, {})
      /\ G!update(Port(E, E, E)) = Port(E, E, E)
  BY <1>1
<1>7. RisingEdgePins(E) = Port(E, E, E)
  <2> HIDE DEF Port
  <2> QED BY <1>3, <1>4, <1>5, <1>6 DEF RisingEdgePins
<1> QED BY <1>7 DEF Configured
-----------------------------------------------------------------------------
\* The UART.  Interrupting: it holds an interrupt, whatever the link brings.
Interrupting(u) == (u.rdi /\ u.rx_buf # U!None) \/ u.thri

LEMMA Fills ==
  ASSUME NEW u \in U!Uart
  PROVE  LET v == U!maybe_fill_rx_buf(u)
         IN  /\ v \in U!Uart /\ v.rdi = u.rdi /\ v.thri = u.thri
             /\ u.link.rx = <<>> => v = u
<1> DEFINE q == u.link.rx
           v == U!maybe_fill_rx_buf(u)
<1>1. q \in Seq(Bytes) /\ u.link \in U!Link
  BY DEF U!Uart, U!Link
<1>2. CASE u.rx_buf = U!None /\ q # <<>>
  <2> DEFINE h == <<Head(q)>>
             r == Tail(q)
  <2>1. Head(q) \in Bytes /\ r \in Seq(Bytes)
    BY <1>1, <1>2, HeadTailProperties
  <2>2. h \in U!Option
    BY <2>1 DEF U!Option
  <2>3. v = [u EXCEPT !.rx_buf = h, !.link.rx = r]
    BY <1>2 DEF U!maybe_fill_rx_buf
  <2> HIDE DEF h, r, v
  <2>4. v \in U!Uart /\ v.rdi = u.rdi /\ v.thri = u.thri
    BY <1>1, <2>1, <2>2, <2>3 DEF U!Uart, U!Link
  <2> QED BY <1>2, <2>4 DEF v
<1>3. CASE ~ (u.rx_buf = U!None /\ q # <<>>)
  BY <1>3 DEF U!maybe_fill_rx_buf
<1> QED BY <1>2, <1>3

LEMMA Receives ==
  ASSUME NEW u \in U!Uart
  PROVE  U!receive_byte(U!read_iir(u)) \in U!Uart
<1> DEFINE i == U!read_iir(u)
           m == U!maybe_fill_rx_buf(i)
<1>1. i \in U!Uart
  BY DEF U!read_iir, U!Uart
<1> HIDE DEF i
<1>2. m \in U!Uart
  BY <1>1, Fills
<1>3. U!receive_byte(i) = [m EXCEPT !.rx_buf = U!None]
  BY DEF U!receive_byte
<1> HIDE DEF m
<1> QED BY <1>2, <1>3 DEF i, U!Uart, U!None, U!Option

LEMMA Transmits ==
  ASSUME NEW u \in U!Uart, NEW n \in Nat
  PROVE  U!apply_ticks(u, n) \in U!Uart
<1> DEFINE left == U!Monus(u.cooldown, n)
           w == [u EXCEPT !.cooldown = left]
<1>1. left \in Nat
  BY SMT DEF U!Monus, U!Uart
<1>2. U!apply_ticks(u, n) = IF left = 0 /\ u.tx_fifo # <<>> THEN U!Transmit(w) ELSE w
  BY DEF U!apply_ticks
<1> HIDE DEF left
<1>3. w \in U!Uart /\ w.tx_fifo = u.tx_fifo
  BY <1>1 DEF U!Uart
<1> HIDE DEF w
<1>4. ASSUME u.tx_fifo # <<>> PROVE U!Transmit(w) \in U!Uart
  <2> DEFINE tx == Append(w.link.tx, Head(w.tx_fifo))
             rest == Tail(w.tx_fifo)
             wait == U!brg_div(w) * FrameClocks
  <2>1. w.tx_fifo \in Seq(Bytes) /\ w.link.tx \in Seq(Bytes) /\ w.link \in U!Link
    BY <1>3 DEF U!Uart, U!Link
  <2>2. Head(w.tx_fifo) \in Bytes /\ rest \in Seq(Bytes)
    BY <1>3, <1>4, <2>1, HeadTailProperties
  <2>3. tx \in Seq(Bytes)
    BY <2>1, <2>2, AppendProperties
  <2>4. wait \in Nat
    <3>1. ByteSize \in Nat /\ FrameClocks \in Nat
      BY AgonMachineAssumption
    <3>2. w.brg_hi \in Nat /\ w.brg_lo \in Nat
      BY <1>3, <3>1, SMT DEF U!Uart, U!Half
    <3> QED BY <3>1, <3>2, SMT DEF U!brg_div
  <2>5. U!Transmit(w) = [w EXCEPT !.link.tx = tx, !.tx_fifo = rest, !.cooldown = wait]
    BY DEF U!Transmit
  <2> HIDE DEF tx, rest, wait
  <2> QED BY <1>3, <2>1, <2>2, <2>3, <2>4, <2>5 DEF U!Uart, U!Link
<1> QED BY <1>2, <1>3, <1>4

\* A poll that finds nothing leaves nothing.
LEMMA Polls ==
  ASSUME NEW u \in U!Uart
  PROVE  /\ U!poll(u) \in U!Uart
         /\ ~ U!irq_due(u) => ~ Interrupting(U!poll(u))
         /\ Interrupting(u) => U!irq_due(u)
<1>1. U!maybe_fill_rx_buf(u) \in U!Uart
  BY Fills
<1>2. U!poll(u) \in U!Uart
  BY <1>1 DEF U!poll
<1>3. ~ U!irq_due(u) => ~ Interrupting(U!poll(u))
  BY Fills DEF U!irq_due, U!poll, Interrupting, U!is_rx_interrupt_enabled, U!DataReady
<1>4. u.rx_buf # U!None => U!maybe_fill_rx_buf(u) = u
  BY DEF U!maybe_fill_rx_buf
<1>5. Interrupting(u) => U!irq_due(u)
  BY <1>4 DEF U!irq_due, Interrupting, U!is_rx_interrupt_enabled, U!DataReady
<1> QED BY <1>2, <1>3, <1>5

\* Without the link, only what the UART holds interrupts.
LEMMA LinkMasked ==
  ASSUME NEW u \in U!Uart
  PROVE  U!irq_due([u EXCEPT !.link.rx = <<>>]) <=> Interrupting(u)
<1> DEFINE v == [u EXCEPT !.link.rx = <<>>]
<1>1. v.link.rx = <<>> /\ v.rdi = u.rdi /\ v.thri = u.thri /\ v.rx_buf = u.rx_buf
  BY DEF U!Uart, U!Link
<1> HIDE DEF v
<1>2. U!maybe_fill_rx_buf(v) = v
  BY <1>1 DEF U!maybe_fill_rx_buf
<1>3. U!irq_due(v) <=> Interrupting(u)
  BY <1>1, <1>2 DEF U!irq_due, Interrupting, U!is_rx_interrupt_enabled, U!DataReady
<1> QED BY <1>3 DEF v

(***************************************************************************)
(* Soft resets                                                             *)
(***************************************************************************)
\* How many instructions may have been executed since a soft reset was asked
\* for: those since the flag was last looked at.
Since == IF count = 0 /\ stage \in {"reset", "reset_pc"} THEN ResetEvery ELSE count

ResetInv ==
  /\ count \in 0 .. ResetEvery - 1
  /\ age \in Nat /\ age <= Since
  /\ ~ requested => age = 0
  /\ requested => soft_reset
  /\ stage = "reset_pc" => count = 0
  /\ stage = "reset_store" => ~ requested

\* Instructions and the steps of do_interrupts that leave the flag alone.
ResetStutter ==
  /\ UNCHANGED <<soft_reset, requested, age, count>>
  /\ stage \notin {"reset", "reset_pc", "reset_store"}
  /\ stage' \notin {"reset", "reset_pc", "reset_store"}

Retired ==
  /\ stage = "execute" /\ stage' = "reset"
  /\ count' = (count + 1) % ResetEvery
  /\ age' = IF ~ requested THEN 0 ELSE IF age <= ResetEvery THEN age + 1 ELSE age
  /\ UNCHANGED <<soft_reset, requested>>

LEMMA CountWraps ==
  ASSUME NEW n \in Nat \ {0}, NEW c \in 0 .. n - 1
  PROVE  (c + 1) % n = IF c + 1 = n THEN 0 ELSE c + 1
OBVIOUS

LEMMA InitReset == Init => ResetInv
BY AgonMachineAssumption DEF Init, ResetInv, Since

LEMMA RetiredReset == ASSUME ResetInv, Retired PROVE ResetInv'
<1>1. /\ ResetEvery \in Nat \ {0} /\ count \in 0 .. ResetEvery - 1
      /\ stage = "execute"
  BY AgonMachineAssumption DEF ResetInv, Retired
<1>2. age <= count
  BY <1>1 DEF ResetInv, Since
<1>3. count' = IF count + 1 = ResetEvery THEN 0 ELSE count + 1
  BY <1>1, CountWraps DEF Retired
<1>4. age' \in Nat /\ age' <= count + 1 /\ (~ requested => age' = 0)
  BY <1>1, <1>2 DEF ResetInv, Retired
<1>5. age' <= Since'
  BY <1>1, <1>3, <1>4 DEF Since, Retired
<1> QED
  BY <1>1, <1>3, <1>4, <1>5 DEF ResetInv, Retired

LEMMA StutterReset == ASSUME ResetInv, ResetStutter PROVE ResetInv'
BY DEF ResetInv, ResetStutter, Since

LEMMA LookForResetInv == ASSUME ResetInv, LookForReset PROVE ResetInv'
BY AgonMachineAssumption DEF ResetInv, LookForReset, Since, reset

LEMMA SoftResetInv == ASSUME ResetInv, SoftReset PROVE ResetInv'
BY AgonMachineAssumption DEF ResetInv, SoftReset, Since

LEMMA ClearFlagInv == ASSUME ResetInv, ClearFlag PROVE ResetInv'
BY AgonMachineAssumption DEF ResetInv, ClearFlag, Since

LEMMA RequestResetInv == ASSUME ResetInv, RequestReset PROVE ResetInv'
BY AgonMachineAssumption DEF ResetInv, RequestReset, Since, cpu

\* Every other action is one of the two, or leaves the flag and the CPU alone.
LEMMA ExecuteRetires ==
  ASSUME \/ Plain \/ Acknowledge \/ ReturnFromHandler
         \/ \E b \in Iff : SetIff(b)
         \/ \E i \in Timers, c \in CtlWrites : WriteTimerCtl(i, c)
         \/ \E w \in Ier : WriteIer(w[1], w[2])
  PROVE  Retired /\ due' = due
<1>1. ASSUME NEW ts, NEW u, NEW events, Retire(ts, u, events)
      PROVE  Retired /\ due' = due
  BY <1>1 DEF Retire, Retired
<1>2. CASE Plain
  BY <1>1, <1>2 DEF Plain
<1>3. CASE Acknowledge
  BY <1>1, <1>3 DEF Acknowledge
<1>4. CASE ReturnFromHandler
  BY <1>1, <1>4 DEF ReturnFromHandler
<1>5. CASE \E b \in Iff : SetIff(b)
  BY <1>1, <1>5 DEF SetIff
<1>6. CASE \E i \in Timers, c \in CtlWrites : WriteTimerCtl(i, c)
  BY <1>1, <1>6 DEF WriteTimerCtl
<1>7. CASE \E w \in Ier : WriteIer(w[1], w[2])
  BY <1>1, <1>7 DEF WriteIer
<1> QED BY <1>2, <1>3, <1>4, <1>5, <1>6, <1>7

LEMMA PollStutters ==
  ASSUME NoPoll \/ PollTimers \/ PollUart \/ Snapshot \/ FireGpio
  PROVE  ResetStutter
BY DEF NoPoll, PollTimers, PollUart, Snapshot, FireGpio, Enter, ResetStutter, reset

LEMMA OthersStutter ==
  ASSUME \/ Vsync
         \/ \E port \in Ports, p \in Pins, state \in BOOLEAN : Joystick(port, p, state)
         \/ \E b \in Bytes : LinkSends(b)
         \/ UNCHANGED vars
  PROVE  UNCHANGED <<cpu, reset>>
BY DEF Vsync, Joystick, LinkSends, vars

LEMMA NextReset == ResetInv /\ [Next]_vars => ResetInv'
<1> SUFFICES ASSUME ResetInv, [Next]_vars PROVE ResetInv'
  OBVIOUS
<1>1. ASSUME UNCHANGED <<cpu, reset>> PROVE ResetInv'
  BY <1>1 DEF ResetInv, Since, cpu, reset
<1>2. CASE LookForReset \/ SoftReset \/ ClearFlag \/ RequestReset
  BY <1>2, LookForResetInv, SoftResetInv, ClearFlagInv, RequestResetInv
<1>3. CASE NoPoll \/ PollTimers \/ PollUart \/ Snapshot \/ FireGpio
  BY <1>3, PollStutters, StutterReset
<1>4. CASE \/ Plain \/ Acknowledge \/ ReturnFromHandler
           \/ \E b \in Iff : SetIff(b)
           \/ \E i \in Timers, c \in CtlWrites : WriteTimerCtl(i, c)
           \/ \E w \in Ier : WriteIer(w[1], w[2])
  BY <1>4, ExecuteRetires, RetiredReset
<1>5. CASE \/ Vsync
           \/ \E port \in Ports, p \in Pins, state \in BOOLEAN : Joystick(port, p, state)
           \/ \E b \in Bytes : LinkSends(b)
           \/ UNCHANGED vars
  BY <1>1, <1>5, OthersStutter
<1> QED BY <1>2, <1>3, <1>4, <1>5 DEF Next

\* A soft reset is made within ResetEvery instructions of being asked for, and
\* is not lost between the two accesses to the flag (agon_machine.rs:1215-1228).
THEOREM Prompt == Spec => []ResetPrompt
<1>1. ResetInv => ResetPrompt
  BY AgonMachineAssumption DEF ResetInv, ResetPrompt, Since
<1> QED BY <1>1, InitReset, NextReset, PTL DEF Spec
-----------------------------------------------------------------------------
PortsInv ==
  /\ gpios \in [Ports -> G!Gpio]
  /\ SnapshotStillDue

LEMMA InitPorts == Init => PortsInv
<1> SUFFICES ASSUME Init PROVE PortsInv
  OBVIOUS
<1>1. \A port \in Ports : EdgePins[port] \in SUBSET Pins
  BY AgonMachineAssumption
<1>2. gpios \in [Ports -> G!Gpio]
  BY <1>1, RisingEdgePort DEF Init
<1>3. stage # "fire"
  BY DEF Init
<1> QED BY <1>2, <1>3 DEF PortsInv, SnapshotStillDue

\* A port that only gains interrupts keeps the copy right.
LEMMA Gains ==
  ASSUME PortsInv, stage' = stage, due' = due,
         NEW q \in Ports, NEW g \in G!Gpio, gpios' = [gpios EXCEPT ![q] = g],
         gpios[q].interrupt_due \subseteq g.interrupt_due
  PROVE  PortsInv'
<1>1. gpios' \in [Ports -> G!Gpio]
  BY DEF PortsInv
<1>2. \A port \in Ports : gpios[port].interrupt_due \subseteq gpios'[port].interrupt_due
  BY DEF PortsInv
<1> QED BY <1>1, <1>2 DEF PortsInv, SnapshotStillDue

LEMMA OutsidePorts ==
  ASSUME PortsInv,
         Vsync \/ \E port \in Ports, p \in Pins, state \in BOOLEAN : Joystick(port, p, state)
  PROVE  PortsInv'
<1>1. ASSUME Vsync PROVE PortsInv'
  <2> DEFINE up == G!set_input_pin(gpios["b"], VsyncPin, TRUE)
             down == G!set_input_pin(up, VsyncPin, FALSE)
  <2>1. gpios["b"] \in G!Gpio /\ VsyncPin \in Pins /\ "b" \in Ports
    BY AgonMachineAssumption DEF PortsInv, Ports
  <2>2. up \in G!Gpio /\ gpios["b"].interrupt_due \subseteq up.interrupt_due
    BY <2>1, OnePin
  <2>3. down \in G!Gpio /\ up.interrupt_due \subseteq down.interrupt_due
    BY <2>1, <2>2, OnePin
  <2>4. gpios' = [gpios EXCEPT !["b"] = down] /\ stage' = stage /\ due' = due
    BY <1>1 DEF Vsync, cpu
  <2> HIDE DEF up, down
  <2> QED BY <2>1, <2>2, <2>3, <2>4, Gains
<1>2. ASSUME NEW port \in Ports, NEW p \in Pins, NEW state \in BOOLEAN, Joystick(port, p, state)
      PROVE  PortsInv'
  <2> DEFINE g == G!set_input_pin(gpios[port], p, state)
  <2>1. g \in G!Gpio /\ gpios[port].interrupt_due \subseteq g.interrupt_due
    BY OnePin DEF PortsInv
  <2>2. gpios' = [gpios EXCEPT ![port] = g] /\ stage' = stage /\ due' = due
    BY <1>2 DEF Joystick, cpu
  <2> HIDE DEF g
  <2> QED BY <2>1, <2>2, Gains
<1> QED BY <1>1, <1>2

\* A handler acknowledges when the copy is no longer in use.
LEMMA AcknowledgePorts == ASSUME PortsInv, Acknowledge PROVE PortsInv'
<1>1. stage' = "reset"
  BY ExecuteRetires DEF Retired
<1>2. ASSUME NEW port \in Ports, NEW p \in Pins,
             gpios' = [gpios EXCEPT ![port] = G!update(G!set_dr(@, {p}))]
      PROVE  gpios' \in [Ports -> G!Gpio]
  <2> DEFINE g == G!update(G!set_dr(gpios[port], {p}))
  <2>1. gpios[port] \in G!Gpio /\ {p} \in SUBSET Pins
    BY DEF PortsInv
  <2>2. g \in G!Gpio
    BY <2>1, Registers
  <2>3. gpios' = [gpios EXCEPT ![port] = g]
    BY <1>2
  <2> HIDE DEF g
  <2> QED BY <2>2, <2>3 DEF PortsInv
<1>3. gpios' \in [Ports -> G!Gpio]
  BY <1>2 DEF Acknowledge, PortsInv
<1> QED BY <1>1, <1>3 DEF PortsInv, SnapshotStillDue

LEMMA NextPorts == PortsInv /\ [Next]_vars => PortsInv'
<1> SUFFICES ASSUME PortsInv, [Next]_vars PROVE PortsInv'
  OBVIOUS
<1>1. ASSUME gpios' = gpios, stage' # "fire" PROVE PortsInv'
  BY <1>1 DEF PortsInv, SnapshotStillDue
<1>2. CASE LookForReset \/ SoftReset \/ ClearFlag \/ NoPoll \/ PollTimers \/ PollUart \/ FireGpio
  BY <1>1, <1>2 DEF LookForReset, SoftReset, ClearFlag, NoPoll, PollTimers, PollUart, FireGpio,
                    Enter, devices
<1>3. CASE Snapshot
  BY <1>3 DEF Snapshot, PortsInv, SnapshotStillDue, devices
<1>4. CASE \/ Plain \/ ReturnFromHandler
           \/ \E b \in Iff : SetIff(b)
           \/ \E i \in Timers, c \in CtlWrites : WriteTimerCtl(i, c)
           \/ \E w \in Ier : WriteIer(w[1], w[2])
  <2>1. stage' # "fire"
    BY <1>4, ExecuteRetires DEF Retired
  <2>2. gpios' = gpios
    BY <1>4 DEF Plain, ReturnFromHandler, SetIff, WriteTimerCtl, WriteIer
  <2> QED BY <1>1, <2>1, <2>2
<1>5. CASE Acknowledge
  BY <1>5, AcknowledgePorts
<1>6. CASE Vsync \/ \E port \in Ports, p \in Pins, state \in BOOLEAN : Joystick(port, p, state)
  BY <1>6, OutsidePorts
<1>7. CASE (\E b \in Bytes : LinkSends(b)) \/ RequestReset \/ UNCHANGED vars
  <2>1. gpios' = gpios /\ stage' = stage /\ due' = due
    BY <1>7 DEF LinkSends, RequestReset, vars, devices, cpu
  <2> QED BY <2>1 DEF PortsInv, SnapshotStillDue
<1> QED BY <1>2, <1>3, <1>4, <1>5, <1>6, <1>7 DEF Next

\* What the copy names is still due when it is used, though the lock is gone
\* and other threads move pins (agon_machine.rs:1247-1268).
THEOREM StillDue == Spec => []SnapshotStillDue
<1>1. PortsInv => SnapshotStillDue
  BY DEF PortsInv
<1> QED BY <1>1, InitPorts, NextPorts, PTL DEF Spec
-----------------------------------------------------------------------------
\* An interrupt that is pending has an event behind it that nothing has
\* acknowledged, whoever runs.
EntryInv ==
  /\ timers \in [Timers -> T!PrtTimer]
  /\ \A port \in Ports : Configured(gpios[port], EdgePins[port])
  /\ iff1 => mode = Main
  /\ stage \in {"snapshot", "fire"} => iff1
  /\ \A i \in Timers : timers[i].ctl.irq => TimerVector(i) \in owed
  /\ \A port \in Ports : \A p \in gpios[port].interrupt_due : PinVector(port, p) \in owed

LEMMA InitEntry == Init => EntryInv
<1> SUFFICES ASSUME Init PROVE EntryInv
  OBVIOUS
<1>1. \A port \in Ports : EdgePins[port] \in SUBSET Pins
  BY AgonMachineAssumption
<1>2. \A port \in Ports : Configured(gpios[port], EdgePins[port])
  BY <1>1, RisingEdgeConfigured DEF Init
<1>3. \A port \in Ports : gpios[port].interrupt_due = {}
  <2>1. \A E \in SUBSET Pins : RisingEdgePins(E).interrupt_due = {}
    BY RisingEdgeConfigured
  <2> QED BY <1>1, <2>1 DEF Init
<1>4. ASSUME NEW i \in Timers PROVE timers[i] \in T!PrtTimer /\ ~ timers[i].ctl.irq
  <2> DEFINE t == [T!new EXCEPT !.reload = Reload]
  <2>1. Reload \in T!Word /\ 0 \in T!Div /\ 0 \in T!Byte /\ 0 \in T!Word
    <3>1. ByteSize \in Nat /\ ByteSize > 1
      BY AgonMachineAssumption
    <3>2. 0 \in T!Byte
      BY <3>1, SMT DEF T!Byte
    <3> QED BY <3>2, AgonMachineAssumption, WordHasZero
  <2>2. t \in T!PrtTimer /\ t.ctl.irq = FALSE
    BY <2>1 DEF T!new, T!PrtTimer, T!Ctl
  <2>3. timers[i] = t
    BY DEF Init
  <2> HIDE DEF t
  <2> QED BY <2>2, <2>3
<1>5. timers \in [Timers -> T!PrtTimer]
  BY <1>4 DEF Init
<1>6. iff1 = FALSE /\ stage = "reset"
  BY DEF Init
<1> QED BY <1>2, <1>3, <1>4, <1>5, <1>6 DEF EntryInv

\* A step that changes neither devices nor what runs.
LEMMA SameEntry ==
  ASSUME EntryInv, timers' = timers, iff1' = iff1, mode' = mode,
         owed' = owed, gpios' = gpios,
         stage' \in {"snapshot", "fire"} => iff1
  PROVE  EntryInv'
BY DEF EntryInv

\* Entering a handler acknowledges nothing.
LEMMA EnterEntry ==
  ASSUME EntryInv, timers' = timers, gpios' = gpios, owed' = owed, NEW v, Enter(v)
  PROVE  EntryInv'
BY DEF EntryInv, Enter

\* An instruction, whatever it makes of the devices before its ticks.
LEMMA RetireEntry ==
  ASSUME EntryInv, NEW ts \in [Timers -> T!PrtTimer], NEW u, NEW events, Retire(ts, u, events),
         iff1' => mode' = Main,
         \A i \in Timers : ts[i].ctl.irq => TimerVector(i) \in events,
         \A port \in Ports : Configured(gpios'[port], EdgePins[port]),
         \A port \in Ports : \A p \in gpios'[port].interrupt_due : PinVector(port, p) \in events
  PROVE  EntryInv'
<1>1. PICK n \in Ticks :
        /\ timers' = [i \in Timers |-> T!apply_ticks(ts[i], n)]
        /\ owed' = events \union {TimerVector(i) : i \in {i \in Timers : Expires(ts[i], n)}}
  BY DEF Retire
<1>2. n \in T!Word
  BY AgonMachineAssumption
<1>3. ASSUME NEW i \in Timers
      PROVE  /\ timers'[i] \in T!PrtTimer
             /\ timers'[i].ctl.irq => TimerVector(i) \in owed'
  <2>1. /\ timers'[i] \in T!PrtTimer
        /\ timers'[i].ctl.irq => ts[i].ctl.irq \/ Expires(ts[i], n)
    BY <1>1, <1>2, TicksTimer
  <2> QED BY <1>1, <2>1
<1>4. timers' \in [Timers -> T!PrtTimer]
  BY <1>1, <1>3
<1>5. \A port \in Ports : \A p \in gpios'[port].interrupt_due : PinVector(port, p) \in owed'
  BY <1>1
<1>6. stage' = "reset"
  BY DEF Retire
<1> QED BY <1>3, <1>4, <1>5, <1>6 DEF EntryInv

LEMMA PlainEntry == ASSUME EntryInv, Plain PROVE EntryInv'
BY RetireEntry DEF Plain, EntryInv

LEMMA IffEntry == ASSUME EntryInv, NEW b \in Iff, SetIff(b) PROVE EntryInv'
BY RetireEntry DEF SetIff, EntryInv

LEMMA ReturnEntry == ASSUME EntryInv, ReturnFromHandler PROVE EntryInv'
BY RetireEntry DEF ReturnFromHandler, EntryInv

LEMMA IerEntry == ASSUME EntryInv, NEW r, NEW t, WriteIer(r, t) PROVE EntryInv'
BY RetireEntry DEF WriteIer, EntryInv

LEMMA WriteCtlEntry ==
  ASSUME EntryInv, NEW i \in Timers, NEW c \in CtlWrites, WriteTimerCtl(i, c)
  PROVE  EntryInv'
<1> DEFINE ts == [timers EXCEPT ![i] = T!write_ctl(timers[i], c)]
           events == owed \ {TimerVector(i)}
<1>1. c \in T!Ctl /\ ~ c.irq
  BY AgonMachineAssumption
<1>2. T!write_ctl(timers[i], c) \in T!PrtTimer /\ ~ T!write_ctl(timers[i], c).ctl.irq
  BY <1>1 DEF EntryInv, T!write_ctl, T!PrtTimer
<1>3. /\ ts \in [Timers -> T!PrtTimer] /\ ~ ts[i].ctl.irq
      /\ \A j \in Timers : j # i => ts[j] = timers[j]
  BY <1>2 DEF EntryInv
<1>4. Retire(ts, uart, events) /\ gpios' = gpios /\ iff1' = iff1 /\ mode' = mode /\ mode = Main
  BY DEF WriteTimerCtl
<1> HIDE DEF ts
<1>6. ASSUME NEW j \in Timers, ts[j].ctl.irq PROVE TimerVector(j) \in events
  <2>1. j # i /\ timers[j].ctl.irq
    BY <1>3, <1>6
  <2>2. TimerVector(j) # TimerVector(i) /\ TimerVector(j) \in owed
    BY <2>1, TimersDiffer DEF EntryInv
  <2> QED BY <2>2
<1>7. ASSUME NEW port \in Ports, NEW p \in gpios'[port].interrupt_due
      PROVE  PinVector(port, p) \in events
  <2>1. p \in Pins /\ PinVector(port, p) \in owed
    BY <1>4, <1>7, AgonMachineAssumption DEF EntryInv, Configured
  <2>2. PinVector(port, p) # TimerVector(i)
    BY <2>1, NotMain
  <2> QED BY <2>1, <2>2
<1>8. \A port \in Ports : Configured(gpios'[port], EdgePins[port])
  BY <1>4 DEF EntryInv
<1> HIDE DEF events
<1> QED BY <1>3, <1>4, <1>6, <1>7, <1>8, RetireEntry DEF EntryInv

\* An acknowledgement takes the interrupt of the handler away, and no other.
LEMMA AcknowledgeEntry == ASSUME EntryInv, PortsInv, Acknowledge PROVE EntryInv'
<1>1. mode # Main /\ ~ acked /\ acked' = TRUE /\ iff1' = iff1 /\ mode' = mode
  BY DEF Acknowledge
<1>3. ASSUME NEW port \in Ports, NEW p \in gpios[port].interrupt_due
      PROVE  p \in Pins /\ PinVector(port, p) \in owed
  BY <1>3, AgonMachineAssumption DEF EntryInv, Configured
<1>4. CASE \E i \in Timers :
             /\ mode = TimerVector(i)
             /\ Retire([timers EXCEPT ![i] = T!read_ctl(@)], uart, owed \ {mode})
             /\ UNCHANGED gpios
  <2> PICK i \in Timers : /\ mode = TimerVector(i)
                          /\ Retire([timers EXCEPT ![i] = T!read_ctl(@)], uart, owed \ {mode})
                          /\ UNCHANGED gpios
    BY <1>4
  <2> DEFINE ts == [timers EXCEPT ![i] = T!read_ctl(timers[i])]
  <2>1. T!read_ctl(timers[i]) \in T!PrtTimer /\ ~ T!read_ctl(timers[i]).ctl.irq
    BY DEF EntryInv, T!read_ctl, T!PrtTimer, T!Ctl
  <2>2. /\ ts \in [Timers -> T!PrtTimer] /\ ~ ts[i].ctl.irq
        /\ \A j \in Timers : j # i => ts[j] = timers[j]
    BY <2>1 DEF EntryInv
  <2>3. Retire(ts, uart, owed \ {mode})
    OBVIOUS
  <2> HIDE DEF ts
  <2>4. ASSUME NEW j \in Timers, ts[j].ctl.irq PROVE TimerVector(j) \in owed \ {mode}
    <3>1. j # i /\ timers[j].ctl.irq
      BY <2>2, <2>4
    <3>2. TimerVector(j) # mode /\ TimerVector(j) \in owed
      BY <3>1, TimersDiffer DEF EntryInv
    <3> QED BY <3>2
  <2>5. ASSUME NEW port \in Ports, NEW p \in gpios'[port].interrupt_due
        PROVE  PinVector(port, p) \in owed \ {mode}
    <3>1. PinVector(port, p) # mode /\ PinVector(port, p) \in owed
      BY <2>5, <1>3, NotMain
    <3> QED BY <3>1
  <2> QED BY <1>1, <2>2, <2>3, <2>4, <2>5, RetireEntry DEF EntryInv
<1>5. CASE /\ mode = UartVector
           /\ Retire(timers, U!receive_byte(U!read_iir(uart)), owed)
           /\ UNCHANGED gpios
  BY <1>1, <1>5, RetireEntry DEF EntryInv
<1>6. CASE \E port \in Ports, p \in Pins :
             /\ mode = PinVector(port, p)
             /\ gpios' = [gpios EXCEPT ![port] = G!update(G!set_dr(@, {p}))]
             /\ Retire(timers, uart, owed \ {mode})
  <2> PICK port \in Ports, p \in Pins :
             /\ mode = PinVector(port, p)
             /\ gpios' = [gpios EXCEPT ![port] = G!update(G!set_dr(@, {p}))]
             /\ Retire(timers, uart, owed \ {mode})
    BY <1>6
  <2> DEFINE h == G!update(G!set_dr(gpios[port], {p}))
  <2>1. /\ gpios \in [Ports -> G!Gpio] /\ Configured(gpios[port], EdgePins[port])
        /\ EdgePins[port] \in SUBSET Pins
    BY AgonMachineAssumption DEF EntryInv, PortsInv
  <2>2. /\ Configured(h, EdgePins[port])
        /\ h.interrupt_due \subseteq gpios[port].interrupt_due \ {p}
    BY <2>1, EdgeAcknowledge
  <2>3. gpios'[port] = h /\ \A q \in Ports : q # port => gpios'[q] = gpios[q]
    BY <2>1
  <2> HIDE DEF h
  <2>4. \A q \in Ports : Configured(gpios'[q], EdgePins[q])
    BY <2>2, <2>3 DEF EntryInv
  <2>5. ASSUME NEW i \in Timers, timers[i].ctl.irq PROVE TimerVector(i) \in owed \ {mode}
    <3>1. TimerVector(i) # mode
      BY NotMain
    <3> QED BY <2>5, <3>1 DEF EntryInv
  <2>6. ASSUME NEW q \in Ports, NEW r \in gpios'[q].interrupt_due
        PROVE  PinVector(q, r) \in owed \ {mode}
    <3>1. r \in gpios[q].interrupt_due /\ (q = port => r # p)
      BY <2>2, <2>3, <2>6
    <3>2. r \in Pins /\ PinVector(q, r) \in owed
      BY <3>1, <1>3
    <3>3. PinVector(q, r) # mode
      BY <3>1, <3>2, PinsDiffer
    <3> QED BY <3>2, <3>3
  <2> QED BY <1>1, <2>4, <2>5, <2>6, RetireEntry DEF EntryInv
<1> QED BY <1>4, <1>5, <1>6 DEF Acknowledge

\* A port that changes from outside owes for what it gains.
LEMMA PinEntry ==
  ASSUME EntryInv, PortsInv, UNCHANGED <<timers, cpu>>, owed \subseteq owed',
         NEW q \in Ports, NEW g, gpios' = [gpios EXCEPT ![q] = g],
         Configured(g, EdgePins[q]),
         \A p \in g.interrupt_due : p \in gpios[q].interrupt_due \/ PinVector(q, p) \in owed'
  PROVE  EntryInv'
<1>1. iff1' = iff1 /\ mode' = mode /\ stage' = stage /\ timers' = timers
  BY DEF cpu
<1>2. gpios'[q] = g /\ \A port \in Ports : port # q => gpios'[port] = gpios[port]
  BY DEF PortsInv
<1>4. \A port \in Ports : Configured(gpios'[port], EdgePins[port])
  BY <1>2 DEF EntryInv
<1>5. ASSUME NEW port \in Ports, NEW p \in gpios'[port].interrupt_due
      PROVE  PinVector(port, p) \in owed'
  <2>1. p \in gpios[port].interrupt_due \/ PinVector(port, p) \in owed'
    BY <1>2, <1>5
  <2> QED BY <2>1 DEF EntryInv
<1> QED BY <1>1, <1>4, <1>5 DEF EntryInv

LEMMA VsyncEntry == ASSUME EntryInv, PortsInv, Vsync PROVE EntryInv'
<1> DEFINE E == EdgePins["b"]
           g == gpios["b"]
           up == G!set_input_pin(g, VsyncPin, TRUE)
           down == G!set_input_pin(up, VsyncPin, FALSE)
<1>1. "b" \in Ports /\ g \in G!Gpio /\ VsyncPin \in Pins /\ E \in SUBSET Pins /\ Configured(g, E)
  BY AgonMachineAssumption DEF PortsInv, EntryInv, Ports
<1>2. /\ up \in G!Gpio /\ Configured(up, E) /\ up.io_level = g.io_level \union {VsyncPin}
      /\ up.interrupt_due \subseteq g.interrupt_due \union (E \intersect {VsyncPin})
  <2>1. g.io_level \union {VsyncPin} \in SUBSET Pins
    BY <1>1 DEF G!Gpio
  <2>2. up = G!set_input_pins(g, g.io_level \union {VsyncPin})
    BY DEF G!set_input_pin
  <2>3. up \in G!Gpio
    BY <1>1, OnePin
  <2> HIDE DEF g, up, E
  <2>4. /\ Configured(up, E) /\ up.io_level = g.io_level \union {VsyncPin}
        /\ up.interrupt_due = g.interrupt_due
             \union (E \intersect ((g.io_level \union {VsyncPin}) \ g.io_level))
    BY <1>1, <2>1, <2>2, EdgeInput
  <2> QED BY <2>3, <2>4
<1>3. Configured(down, E) /\ down.interrupt_due = up.interrupt_due
  <2>1. up.io_level \ {VsyncPin} \in SUBSET Pins
    BY <1>2 DEF G!Gpio
  <2>2. down = G!set_input_pins(up, up.io_level \ {VsyncPin})
    BY DEF G!set_input_pin
  <2> HIDE DEF g, up, down, E
  <2>3. /\ Configured(down, E)
        /\ down.interrupt_due =
             up.interrupt_due \union (E \intersect ((up.io_level \ {VsyncPin}) \ up.io_level))
    BY <1>1, <1>2, <2>1, <2>2, EdgeInput
  <2> QED BY <2>3
<1>4. gpios' = [gpios EXCEPT !["b"] = down] /\ UNCHANGED <<timers, cpu>>
  BY DEF Vsync
<1>5. owed \subseteq owed' /\ (VsyncPin \in E => PinVector("b", VsyncPin) \in owed')
  BY DEF Vsync, VsyncVector
<1> HIDE DEF up, down
<1>6. \A p \in down.interrupt_due : p \in g.interrupt_due \/ PinVector("b", p) \in owed'
  BY <1>2, <1>3, <1>5
<1> QED BY <1>1, <1>3, <1>4, <1>5, <1>6, PinEntry

LEMMA JoystickEntry ==
  ASSUME EntryInv, PortsInv,
         NEW port \in Ports, NEW p \in Pins, NEW state \in BOOLEAN, Joystick(port, p, state)
  PROVE  EntryInv'
<1> DEFINE E == EdgePins[port]
           g == gpios[port]
           levels == IF state THEN g.io_level \union {p} ELSE g.io_level \ {p}
           h == G!set_input_pin(g, p, state)
<1>1. g \in G!Gpio /\ E \in SUBSET Pins /\ Configured(g, E)
  BY AgonMachineAssumption DEF PortsInv, EntryInv
<1>2. levels \in SUBSET Pins /\ levels \ g.io_level \subseteq {p}
  BY <1>1 DEF G!Gpio
<1>3. levels \ g.io_level # {} => state /\ p \notin g.io_level
  OBVIOUS
<1>4. h = G!set_input_pins(g, levels)
  BY DEF G!set_input_pin
<1>5. gpios' = [gpios EXCEPT ![port] = h] /\ UNCHANGED <<timers, cpu>>
  BY DEF Joystick
<1>6. owed \subseteq owed' /\ (state /\ p \notin g.io_level => PinVector(port, p) \in owed')
  BY DEF Joystick
<1> HIDE DEF levels, h, g, E
<1>7. /\ Configured(h, E)
      /\ h.interrupt_due = g.interrupt_due \union (E \intersect (levels \ g.io_level))
  BY <1>1, <1>2, <1>4, EdgeInput
<1>8. \A r \in h.interrupt_due : r \in g.interrupt_due \/ PinVector(port, r) \in owed'
  BY <1>2, <1>3, <1>6, <1>7
<1> QED BY <1>5, <1>6, <1>7, <1>8, PinEntry DEF g, E

\* A soft reset abandons a handler and acknowledges nothing.
LEMMA SoftResetEntry == ASSUME EntryInv, SoftReset PROVE EntryInv'
BY DEF SoftReset, EntryInv, devices

LEMMA PollUartEntry == ASSUME EntryInv, PollUart PROVE EntryInv'
<1>1. timers' = timers /\ gpios' = gpios /\ owed' = owed /\ iff1
  BY DEF PollUart
<1>2. CASE Enter(UartVector)
  BY <1>1, <1>2, EnterEntry
<1>3. CASE UNCHANGED <<iff1, mode, acked>>
  BY <1>1, <1>3, SameEntry
<1> QED BY <1>2, <1>3 DEF PollUart

LEMMA FireGpioEntry == ASSUME EntryInv, FireGpio PROVE EntryInv'
<1>1. timers' = timers /\ gpios' = gpios /\ owed' = owed /\ iff1
  BY DEF FireGpio, EntryInv, devices
<1>2. CASE Enter(First(DuePins))
  BY <1>1, <1>2, EnterEntry
<1>3. CASE UNCHANGED <<iff1, mode, acked>>
  BY <1>1, <1>3, SameEntry
<1> QED BY <1>2, <1>3 DEF FireGpio

LEMMA NextEntry == PortsInv /\ EntryInv /\ [Next]_vars => EntryInv'
<1> SUFFICES ASSUME PortsInv, EntryInv, [Next]_vars PROVE EntryInv'
  OBVIOUS
<1>1. CASE \/ LookForReset \/ ClearFlag \/ NoPoll \/ Snapshot \/ RequestReset
           \/ (\E b \in Bytes : LinkSends(b)) \/ UNCHANGED vars
  <2>1. /\ timers' = timers /\ gpios' = gpios
        /\ iff1' = iff1 /\ mode' = mode /\ owed' = owed
    BY <1>1 DEF LookForReset, ClearFlag, NoPoll, Snapshot, RequestReset, LinkSends,
                vars, devices, cpu
  <2>2. stage' \in {"snapshot", "fire"} => iff1
    BY <1>1 DEF LookForReset, ClearFlag, NoPoll, Snapshot, RequestReset, LinkSends,
                vars, cpu, EntryInv
  <2> QED BY <2>1, <2>2, SameEntry
<1>2. CASE SoftReset
  BY <1>2, SoftResetEntry
<1>3. CASE PollTimers
  <2>1. timers' = timers /\ gpios' = gpios /\ owed' = owed /\ Enter(First(DueTimers))
    BY <1>3 DEF PollTimers, devices
  <2> QED BY <2>1, EnterEntry
<1>4. CASE PollUart \/ FireGpio
  BY <1>4, PollUartEntry, FireGpioEntry
<1>5. CASE Plain \/ Acknowledge \/ ReturnFromHandler
  BY <1>5, PlainEntry, AcknowledgeEntry, ReturnEntry
<1>6. CASE \E b \in Iff : SetIff(b)
  BY <1>6, IffEntry
<1>7. CASE \E i \in Timers, c \in CtlWrites : WriteTimerCtl(i, c)
  BY <1>7, WriteCtlEntry
<1>8. CASE \E w \in Ier : WriteIer(w[1], w[2])
  BY <1>8, IerEntry
<1>9. CASE Vsync \/ \E port \in Ports, p \in Pins, state \in BOOLEAN : Joystick(port, p, state)
  BY <1>9, VsyncEntry, JoystickEntry
<1> QED BY <1>1, <1>2, <1>3, <1>4, <1>5, <1>6, <1>7, <1>8, <1>9 DEF Next
-----------------------------------------------------------------------------
\* The vectors that the two ways into the handler of a timer or a pin choose from.
LEMMA FirstTimer ==
  ASSUME DueTimers # {}
  PROVE  /\ \E i \in Timers : T!irq_due(timers[i]) /\ First(DueTimers) = TimerVector(i)
         /\ \A w \in DueTimers : First(DueTimers) <= w
<1>1. DueTimers \in SUBSET Nat
  <2>1. \A i \in Timers : TimerVector(i) \in Nat
    <3> SUFFICES ASSUME NEW i \in Timers PROVE TimerVector(i) \in Nat
      OBVIOUS
    <3> QED BY TimersDiffer
  <2> QED BY <2>1 DEF DueTimers
<1>2. First(DueTimers) \in DueTimers /\ \A w \in DueTimers : First(DueTimers) <= w
  BY <1>1, FirstIsLeast
<1> QED BY <1>2 DEF DueTimers

LEMMA FirstPin ==
  ASSUME PortsInv, stage = "fire", DuePins # {}
  PROVE  /\ \E port \in Ports : \E p \in Pins :
              p \in gpios[port].interrupt_due /\ First(DuePins) = PinVector(port, p)
         /\ \A w \in DuePins : First(DuePins) <= w
<1>1. \A port \in Ports : due[port] \subseteq gpios[port].interrupt_due
  BY DEF PortsInv, SnapshotStillDue
<1>2. \A port \in Ports : gpios[port].interrupt_due \subseteq Pins
  BY DEF PortsInv, G!Gpio
<1>3. \A port \in Ports, p \in Pins : PinVector(port, p) \in Nat
  <2> SUFFICES ASSUME NEW port \in Ports, NEW p \in Pins PROVE PinVector(port, p) \in Nat
    OBVIOUS
  <2> QED BY PinsDiffer
<1>4. DuePins \in SUBSET Nat
  BY <1>1, <1>2, <1>3 DEF DuePins
<1>5. First(DuePins) \in DuePins /\ \A w \in DuePins : First(DuePins) <= w
  BY <1>4, FirstIsLeast
<1>6. PICK port \in Ports : \E p \in due[port] : First(DuePins) = PinVector(port, p)
  BY <1>5 DEF DuePins
<1> QED BY <1>1, <1>2, <1>5, <1>6

LEMMA TimerEntered ==
  ASSUME EntryInv, PollTimers
  PROVE  First(DueTimers) \in owed
<1>1. PICK i \in Timers : T!irq_due(timers[i]) /\ First(DueTimers) = TimerVector(i)
  BY FirstTimer DEF PollTimers
<1> QED BY <1>1 DEF T!irq_due, EntryInv

LEMMA PinEntered ==
  ASSUME EntryInv, PortsInv, stage = "fire", DuePins # {}
  PROVE  First(DuePins) \in owed
<1>1. PICK port \in Ports : \E p \in Pins :
        p \in gpios[port].interrupt_due /\ First(DuePins) = PinVector(port, p)
  BY FirstPin
<1> QED BY <1>1 DEF EntryInv

LEMMA EntersOwed ==
  ASSUME EntryInv, PortsInv, [Next]_vars,
         NEW v \in TimerVectors \union PinVectors, Enters(v)
  PROVE  v \in owed
<1>1. stage \in {"poll", "fire"} /\ iff1 /\ ~ iff1' /\ mode' = v
  BY DEF Enters
<1>2. v # UartVector
  BY NotMain DEF TimerVectors, PinVectors
<1>3. CASE PollTimers
  BY <1>1, <1>3, TimerEntered DEF PollTimers, Enter
<1>4. CASE PollUart
  BY <1>1, <1>2, <1>4 DEF PollUart, Enter
<1>5. CASE FireGpio
  BY <1>1, <1>5, PinEntered DEF FireGpio, Enter
<1>6. CASE LookForReset \/ SoftReset \/ ClearFlag \/ NoPoll \/ Snapshot \/ RequestReset
           \/ UNCHANGED vars
  BY <1>1, <1>6 DEF LookForReset, SoftReset, ClearFlag, NoPoll, Snapshot, RequestReset,
                    vars, cpu
<1>7. CASE \/ Vsync
           \/ \E port \in Ports, p \in Pins, state \in BOOLEAN : Joystick(port, p, state)
           \/ \E b \in Bytes : LinkSends(b)
  BY <1>1, <1>7, OthersStutter DEF cpu
<1>8. CASE \/ Plain \/ Acknowledge \/ ReturnFromHandler
           \/ \E b \in Iff : SetIff(b)
           \/ \E i \in Timers, c \in CtlWrites : WriteTimerCtl(i, c)
           \/ \E w \in Ier : WriteIer(w[1], w[2])
  BY <1>1, <1>8, ExecuteRetires DEF Retired
<1> QED BY <1>3, <1>4, <1>5, <1>6, <1>7, <1>8 DEF Next

\* No handler of a timer or a pin is entered without an event since its device
\* was last acknowledged, however ticks, edges, acknowledgements and soft resets
\* fall between the steps of do_interrupts (agon_machine.rs:1216-1272).
THEOREM Justified == Spec => NoSpuriousEntry
<1>1. EntryInv /\ PortsInv /\ [Next]_vars =>
        [\A v \in TimerVectors \union PinVectors : Enters(v) => v \in owed]_vars
  BY EntersOwed
<1> QED BY <1>1, InitEntry, NextEntry, InitPorts, NextPorts, PTL DEF Spec, NoSpuriousEntry
-----------------------------------------------------------------------------
\* When the loop comes to the ports, what comes before them is still quiet.
LookInv ==
  /\ uart \in U!Uart
  /\ stage \in {"snapshot", "fire"} => DueTimers = {} /\ ~ Interrupting(uart)

LEMMA InitLook == Init => LookInv
<1>1. U!new \in U!Uart
  <2>1. ByteSize \in Nat /\ ByteSize > 1
    BY AgonMachineAssumption
  <2>2. 2 % ByteSize \in U!Half /\ 2 \div ByteSize \in U!Half
    BY <2>1, SMT DEF U!Half
  <2>3. <<>> \in Seq(Bytes)
    BY EmptySeq
  <2> QED BY <2>2, <2>3 DEF U!new, U!Uart, U!Link, U!Option, U!None
<1> QED BY <1>1 DEF Init, LookInv

LEMMA RetireLook ==
  ASSUME NEW ts, NEW u \in U!Uart, NEW events, Retire(ts, u, events)
  PROVE  LookInv'
<1>1. PICK n \in Ticks : uart' = U!apply_ticks(u, n)
  BY DEF Retire
<1>2. n \in Nat
  BY AgonMachineAssumption, WordHasZero DEF T!Word
<1> QED BY <1>1, <1>2, Transmits DEF Retire, LookInv

LEMMA ExecuteLook ==
  ASSUME LookInv,
         \/ Plain \/ Acknowledge \/ ReturnFromHandler
         \/ \E b \in Iff : SetIff(b)
         \/ \E i \in Timers, c \in CtlWrites : WriteTimerCtl(i, c)
         \/ \E w \in Ier : WriteIer(w[1], w[2])
  PROVE  LookInv'
<1>1. uart \in U!Uart
  BY DEF LookInv
<1>2. CASE Plain \/ ReturnFromHandler \/ (\E b \in Iff : SetIff(b))
           \/ \E i \in Timers, c \in CtlWrites : WriteTimerCtl(i, c)
  BY <1>1, <1>2, RetireLook DEF Plain, ReturnFromHandler, SetIff, WriteTimerCtl
<1>3. CASE Acknowledge
  <2>1. U!receive_byte(U!read_iir(uart)) \in U!Uart
    BY <1>1, Receives
  <2> QED BY <1>1, <1>3, <2>1, RetireLook DEF Acknowledge
<1>4. CASE \E w \in Ier : WriteIer(w[1], w[2])
  <2>1. \A r, t \in BOOLEAN : [uart EXCEPT !.rdi = r, !.thri = t] \in U!Uart
    BY <1>1 DEF U!Uart
  <2>2. \A w \in Ier : w[1] \in BOOLEAN /\ w[2] \in BOOLEAN
    BY AgonMachineAssumption
  <2> QED BY <1>4, <2>1, <2>2, RetireLook DEF WriteIer
<1> QED BY <1>2, <1>3, <1>4

LEMMA LinkSendsLook == ASSUME LookInv, NEW b \in Bytes, LinkSends(b) PROVE LookInv'
<1> DEFINE q == Append(uart.link.rx, b)
<1>1. q \in Seq(Bytes) /\ uart.link \in U!Link
  BY AppendProperties DEF LookInv, U!Uart, U!Link
<1>2. uart' = [uart EXCEPT !.link.rx = q]
  BY DEF LinkSends
<1> HIDE DEF q
<1>3. uart' \in U!Uart /\ (Interrupting(uart') <=> Interrupting(uart))
  BY <1>1, <1>2 DEF LookInv, U!Uart, U!Link, Interrupting
<1> QED BY <1>3 DEF LinkSends, cpu, LookInv, DueTimers

LEMMA PollUartLook == ASSUME LookInv, PollUart PROVE LookInv'
<1>1. /\ U!poll(uart) \in U!Uart
      /\ ~ U!irq_due(uart) => ~ Interrupting(U!poll(uart))
  BY Polls DEF LookInv
<1>2. CASE U!irq_due(uart)
  BY <1>1, <1>2 DEF PollUart, Enter, LookInv
<1>3. CASE ~ U!irq_due(uart)
  BY <1>1, <1>3 DEF PollUart, LookInv, DueTimers
<1> QED BY <1>2, <1>3

LEMMA NextLook == LookInv /\ [Next]_vars => LookInv'
<1> SUFFICES ASSUME LookInv, [Next]_vars PROVE LookInv'
  OBVIOUS
<1>1. ASSUME uart' = uart, stage' \notin {"snapshot", "fire"} PROVE LookInv'
  BY <1>1 DEF LookInv
<1>2. ASSUME uart' = uart, timers' = timers, stage \in {"snapshot", "fire"} PROVE LookInv'
  BY <1>2 DEF LookInv, DueTimers
<1>3. ASSUME uart' = uart, timers' = timers, stage' = stage PROVE LookInv'
  BY <1>3 DEF LookInv, DueTimers
<1>4. CASE LookForReset \/ SoftReset \/ ClearFlag \/ NoPoll \/ PollTimers
  BY <1>1, <1>4 DEF LookForReset, SoftReset, ClearFlag, NoPoll, PollTimers, Enter, devices
<1>5. CASE Snapshot \/ FireGpio
  BY <1>2, <1>5 DEF Snapshot, FireGpio, devices
<1>6. CASE PollUart
  BY <1>6, PollUartLook
<1>7. CASE \/ Plain \/ Acknowledge \/ ReturnFromHandler
           \/ \E b \in Iff : SetIff(b)
           \/ \E i \in Timers, c \in CtlWrites : WriteTimerCtl(i, c)
           \/ \E w \in Ier : WriteIer(w[1], w[2])
  BY <1>7, ExecuteLook
<1>8. CASE Vsync \/ (\E port \in Ports, p \in Pins, state \in BOOLEAN : Joystick(port, p, state))
           \/ RequestReset \/ UNCHANGED vars
  BY <1>3, <1>8 DEF Vsync, Joystick, RequestReset, vars, devices, cpu
<1>9. CASE \E b \in Bytes : LinkSends(b)
  BY <1>9, LinkSendsLook
<1> QED BY <1>4, <1>5, <1>6, <1>7, <1>8, <1>9 DEF Next

\* Timers come before the UART and the UART before the ports.
LEMMA EntersFirst ==
  ASSUME LookInv, PortsInv, [Next]_vars, NEW v \in Vectors, Enters(v), NEW w \in Seen
  PROVE  v <= w
<1>1. stage \in {"poll", "fire"} /\ iff1 /\ ~ iff1' /\ mode' = v
  BY DEF Enters
<1>2. \/ w \in DueTimers
      \/ Interrupting(uart) /\ w = UartVector
      \/ stage = "fire" /\ w \in DuePins
  BY LinkMasked DEF Seen, LookInv
<1>3. CASE PollTimers
  <2>1. /\ DueTimers # {} /\ v = First(DueTimers) /\ stage # "fire"
    BY <1>1, <1>3 DEF PollTimers, Enter
  <2>2. PICK i \in Timers : v = TimerVector(i)
    BY <2>1, FirstTimer
  <2>3. v <= UartVector
    <3>1. TimerVector(i) \in 10 .. 20
      BY TimersDiffer
    <3> QED BY <2>2, <3>1, SMT DEF UartVector
  <2> QED BY <1>2, <2>1, <2>3, FirstTimer
<1>4. CASE PollUart
  <2>1. DueTimers = {} /\ v = UartVector /\ w = UartVector
    BY <1>1, <1>2, <1>4 DEF PollUart, Enter
  <2> QED BY <2>1, SMT DEF UartVector
<1>5. CASE FireGpio
  <2>1. DuePins # {} /\ v = First(DuePins) /\ stage = "fire"
    BY <1>1, <1>5 DEF FireGpio, Enter
  <2>2. w \in DuePins
    BY <1>2, <2>1 DEF LookInv
  <2> QED BY <2>1, <2>2, FirstPin
<1>6. CASE LookForReset \/ SoftReset \/ ClearFlag \/ NoPoll \/ Snapshot \/ RequestReset
           \/ UNCHANGED vars
  BY <1>1, <1>6 DEF LookForReset, SoftReset, ClearFlag, NoPoll, Snapshot, RequestReset,
                    vars, cpu
<1>7. CASE \/ Vsync
           \/ \E port \in Ports, p \in Pins, state \in BOOLEAN : Joystick(port, p, state)
           \/ \E b \in Bytes : LinkSends(b)
  BY <1>1, <1>7, OthersStutter DEF cpu
<1>8. CASE \/ Plain \/ Acknowledge \/ ReturnFromHandler
           \/ \E b \in Iff : SetIff(b)
           \/ \E i \in Timers, c \in CtlWrites : WriteTimerCtl(i, c)
           \/ \E r \in Ier : WriteIer(r[1], r[2])
  BY <1>1, <1>8, ExecuteRetires DEF Retired
<1> QED BY <1>3, <1>4, <1>5, <1>6, <1>7, <1>8 DEF Next

\* The handler entered is of the highest priority among what was due when the
\* loop looked, though other threads act between its looks
\* (agon_machine.rs:1230-1272).
THEOREM Priority == Spec => HighestFirst
<1>1. LookInv /\ PortsInv /\ [Next]_vars =>
        [\A v \in Vectors : Enters(v) => \A w \in Seen : v <= w]_vars
  BY EntersFirst
<1> QED BY <1>1, InitLook, NextLook, InitPorts, NextPorts, PTL DEF Spec, HighestFirst
-----------------------------------------------------------------------------
\* What the other invariants say nothing of.
CpuInv ==
  /\ soft_reset \in BOOLEAN /\ requested \in BOOLEAN
  /\ stage \in Stages /\ iff1 \in BOOLEAN /\ acked \in BOOLEAN
  /\ mode \in Vectors \union {Main}
  /\ due \in [Ports -> SUBSET Pins]
  /\ owed \subseteq TimerVectors \union PinVectors

LEMMA InitCpu == Init => CpuInv
BY DEF Init, CpuInv, Stages

LEMMA RetireCpu ==
  ASSUME CpuInv, NEW ts, NEW u, NEW events, Retire(ts, u, events), events \subseteq owed,
         iff1' \in BOOLEAN, acked' \in BOOLEAN, mode' \in {mode, Main}
  PROVE  CpuInv'
<1>1. PICK n \in Ticks : owed' =
        events \union {TimerVector(i) : i \in {i \in Timers : Expires(ts[i], n)}}
  BY DEF Retire
<1>2. owed' \subseteq TimerVectors \union PinVectors
  BY <1>1 DEF CpuInv, TimerVectors
<1>3. UNCHANGED <<soft_reset, requested, due>> /\ stage' = "reset"
  BY DEF Retire
<1> QED BY <1>2, <1>3 DEF CpuInv, Stages

LEMMA ExecuteCpu ==
  ASSUME CpuInv,
         \/ Plain \/ Acknowledge \/ ReturnFromHandler
         \/ \E b \in Iff : SetIff(b)
         \/ \E i \in Timers, c \in CtlWrites : WriteTimerCtl(i, c)
         \/ \E w \in Ier : WriteIer(w[1], w[2])
  PROVE  CpuInv'
<1>1. iff1 \in BOOLEAN /\ acked \in BOOLEAN
  BY DEF CpuInv
<1>2. CASE Plain
  BY <1>1, <1>2, RetireCpu DEF Plain
<1>3. CASE Acknowledge
  <2>1. iff1' = iff1 /\ mode' = mode /\ acked' = TRUE
    BY <1>3 DEF Acknowledge
  <2> QED BY <1>1, <1>3, <2>1, RetireCpu DEF Acknowledge
<1>4. CASE ReturnFromHandler
  BY <1>4, RetireCpu DEF ReturnFromHandler
<1>5. CASE \E b \in Iff : SetIff(b)
  BY <1>1, <1>5, AgonMachineAssumption, RetireCpu DEF SetIff
<1>6. CASE \E i \in Timers, c \in CtlWrites : WriteTimerCtl(i, c)
  BY <1>1, <1>6, RetireCpu DEF WriteTimerCtl
<1>7. CASE \E w \in Ier : WriteIer(w[1], w[2])
  BY <1>1, <1>7, RetireCpu DEF WriteIer
<1> QED BY <1>2, <1>3, <1>4, <1>5, <1>6, <1>7

LEMMA EnterCpu ==
  ASSUME CpuInv, NEW v \in Vectors, Enter(v), due' = due, owed' = owed, UNCHANGED reset
  PROVE  CpuInv'
BY DEF CpuInv, Enter, Stages, reset

LEMMA PollCpu ==
  ASSUME CpuInv, PortsInv, PollTimers \/ PollUart \/ FireGpio
  PROVE  CpuInv'
<1>1. CASE PollTimers
  <2>1. First(DueTimers) \in Vectors
    BY <1>1, FirstTimer DEF PollTimers, Vectors, TimerVectors
  <2> QED BY <1>1, <2>1, EnterCpu DEF PollTimers
<1>2. CASE PollUart
  <2>1. UartVector \in Vectors
    BY DEF Vectors
  <2>2. CASE Enter(UartVector)
    BY <1>2, <2>1, <2>2, EnterCpu DEF PollUart
  <2>3. CASE stage' = "snapshot" /\ UNCHANGED <<iff1, mode, acked>>
    BY <1>2, <2>3 DEF PollUart, CpuInv, Stages, reset
  <2> QED BY <1>2, <2>2, <2>3 DEF PollUart
<1>3. CASE FireGpio
  <2>1. CASE DuePins # {}
    <3>1. First(DuePins) \in Vectors
      BY <1>3, <2>1, FirstPin DEF FireGpio, Vectors, PinVectors
    <3> QED BY <1>3, <2>1, <3>1, EnterCpu DEF FireGpio
  <2>2. CASE DuePins = {}
    BY <1>3, <2>2 DEF FireGpio, CpuInv, Stages, reset
  <2> QED BY <2>1, <2>2
<1> QED BY <1>1, <1>2, <1>3

LEMMA OutsideCpu ==
  ASSUME CpuInv,
         \/ Vsync
         \/ \E port \in Ports, p \in Pins, state \in BOOLEAN : Joystick(port, p, state)
         \/ \E b \in Bytes : LinkSends(b)
         \/ RequestReset
         \/ UNCHANGED vars
  PROVE  CpuInv'
<1>1. CASE Vsync
  <2>1. VsyncVector \in PinVectors
    BY AgonMachineAssumption DEF VsyncVector, PinVectors, Ports
  <2> QED BY <1>1, <2>1 DEF Vsync, CpuInv, cpu, reset
<1>2. ASSUME NEW port \in Ports, NEW p \in Pins, NEW state \in BOOLEAN, Joystick(port, p, state)
      PROVE  CpuInv'
  <2>1. PinVector(port, p) \in PinVectors
    BY DEF PinVectors
  <2> QED BY <1>2, <2>1 DEF Joystick, CpuInv, cpu, reset
<1>3. CASE \E b \in Bytes : LinkSends(b)
  BY <1>3 DEF LinkSends, CpuInv, cpu, reset
<1>4. CASE RequestReset
  BY <1>4 DEF RequestReset, CpuInv, cpu
<1>5. CASE UNCHANGED vars
  BY <1>5 DEF vars, CpuInv, cpu, reset
<1> QED BY <1>1, <1>2, <1>3, <1>4, <1>5

LEMMA SnapshotCpu == ASSUME CpuInv, PortsInv, Snapshot PROVE CpuInv'
<1>1. \A port \in Ports : gpios[port].interrupt_due \in SUBSET Pins
  BY DEF PortsInv, G!Gpio
<1>2. due' \in [Ports -> SUBSET Pins]
  BY <1>1 DEF Snapshot
<1> QED BY <1>2 DEF Snapshot, CpuInv, Stages, reset

LEMMA NextCpu == CpuInv /\ PortsInv /\ [Next]_vars => CpuInv'
<1> SUFFICES ASSUME CpuInv, PortsInv, [Next]_vars PROVE CpuInv'
  OBVIOUS
<1>1. CASE LookForReset \/ SoftReset \/ ClearFlag \/ NoPoll
  BY <1>1 DEF LookForReset, SoftReset, ClearFlag, NoPoll, CpuInv, Stages, reset
<1>2. CASE PollTimers \/ PollUart \/ FireGpio
  BY <1>2, PollCpu
<1>3. CASE Snapshot
  BY <1>3, SnapshotCpu
<1>4. CASE \/ Plain \/ Acknowledge \/ ReturnFromHandler
           \/ \E b \in Iff : SetIff(b)
           \/ \E i \in Timers, c \in CtlWrites : WriteTimerCtl(i, c)
           \/ \E w \in Ier : WriteIer(w[1], w[2])
  BY <1>4, ExecuteCpu
<1>5. CASE \/ Vsync
           \/ (\E port \in Ports, p \in Pins, state \in BOOLEAN : Joystick(port, p, state))
           \/ (\E b \in Bytes : LinkSends(b)) \/ RequestReset \/ UNCHANGED vars
  BY <1>5, OutsideCpu
<1> QED BY <1>1, <1>2, <1>3, <1>4, <1>5 DEF Next

\* Every part of the machine keeps its type.
THEOREM TypeCorrect == Spec => []TypeOK
<1>1. ResetInv /\ PortsInv /\ EntryInv /\ LookInv /\ CpuInv => TypeOK
  <2> SUFFICES ASSUME ResetInv, PortsInv, EntryInv, LookInv, CpuInv PROVE TypeOK
    OBVIOUS
  <2>1. age \in 0 .. ResetEvery /\ count \in 0 .. ResetEvery - 1
    BY AgonMachineAssumption DEF ResetInv, Since
  <2> QED BY <2>1 DEF TypeOK, PortsInv, EntryInv, LookInv, CpuInv
<1> QED BY <1>1, InitReset, NextReset, InitPorts, NextPorts, InitEntry, NextEntry,
           InitLook, NextLook, InitCpu, NextCpu, PTL DEF Spec
=============================================================================
