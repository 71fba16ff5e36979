--------------------------- MODULE GpioLinkProofs ---------------------------
(***************************************************************************)
(* Proofs about what the CPU thread shares with the VDP thread: the port   *)
(* with the vsync pin (Gpio), for any set of pins, and then the serial     *)
(* link (VdpLink), for any number of packets, of any bytes.                *)
(***************************************************************************)
EXTENDS Gpio, VdpLink, SequenceTheorems, TLAPS

\* Putting levels on the inputs keeps the registers, and leaves an interrupt on
\* every pin in a level mode whose level is there.
LEMMA InputPins ==
  ASSUME NEW g \in Gpio, NEW levels \in SUBSET Pins
  PROVE  LET h == set_input_pins(g, levels)
         IN  /\ h \in Gpio /\ h.io_level = levels
             /\ h.dr = g.dr /\ h.ddr = g.ddr /\ h.alt1 = g.alt1 /\ h.alt2 = g.alt2
             /\ h.interrupt_due = g.interrupt_due \union Triggered(g, levels)
             /\ \A p : get_mode(h, p) = get_mode(g, p)
<1> DEFINE t == Triggered(g, levels)
           h == set_input_pins(g, levels)
<1>1. t \in SUBSET Pins
  BY DEF Triggered, In
<1>2. h = [g EXCEPT !.io_level = levels, !.interrupt_due = g.interrupt_due \union t]
  BY DEF set_input_pins
<1> HIDE DEF t, h
<1>3. /\ h \in Gpio /\ h.io_level = levels
      /\ h.dr = g.dr /\ h.ddr = g.ddr /\ h.alt1 = g.alt1 /\ h.alt2 = g.alt2
      /\ h.interrupt_due = g.interrupt_due \union t
  BY <1>1, <1>2 DEF Gpio
<1> QED BY <1>3 DEF t, h, get_mode

\* So does every port access and every change of the inputs, for each of them
\* ends by putting levels on the inputs.
Asserts(g) == \E f \in Gpio, levels \in SUBSET Pins : g = set_input_pins(f, levels)

LEMMA AssertsLevels ==
  ASSUME Asserts(gpio')
  PROVE  LevelAsserted'
<1> PICK f \in Gpio, levels \in SUBSET Pins : gpio' = set_input_pins(f, levels)
  BY DEF Asserts
<1>1. /\ gpio'.io_level = levels
      /\ gpio'.interrupt_due = f.interrupt_due \union Triggered(f, levels)
      /\ \A p : get_mode(gpio', p) = get_mode(f, p)
  BY InputPins
<1>2. ASSUME NEW p \in Pins, get_mode(f, p) = ActiveLow, p \notin levels
      PROVE  p \in gpio'.interrupt_due
  BY <1>1, <1>2 DEF Triggered, In
<1>3. ASSUME NEW p \in Pins, get_mode(f, p) = ActiveHigh, p \in levels
      PROVE  p \in gpio'.interrupt_due
  BY <1>1, <1>3 DEF Triggered, In
<1> QED BY <1>1, <1>2, <1>3 DEF LevelAsserted

\* The operations keep a port a port.
LEMMA Registers ==
  ASSUME NEW g \in Gpio, NEW v \in SUBSET Pins
  PROVE  /\ set_dr(g, v) \in Gpio /\ set_ddr(g, v) \in Gpio
         /\ set_alt1(g, v) \in Gpio /\ set_alt2(g, v) \in Gpio
<1>1. ASSUME NEW r \in SUBSET Pins, NEW m \in SUBSET Pins
      PROVE  Assign(r, v, m) \in SUBSET Pins
  BY <1>1 DEF Assign
<1>2. \A modes : In(g, modes) \in SUBSET Pins
  BY DEF In
<1>3. set_dr(g, v) \in Gpio
  <2> DEFINE l == Assign(g.io_level, v, In(g, OutputModes))
             r == Assign(g.dr, v, In(g, OutputModes \union InputModes))
             d == g.interrupt_due \ (v \intersect Acknowledged(g))
  <2>1. l \in SUBSET Pins /\ r \in SUBSET Pins /\ d \in SUBSET Pins
    BY <1>1, <1>2 DEF Gpio
  <2>2. set_dr(g, v) = [g EXCEPT !.io_level = l, !.dr = r, !.interrupt_due = d]
    BY DEF set_dr
  <2> HIDE DEF l, r, d
  <2> QED BY <2>1, <2>2 DEF Gpio
<1>4. /\ set_ddr(g, v) \in Gpio
      /\ set_alt1(g, v) \in Gpio /\ set_alt2(g, v) \in Gpio
  <2> DEFINE d == g.interrupt_due \ Xor(g.ddr, v)
  <2>1. d \in SUBSET Pins
    BY DEF Gpio
  <2>2. /\ set_ddr(g, v) = [g EXCEPT !.ddr = v, !.interrupt_due = d]
        /\ set_alt1(g, v) = [g EXCEPT !.alt1 = v, !.interrupt_due = d]
        /\ set_alt2(g, v) = [g EXCEPT !.alt2 = v, !.interrupt_due = d]
    BY DEF set_ddr, set_alt1, set_alt2
  <2> HIDE DEF d
  <2> QED BY <2>1, <2>2 DEF Gpio
<1> QED BY <1>3, <1>4

LEMMA UpdateAsserts ==
  ASSUME NEW g \in Gpio
  PROVE  update(g) \in Gpio /\ Asserts(update(g)) /\ update(g).io_level = g.io_level
         /\ \A p : get_mode(update(g), p) = get_mode(g, p)
<1>1. g.io_level \in SUBSET Pins
  BY DEF Gpio
<1> QED BY <1>1, InputPins DEF update, Asserts

LEMMA PinAsserts ==
  ASSUME NEW g \in Gpio, NEW p \in Pins, NEW state \in BOOLEAN
  PROVE  /\ set_input_pin(g, p, state) \in Gpio
         /\ Asserts(set_input_pin(g, p, state))
<1>1. g.io_level \union {p} \in SUBSET Pins /\ g.io_level \ {p} \in SUBSET Pins
  BY DEF Gpio
<1> QED BY <1>1, InputPins DEF set_input_pin, Asserts
-----------------------------------------------------------------------------
\* After a missed pulse the pin is low and in rising-edge mode, so the next
\* pulse is an edge.
ReadyForVsync ==
  misses # 0 => /\ misses = 1
                /\ get_mode(gpio, VsyncPin) = RisingEdge
                /\ VsyncPin \notin gpio.io_level

IInv == TypeOK /\ LevelAsserted /\ ReadyForVsync

LEMMA InitIInv == Init => IInv
<1> SUFFICES ASSUME Init PROVE IInv
  OBVIOUS
<1>1. TypeOK
  <2>1. 0 \in 0 .. 2
    BY SMT
  <2> QED BY <2>1 DEF Init, TypeOK, new, Gpio
<1>2. \A p \in Pins : get_mode(gpio, p) = 2
  BY SMT DEF Init, new, get_mode, Bit
<1>3. LevelAsserted
  <2>1. 2 # ActiveLow /\ 2 # ActiveHigh
    BY SMT DEF ActiveLow, ActiveHigh
  <2> QED BY <1>2, <2>1 DEF LevelAsserted
<1> QED BY <1>1, <1>3 DEF IInv, Init, ReadyForVsync

LEMMA StepWriteDr ==
  ASSUME IInv, NEW v \in SUBSET Pins, WriteDr(v) PROVE IInv'
<1> DEFINE g == set_dr(gpio, v)
<1>1. gpio \in Gpio /\ g \in Gpio /\ misses' = misses /\ misses \in 0 .. 2
  BY Registers DEF IInv, TypeOK, WriteDr
<1>2. /\ gpio' \in Gpio /\ Asserts(gpio') /\ gpio'.io_level = g.io_level
      /\ \A p : get_mode(gpio', p) = get_mode(g, p)
  BY <1>1, UpdateAsserts DEF WriteDr
<1>3. ReadyForVsync'
  <2> SUFFICES ASSUME misses # 0
               PROVE  get_mode(g, VsyncPin) = RisingEdge /\ VsyncPin \notin g.io_level
    BY <1>1, <1>2 DEF ReadyForVsync, IInv
  <2>1. get_mode(gpio, VsyncPin) = RisingEdge /\ VsyncPin \notin gpio.io_level
    BY DEF IInv, ReadyForVsync
  <2>2. /\ VsyncPin \notin In(gpio, OutputModes)
        /\ VsyncPin \notin In(gpio, OutputModes \union InputModes)
    BY <2>1, SMT DEF In, OutputModes, InputModes, RisingEdge
  <2>3. /\ g.io_level = Assign(gpio.io_level, v, In(gpio, OutputModes))
        /\ g.dr = Assign(gpio.dr, v, In(gpio, OutputModes \union InputModes))
        /\ g.ddr = gpio.ddr /\ g.alt1 = gpio.alt1 /\ g.alt2 = gpio.alt2
    BY <1>1 DEF set_dr, Gpio
  <2>4. /\ VsyncPin \in g.dr <=> VsyncPin \in gpio.dr
        /\ VsyncPin \notin g.io_level
    BY <2>1, <2>2, <2>3 DEF Assign
  <2>5. get_mode(g, VsyncPin) = get_mode(gpio, VsyncPin)
    BY <2>3, <2>4 DEF get_mode, Bit
  <2> QED BY <2>1, <2>4, <2>5
<1> QED BY <1>1, <1>2, <1>3, AssertsLevels DEF IInv, TypeOK

LEMMA StepConfigure ==
  ASSUME IInv, NEW v \in SUBSET Pins, WriteDdr(v) \/ WriteAlt1(v) \/ WriteAlt2(v)
  PROVE  IInv'
<1>1. gpio \in Gpio
  BY DEF IInv, TypeOK
<1>2. PICK g \in Gpio : gpio' = update(g)
  BY <1>1, Registers DEF WriteDdr, WriteAlt1, WriteAlt2
<1>3. gpio' \in Gpio /\ LevelAsserted'
  BY <1>2, UpdateAsserts, AssertsLevels
<1>4. misses' = 0
  BY DEF WriteDdr, WriteAlt1, WriteAlt2
<1>5. misses' \in 0 .. 2
  BY <1>4, SMT
<1> QED BY <1>3, <1>4, <1>5 DEF IInv, TypeOK, ReadyForVsync

LEMMA StepVsync == ASSUME IInv, Vsync PROVE IInv'
<1> DEFINE up == gpio.io_level \union {VsyncPin}
           g == set_input_pins(gpio, up)
           down == g.io_level \ {VsyncPin}
<1>1. gpio \in Gpio /\ up \in SUBSET Pins
  BY GpioAssumption DEF IInv, TypeOK, Gpio
<1>2. /\ g \in Gpio /\ g.io_level = up
      /\ g.interrupt_due = gpio.interrupt_due \union Triggered(gpio, up)
      /\ \A p : get_mode(g, p) = get_mode(gpio, p)
  BY <1>1, InputPins
<1>3. gpio' = set_input_pins(g, down)
  BY DEF Vsync, Pulse, set_input_pin
<1> HIDE DEF g
<1>4. down \in SUBSET Pins /\ VsyncPin \notin down
  BY <1>1, <1>2
<1>5. /\ gpio' \in Gpio /\ Asserts(gpio') /\ gpio'.io_level = down
      /\ gpio'.interrupt_due = g.interrupt_due \union Triggered(g, down)
      /\ \A p : get_mode(gpio', p) = get_mode(g, p)
  BY <1>2, <1>3, <1>4, InputPins DEF Asserts
<1>6. ASSUME get_mode(gpio, VsyncPin) = RisingEdge, VsyncPin \notin gpio.io_level
      PROVE  VsyncPin \in gpio'.interrupt_due
  <2>1. VsyncPin \in Triggered(gpio, up)
    BY <1>6, GpioAssumption DEF Triggered, In
  <2> QED BY <2>1, <1>2, <1>5
<1>7. misses \in {0, 1, 2} /\ (misses # 0 => misses = 1)
  BY SMT DEF IInv, TypeOK, ReadyForVsync
<1>8. misses' \in 0 .. 2 /\ ReadyForVsync'
  <2>1. CASE misses = 0 /\ Missed
    <3>1. misses' = 1 /\ get_mode(gpio, VsyncPin) = RisingEdge
      BY <2>1, SMT DEF Vsync, Missed
    <3>2. 1 \in 0 .. 2
      BY SMT
    <3> QED BY <3>1, <3>2, <1>2, <1>4, <1>5 DEF ReadyForVsync
  <2>2. CASE misses = 0 /\ ~ Missed
    <3>1. misses' = 0 /\ 0 \in 0 .. 2
      BY <2>2, SMT DEF Vsync
    <3> QED BY <3>1 DEF ReadyForVsync
  <2>3. CASE misses # 0
    <3>1. misses = 1 /\ get_mode(gpio, VsyncPin) = RisingEdge /\ ~ Missed
      BY <2>3, <1>6 DEF IInv, ReadyForVsync, Missed
    <3>2. misses' = 1 /\ 1 \in 0 .. 2
      BY <3>1, SMT DEF Vsync
    <3> QED BY <3>1, <3>2, <1>2, <1>4, <1>5 DEF ReadyForVsync
  <2> QED BY <2>1, <2>2, <2>3
<1> QED BY <1>5, <1>8, AssertsLevels DEF IInv, TypeOK

LEMMA StepSetInputPin ==
  ASSUME IInv, NEW p \in Pins, NEW state \in BOOLEAN, SetInputPin(p, state)
  PROVE  IInv'
<1> DEFINE levels == IF state THEN gpio.io_level \union {p} ELSE gpio.io_level \ {p}
<1>1. gpio \in Gpio /\ misses \in 0 .. 2 /\ misses' = misses /\ p # VsyncPin
      /\ gpio' = set_input_pins(gpio, levels)
  BY DEF IInv, TypeOK, SetInputPin, set_input_pin
<1>2. levels \in SUBSET Pins
      /\ (VsyncPin \in levels <=> VsyncPin \in gpio.io_level)
  BY <1>1 DEF Gpio
<1>3. /\ gpio' \in Gpio /\ Asserts(gpio') /\ gpio'.io_level = levels
      /\ \A q : get_mode(gpio', q) = get_mode(gpio, q)
  BY <1>1, <1>2, InputPins DEF Asserts
<1>4. ReadyForVsync'
  BY <1>1, <1>2, <1>3 DEF IInv, ReadyForVsync
<1> QED BY <1>1, <1>3, <1>4, AssertsLevels DEF IInv, TypeOK

THEOREM Invariance == Spec => []IInv
<1>1. IInv /\ [Next]_vars => IInv'
  <2> SUFFICES ASSUME IInv, [Next]_vars PROVE IInv'
    OBVIOUS
  <2>1. CASE \E v \in SUBSET Pins : WriteDr(v)
    BY <2>1, StepWriteDr
  <2>2. CASE \E v \in SUBSET Pins : WriteDdr(v) \/ WriteAlt1(v) \/ WriteAlt2(v)
    BY <2>2, StepConfigure
  <2>3. CASE Vsync
    BY <2>3, StepVsync
  <2>4. CASE \E p \in Pins, state \in BOOLEAN : SetInputPin(p, state)
    BY <2>4, StepSetInputPin
  <2>5. CASE UNCHANGED vars
    BY <2>5 DEF vars, IInv, TypeOK, LevelAsserted, ReadyForVsync
  <2> QED BY <2>1, <2>2, <2>3, <2>4, <2>5 DEF Next
<1> QED BY <1>1, InitIInv, PTL DEF Spec

\* The registers of a port hold pins of the port (gpio.rs:17-26).
THEOREM TypeCorrect == Spec => []TypeOK
<1>1. IInv => TypeOK
  BY DEF IInv
<1> QED BY <1>1, Invariance, PTL

\* A level that is there has its interrupt pending (gpio.rs:176-185).
THEOREM Levels == Spec => []LevelAsserted
<1>1. IInv => LevelAsserted
  BY DEF IInv
<1> QED BY <1>1, Invariance, PTL

\* At most the first vsync after a configuration is missed (gpio.rs:189-190).
THEOREM VsyncSeen == Spec => []AtMostOneMissed
<1>1. IInv => AtMostOneMissed
  BY SMT DEF IInv, TypeOK, ReadyForVsync, AtMostOneMissed
<1> QED BY <1>1, Invariance, PTL
-----------------------------------------------------------------------------
\* Levels on the inputs take no interrupt away, and a write to DR takes those of
\* the bits written, the update behind it included.
LEMMA InputsKeep ==
  ASSUME NEW g \in Gpio, NEW p \in Pins, NEW state \in BOOLEAN
  PROVE  g.interrupt_due \subseteq set_input_pin(g, p, state).interrupt_due
<1>1. g.io_level \union {p} \in SUBSET Pins /\ g.io_level \ {p} \in SUBSET Pins
  BY DEF Gpio
<1> QED BY <1>1, InputPins DEF set_input_pin

LEMMA DrKeeps ==
  ASSUME NEW g \in Gpio, NEW v \in SUBSET Pins
  PROVE  g.interrupt_due \ update(set_dr(g, v)).interrupt_due \subseteq v
<1> DEFINE h == set_dr(g, v)
           l == Assign(g.io_level, v, In(g, OutputModes))
           r == Assign(g.dr, v, In(g, OutputModes \union InputModes))
           d == g.interrupt_due \ (v \intersect Acknowledged(g))
<1>1. h \in Gpio /\ h.io_level \in SUBSET Pins
  BY Registers DEF Gpio
<1>2. h = [g EXCEPT !.io_level = l, !.dr = r, !.interrupt_due = d]
  BY DEF set_dr
<1>3. d = g.interrupt_due \ (v \intersect Acknowledged(g))
  OBVIOUS
<1> HIDE DEF l, r, d
<1>4. h.interrupt_due = d
  BY <1>2 DEF Gpio
<1> HIDE DEF h
<1>5. h.interrupt_due \subseteq update(h).interrupt_due
  BY <1>1, InputPins DEF update
<1> QED BY <1>3, <1>4, <1>5 DEF h

\* No thread that drives an input takes away an interrupt the CPU has not seen
\* (gpio.rs:154-195).
THEOREM NothingLost == Spec => PendingUntilAcknowledged
<1> DEFINE A == \A p \in gpio.interrupt_due \ gpio'.interrupt_due :
                  \/ \E v \in SUBSET Pins : p \in v /\ WriteDr(v)
                  \/ Configure
<1>1. TypeOK /\ [Next]_vars => [A]_vars
  <2> SUFFICES ASSUME TypeOK, Next, NEW p \in gpio.interrupt_due, p \notin gpio'.interrupt_due
               PROVE  (\E v \in SUBSET Pins : p \in v /\ WriteDr(v)) \/ Configure
    OBVIOUS
  <2>1. gpio \in Gpio
    BY DEF TypeOK
  <2>2. ASSUME NEW v \in SUBSET Pins, WriteDr(v) PROVE p \in v
    BY <2>1, <2>2, DrKeeps DEF WriteDr
  <2>3. ~ Vsync
    <3> SUFFICES ASSUME Vsync PROVE FALSE
      OBVIOUS
    <3> DEFINE g == set_input_pin(gpio, VsyncPin, TRUE)
    <3>1. g \in Gpio /\ gpio.interrupt_due \subseteq g.interrupt_due
      BY <2>1, GpioAssumption, PinAsserts, InputsKeep
    <3>2. gpio' = set_input_pin(g, VsyncPin, FALSE)
      BY DEF Vsync, Pulse
    <3> HIDE DEF g
    <3>3. g.interrupt_due \subseteq gpio'.interrupt_due
      BY <3>1, <3>2, GpioAssumption, InputsKeep
    <3> QED BY <3>1, <3>3
  <2>4. ASSUME NEW q \in Pins, NEW state \in BOOLEAN PROVE ~ SetInputPin(q, state)
    BY <2>1, InputsKeep DEF SetInputPin
  <2> QED BY <2>2, <2>3, <2>4 DEF Next, Configure
<1> QED BY TypeCorrect, <1>1, PTL DEF Spec, PendingUntilAcknowledged
-----------------------------------------------------------------------------
\* What handle_vdp can have taken of a packet that is not whole.
Partials == {<<>>, <<Colour>>, <<Vdu23>>, <<Vdu23, 0>>, <<Vdu23, 0, Poll>>, <<Vdu23, 0, Rtc>>}

\* What it has after one more byte.
After(q, b) == LET p == Append(q, b) IN IF Len(p) = Length(p) THEN <<>> ELSE p

\* Appending, told element by element.
LEMMA Pushed ==
  ASSUME NEW q \in Seq(Byte), NEW b \in Byte, NEW r \in Seq(Byte), Len(r) = Len(q) + 1,
         r[Len(q) + 1] = b, \A i \in 1 .. Len(q) : r[i] = q[i]
  PROVE  Append(q, b) = r
<1>1. /\ Append(q, b) \in Seq(Byte) /\ Len(Append(q, b)) = Len(r)
      /\ \A i \in 1 .. Len(Append(q, b)) : Append(q, b)[i] = r[i]
  OBVIOUS
<1> QED BY <1>1, SeqEqual

\* What the packets begin with, a byte longer.
LEMMA Longer ==
  ASSUME NEW b \in Byte
  PROVE  /\ Append(<<>>, b) = <<b>>
         /\ Append(<<Colour>>, b) = <<Colour, b>>
         /\ Append(<<Vdu23>>, b) = <<Vdu23, b>>
         /\ Append(<<Vdu23, 0>>, b) = <<Vdu23, 0, b>>
         /\ Append(<<Vdu23, 0, Poll>>, b) = <<Vdu23, 0, Poll, b>>
         /\ Append(<<Vdu23, 0, Rtc>>, b) = <<Vdu23, 0, Rtc, b>>
<1> DEFINE Goal(q, r) == Append(q, b) = r
<1>0. {0, Colour, Vdu23, Poll, Rtc} \subseteq Byte
  BY DEF Byte, Colour, Vdu23, Poll, Rtc
<1>1. Append(<<>>, b) = <<b>>
  OBVIOUS
<1>2. ASSUME NEW x \in Byte
      PROVE  Append(<<x>>, b) = <<x, b>>
  <2> DEFINE q == <<x>>
             r == <<x, b>>
  <2>1. q \in Seq(Byte) /\ r \in Seq(Byte)
    OBVIOUS
  <2>2. Len(q) = 1 /\ Len(r) = 2 /\ r[1] = x /\ r[2] = b /\ q[1] = x
    OBVIOUS
  <2> HIDE DEF q, r
  <2>3. Len(r) = Len(q) + 1 /\ r[Len(q) + 1] = b
    BY <2>2
  <2>4. \A i \in 1 .. Len(q) : r[i] = q[i]
    BY <2>2
  <2>5. Append(q, b) = r
    BY <2>1, <2>3, <2>4, Pushed
  <2> QED BY <2>5 DEF q, r
<1>3. ASSUME NEW x \in Byte, NEW y \in Byte
      PROVE  Append(<<x, y>>, b) = <<x, y, b>>
  <2> DEFINE q == <<x, y>>
             r == <<x, y, b>>
  <2>1. q \in Seq(Byte) /\ r \in Seq(Byte)
    OBVIOUS
  <2>2. Len(q) = 2 /\ Len(r) = 3 /\ r[1] = x /\ r[2] = y /\ r[3] = b /\ q[1] = x /\ q[2] = y
    OBVIOUS
  <2> HIDE DEF q, r
  <2>3. Len(r) = Len(q) + 1 /\ r[Len(q) + 1] = b
    BY <2>2
  <2>4. \A i \in 1 .. Len(q) : r[i] = q[i]
    BY <2>2
  <2>5. Append(q, b) = r
    BY <2>1, <2>3, <2>4, Pushed
  <2> QED BY <2>5 DEF q, r
<1>4. ASSUME NEW x \in Byte, NEW y \in Byte, NEW z \in Byte
      PROVE  Append(<<x, y, z>>, b) = <<x, y, z, b>>
  <2> DEFINE q == <<x, y, z>>
             r == <<x, y, z, b>>
  <2>1. q \in Seq(Byte) /\ r \in Seq(Byte)
    OBVIOUS
  <2>2. Len(q) = 3 /\ Len(r) = 4 /\ r[1] = x /\ r[2] = y /\ r[3] = z /\ r[4] = b /\ q[1] = x /\ q[2] = y /\ q[3] = z
    OBVIOUS
  <2> HIDE DEF q, r
  <2>3. Len(r) = Len(q) + 1 /\ r[Len(q) + 1] = b
    BY <2>2
  <2>4. \A i \in 1 .. Len(q) : r[i] = q[i]
    BY <2>2
  <2>5. Append(q, b) = r
    BY <2>1, <2>3, <2>4, Pushed
  <2> QED BY <2>5 DEF q, r
<1> QED BY <1>0, <1>1, <1>2, <1>3, <1>4

\* One more byte, for each of the things that can have been taken.
LEMMA Table ==
  ASSUME NEW b \in Byte
  PROVE  /\ After(<<>>, b) = IF b \in {Colour, Vdu23} THEN <<b>> ELSE <<>>
         /\ After(<<Colour>>, b) = <<>>
         /\ After(<<Vdu23>>, b) = IF b = 0 THEN <<Vdu23, 0>> ELSE <<>>
         /\ After(<<Vdu23, 0>>, b) = IF b \in {Poll, Rtc} THEN <<Vdu23, 0, b>> ELSE <<>>
         /\ After(<<Vdu23, 0, Poll>>, b) = <<>>
         /\ After(<<Vdu23, 0, Rtc>>, b) = <<>>
<1>a. After(<<>>, b) = IF b \in {Colour, Vdu23} THEN <<b>> ELSE <<>>
  BY Longer DEF After, Length
<1>b. After(<<Colour>>, b) = <<>>
  BY Longer DEF After, Length
<1>c. After(<<Vdu23>>, b) = IF b = 0 THEN <<Vdu23, 0>> ELSE <<>>
  <2>1. Len(<<Vdu23, b>>) = 2 /\ Length(<<Vdu23, b>>) = IF b = 0 THEN 3 ELSE 2
    BY DEF Length, Colour, Vdu23
  <2>2. After(<<Vdu23>>, b) = IF b = 0 THEN <<Vdu23, b>> ELSE <<>>
    <3>1. After(<<Vdu23>>, b)
            = IF Len(<<Vdu23, b>>) = Length(<<Vdu23, b>>) THEN <<>> ELSE <<Vdu23, b>>
      BY Longer DEF After
    <3> QED BY <2>1, <3>1
  <2> QED BY <2>2
<1>d. After(<<Vdu23, 0>>, b) = IF b \in {Poll, Rtc} THEN <<Vdu23, 0, b>> ELSE <<>>
  <2>1. Len(<<Vdu23, 0, b>>) = 3 /\ Length(<<Vdu23, 0, b>>) = IF b \in {Poll, Rtc} THEN 4 ELSE 3
    BY DEF Length, Colour, Vdu23
  <2>2. After(<<Vdu23, 0>>, b)
          = IF Len(<<Vdu23, 0, b>>) = Length(<<Vdu23, 0, b>>) THEN <<>> ELSE <<Vdu23, 0, b>>
    BY Longer DEF After
  <2> QED BY <2>1, <2>2
<1>e. After(<<Vdu23, 0, Poll>>, b) = <<>>
  BY Longer DEF After, Length, Colour, Vdu23
<1>f. After(<<Vdu23, 0, Rtc>>, b) = <<>>
  BY Longer DEF After, Length, Colour, Vdu23
<1> QED BY <1>a, <1>b, <1>c, <1>d, <1>e, <1>f

\* They are of three bytes at most.
LEMMA PartialsAre ==
  ASSUME NEW q \in Partials
  PROVE  q \in Seq(Byte) /\ Len(q) \in Nat /\ Len(q) <= 3 /\ (Len(q) = 0 <=> q = <<>>)
<1>1. {0, Colour, Vdu23, Poll, Rtc} \subseteq Byte
  BY DEF Byte, Colour, Vdu23, Poll, Rtc
<1>2. CASE q = <<>>
  BY <1>2
<1>3. ASSUME NEW x \in Byte, q = <<x>>
      PROVE  q \in Seq(Byte) /\ Len(q) \in Nat /\ Len(q) <= 3
  BY <1>3
<1>4. ASSUME NEW x \in Byte, NEW y \in Byte, q = <<x, y>>
      PROVE  q \in Seq(Byte) /\ Len(q) \in Nat /\ Len(q) <= 3
  BY <1>4
<1>5. ASSUME NEW x \in Byte, NEW y \in Byte, NEW z \in Byte, q = <<x, y, z>>
      PROVE  q \in Seq(Byte) /\ Len(q) \in Nat /\ Len(q) <= 3
  BY <1>5
<1>6. q \in Seq(Byte) /\ Len(q) \in Nat /\ Len(q) <= 3
  BY <1>1, <1>2, <1>3, <1>4, <1>5 DEF Partials
<1>7. q # <<>> => Len(q) \in Nat \ {0}
  BY <1>6, EmptySeq
<1>8. q = <<>> => Len(q) = 0
  OBVIOUS
<1>9. Len(q) = 0 <=> q = <<>>
  BY <1>7, <1>8
<1> QED BY <1>6, <1>9

\* They stay what they are with one more byte, or the packet is handled.
LEMMA AfterIs ==
  ASSUME NEW q \in Partials, NEW b \in Byte
  PROVE  /\ After(q, b) \in Partials
         /\ After(q, b) = <<>> \/ Len(After(q, b)) = Len(q) + 1
         /\ q = <<>> /\ b \notin {Colour, Vdu23} => After(q, b) = <<>>
<1>0. /\ Len(<<>>) = 0 /\ Len(<<b>>) = 1 /\ Len(<<Vdu23>>) = 1 /\ Len(<<Vdu23, 0>>) = 2
      /\ Len(<<Vdu23, 0, b>>) = 3
  OBVIOUS
<1>1. CASE q = <<>>
  <2>1. CASE b \in {Colour, Vdu23}
    <3>1. After(q, b) = <<b>>
      BY <1>1, <2>1, Table
    <3>2. <<b>> \in Partials
      BY <2>1 DEF Partials
    <3> QED BY <1>0, <1>1, <2>1, <3>1, <3>2
  <2>2. CASE b \notin {Colour, Vdu23}
    BY <1>1, <2>2, Table DEF Partials
  <2> QED BY <2>1, <2>2
<1>2. CASE q = <<Vdu23>>
  <2>1. CASE b = 0
    <3>1. After(q, b) = <<Vdu23, 0>>
      BY <1>2, <2>1, Table
    <3> QED BY <1>0, <1>2, <3>1 DEF Partials
  <2>2. CASE b # 0
    BY <1>0, <1>2, <2>2, Table DEF Partials
  <2> QED BY <2>1, <2>2
<1>3. CASE q = <<Vdu23, 0>>
  <2>1. CASE b \in {Poll, Rtc}
    <3>1. After(q, b) = <<Vdu23, 0, b>>
      BY <1>3, <2>1, Table
    <3>2. <<Vdu23, 0, b>> \in Partials
      BY <2>1 DEF Partials
    <3> QED BY <1>0, <1>3, <3>1, <3>2
  <2>2. CASE b \notin {Poll, Rtc}
    BY <1>0, <1>3, <2>2, Table DEF Partials
  <2> QED BY <2>1, <2>2
<1>4. CASE q \in {<<Colour>>, <<Vdu23, 0, Poll>>, <<Vdu23, 0, Rtc>>}
  BY <1>4, Table DEF Partials
<1> QED BY <1>1, <1>2, <1>3, <1>4 DEF Partials

\* Only a general poll is answered with an echo, which is that of its last byte.
LEMMA AnswerIs ==
  ASSUME NEW q \in Partials, NEW b \in Byte, Len(Append(q, b)) = Length(Append(q, b))
  PROVE  \/ q = <<Vdu23, 0, Poll>> /\ Answer(Append(q, b)) = << <<Poll, b>> >>
         \/ /\ q # <<Vdu23, 0, Poll>>
            /\ Answer(Append(q, b)) \in {<<>>, << <<ModeInfo>> >>, << <<Rtc>> >>}
<1> DEFINE p == Append(q, b)
<1>1. CASE q = <<>>
  <2>1. p = <<b>>
    BY <1>1
  <2>2. ~ Is(p, Poll) /\ ~ Is(p, ModeInfo) /\ ~ Is(p, Rtc)
    BY <2>1 DEF Is
  <2> QED BY <1>1, <2>2 DEF Answer
<1>2. CASE q = <<Colour>>
  <2>1. p = <<Colour, b>>
    BY <1>2, Longer
  <2>2. ~ Is(p, Poll) /\ ~ Is(p, ModeInfo) /\ ~ Is(p, Rtc)
    BY <2>1 DEF Is
  <2> QED BY <1>2, <2>2 DEF Answer, Colour, Vdu23
<1>3. CASE q = <<Vdu23>>
  <2>1. p = <<Vdu23, b>>
    BY <1>3, Longer
  <2>2. ~ Is(p, Poll) /\ ~ Is(p, ModeInfo) /\ ~ Is(p, Rtc)
    BY <2>1 DEF Is
  <2> QED BY <1>3, <2>2 DEF Answer, Vdu23
<1>4. CASE q = <<Vdu23, 0>>
  <2>1. p = <<Vdu23, 0, b>>
    BY <1>4, Longer
  <2>2. ~ Is(p, Poll) /\ ~ Is(p, Rtc)
    BY <2>1 DEF Is, Length, Vdu23, Colour, Poll, Rtc
  <2> QED BY <1>4, <2>2 DEF Answer, Vdu23
<1>5. CASE q = <<Vdu23, 0, Poll>>
  <2>1. p = <<Vdu23, 0, Poll, b>>
    BY <1>5, Longer
  <2>2. Is(p, Poll) /\ p[4] = b
    BY <2>1 DEF Is
  <2>3. ~ Is(p, ModeInfo) /\ ~ Is(p, Rtc)
    BY <2>1 DEF Is, Poll, ModeInfo, Rtc
  <2> QED BY <1>5, <2>2, <2>3 DEF Answer
<1>6. CASE q = <<Vdu23, 0, Rtc>>
  <2>1. p = <<Vdu23, 0, Rtc, b>>
    BY <1>6, Longer
  <2>2. ~ Is(p, Poll) /\ ~ Is(p, ModeInfo)
    BY <2>1 DEF Is, Poll, ModeInfo, Rtc
  <2> QED BY <1>6, <2>2 DEF Answer, Vdu23, Poll, Rtc
<1> QED BY <1>1, <1>2, <1>3, <1>4, <1>5, <1>6 DEF Partials

\* The bytes of a packet up to its last are something handle_vdp can have taken,
\* and with the last it is whole.
LEMMA OneMore ==
  ASSUME NEW w \in Seq(Byte), Len(w) = Length(w), NEW q \in Partials, Len(q) < Len(w),
         \A i \in 1 .. Len(q) : q[i] = w[i], NEW b, b = w[Len(q) + 1]
  PROVE  /\ b \in Byte
         /\ Len(q) + 1 = Len(w) => After(q, b) = <<>>
         /\ Len(q) + 1 < Len(w) => After(q, b) = Append(q, b)
<1>0. b \in Byte
  BY PartialsAre
<1>1. CASE q = <<>>
  <2>1. Len(q) = 0 /\ b = w[1]
    BY <1>1
  <2>2. CASE b \in {Colour, Vdu23}
    <3>1. Len(w) # 1
      <4>1. w[1] = Colour => Length(w) = 2
        BY Zenon DEF Length
      <4>2. w[1] # Colour /\ w[1] = Vdu23 => Length(w) \in {2, 3, 4}
        BY Zenon DEF Length
      <4> QED BY <2>1, <2>2, <4>1, <4>2
    <3>2. After(q, b) = Append(q, b)
      BY <1>0, <1>1, <2>2, Table, Longer
    <3> QED BY <1>0, <2>1, <3>1, <3>2
  <2>3. CASE b \notin {Colour, Vdu23}
    <3>1. Len(w) = 1
      BY <2>1, <2>3 DEF Length
    <3>2. After(q, b) = <<>>
      BY <1>0, <1>1, <2>3, Table
    <3> QED BY <1>0, <2>1, <3>1, <3>2
  <2> QED BY <2>2, <2>3
<1>2. CASE q = <<Colour>>
  <2>1. Len(q) = 1 /\ w[1] = Colour
    BY <1>2
  <2>2. Len(w) = 2
    BY <2>1 DEF Length
  <2>3. After(q, b) = <<>>
    BY <1>0, <1>2, Table
  <2> QED BY <1>0, <2>1, <2>2, <2>3
<1>3. CASE q = <<Vdu23>>
  <2>0. Len(q) = 1 /\ q[1] = Vdu23
    BY <1>3
  <2>1. Len(q) = 1 /\ w[1] = Vdu23 /\ b = w[2]
    BY <2>0
  <2>2. CASE b = 0
    <3>1. Len(w) # 2
      <4>1. w[1] # Colour /\ ~ (Len(w) = 1 \/ w[2] # 0)
        BY <2>1, <2>2 DEF Colour, Vdu23
      <4> QED BY <2>1, <4>1 DEF Length, Colour, Vdu23
    <3>2. After(q, b) = Append(q, b)
      BY <1>0, <1>3, <2>2, Table, Longer
    <3> QED BY <1>0, <2>1, <3>1, <3>2
  <2>3. CASE b # 0
    <3>1. Len(w) = 2
      BY <2>1, <2>3 DEF Length, Colour, Vdu23
    <3>2. After(q, b) = <<>>
      BY <1>0, <1>3, <2>3, Table
    <3> QED BY <1>0, <2>1, <3>1, <3>2
  <2> QED BY <2>2, <2>3
<1>4. CASE q = <<Vdu23, 0>>
  <2>0. Len(q) = 2 /\ q[1] = Vdu23 /\ q[2] = 0
    BY <1>4
  <2>1. Len(q) = 2 /\ w[1] = Vdu23 /\ w[2] = 0 /\ b = w[3]
    BY <2>0
  <2>2. CASE b \in {Poll, Rtc}
    <3>1. Len(w) # 3
      <4>1. w[1] # Colour /\ ~ (Len(w) = 1 \/ w[2] # 0) /\ ~ (Len(w) = 2 \/ w[3] \notin {Poll, Rtc})
        BY <2>1, <2>2 DEF Colour, Vdu23
      <4> QED BY <2>1, <4>1 DEF Length
    <3>2. After(q, b) = Append(q, b)
      BY <1>0, <1>4, <2>2, Table, Longer
    <3> QED BY <1>0, <2>1, <3>1, <3>2
  <2>3. CASE b \notin {Poll, Rtc}
    <3>1. Len(w) = 3
      BY <2>1, <2>3 DEF Length, Colour, Vdu23
    <3> QED BY <1>0, <1>4, <2>1, <2>3, <3>1, Table
  <2> QED BY <2>2, <2>3
<1>5. CASE q \in {<<Vdu23, 0, Poll>>, <<Vdu23, 0, Rtc>>}
  <2>0. Len(q) = 3 /\ q[1] = Vdu23 /\ q[2] = 0 /\ q[3] \in {Poll, Rtc}
    BY <1>5
  <2>1. Len(q) = 3 /\ w[1] = Vdu23 /\ w[2] = 0 /\ w[3] \in {Poll, Rtc}
    BY <2>0
  <2>2. Len(w) = 4
    BY <2>1 DEF Length, Colour, Vdu23
  <2>3. After(q, b) = <<>>
    BY <1>0, <1>5, Table
  <2> QED BY <1>0, <2>1, <2>2, <2>3
<1> QED BY <1>1, <1>2, <1>3, <1>4, <1>5 DEF Partials
-----------------------------------------------------------------------------
\* What is invariant about the link
OnTheWay(k, n) == k \in DOMAIN to_vdp /\ to_vdp[k] = n

\* What handle_vdp will have taken after each of the bytes on the way.
Parsing(pend) ==
  /\ pend \in [0 .. Len(to_vdp) -> Partials]
  /\ pend[0] = taken
  /\ \A k \in 1 .. Len(to_vdp) : pend[k] = After(pend[k - 1], to_vdp[k])

\* The program is in the packet w, and the VDP will have taken what has been sent.
Midway(q, w) ==
  /\ Len(q) + Len(rest) = Len(w) /\ Len(rest) > 0
  /\ \A i \in 1 .. Len(q) : q[i] = w[i]
  /\ \A i \in 1 .. Len(rest) : rest[i] = w[Len(q) + i]

InStep(q) ==
  \/ q = <<>> /\ rest = <<>>
  \/ \E w \in Others \union {PollPacket(begun)} : Midway(q, w)

\* A packet cut short has ended with an argument of the next one: the arguments
\* that are left are packets of their own, but for a last one that misleads.
Arguments(q) ==
  /\ q = <<>> /\ rest # <<>> /\ since + Len(rest) <= Settled
  /\ rest[1] \in {Colour, Vdu23} => Len(rest) = 1

\* It has not ended yet.
Behind(q) == Len(q) > since

Step(q) == InStep(q) \/ Arguments(q) \/ Behind(q)

\* What the program has yet to send ends a packet: only its last byte may look like
\* the first of one, or be the number of a poll.
RestOK ==
  /\ Len(rest) <= 4 /\ (rest # <<>> => begun \in Number)
  /\ \A i \in 2 .. Len(rest) : rest[i] \in {Colour, Vdu23} => i = Len(rest)
  /\ \A i \in 1 .. Len(rest) : rest[i] \in Number => rest[i] = begun /\ i = Len(rest)

\* The number n has been sent, if it is that of a poll.
Past(n) == n < begun \/ (n = begun /\ rest = <<>>)

\* Numbers only grow, from the first echo to the last byte sent.
NumbersOK ==
  \A i, j \in Nat, m, n \in Number :
    /\ OnTheWay(i, m) \/ Echoed(i, m) => Past(m)
    /\ OnTheWay(i, m) /\ OnTheWay(j, n) /\ i < j => m < n
    /\ Echoed(i, m) /\ OnTheWay(j, n) => m < n
    /\ Echoed(i, m) /\ Echoed(j, n) /\ i < j => m < n

\* A poll that the VDP is sure to see is echoed, or its last byte is on the way
\* and the VDP will have taken the others.
AskedOK(pend) ==
  \A m \in asked :
    \/ \E i \in Nat : Echoed(i, m)
    \/ \E k \in Nat : OnTheWay(k, m) /\ pend[k - 1] = <<Vdu23, 0, Poll>>

\* Without resets the VDP is sure to see every poll.
NoResetsOK ==
  resets = 0 =>
    /\ since = Settled
    /\ \A i \in Nat, m \in Number : OnTheWay(i, m) \/ Echoed(i, m) => m \in asked

Parsed == \E pend : Parsing(pend) /\ AskedOK(pend) /\ Step(pend[Len(to_vdp)])

LinkInv == LinkTypeOK /\ RestOK /\ NumbersOK /\ NoResetsOK /\ Parsed

\* The packets of the program.
LEMMA PacketIs ==
  ASSUME NEW n \in Number, NEW w \in Others \union {PollPacket(n)}
  PROVE  /\ w \in Seq(Byte) /\ w # <<>> /\ Len(w) = Length(w) /\ Len(w) \in Nat /\ Len(w) >= 1 /\ Len(w) <= 4
         /\ \A i \in 2 .. Len(w) : w[i] \in {Colour, Vdu23} => i = Len(w)
         /\ \A i \in 1 .. Len(w) : w[i] \in Number => w = PollPacket(n) /\ w[i] = n /\ i = Len(w)
<1>1. CASE w \in Others
  <2>1. w \in Seq(Byte) /\ w # <<>> /\ Len(w) = Length(w)
    BY <1>1, VdpLinkAssumption DEF Byte
  <2>2. DOMAIN w = 1 .. Len(w) /\ Len(w) \in Nat /\ Len(w) # 0
    BY <2>1
  <2>3. ASSUME NEW i \in 1 .. Len(w) PROVE w[i] \notin Number
    <3>1. w \in Seq(0 .. 255)
      BY <1>1, VdpLinkAssumption
    <3>2. w[i] \in 0 .. 255
      BY <3>1, ElementOfSeq
    <3>3. MaxPackets \in Nat
      BY VdpLinkAssumption
    <3>4. ASSUME NEW m \in 256 .. 255 + MaxPackets PROVE m \notin 0 .. 255
      BY <3>3, <3>4
    <3> QED BY <3>2, <3>4 DEF Number
  <2>4. Length(w) \in 1 .. 4
    BY DEF Length
  <2>5. ASSUME NEW i \in 2 .. Len(w), w[i] \in {Colour, Vdu23} PROVE i = Len(w)
    <3>1. i = 2 \/ i = 3 \/ i = 4
      BY <2>1, <2>2, <2>4
    <3>2. w[i] # 0 /\ w[i] \notin {Poll, Rtc}
      BY <2>5 DEF Colour, Vdu23, Poll, Rtc
    <3>3. CASE i = 2
      <4>1. Length(w) \in {1, 2}
        BY <3>2, <3>3 DEF Length
      <4> QED BY <2>1, <2>2, <3>3, <4>1
    <3>4. CASE i = 3
      <4>1. Length(w) \in {1, 2, 3}
        BY <3>2, <3>4 DEF Length
      <4> QED BY <2>1, <2>2, <3>4, <4>1
    <3>5. CASE i = 4
      BY <2>1, <2>2, <2>4, <3>5
    <3> QED BY <3>1, <3>3, <3>4, <3>5
  <2> QED BY <2>1, <2>2, <2>3, <2>4, <2>5
<1>2. CASE w = PollPacket(n)
  <2>1. n \in Byte /\ Vdu23 \in Byte /\ Poll \in Byte /\ 0 \in Byte
    BY VdpLinkAssumption DEF Number, Byte, Colour, Vdu23, Poll
  <2>2. w = <<Vdu23, 0, Poll, n>>
    BY <1>2 DEF PollPacket
  <2>3. /\ w \in Seq(Byte) /\ w # <<>> /\ Len(w) = 4
        /\ w[1] = Vdu23 /\ w[2] = 0 /\ w[3] = Poll /\ w[4] = n
    BY <2>1, <2>2
  <2>4. Length(w) = 4
    BY <2>3 DEF Length, Colour, Vdu23
  <2>5. n \notin {Colour, Vdu23} /\ {Vdu23, 0, Poll} \intersect Number = {}
    BY VdpLinkAssumption DEF Number, Colour, Vdu23, Poll
  <2>6. ASSUME NEW i \in 2 .. Len(w) PROVE w[i] \in {Colour, Vdu23} => i = Len(w)
    BY <2>3, <2>5 DEF Colour, Vdu23, Poll
  <2>7. ASSUME NEW i \in 1 .. Len(w), w[i] \in Number
        PROVE  w = PollPacket(n) /\ w[i] = n /\ i = Len(w)
    BY <1>2, <2>3, <2>5, <2>7
  <2> QED BY <2>3, <2>4, <2>6, <2>7
<1> QED BY <1>1, <1>2

\* The invariant says what is wanted of the answers.
LEMMA PollsFollow ==
  ASSUME LinkInv
  PROVE  AnswersFollowPolls
<1> USE DEF LinkInv
<1>1. PICK pend : Parsing(pend) /\ AskedOK(pend)
  BY DEF Parsed
<1> SUFFICES ASSUME NEW j \in DOMAIN answers, NEW n \in Number, Echoed(j, n)
             PROVE  /\ \A i \in DOMAIN answers, m \in Number : Echoed(i, m) /\ i < j => m < n
                    /\ \A m \in asked : m < n => \E i \in 1 .. j : Echoed(i, m)
                    /\ resets = 0 => n \in asked
  BY DEF AnswersFollowPolls, Number
<1>2. DOMAIN answers \subseteq Nat /\ asked \subseteq Number /\ Number \subseteq Nat
  BY DEF LinkTypeOK, Number
<1>3. \A i \in DOMAIN answers, m \in Number : Echoed(i, m) /\ i < j => m < n
  BY <1>2 DEF NumbersOK
<1>4. ASSUME NEW m \in asked, m < n PROVE \E i \in 1 .. j : Echoed(i, m)
  <2>1. CASE \E i \in Nat : Echoed(i, m)
    <3>1. PICK i \in Nat : Echoed(i, m)
      BY <2>1
    <3>2. ~ j < i
      BY <1>2, <1>4, <3>1 DEF NumbersOK
    <3>3. i \in DOMAIN answers /\ i >= 1 /\ j \in Nat
      BY <1>2, <3>1 DEF Echoed, LinkTypeOK
    <3> QED BY <3>1, <3>2, <3>3
  <2>2. ASSUME NEW k \in Nat, OnTheWay(k, m) PROVE FALSE
    BY <1>2, <1>4, <2>2 DEF NumbersOK
  <2> QED BY <1>1, <2>1, <2>2 DEF AskedOK
<1>5. resets = 0 => n \in asked
  BY <1>2 DEF NoResetsOK
<1> QED BY <1>3, <1>4, <1>5

\* The invariant, at first and from step to step.
LEMMA InitLink ==
  ASSUME LinkInit
  PROVE  LinkInv
<1> USE DEF LinkInit
<1>1. LinkTypeOK
  <2>1. MaxPackets \in Nat /\ MaxResets \in Nat /\ MaxLines \in Nat
    BY VdpLinkAssumption
  <2>2. {vdp_terminal_mode, vsync_due, eof} \subseteq BOOLEAN
    OBVIOUS
  <2> QED BY <2>1, <2>2 DEF LinkTypeOK, Settled
<1>2. RestOK
  BY DEF RestOK
<1>3. ASSUME NEW i \in Nat, NEW m PROVE ~ OnTheWay(i, m) /\ ~ Echoed(i, m)
  BY DEF OnTheWay, Echoed
<1>4. NumbersOK /\ NoResetsOK
  BY <1>3 DEF NumbersOK, NoResetsOK
<1>5. Parsed
  <2> DEFINE pend == [k \in 0 .. 0 |-> <<>>]
  <2>1. Parsing(pend)
    BY DEF Parsing, Partials
  <2>2. AskedOK(pend)
    BY DEF AskedOK
  <2>3. Step(pend[Len(to_vdp)])
    BY DEF Step, InStep
  <2> QED BY <2>1, <2>2, <2>3 DEF Parsed
<1> QED BY <1>1, <1>2, <1>4, <1>5 DEF LinkInv

\* The rest of the VDP thread, time and the user.
LEMMA StepAround ==
  ASSUME LinkInv, NoByte \/ FakeVsync \/ Keys \/ Elapse \/ Type
  PROVE  LinkInv'
<1>0. UNCHANGED <<to_vdp, answers, taken, ez80>>
  BY DEF NoByte, FakeVsync, Keys, Elapse, Type, vdp
<1> USE <1>0 DEF ez80
<1>1. LinkTypeOK'
  <2> USE DEF LinkInv, LinkTypeOK
  <2>1. /\ to_vdp' \in Seq(Byte) /\ taken' \in Seq(Byte) /\ rest' \in Seq(Byte)
        /\ answers' \in Seq(Seq(Byte)) /\ begun' \in 255 .. 255 + MaxPackets
        /\ resets' \in 0 .. MaxResets /\ asked' \subseteq Number /\ since' \in 0 .. Settled
    OBVIOUS
  <2>2. at' \in {"packet", "vsync", "keys", "exit"}
    BY DEF NoByte, FakeVsync, Keys, Elapse, Type, vdp
  <2>3. {vdp_terminal_mode', vsync_due', eof'} \subseteq BOOLEAN
    BY DEF NoByte, FakeVsync, Keys, Elapse, Type, vdp
  <2>4. stdin' \in 0 .. MaxLines
    <3>1. stdin \in 0 .. MaxLines /\ MaxLines \in Nat
      BY VdpLinkAssumption
    <3> QED BY <3>1 DEF NoByte, FakeVsync, Keys, Elapse, Type, vdp
  <2> QED BY <2>1, <2>2, <2>3, <2>4
<1>2. RestOK' /\ NumbersOK' /\ NoResetsOK'
  BY DEF LinkInv, RestOK, NumbersOK, NoResetsOK, Past, OnTheWay, Echoed
<1>3. Parsed'
  BY DEF LinkInv, Parsed, Parsing, AskedOK, Step, InStep, Midway, Arguments, Behind, OnTheWay, Echoed
<1> QED BY <1>1, <1>2, <1>3 DEF LinkInv

\* The program begins a packet.
LEMMA StepBegin ==
  ASSUME LinkInv, Begin
  PROVE  LinkInv'
<1> USE DEF Begin
<1>0. begun + 1 \in Number /\ begun \in Nat /\ begun' = begun + 1 /\ rest = <<>>
  BY VdpLinkAssumption DEF LinkInv, LinkTypeOK, Number
<1> PICK w : w = rest'
  OBVIOUS
<1>1. w \in Others \union {PollPacket(begun')}
  OBVIOUS
<1>2. /\ w \in Seq(Byte) /\ w # <<>> /\ Len(w) \in Nat /\ Len(w) >= 1 /\ Len(w) <= 4
      /\ \A i \in 2 .. Len(w) : w[i] \in {Colour, Vdu23} => i = Len(w)
      /\ \A i \in 1 .. Len(w) : w[i] \in Number => w[i] = begun' /\ i = Len(w)
  BY <1>0, <1>1, PacketIs
<1>3. LinkTypeOK'
  <2> USE DEF LinkInv, LinkTypeOK, vdp
  <2>1. rest' \in Seq(Byte) /\ begun' \in 255 .. 255 + MaxPackets
    BY <1>0, <1>2 DEF Byte, Number
  <2>2. /\ to_vdp' \in Seq(Byte) /\ taken' \in Seq(Byte)
        /\ answers' \in Seq(Seq(Byte)) /\ at' \in {"packet", "vsync", "keys", "exit"}
        /\ resets' \in 0 .. MaxResets /\ asked' \subseteq Number /\ since' \in 0 .. Settled
        /\ stdin' \in 0 .. MaxLines
    OBVIOUS
  <2>3. {vdp_terminal_mode', vsync_due', eof'} \subseteq BOOLEAN
    OBVIOUS
  <2> QED BY <2>1, <2>2, <2>3
<1>4. RestOK'
  BY <1>0, <1>2 DEF RestOK
<1>5. UNCHANGED <<to_vdp, answers, taken, since, asked, resets>>
  BY DEF vdp
<1>6. ASSUME NEW n \in Number, Past(n) PROVE Past(n)'
  BY <1>0, <1>6 DEF Past, Number
<1>7. NumbersOK'
  BY <1>5, <1>6 DEF LinkInv, NumbersOK, OnTheWay, Echoed
<1>8. NoResetsOK'
  BY <1>5 DEF LinkInv, NoResetsOK, OnTheWay, Echoed
<1>9. Parsed'
  <2>1. PICK pend : Parsing(pend) /\ AskedOK(pend) /\ Step(pend[Len(to_vdp)])
    BY DEF LinkInv, Parsed
  <2>2. Parsing(pend)' /\ AskedOK(pend)'
    <3>1. Parsing(pend)'
      BY <1>5, <2>1 DEF Parsing
    <3>2. AskedOK(pend)'
      BY <1>5, <2>1 DEF AskedOK, OnTheWay, Echoed
    <3> QED BY <3>1, <3>2
  <2> PICK q : q = pend[Len(to_vdp)]
    OBVIOUS
  <2>3. CASE q = <<>>
    <3>1. Midway(q, w)'
      BY <1>2, <2>3 DEF Midway
    <3>2. Step(q)'
      BY <1>1, <3>1 DEF Step, InStep
    <3> QED BY <1>5, <2>2, <3>2 DEF Parsed
  <2>4. CASE Behind(q)
    BY <1>5, <2>2, <2>4 DEF Step, Behind, Parsed
  <2>5. ~ Arguments(q) /\ \A v : ~ Midway(q, v)
    BY <1>0 DEF Arguments, Midway
  <2> QED BY <2>1, <2>3, <2>4, <2>5 DEF Step, InStep
<1> QED BY <1>3, <1>4, <1>7, <1>8, <1>9 DEF LinkInv

\* It begins anew: the VDP is in step, or behind.
LEMMA StepSoftReset ==
  ASSUME LinkInv, SoftReset
  PROVE  LinkInv'
<1> USE DEF SoftReset
<1>1. UNCHANGED <<to_vdp, answers, taken, begun, asked>> /\ rest' = <<>> /\ since' = 0
  BY DEF vdp
<1>2. resets' = resets + 1 /\ resets \in Nat /\ resets' \in 0 .. MaxResets
  BY VdpLinkAssumption DEF LinkInv, LinkTypeOK
<1>3. LinkTypeOK'
  <2> USE DEF LinkInv, LinkTypeOK, vdp
  <2>1. since' \in 0 .. Settled /\ rest' \in Seq(Byte)
    BY DEF Settled
  <2>2. /\ to_vdp' \in Seq(Byte) /\ taken' \in Seq(Byte)
        /\ answers' \in Seq(Seq(Byte)) /\ at' \in {"packet", "vsync", "keys", "exit"}
        /\ begun' \in 255 .. 255 + MaxPackets /\ asked' \subseteq Number
        /\ stdin' \in 0 .. MaxLines
    OBVIOUS
  <2>3. {vdp_terminal_mode', vsync_due', eof'} \subseteq BOOLEAN
    OBVIOUS
  <2> QED BY <1>2, <2>1, <2>2, <2>3
<1>4. RestOK'
  BY <1>1 DEF RestOK
<1>5. ASSUME NEW n, Past(n) PROVE Past(n)'
  BY <1>1, <1>5 DEF Past
<1>6. NumbersOK'
  BY <1>1, <1>5 DEF LinkInv, NumbersOK, OnTheWay, Echoed
<1>7. NoResetsOK'
  BY <1>2 DEF NoResetsOK
<1>8. Parsed'
  <2>1. PICK pend : Parsing(pend) /\ AskedOK(pend) /\ Step(pend[Len(to_vdp)])
    BY DEF LinkInv, Parsed
  <2>2. Parsing(pend)' /\ AskedOK(pend)'
    BY <1>1, <2>1 DEF Parsing, AskedOK, OnTheWay, Echoed
  <2> DEFINE q == pend[Len(to_vdp)]
  <2>3. q \in Partials
    <3>1. Len(to_vdp) \in Nat
      BY DEF LinkInv, LinkTypeOK
    <3> QED BY <2>1, <3>1 DEF Parsing
  <2>4. InStep(q)' \/ Behind(q)'
    BY <1>1, <2>3, PartialsAre DEF InStep, Behind
  <2>5. Step(pend[Len(to_vdp)])'
    BY <1>1, <2>4 DEF Step
  <2> QED BY <2>2, <2>5 DEF Parsed
<1> QED BY <1>3, <1>4, <1>6, <1>7, <1>8 DEF LinkInv

\* What is left of a sequence, told element by element.
LEMMA TailIs ==
  ASSUME NEW s \in Seq(Byte), s # <<>>
  PROVE  /\ Len(s) \in Nat /\ Len(s) >= 1 /\ s[1] \in Byte /\ Head(s) = s[1]
         /\ Tail(s) \in Seq(Byte) /\ Len(Tail(s)) = Len(s) - 1
         /\ \A i \in 1 .. Len(Tail(s)) : Tail(s)[i] = s[i + 1]
         /\ Tail(s) = <<>> <=> Len(s) = 1
<1>1. Len(s) \in Nat /\ Len(s) >= 1 /\ s[1] \in Byte /\ Head(s) = s[1]
  BY EmptySeq
<1>2. /\ Tail(s) \in Seq(Byte) /\ Len(Tail(s)) = Len(s) - 1
      /\ \A i \in 1 .. Len(Tail(s)) : Tail(s)[i] = s[i + 1]
  BY <1>1, HeadTailProperties
<1>3. Len(Tail(s)) = 0 <=> Len(s) = 1
  BY <1>1, <1>2
<1>4. Tail(s) = <<>> <=> Len(Tail(s)) = 0
  BY <1>2, EmptySeq
<1> QED BY <1>1, <1>2, <1>3, <1>4

\* A poll whose last byte is sent so long after a reset has all its others before it.
LEMMA PollWhole ==
  ASSUME LinkInv, NEW q \in Partials, Step(q), rest = <<begun>>, since = Settled
  PROVE  q = <<Vdu23, 0, Poll>>
<1>0. Len(q) \in Nat /\ Len(q) <= 3
  BY PartialsAre
<1>1. Len(rest) = 1 /\ rest[1] = begun /\ rest # <<>>
  OBVIOUS
<1>2. begun \in Number
  BY <1>1 DEF LinkInv, RestOK, LinkTypeOK, Number
<1>3. PICK w \in Others \union {PollPacket(begun)} : Midway(q, w)
  <2>1. ~ Arguments(q)
    BY <1>1 DEF Arguments, Settled
  <2>2. ~ Behind(q)
    BY <1>0 DEF Behind, Settled
  <2> QED BY <1>1, <2>1, <2>2 DEF Step, InStep
<1>4. Len(q) + 1 = Len(w) /\ w[Len(q) + 1] = begun
  BY <1>0, <1>1, <1>3 DEF Midway
<1>5. w = PollPacket(begun) /\ Len(w) \in Nat /\ Len(w) >= 1 /\ Len(w) <= 4
  BY <1>0, <1>1, <1>2, <1>4, PacketIs
<1>6. Len(w) = 4 /\ w[3] = Poll
  BY <1>5 DEF PollPacket
<1>7. Len(q) = 3 /\ q[3] = Poll
  <2>1. Len(q) + 1 = 4 /\ Len(q) \in Nat
    BY <1>0, <1>4, <1>6
  <2>2. Len(q) = 3
    <3>1. \A n \in Nat : n + 1 = 4 => n = 3
      OBVIOUS
    <3> QED BY <2>1, <3>1
  <2> QED BY <1>3, <1>6, <2>2 DEF Midway
<1>8. q \notin {<<>>, <<Colour>>, <<Vdu23>>, <<Vdu23, 0>>}
  <2>1. /\ Len(<<>>) = 0 /\ Len(<<Colour>>) = 1 /\ Len(<<Vdu23>>) = 1
        /\ Len(<<Vdu23, 0>>) = 2 /\ 0 # 3 /\ 1 # 3 /\ 2 # 3
    OBVIOUS
  <2>2. q # <<>> /\ q # <<Colour>> /\ q # <<Vdu23>> /\ q # <<Vdu23, 0>>
    BY <1>7, <2>1, Zenon
  <2> QED BY <2>2
<1>9. q # <<Vdu23, 0, Rtc>>
  BY <1>7 DEF Poll, Rtc
<1> QED BY <1>8, <1>9 DEF Partials

\* The VDP stays in step, or catches up, with the byte b.
LEMMA StepStays ==
  ASSUME LinkInv, NEW q \in Partials, Step(q), rest # <<>>,
         rest' = Tail(rest), UNCHANGED begun,
         since' = IF since = Settled THEN Settled ELSE IF Misleading THEN 0 ELSE since + 1,
         NEW b, b = rest[1]
  PROVE  Step(After(q, b))'
<1>0. rest \in Seq(Byte) /\ Len(rest) <= 4
  BY DEF LinkInv, LinkTypeOK, RestOK, Byte
<1>1. /\ Len(rest) \in Nat /\ Len(rest) >= 1 /\ Len(rest) <= 4 /\ b \in Byte /\ rest' \in Seq(Byte) /\ Len(rest') = Len(rest) - 1
      /\ \A i \in 1 .. Len(rest') : rest'[i] = rest[i + 1]
  BY <1>0, TailIs
<1>2. (rest' = <<>>) <=> (Len(rest) = 1)
  BY <1>0, TailIs
<1>3. since \in 0 .. Settled /\ Len(q) \in Nat /\ Len(q) <= 3 /\ q \in Seq(Byte)
  BY PartialsAre DEF LinkInv, LinkTypeOK
<1>4. rest' # <<>> => (rest'[1] \in {Colour, Vdu23} => Len(rest') = 1)
  <2> SUFFICES ASSUME rest' # <<>>, rest'[1] \in {Colour, Vdu23} PROVE Len(rest') = 1
    OBVIOUS
  <2>1. Len(rest') >= 1
    BY <1>1, <1>2
  <2>2. rest'[1] = rest[2] /\ 2 \in 2 .. Len(rest)
    BY <1>1, <2>1
  <2>3. \A i \in 2 .. Len(rest) : rest[i] \in {Colour, Vdu23} => i = Len(rest)
    BY DEF LinkInv, RestOK
  <2>4. 2 = Len(rest)
    BY <2>2, <2>3
  <2> QED BY <1>1, <2>4
<1> PICK r : r = After(q, b)
  OBVIOUS
<1>5. r = <<>> \/ Len(r) = Len(q) + 1
  BY <1>1, AfterIs
<1>m. ASSUME Misleading, since # Settled PROVE Step(r)'
  <2>1. Len(rest) = 1
    BY <1>m DEF Misleading
  <2>2. rest' = <<>> /\ since' = 0
    BY <1>2, <1>m, <2>1
  <2>3. r = <<>> \/ Len(r) > since'
    BY <1>3, <1>5, <2>2
  <2> QED BY <2>2, <2>3 DEF Step, InStep, Behind
<1>n. ASSUME b \in {Colour, Vdu23}, Len(rest) = 1 PROVE Misleading
  <2>1. rest = <<b>>
    BY <1>0, <1>1, <1>n
  <2> QED BY <1>n, <2>1 DEF Misleading
<1>6. CASE InStep(q)
  <2>1. PICK w \in Others \union {PollPacket(begun)} : Midway(q, w)
    BY <1>6 DEF InStep
  <2>2. w \in Seq(Byte) /\ Len(w) = Length(w)
    <3>1. begun \in Number
      BY DEF LinkInv, LinkTypeOK, RestOK, Number
    <3> QED BY <3>1, PacketIs
  <2>3. /\ Len(q) + Len(rest) = Len(w) /\ Len(q) < Len(w) /\ b = w[Len(q) + 1]
        /\ \A i \in 1 .. Len(q) : q[i] = w[i]
    BY <1>0, <1>1, <1>3, <2>1 DEF Midway
  <2>4. CASE Len(q) + 1 = Len(w)
    <3>1. r = <<>>
      BY <2>2, <2>3, <2>4, OneMore
    <3>2. rest' = <<>>
      BY <1>1, <1>2, <1>3, <2>3, <2>4
    <3> QED BY <1>0, <3>1, <3>2 DEF Step, InStep
  <2>5. CASE Len(q) + 1 < Len(w)
    <3>1. r = Append(q, b)
      BY <2>2, <2>3, <2>5, OneMore
    <3>2. /\ Len(r) = Len(q) + 1 /\ r[Len(q) + 1] = b
          /\ \A i \in 1 .. Len(q) : r[i] = q[i]
      BY <1>1, <1>3, <3>1
    <3>3. Len(r) + Len(rest') = Len(w) /\ Len(rest') > 0
      BY <1>1, <1>3, <2>3, <2>5, <3>2
    <3>4. \A i \in 1 .. Len(r) : r[i] = w[i]
      BY <1>3, <2>3, <3>2
    <3>5. ASSUME NEW i \in 1 .. Len(rest') PROVE rest'[i] = w[Len(r) + i]
      <4>1. i + 1 \in 1 .. Len(rest) /\ rest'[i] = rest[i + 1]
        BY <1>1
      <4>2. rest[i + 1] = w[Len(q) + (i + 1)]
        BY <2>1, <4>1 DEF Midway
      <4> QED BY <1>3, <3>2, <4>1, <4>2
    <3>6. Midway(r, w)'
      BY <3>3, <3>4, <3>5 DEF Midway
    <3> QED BY <1>0, <3>6 DEF Step, InStep
  <2> QED BY <1>1, <1>3, <2>2, <2>3, <2>4, <2>5
<1>7. CASE Arguments(q)
  <2>0. since # Settled /\ (b \in {Colour, Vdu23} => Misleading)
    BY <1>1, <1>3, <1>7, <1>n DEF Arguments, Settled
  <2>1. CASE ~ Misleading
    <3>1. r = <<>>
      BY <1>1, <1>7, <2>0, <2>1, AfterIs DEF Arguments
    <3>2. since' + Len(rest') <= Settled
      BY <1>1, <1>3, <1>7, <2>0, <2>1 DEF Arguments, Settled
    <3> QED BY <1>0, <1>4, <3>1, <3>2 DEF Step, InStep, Arguments
  <2> QED BY <1>m, <2>0, <2>1
<1>8. CASE Behind(q)
  <2>0. since # Settled
    BY <1>3, <1>8 DEF Behind, Settled
  <2>1. CASE ~ Misleading
    <3>1. since' = since + 1 /\ since' <= 3
      BY <1>3, <1>8, <2>0, <2>1 DEF Behind
    <3>2. CASE Len(r) = Len(q) + 1
      BY <1>0, <1>3, <1>8, <3>1, <3>2 DEF Step, Behind
    <3>3. CASE r = <<>>
      <4>1. since' + Len(rest') <= Settled
        BY <1>1, <3>1, <1>3 DEF Settled
      <4> QED BY <1>0, <1>4, <3>3, <4>1 DEF Step, InStep, Arguments
    <3> QED BY <1>5, <3>2, <3>3
  <2> QED BY <1>m, <2>0, <2>1
<1> QED BY <1>6, <1>7, <1>8 DEF Step

\* It sends a byte.
LEMMA StepSendByte ==
  ASSUME LinkInv, SendByte
  PROVE  LinkInv'
<1> USE DEF SendByte
<1>0. UNCHANGED <<answers, taken, begun, resets>>
  BY DEF vdp
<1> PICK b, n : b = rest[1] /\ n = Len(to_vdp)
  OBVIOUS
<1>1. /\ rest # <<>> /\ rest \in Seq(Byte) /\ Len(rest) \in Nat /\ Len(rest) >= 1 /\ Len(rest) <= 4 /\ b \in Byte
      /\ rest' \in Seq(Byte) /\ Len(rest') = Len(rest) - 1
      /\ \A i \in 1 .. Len(rest') : rest'[i] = rest[i + 1]
      /\ (rest' = <<>>) <=> (Len(rest) = 1)
  <2>1. rest # <<>> /\ rest \in Seq(Byte) /\ Len(rest) <= 4 /\ rest' = Tail(rest)
    BY DEF LinkInv, LinkTypeOK, RestOK, Byte
  <2> QED BY <2>1, TailIs
<1>2. /\ to_vdp \in Seq(Byte) /\ n \in Nat /\ to_vdp' \in Seq(Byte) /\ Len(to_vdp') = n + 1
      /\ to_vdp'[n + 1] = b /\ \A k \in 1 .. n : to_vdp'[k] = to_vdp[k]
  BY <1>1 DEF LinkInv, LinkTypeOK, Byte
<1>r. /\ rest # <<>> /\ begun \in Number
      /\ \A i \in 2 .. Len(rest) : rest[i] \in {Colour, Vdu23} => i = Len(rest)
      /\ \A i \in 1 .. Len(rest) : rest[i] \in Number => rest[i] = begun /\ i = Len(rest)
  BY DEF LinkInv, RestOK
<1>3. begun \in Number /\ begun \in Nat
  BY <1>r DEF LinkInv, LinkTypeOK, Number
<1>4. since \in 0 .. Settled /\ since' \in 0 .. Settled /\ (since = Settled => since' = Settled)
  BY DEF LinkInv, LinkTypeOK, Settled
<1>5. b \in Number => b = begun /\ rest' = <<>> /\ rest = <<begun>>
  <2> SUFFICES ASSUME b \in Number PROVE b = begun /\ Len(rest) = 1
    BY <1>1
  <2>1. 1 \in 1 .. Len(rest)
    BY <1>1
  <2> QED BY <1>r, <2>1
<1>6. LinkTypeOK'
  <2> USE DEF LinkInv, LinkTypeOK, vdp
  <2>1. /\ to_vdp' \in Seq(Byte) /\ rest' \in Seq(Byte) /\ since' \in 0 .. Settled
        /\ asked' \subseteq Number
    BY <1>1, <1>2, <1>3, <1>4 DEF Byte, Number
  <2>2. /\ taken' \in Seq(Byte)
        /\ answers' \in Seq(Seq(Byte)) /\ at' \in {"packet", "vsync", "keys", "exit"}
        /\ begun' \in 255 .. 255 + MaxPackets /\ resets' \in 0 .. MaxResets
        /\ stdin' \in 0 .. MaxLines
    OBVIOUS
  <2>3. {vdp_terminal_mode', vsync_due', eof'} \subseteq BOOLEAN
    OBVIOUS
  <2> QED BY <2>1, <2>2, <2>3
<1>7. RestOK'
  <2>1. ASSUME NEW i \in 1 .. Len(rest') PROVE i + 1 \in 2 .. Len(rest) /\ rest'[i] = rest[i + 1]
    BY <1>1
  <2>2. ASSUME NEW i \in 1 .. Len(rest'), rest'[i] \in Number PROVE rest'[i] = begun' /\ i = Len(rest')
    <3>1. i + 1 \in 1 .. Len(rest) /\ rest[i + 1] \in Number
      BY <2>1, <2>2
    <3>2. rest[i + 1] = begun /\ i + 1 = Len(rest)
      BY <1>r, <3>1
    <3>3. i = Len(rest')
      <4>1. ASSUME NEW l \in Nat, i + 1 = l PROVE i = l - 1
        BY <4>1
      <4> QED BY <1>1, <3>2, <4>1
    <3> QED BY <1>0, <2>1, <3>2, <3>3
  <2>3. ASSUME NEW i \in 2 .. Len(rest'), rest'[i] \in {Colour, Vdu23} PROVE i = Len(rest')
    <3>1. i \in 1 .. Len(rest')
      BY <1>1
    <3>2. i + 1 = Len(rest)
      BY <1>r, <2>1, <2>3, <3>1
    <3>3. ASSUME NEW l \in Nat, i + 1 = l PROVE i = l - 1
      BY <3>3
    <3> QED BY <1>1, <3>2, <3>3
  <2>4. Len(rest') <= 4 /\ begun' \in Number
    BY <1>0, <1>1, <1>3 DEF Number
  <2> QED BY <2>2, <2>3, <2>4 DEF RestOK
<1>8. ASSUME NEW k \in Nat, NEW m
      PROVE  /\ OnTheWay(k, m)' <=> OnTheWay(k, m) \/ (k = n + 1 /\ m = b)
             /\ OnTheWay(k, m) => k \in 1 .. n
             /\ Echoed(k, m)' <=> Echoed(k, m)
  BY <1>0, <1>2 DEF OnTheWay, Echoed
<1>9. ASSUME NEW m \in Number, Past(m) PROVE m < begun /\ Past(m)'
  BY <1>0, <1>1, <1>9 DEF Past
<1>10. NumbersOK'
  <2> SUFFICES ASSUME NEW i \in Nat, NEW j \in Nat, NEW m \in Number, NEW k \in Number
               PROVE  /\ OnTheWay(i, m)' \/ Echoed(i, m)' => Past(m)'
                      /\ OnTheWay(i, m)' /\ OnTheWay(j, k)' /\ i < j => m < k
                      /\ Echoed(i, m)' /\ OnTheWay(j, k)' => m < k
                      /\ Echoed(i, m)' /\ Echoed(j, k)' /\ i < j => m < k
    BY DEF NumbersOK, Number
  <2>1. NumbersOK
    BY DEF LinkInv
  <2>2. b \in Number => Past(b)'
    BY <1>0, <1>5 DEF Past
  <2>3. OnTheWay(i, m) \/ Echoed(i, m) => Past(m)
    BY <2>1 DEF NumbersOK
  <2>4. OnTheWay(i, m)' \/ Echoed(i, m)' => Past(m)'
    BY <1>8, <1>9, <2>2, <2>3
  <2>5. OnTheWay(i, m)' /\ OnTheWay(j, k)' /\ i < j => m < k
    <3> SUFFICES ASSUME OnTheWay(i, m)', OnTheWay(j, k)', i < j PROVE m < k
      OBVIOUS
    <3>1. CASE OnTheWay(j, k)
      BY <1>2, <1>8, <2>1, <3>1 DEF NumbersOK
    <3>2. CASE j = n + 1 /\ k = b
      <4>1. OnTheWay(i, m)
        BY <1>2, <1>8, <3>2
      <4> QED BY <1>5, <1>9, <2>3, <3>2, <4>1
    <3> QED BY <1>8, <3>1, <3>2
  <2>6. Echoed(i, m)' /\ OnTheWay(j, k)' => m < k
    BY <1>5, <1>8, <1>9, <2>1, <2>3 DEF NumbersOK
  <2>7. Echoed(i, m)' /\ Echoed(j, k)' /\ i < j => m < k
    BY <1>8, <2>1 DEF NumbersOK
  <2> QED BY <2>4, <2>5, <2>6, <2>7
<1>11. NoResetsOK'
  <2> SUFFICES ASSUME resets = 0
               PROVE  /\ since' = Settled
                      /\ \A i \in Nat, m \in Number : OnTheWay(i, m)' \/ Echoed(i, m)' => m \in asked'
    BY <1>0 DEF NoResetsOK, Number
  <2>1. since = Settled /\ since' = Settled
    BY <1>4 DEF LinkInv, NoResetsOK
  <2>2. ASSUME NEW i \in Nat, NEW m \in Number, OnTheWay(i, m) \/ Echoed(i, m) PROVE m \in asked
    BY <2>2 DEF LinkInv, NoResetsOK
  <2>3. b \in Number => b \in asked'
    BY <1>5, <2>1
  <2>4. asked \subseteq asked'
    OBVIOUS
  <2> QED BY <1>8, <2>1, <2>2, <2>3, <2>4
<1>12. Parsed'
  <2>1. PICK pend : Parsing(pend) /\ AskedOK(pend) /\ Step(pend[Len(to_vdp)])
    BY DEF LinkInv, Parsed
  <2> PICK q : q = pend[n]
    OBVIOUS
  <2>2. q \in Partials /\ Step(q) /\ After(q, b) \in Partials
    BY <1>1, <1>2, <2>1, AfterIs DEF Parsing
  <2> DEFINE f == [k \in 0 .. n + 1 |-> IF k <= n THEN pend[k] ELSE After(q, b)]
  <2>3. f \in [0 .. n + 1 -> Partials] /\ f[n + 1] = After(q, b) /\ \A k \in 0 .. n : f[k] = pend[k]
    BY <1>2, <2>1, <2>2 DEF Parsing
  <2> HIDE DEF f
  <2>4. Parsing(f)'
    <3>1. f[0] = taken'
      BY <1>0, <1>2, <2>1, <2>3 DEF Parsing
    <3>2. ASSUME NEW k \in 1 .. n + 1 PROVE f[k] = After(f[k - 1], to_vdp'[k])
      <4>1. CASE k = n + 1
        BY <1>2, <2>3, <4>1
      <4>2. CASE k \in 1 .. n
        <5>1. k \in 0 .. n /\ k - 1 \in 0 .. n
          BY <1>2, <4>2
        <5>2. pend[k] = After(pend[k - 1], to_vdp[k])
          BY <2>1, <4>2 DEF Parsing
        <5> QED BY <1>2, <2>3, <4>2, <5>1, <5>2
      <4> QED BY <1>2, <4>1, <4>2
    <3> QED BY <1>2, <2>3, <3>1, <3>2 DEF Parsing
  <2>5. AskedOK(f)'
    <3> SUFFICES ASSUME NEW m \in asked'
                 PROVE  \/ \E i \in Nat : Echoed(i, m)'
                        \/ \E k \in Nat : OnTheWay(k, m)' /\ f[k - 1] = <<Vdu23, 0, Poll>>
      BY DEF AskedOK
    <3>1. CASE m \in asked
      <4>1. ASSUME NEW k \in Nat, OnTheWay(k, m), pend[k - 1] = <<Vdu23, 0, Poll>>
            PROVE  OnTheWay(k, m)' /\ f[k - 1] = <<Vdu23, 0, Poll>>
        <5>1. k - 1 \in 0 .. n
          BY <1>2, <1>8, <4>1
        <5> QED BY <1>8, <2>3, <4>1, <5>1
      <4> QED BY <1>8, <2>1, <3>1, <4>1 DEF AskedOK
    <3>2. CASE m \notin asked
      <4>1. m = begun /\ rest = <<begun>> /\ since = Settled
        BY <3>2
      <4>2. b = begun
        BY <4>1
      <4>3. OnTheWay(n + 1, m)'
        BY <1>2, <1>8, <4>1, <4>2
      <4>4. (n + 1) - 1 = n /\ n \in 0 .. n
        BY <1>2
      <4>5. f[(n + 1) - 1] = <<Vdu23, 0, Poll>>
        BY <2>2, <2>3, <4>1, <4>4, PollWhole
      <4> QED BY <1>2, <4>3, <4>5
    <3> QED BY <3>1, <3>2
  <2>6. Step(After(q, b))'
    BY <1>0, <1>1, <2>2, StepStays
  <2>7. Step(f[Len(to_vdp)])'
    BY <1>2, <2>3, <2>6
  <2> QED BY <2>4, <2>5, <2>7 DEF Parsed
<1> QED BY <1>6, <1>7, <1>10, <1>11, <1>12 DEF LinkInv

\* What taking a byte adds to the answers.
LEMMA EchoIs ==
  ASSUME LinkInv, TakeByte, taken \in Partials, NEW b \in Byte, b = Head(to_vdp)
  PROVE  /\ taken' = After(taken, b) /\ answers' \in Seq(Seq(Byte))
         /\ \A i \in Nat : \A m :
              Echoed(i, m)' <=> Echoed(i, m)
                             \/ (taken = <<Vdu23, 0, Poll>> /\ i = Len(answers) + 1 /\ m = b)
<1> PICK p : p = Append(taken, b)
  OBVIOUS
<1> PICK l : l = Len(answers)
  OBVIOUS
<1>0. answers \in Seq(Seq(Byte)) /\ l \in Nat /\ DOMAIN answers = 1 .. l
  BY DEF LinkInv, LinkTypeOK, Byte
<1>1. taken' = After(taken, b)
  BY DEF TakeByte, After
<1>2. CASE Len(p) # Length(p)
  <2>1. UNCHANGED answers
    BY <1>2 DEF TakeByte
  <2>2. taken # <<Vdu23, 0, Poll>>
    <3> SUFFICES ASSUME taken = <<Vdu23, 0, Poll>> PROVE Len(p) = Length(p)
      BY <1>2
    <3>1. p = <<Vdu23, 0, Poll, b>>
      BY Longer
    <3> QED BY <3>1 DEF Length, Colour, Vdu23
  <2>3. ASSUME NEW i \in Nat, NEW m PROVE Echoed(i, m)' <=> Echoed(i, m)
    BY <2>1 DEF Echoed
  <2>4. answers' \in Seq(Seq(Byte))
    BY <1>0, <2>1
  <2> QED BY <1>1, <2>2, <2>3, <2>4 DEF Echoed
<1>3. CASE Len(p) = Length(p)
  <2>1. answers' = answers \o Answer(p)
    BY <1>3 DEF TakeByte, Answered
  <2>2. ASSUME NEW a \in Seq(Byte), Answer(p) = <<a>>
        PROVE  /\ answers' \in Seq(Seq(Byte))
               /\ \A i \in Nat : \A m :
                    Echoed(i, m)' <=> Echoed(i, m) \/ (i = l + 1 /\ a = <<Poll, m>>)
    <3>1. answers' = Append(answers, a)
      BY <1>0, <2>1, <2>2, AppendIsConcat
    <3>2. /\ answers' \in Seq(Seq(Byte)) /\ DOMAIN answers' = 1 .. l + 1
          /\ answers'[l + 1] = a /\ \A i \in 1 .. l : answers'[i] = answers[i]
      BY <1>0, <3>1
    <3>3. ASSUME NEW i \in Nat, NEW m
          PROVE  Echoed(i, m)' <=> Echoed(i, m) \/ (i = l + 1 /\ a = <<Poll, m>>)
      <4>1. CASE i \in 1 .. l
        <5>1. i # l + 1 /\ i \in 1 .. l + 1
          BY <1>0, <4>1
        <5> QED BY <1>0, <3>2, <4>1, <5>1 DEF Echoed
      <4>2. CASE i = l + 1
        <5>1. i \notin 1 .. l /\ i \in 1 .. l + 1
          BY <1>0, <4>2
        <5> QED BY <1>0, <3>2, <4>2, <5>1 DEF Echoed
      <4>3. CASE i \notin 1 .. l + 1
        <5>1. i \notin 1 .. l /\ i # l + 1
          BY <1>0, <4>3
        <5> QED BY <1>0, <3>2, <4>3, <5>1 DEF Echoed
      <4> QED BY <1>0, <4>1, <4>2, <4>3
    <3> QED BY <3>2, <3>3
  <2>3. CASE taken = <<Vdu23, 0, Poll>> /\ Answer(p) = << <<Poll, b>> >>
    <3>1. <<Poll, b>> \in Seq(Byte)
      BY DEF Poll, Byte
    <3>2. ASSUME NEW m PROVE <<Poll, b>> = <<Poll, m>> <=> m = b
      OBVIOUS
    <3>3. /\ answers' \in Seq(Seq(Byte))
          /\ \A i \in Nat : \A m :
               Echoed(i, m)' <=> Echoed(i, m) \/ (i = l + 1 /\ <<Poll, b>> = <<Poll, m>>)
      BY <2>2, <2>3, <3>1
    <3>4. ASSUME NEW i \in Nat, NEW m
          PROVE  Echoed(i, m)' <=> Echoed(i, m) \/ (i = l + 1 /\ m = b)
      BY <3>2, <3>3
    <3> QED BY <1>1, <2>3, <3>3, <3>4
  <2>4. CASE taken # <<Vdu23, 0, Poll>> /\ Answer(p) = <<>>
    <3>1. UNCHANGED answers
      BY <1>0, <2>1, <2>4, ConcatEmptySeq
    <3>2. ASSUME NEW i \in Nat, NEW m PROVE Echoed(i, m)' <=> Echoed(i, m)
      BY <3>1 DEF Echoed
    <3> QED BY <1>0, <1>1, <2>4, <3>1, <3>2 DEF Echoed
  <2>5. ASSUME NEW c \in Byte, taken # <<Vdu23, 0, Poll>>, Answer(p) = << <<c>> >>
        PROVE  /\ taken' = After(taken, b) /\ answers' \in Seq(Seq(Byte))
               /\ \A i \in Nat : \A m :
                    Echoed(i, m)' <=> Echoed(i, m)
                                   \/ (taken = <<Vdu23, 0, Poll>> /\ i = l + 1 /\ m = b)
    <3>1. <<c>> \in Seq(Byte)
      OBVIOUS
    <3>2. ASSUME NEW m PROVE <<c>> # <<Poll, m>>
      OBVIOUS
    <3> QED BY <1>1, <2>2, <2>5, <3>1, <3>2 DEF Echoed
  <2>6. ModeInfo \in Byte /\ Rtc \in Byte
    BY DEF ModeInfo, Rtc, Byte
  <2> QED BY <1>3, <2>3, <2>4, <2>5, <2>6, AnswerIs
<1> QED BY <1>2, <1>3

\* The VDP takes a byte.
LEMMA StepTakeByte ==
  ASSUME LinkInv, TakeByte
  PROVE  LinkInv'
<1>0. UNCHANGED <<rest, begun, since, asked, resets>> /\ to_vdp # <<>> /\ to_vdp' = Tail(to_vdp)
  BY DEF TakeByte, ez80
<1> PICK b, n : b = Head(to_vdp) /\ n = Len(to_vdp')
  OBVIOUS
<1>1. /\ to_vdp \in Seq(Byte) /\ b = to_vdp[1] /\ b \in Byte /\ to_vdp' \in Seq(Byte)
      /\ n \in Nat /\ Len(to_vdp) = n + 1 /\ \A k \in 1 .. n : to_vdp'[k] = to_vdp[k + 1]
  <2>1. to_vdp \in Seq(Byte)
    BY DEF LinkInv, LinkTypeOK, Byte
  <2> QED BY <1>0, <2>1, TailIs
<1>2. PICK pend : Parsing(pend) /\ AskedOK(pend) /\ Step(pend[Len(to_vdp)])
  BY DEF LinkInv, Parsed
<1>3. /\ \A k \in 0 .. n + 1 : pend[k] \in Partials
      /\ pend[0] = taken /\ taken \in Partials
      /\ \A k \in 1 .. n + 1 : pend[k] = After(pend[k - 1], to_vdp[k])
  <2>1. /\ pend \in [0 .. n + 1 -> Partials] /\ pend[0] = taken
        /\ \A k \in 1 .. n + 1 : pend[k] = After(pend[k - 1], to_vdp[k])
    BY <1>1, <1>2, Zenon DEF Parsing
  <2>2. 0 \in 0 .. n + 1
    BY <1>1
  <2> QED BY <2>1, <2>2
<1>4. /\ taken' = After(taken, b) /\ answers' \in Seq(Seq(Byte))
      /\ \A i \in Nat : \A m :
           Echoed(i, m)' <=> Echoed(i, m)
                          \/ (taken = <<Vdu23, 0, Poll>> /\ i = Len(answers) + 1 /\ m = b)
  BY <1>1, <1>3, EchoIs
<1>5. pend[1] = taken'
  BY <1>1, <1>3, <1>4
<1>6. ASSUME NEW k \in Nat, NEW m
      PROVE  /\ OnTheWay(k, m)' <=> k >= 1 /\ OnTheWay(k + 1, m)
             /\ OnTheWay(k, m) => k \in 1 .. n + 1
             /\ Echoed(k, m) => k < Len(answers) + 1
             /\ OnTheWay(1, b)
  <2>1. DOMAIN to_vdp = 1 .. n + 1 /\ DOMAIN to_vdp' = 1 .. n
    BY <1>1
  <2>2. Echoed(k, m) => k < Len(answers) + 1
    BY DEF Echoed, LinkInv, LinkTypeOK
  <2> QED BY <1>1, <2>1, <2>2 DEF OnTheWay
<1>7. LinkTypeOK'
  <2> USE DEF LinkInv, LinkTypeOK
  <2>1. taken' \in Seq(Byte)
    <3>1. taken' \in Partials
      BY <1>1, <1>3, <1>4, AfterIs
    <3> QED BY <3>1, PartialsAre DEF Byte
  <2>2. /\ to_vdp' \in Seq(Byte) /\ answers' \in Seq(Seq(Byte)) /\ rest' \in Seq(Byte)
        /\ begun' \in 255 .. 255 + MaxPackets /\ resets' \in 0 .. MaxResets
        /\ asked' \subseteq Number /\ since' \in 0 .. Settled
    BY <1>0, <1>1, <1>4 DEF Byte
  <2>3. at' \in {"packet", "vsync", "keys", "exit"} /\ stdin' \in 0 .. MaxLines
    BY DEF TakeByte
  <2>4. {vdp_terminal_mode', vsync_due', eof'} \subseteq BOOLEAN
    BY DEF TakeByte
  <2> QED BY <2>1, <2>2, <2>3, <2>4
<1>8. RestOK'
  BY <1>0 DEF LinkInv, RestOK
<1>9. ASSUME NEW m PROVE Past(m)' <=> Past(m)
  BY <1>0 DEF Past
<1>10. NumbersOK'
  <2> SUFFICES ASSUME NEW i \in Nat, NEW j \in Nat, NEW m \in Number, NEW k \in Number
               PROVE  /\ OnTheWay(i, m)' \/ Echoed(i, m)' => Past(m)'
                      /\ OnTheWay(i, m)' /\ OnTheWay(j, k)' /\ i < j => m < k
                      /\ Echoed(i, m)' /\ OnTheWay(j, k)' => m < k
                      /\ Echoed(i, m)' /\ Echoed(j, k)' /\ i < j => m < k
    BY DEF NumbersOK, Number
  <2>1. NumbersOK
    BY DEF LinkInv
  <2>2. ASSUME NEW u \in Number, OnTheWay(i, u)' PROVE OnTheWay(i + 1, u) /\ i + 1 \in Nat /\ 1 < i + 1
    BY <1>6, <2>2
  <2>3. ASSUME NEW u \in Number, OnTheWay(j, u)' PROVE OnTheWay(j + 1, u) /\ j + 1 \in Nat /\ 1 < j + 1
    BY <1>6, <2>3
  <2>4. OnTheWay(i, m)' \/ Echoed(i, m)' => Past(m)'
    BY <1>4, <1>6, <1>9, <2>1, <2>2 DEF NumbersOK
  <2>5. OnTheWay(i, m)' /\ OnTheWay(j, k)' /\ i < j => m < k
    <3> SUFFICES ASSUME OnTheWay(i, m)', OnTheWay(j, k)', i < j PROVE m < k
      OBVIOUS
    <3>1. OnTheWay(i + 1, m) /\ OnTheWay(j + 1, k) /\ i + 1 < j + 1 /\ i + 1 \in Nat /\ j + 1 \in Nat
      BY <2>2, <2>3
    <3> QED BY <2>1, <3>1 DEF NumbersOK
  <2>6. Echoed(i, m)' /\ OnTheWay(j, k)' => m < k
    <3> SUFFICES ASSUME Echoed(i, m)', OnTheWay(j, k)' PROVE m < k
      OBVIOUS
    <3>1. OnTheWay(j + 1, k) /\ j + 1 \in Nat /\ 1 < j + 1
      BY <2>3
    <3>2. Echoed(i, m) \/ OnTheWay(1, m)
      BY <1>4, <1>6
    <3> QED BY <2>1, <3>1, <3>2 DEF NumbersOK
  <2>7. Echoed(i, m)' /\ Echoed(j, k)' /\ i < j => m < k
    <3> SUFFICES ASSUME Echoed(i, m)', Echoed(j, k)', i < j PROVE m < k
      OBVIOUS
    <3>1. CASE Echoed(j, k)
      <4>1. Echoed(i, m)
        <5>1. j < Len(answers) + 1 /\ Len(answers) \in Nat
          BY <1>6, <3>1 DEF LinkInv, LinkTypeOK
        <5>2. i # Len(answers) + 1
          BY <5>1
        <5> QED BY <1>4, <5>2
      <4> QED BY <2>1, <3>1, <4>1 DEF NumbersOK
    <3>2. CASE j = Len(answers) + 1 /\ k = b
      <4>1. i # Len(answers) + 1
        BY <3>2
      <4>2. Echoed(i, m)
        BY <1>4, <4>1
      <4>3. OnTheWay(1, k) /\ 1 \in Nat
        BY <1>6, <3>2
      <4> QED BY <2>1, <4>2, <4>3 DEF NumbersOK
    <3> QED BY <1>4, <3>1, <3>2
  <2> QED BY <2>4, <2>5, <2>6, <2>7
<1>11. NoResetsOK'
  <2> SUFFICES ASSUME resets = 0
               PROVE  /\ since' = Settled
                      /\ \A i \in Nat, m \in Number : OnTheWay(i, m)' \/ Echoed(i, m)' => m \in asked'
    BY <1>0 DEF NoResetsOK, Number
  <2>1. since = Settled /\ \A i \in Nat, m \in Number : OnTheWay(i, m) \/ Echoed(i, m) => m \in asked
    BY DEF LinkInv, NoResetsOK
  <2>2. ASSUME NEW i \in Nat, NEW m \in Number, OnTheWay(i, m)' PROVE m \in asked
    <3>1. OnTheWay(i + 1, m) /\ i + 1 \in Nat
      BY <1>6, <2>2
    <3> QED BY <2>1, <3>1
  <2>3. ASSUME NEW i \in Nat, NEW m \in Number, Echoed(i, m)' PROVE m \in asked
    <3>1. Echoed(i, m) \/ OnTheWay(1, m)
      BY <1>4, <1>6, <2>3
    <3> QED BY <2>1, <3>1
  <2> QED BY <1>0, <2>1, <2>2, <2>3
<1>12. Parsed'
  <2> DEFINE f == [k \in 0 .. n |-> pend[k + 1]]
  <2>1. /\ f \in [0 .. n -> Partials] /\ \A k \in 0 .. n : f[k] = pend[k + 1]
        /\ f[0] = taken' /\ f[n] = pend[n + 1]
    BY <1>1, <1>3, <1>5
  <2> HIDE DEF f
  <2>2. Parsing(f)'
    <3>1. ASSUME NEW k \in 1 .. n PROVE f[k] = After(f[k - 1], to_vdp'[k])
      <4>1. k \in 0 .. n /\ k - 1 \in 0 .. n /\ k + 1 \in 1 .. n + 1
        BY <1>1
      <4>2. pend[k + 1] = After(pend[(k + 1) - 1], to_vdp[k + 1]) /\ (k + 1) - 1 = k /\ (k - 1) + 1 = k
        BY <1>3, <4>1
      <4> QED BY <1>1, <2>1, <4>1, <4>2
    <3> QED BY <1>1, <2>1, <3>1 DEF Parsing
  <2>3. AskedOK(f)'
    <3> SUFFICES ASSUME NEW m \in asked
                 PROVE  \/ \E i \in Nat : Echoed(i, m)'
                        \/ \E k \in Nat : OnTheWay(k, m)' /\ f[k - 1] = <<Vdu23, 0, Poll>>
      BY <1>0 DEF AskedOK
    <3>1. ASSUME NEW i \in Nat, Echoed(i, m) PROVE Echoed(i, m)'
      BY <1>4, <3>1 DEF Echoed
    <3>2. ASSUME NEW k \in Nat, OnTheWay(k, m), pend[k - 1] = <<Vdu23, 0, Poll>>
          PROVE  \/ \E i \in Nat : Echoed(i, m)'
                 \/ \E j \in Nat : OnTheWay(j, m)' /\ f[j - 1] = <<Vdu23, 0, Poll>>
      <4>1. CASE k = 1
        <5>1. m = b /\ taken = <<Vdu23, 0, Poll>>
          <6>1. k - 1 = 0
            BY <4>1
          <6> QED BY <1>1, <1>3, <3>2, <4>1, <6>1 DEF OnTheWay
        <5>2. Len(answers) + 1 \in Nat
          BY DEF LinkInv, LinkTypeOK
        <5> QED BY <1>4, <5>1, <5>2
      <4>2. CASE k # 1
        <5>1. k - 1 \in Nat /\ k - 1 >= 1 /\ (k - 1) + 1 = k /\ (k - 1) - 1 \in 0 .. n
          BY <1>1, <1>6, <3>2, <4>2
        <5>2. OnTheWay(k - 1, m)'
          BY <1>6, <3>2, <5>1
        <5>3. f[(k - 1) - 1] = pend[((k - 1) - 1) + 1] /\ ((k - 1) - 1) + 1 = k - 1
          BY <2>1, <5>1
        <5> QED BY <3>2, <5>1, <5>2, <5>3
      <4> QED BY <4>1, <4>2
    <3> QED BY <1>2, <3>1, <3>2 DEF AskedOK
  <2>4. Step(f[Len(to_vdp)])'
    <3>1. Step(pend[n + 1])
      BY <1>1, <1>2
    <3>2. PICK q : q = pend[n + 1]
      OBVIOUS
    <3>3. Step(q)'
      BY <1>0, <3>1, <3>2 DEF Step, InStep, Midway, Arguments, Behind
    <3> QED BY <2>1, <3>2, <3>3
  <2> QED BY <2>2, <2>3, <2>4 DEF Parsed
<1> QED BY <1>7, <1>8, <1>10, <1>11, <1>12 DEF LinkInv

\* The VDP, as it parses what is on the way, is in step with the program, takes the
\* rest of a packet for packets, or has yet to end one that a reset has cut short.
THEOREM LinkInvariance == LinkSpec => []LinkInv
<1>1. LinkInit => LinkInv
  BY InitLink
<1>2. LinkInv /\ [LinkNext]_link_vars => LinkInv'
  <2> SUFFICES ASSUME LinkInv, [LinkNext]_link_vars PROVE LinkInv'
    OBVIOUS
  <2>1. CASE UNCHANGED link_vars
    <3> USE <2>1 DEF link_vars, vdp, ez80
    <3>1. LinkTypeOK' /\ RestOK'
      BY DEF LinkInv, LinkTypeOK, RestOK
    <3>2. NumbersOK' /\ NoResetsOK'
      BY DEF LinkInv, NumbersOK, NoResetsOK, Past, OnTheWay, Echoed
    <3>3. Parsed'
      BY DEF LinkInv, Parsed, Parsing, AskedOK, OnTheWay, Echoed, Step, InStep, Midway, Arguments, Behind
    <3> QED BY <3>1, <3>2, <3>3 DEF LinkInv
  <2>2. CASE LinkNext
    BY <2>2, StepTakeByte, StepAround, StepBegin, StepSendByte, StepSoftReset DEF LinkNext, VdpStep
  <2> QED BY <2>1, <2>2
<1> QED BY <1>1, <1>2, PTL DEF LinkSpec

\* Every variable of the link has its type; in particular every answer is bytes.
THEOREM LinkTypeCorrect == LinkSpec => []LinkTypeOK
<1>1. LinkInv => LinkTypeOK
  BY DEF LinkInv
<1> QED BY <1>1, LinkInvariance, PTL

\* general poll. "echo back the sent byte": the answers come in the order of the
\* polls, none twice, and none is left out that the VDP was sure to see, whatever
\* the packets between them, their bytes and the number of the resets.  The polls
\* it is about are those whose argument begins no packet of several, so not 17 or
\* 23; these too are among the packets between.
THEOREM PollsInOrder == LinkSpec => []AnswersFollowPolls
<1>1. LinkInv => AnswersFollowPolls
  BY PollsFollow
<1> QED BY <1>1, LinkInvariance, PTL
=============================================================================
