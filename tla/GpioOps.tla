------------------------------- MODULE GpioOps -------------------------------
(***************************************************************************)
(* A GPIO port of the eZ80F92: struct Gpio of src/gpio.rs and its methods, *)
(* as operators on a record.  A register of eight bits is the set of the   *)
(* pins whose bit is 1, so the loops over the pins become set expressions. *)
(***************************************************************************)
EXTENDS Naturals

CONSTANT Pins   \* 0 .. 7

Gpio == [io_level : SUBSET Pins, interrupt_due : SUBSET Pins, dr   : SUBSET Pins,
         ddr      : SUBSET Pins, alt1          : SUBSET Pins, alt2 : SUBSET Pins]

new == [io_level |-> {}, interrupt_due |-> {}, dr   |-> {},
        ddr      |-> Pins, alt1        |-> {}, alt2 |-> {}]

\* The mode of a pin, numbered as in the source rather than by Zilog.
Bit(p, reg, weight) == IF p \in reg THEN weight ELSE 0
get_mode(g, p) ==
  Bit(p, g.dr, 1) + Bit(p, g.ddr, 2) + Bit(p, g.alt1, 4) + Bit(p, g.alt2, 8)

OutputModes == {0, 1, 4, 5, 6, 7}
InputModes  == {2, 3}
DualEdge    == 9
ActiveLow   == 12
ActiveHigh  == 13
FallingEdge == 14
RisingEdge  == 15

In(g, modes) == {p \in Pins : get_mode(g, p) \in modes}

\* Pins whose bit differs between two registers.
Xor(a, b) == (a \ b) \union (b \ a)

\* Pins on which a change of level from g.io_level to levels is an interrupt.
Triggered(g, levels) ==
  LET rise == levels \ g.io_level
      fall == g.io_level \ levels
  IN  (In(g, {DualEdge}) \intersect Xor(g.io_level, levels))
        \union (In(g, {ActiveLow}) \ levels)
        \union (In(g, {ActiveHigh}) \intersect levels)
        \union (In(g, {FallingEdge}) \intersect fall)
        \union (In(g, {RisingEdge}) \intersect rise)

\* Mutant: interrupts already pending are overwritten.
SetLevelsOverwriting(g, levels) ==
  [g EXCEPT !.io_level = levels, !.interrupt_due = Triggered(g, levels)]

set_input_pins(g, levels) ==
  [g EXCEPT !.io_level = levels,
            !.interrupt_due = @ \union Triggered(g, levels)]

set_input_pin(g, p, state) ==
  set_input_pins(g, IF state THEN g.io_level \union {p} ELSE g.io_level \ {p})

\* Mutant: a port write is not followed by a look at the levels.
UpdateForgotten(g) == g

update(g) == set_input_pins(g, g.io_level)

\* Pins on which writing a 1 acknowledges: a level must have gone first.
Acknowledged(g) ==
  In(g, {DualEdge, FallingEdge, RisingEdge})
    \union (In(g, {ActiveLow}) \intersect g.io_level)
    \union (In(g, {ActiveHigh}) \ g.io_level)

\* The pins in mask take the bits of v.
Assign(reg, v, mask) == (reg \ mask) \union (v \intersect mask)

\* In the interrupt modes DR is not written: a 1 acknowledges.
set_dr(g, v) ==
  [g EXCEPT !.io_level      = Assign(@, v, In(g, OutputModes)),
            !.dr            = Assign(@, v, In(g, OutputModes \union InputModes)),
            !.interrupt_due = @ \ (v \intersect Acknowledged(g))]

\* Reconfiguring drops pending interrupts.  The alternate registers, too, are
\* compared with DDR (gpio.rs:63 and 68).
set_ddr(g, v)  == [g EXCEPT !.ddr  = v, !.interrupt_due = @ \ Xor(g.ddr, v)]
set_alt1(g, v) == [g EXCEPT !.alt1 = v, !.interrupt_due = @ \ Xor(g.ddr, v)]
set_alt2(g, v) == [g EXCEPT !.alt2 = v, !.interrupt_due = @ \ Xor(g.ddr, v)]
=============================================================================
