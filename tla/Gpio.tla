-------------------------------- MODULE Gpio --------------------------------
(***************************************************************************)
(* A GPIO port shared by the CPU thread and the threads that drive its     *)
(* inputs.  Each action is what one holder of the mutex does: a port write *)
(* (register, then update) of agon_machine.rs, the vsync pulse the VDP     *)
(* thread gives pin 1 of port B (bin/agon.rs), or a level some embedder    *)
(* puts on another pin.                                                    *)
(*                                                                         *)
(* misses is history: the pulses on VsyncPin, since the port was last      *)
(* configured, that found it in rising-edge mode and left no interrupt.    *)
(***************************************************************************)
EXTENDS GpioOps

CONSTANT VsyncPin

ASSUME GpioAssumption == VsyncPin \in Pins

VARIABLES gpio, misses

vars == <<gpio, misses>>

TypeOK == gpio \in Gpio /\ misses \in 0 .. 2

Init == gpio = new /\ misses = 0
-----------------------------------------------------------------------------
WriteDr(v) ==
  /\ gpio' = update(set_dr(gpio, v))
  /\ UNCHANGED misses

WriteDdr(v)  == gpio' = update(set_ddr(gpio, v))  /\ misses' = 0
WriteAlt1(v) == gpio' = update(set_alt1(gpio, v)) /\ misses' = 0
WriteAlt2(v) == gpio' = update(set_alt2(gpio, v)) /\ misses' = 0

\* Mutant: the pin is left high.
PulseLeftHigh(g, p) == set_input_pin(g, p, TRUE)

\* Up and down again under one lock: no one sees the pin high.
Pulse(g, p) == set_input_pin(set_input_pin(g, p, TRUE), p, FALSE)

Missed == /\ get_mode(gpio, VsyncPin) = RisingEdge
          /\ VsyncPin \notin gpio'.interrupt_due

Vsync ==
  /\ gpio' = Pulse(gpio, VsyncPin)
  /\ misses' = IF Missed /\ misses < 2 THEN misses + 1 ELSE misses

SetInputPin(p, state) ==
  /\ p # VsyncPin
  /\ gpio' = set_input_pin(gpio, p, state)
  /\ UNCHANGED misses

Configure == \E v \in SUBSET Pins : WriteDdr(v) \/ WriteAlt1(v) \/ WriteAlt2(v)
Outside   == Vsync \/ \E p \in Pins, state \in BOOLEAN : SetInputPin(p, state)

Next == \/ \E v \in SUBSET Pins : WriteDr(v)
        \/ \E v \in SUBSET Pins : WriteDdr(v)
        \/ \E v \in SUBSET Pins : WriteAlt1(v)
        \/ \E v \in SUBSET Pins : WriteAlt2(v)
        \/ Vsync
        \/ \E p \in Pins, state \in BOOLEAN : SetInputPin(p, state)

Spec == Init /\ [][Next]_vars
-----------------------------------------------------------------------------
(***************************************************************************)
(* Properties                                                              *)
(***************************************************************************)

\* A level interrupt is pending whenever its level is there: acknowledging,
\* reconfiguring or moving other pins never leaves an asserted pin without
\* its interrupt (gpio.rs:178-184, and the update after every port write).
LevelAsserted ==
  \A p \in Pins :
    /\ get_mode(gpio, p) = ActiveLow  /\ p \notin gpio.io_level => p \in gpio.interrupt_due
    /\ get_mode(gpio, p) = ActiveHigh /\ p \in gpio.io_level    => p \in gpio.interrupt_due

\* Once configured, the vsync interrupt misses at most one pulse: the first,
\* if the pin had been left high.  (In rising-edge mode DR cannot raise it.)
AtMostOneMissed == misses <= 1

\* A pending interrupt outlives everything but its own acknowledgement and a
\* configuration: neither the VDP nor the other pins can take it away.
PendingUntilAcknowledged ==
  [][\A p \in gpio.interrupt_due \ gpio'.interrupt_due :
        \/ \E v \in SUBSET Pins : p \in v /\ WriteDr(v)
        \/ Configure]_vars

\* What the variable "modified" of set_alt1 says (gpio.rs:63): the interrupts
\* dropped are those of the pins whose bit the write modifies.
AltDropsModifiedOnly ==
  [][\A v \in SUBSET Pins : WriteAlt1(v) =>
        gpio.interrupt_due \ gpio'.interrupt_due \subseteq Xor(gpio.alt1, v)]_vars
=============================================================================
