---------------------------- MODULE AgonMachine ----------------------------
(***************************************************************************)
(* The machine loop of src/agon_machine.rs: do_interrupts and              *)
(* execute_instruction in turn, over the timers, UART 0 and the three GPIO *)
(* ports, with the threads that meet them: the VDP (vsync, bytes), the     *)
(* owner of the joystick pins, and whoever asks for a soft reset.  stage   *)
(* is the place of the CPU thread between two accesses to shared state.    *)
(*                                                                         *)
(* The program is any that keeps to the discipline of the timer test in    *)
(* sdcard/regression_suite: a handler runs with interrupts off, touches    *)
(* its device once to acknowledge, enables interrupts and returns.         *)
(*                                                                         *)
(* owed, requested and age are history.                                    *)
(***************************************************************************)
EXTENDS Naturals, Sequences, FiniteSets

CONSTANTS
  NTimers,     \* 6
  Pins,        \* of a port: 0 .. 7
  EdgePins,    \* per port, the pins in rising-edge mode
  ByteSize, ClkDiv, Bytes, FifoSize, FrameClocks,   \* see the devices' modules
  IrqEvery,    \* instructions between two polls for interrupts (64)
  ResetEvery,  \* instructions between two looks at soft_reset (256)
  Ticks,       \* cycles an instruction takes
  Reload,      \* what the timers are loaded with
  CtlWrites,   \* what the program writes to their control registers
  Iff, Ier,    \* what it may do: toggle interrupts, write ier bits
  MaxRx        \* bound: bytes waiting in the UART's link

T == INSTANCE PrtTimerOps
U == INSTANCE UartOps
G == INSTANCE GpioOps

Ports  == {"b", "c", "d"}
Timers == 0 .. NTimers - 1

VsyncPin == 1

ASSUME AgonMachineAssumption ==
  /\ NTimers \in 1 .. 6
  /\ Pins \subseteq 0 .. 7 /\ VsyncPin \in Pins
  /\ EdgePins \in [Ports -> SUBSET Pins]
  /\ IrqEvery \in Nat \ {0} /\ ResetEvery \in Nat \ {0} /\ ResetEvery % IrqEvery = 0
  /\ ByteSize \in Nat /\ ByteSize > 1 /\ 0 \in T!Div
  /\ ClkDiv \in [T!Div -> Nat \ {0}] /\ \A d \in T!Div : ClkDiv[d] < T!WordSize
  /\ FifoSize \in Nat \ {0} /\ FrameClocks \in Nat
  /\ Ticks \subseteq T!Word /\ Reload \in T!Word
  /\ \A c \in CtlWrites : c \in T!Ctl /\ ~ c.irq
  /\ Iff \subseteq BOOLEAN /\ Ier \subseteq BOOLEAN \X BOOLEAN
  /\ MaxRx \in Nat

VARIABLES
  timers, uart, gpios,
  soft_reset,   \* the flag shared with the embedder
  stage,        \* what the CPU thread does next
  count,        \* instructions_executed, modulo ResetEvery
  iff1,         \* interrupts enabled
  mode,         \* the vector whose handler runs, Main if none
  acked,        \* it has acknowledged
  due,          \* the copy do_interrupts made of interrupt_due, per port
  owed,         \* vectors with an event that nothing has acknowledged
  requested,    \* a soft reset was asked for and not made
  age           \* instructions executed since, counted no further than needed

devices == <<timers, uart, gpios>>
cpu     == <<stage, count, iff1, mode, acked, due>>
reset   == <<soft_reset, requested, age>>
vars    == <<devices, cpu, reset, owed>>

\* Interrupt vectors; the lower, the higher the priority.
TimerVector(i) == 10 + (2 * i)
UartVector     == 24
PortBase       == [b |-> 48, c |-> 64, d |-> 80]
PinVector(port, p) == PortBase[port] + (2 * p)
Main           == 0

TimerVectors == {TimerVector(i) : i \in Timers}
PinVectors   == {PinVector(port, p) : port \in Ports, p \in Pins}
Vectors      == TimerVectors \union {UartVector} \union PinVectors

VsyncVector  == PinVector("b", VsyncPin)

\* Mutant: the lowest priority goes first.
Last(S) == CHOOSE v \in S : \A w \in S : v >= w

First(S) == CHOOSE v \in S : \A w \in S : v <= w

Stages == {"reset", "reset_pc", "reset_store", "poll", "snapshot", "fire", "execute"}

TypeOK ==
  /\ timers \in [Timers -> T!PrtTimer] /\ uart \in U!Uart /\ gpios \in [Ports -> G!Gpio]
  /\ soft_reset \in BOOLEAN /\ requested \in BOOLEAN /\ age \in 0 .. ResetEvery
  /\ stage \in Stages /\ count \in 0 .. ResetEvery - 1
  /\ iff1 \in BOOLEAN /\ mode \in Vectors \union {Main} /\ acked \in BOOLEAN
  /\ due \in [Ports -> SUBSET Pins]
  /\ owed \subseteq TimerVectors \union PinVectors
-----------------------------------------------------------------------------
\* Port writes the firmware makes at start-up to put pins in rising-edge mode.
RisingEdgePins(ps) ==
  G!update(G!set_alt2(G!update(G!set_alt1(G!update(G!set_dr(G!new, ps)), ps)), ps))

Init ==
  /\ timers = [i \in Timers |-> [T!new EXCEPT !.reload = Reload]]
  /\ uart = U!new
  /\ gpios = [port \in Ports |-> RisingEdgePins(EdgePins[port])]
  /\ soft_reset = FALSE /\ requested = FALSE /\ age = 0
  /\ stage = "reset" /\ count = 0
  /\ iff1 = FALSE /\ mode = Main /\ acked = FALSE
  /\ due = [port \in Ports |-> {}]
  /\ owed = {}
-----------------------------------------------------------------------------
\* do_interrupts

\* Mutant: a soft reset is looked for like an interrupt.
LookForResetIfEnabled ==
  /\ stage = "reset"
  /\ stage' = IF count = 0 /\ iff1 /\ soft_reset THEN "reset_pc" ELSE "poll"
  /\ UNCHANGED <<devices, reset, owed, count, iff1, mode, acked, due>>

\* Mutant: the flag is cleared when it is read, whether or not its time has come.
LookForResetLosing ==
  /\ stage = "reset"
  /\ stage' = IF count = 0 /\ soft_reset THEN "reset_pc" ELSE "poll"
  /\ soft_reset' = FALSE
  /\ UNCHANGED <<devices, requested, age, owed, count, iff1, mode, acked, due>>

\* Now and then the flag is looked at first; a reset leaves no time for
\* interrupts.
LookForReset ==
  /\ stage = "reset"
  /\ stage' = IF count = 0 /\ soft_reset THEN "reset_pc" ELSE "poll"
  /\ UNCHANGED <<devices, reset, owed, count, iff1, mode, acked, due>>

\* set_pc(0): whatever was running, a handler too, is abandoned.  Neither the
\* interrupt enable nor a device is reset.
SoftReset ==
  /\ stage = "reset_pc"
  /\ mode' = Main /\ acked' = FALSE
  /\ requested' = FALSE /\ age' = 0
  /\ stage' = "reset_store"
  /\ UNCHANGED <<devices, soft_reset, owed, count, iff1, due>>

ClearFlag ==
  /\ stage = "reset_store"
  /\ soft_reset' = FALSE
  /\ stage' = "execute"
  /\ UNCHANGED <<devices, requested, age, owed, count, iff1, mode, acked, due>>

Enter(v) ==
  /\ iff1' = FALSE /\ mode' = v /\ acked' = FALSE
  /\ stage' = "execute"

DueTimers == {TimerVector(i) : i \in {i \in Timers : T!irq_due(timers[i])}}

NoPoll ==
  /\ stage = "poll"
  /\ count % IrqEvery # 0 \/ ~ iff1
  /\ stage' = "execute"
  /\ UNCHANGED <<devices, reset, owed, count, iff1, mode, acked, due>>

PollTimers ==
  /\ stage = "poll" /\ count % IrqEvery = 0 /\ iff1
  /\ DueTimers # {}
  /\ Enter(First(DueTimers))
  /\ UNCHANGED <<devices, reset, owed, count, due>>

\* Mutant: the UART is polled though a timer is due.
PollUartFirst ==
  /\ stage = "poll" /\ count % IrqEvery = 0 /\ iff1
  /\ uart' = U!poll(uart)
  /\ IF U!irq_due(uart)
     THEN Enter(UartVector)
     ELSE stage' = "snapshot" /\ UNCHANGED <<iff1, mode, acked>>
  /\ UNCHANGED <<timers, gpios, reset, owed, count, due>>

PollUart ==
  /\ stage = "poll" /\ count % IrqEvery = 0 /\ iff1
  /\ DueTimers = {}
  /\ uart' = U!poll(uart)
  /\ IF U!irq_due(uart)
     THEN Enter(UartVector)
     ELSE stage' = "snapshot" /\ UNCHANGED <<iff1, mode, acked>>
  /\ UNCHANGED <<timers, gpios, reset, owed, count, due>>

\* Mutant: the copy of an earlier poll is used.
SnapshotStale ==
  /\ stage = "snapshot"
  /\ stage' = "fire"
  /\ UNCHANGED <<devices, reset, owed, count, iff1, mode, acked, due>>

\* The lock on the ports is held for the copy only.
Snapshot ==
  /\ stage = "snapshot"
  /\ due' = [port \in Ports |-> gpios[port].interrupt_due]
  /\ stage' = "fire"
  /\ UNCHANGED <<devices, reset, owed, count, iff1, mode, acked>>

DuePins == UNION {{PinVector(port, p) : p \in due[port]} : port \in Ports}

FireGpio ==
  /\ stage = "fire"
  /\ IF DuePins # {}
     THEN Enter(First(DuePins))
     ELSE stage' = "execute" /\ UNCHANGED <<iff1, mode, acked>>
  /\ UNCHANGED <<devices, reset, owed, count, due>>
-----------------------------------------------------------------------------
\* execute_instruction: an instruction that makes ts and u of the timers and
\* the UART, and the ticks it takes.  UART 1 gets none.

Expires(t, n) == LET loaded == IF t.ctl.en THEN T!Restarted(t) ELSE t
                 IN  loaded.counter # 0 /\ T!apply_ticks(t, n).counter = 0

Retire(ts, u, events) ==
  /\ stage = "execute" /\ stage' = "reset"
  /\ count' = (count + 1) % ResetEvery
  /\ age' = IF ~ requested THEN 0 ELSE IF age <= ResetEvery THEN age + 1 ELSE age
  /\ \E n \in Ticks :
       /\ timers' = [i \in Timers |-> T!apply_ticks(ts[i], n)]
       /\ uart' = U!apply_ticks(u, n)
       /\ owed' = events \union {TimerVector(i) : i \in {i \in Timers : Expires(ts[i], n)}}
  /\ UNCHANGED <<soft_reset, requested, due>>

Plain ==
  /\ Retire(timers, uart, owed)
  /\ UNCHANGED <<gpios, iff1, mode, acked>>

\* EI and DI
SetIff(b) ==
  /\ mode = Main
  /\ iff1' = b
  /\ Retire(timers, uart, owed)
  /\ UNCHANGED <<gpios, mode, acked>>

\* A write to the control register drops a pending interrupt, and so the event.
WriteTimerCtl(i, c) ==
  /\ mode = Main
  /\ Retire([timers EXCEPT ![i] = T!write_ctl(@, c)], uart, owed \ {TimerVector(i)})
  /\ UNCHANGED <<gpios, iff1, mode, acked>>

WriteIer(r, t) ==
  /\ mode = Main
  /\ Retire(timers, [uart EXCEPT !.rdi = r, !.thri = t], owed)
  /\ UNCHANGED <<gpios, iff1, mode, acked>>

Acknowledge ==
  /\ mode # Main /\ ~ acked
  /\ acked' = TRUE
  /\ \/ \E i \in Timers :
          /\ mode = TimerVector(i)
          /\ Retire([timers EXCEPT ![i] = T!read_ctl(@)], uart, owed \ {mode})
          /\ UNCHANGED gpios
     \/ /\ mode = UartVector
        /\ Retire(timers, U!receive_byte(U!read_iir(uart)), owed)
        /\ UNCHANGED gpios
     \/ \E port \in Ports, p \in Pins :
          /\ mode = PinVector(port, p)
          /\ gpios' = [gpios EXCEPT ![port] = G!update(G!set_dr(@, {p}))]
          /\ Retire(timers, uart, owed \ {mode})
  /\ UNCHANGED <<iff1, mode>>

\* EI and RETI, counted as one instruction: an interrupt does not come between.
ReturnFromHandler ==
  /\ mode # Main /\ acked
  /\ mode' = Main /\ iff1' = TRUE /\ acked' = FALSE
  /\ Retire(timers, uart, owed)
  /\ UNCHANGED gpios
-----------------------------------------------------------------------------
\* The other threads

\* The VDP's vertical blank: pin 1 of port B up and down under one lock.
Vsync ==
  /\ gpios' = [gpios EXCEPT !["b"] =
                 G!set_input_pin(G!set_input_pin(@, VsyncPin, TRUE), VsyncPin, FALSE)]
  /\ owed' = IF VsyncPin \in EdgePins["b"] THEN owed \union {VsyncVector} ELSE owed
  /\ UNCHANGED <<timers, uart, cpu, reset>>

\* A joystick pin; on a plain input it can interrupt nobody.
Joystick(port, p, state) ==
  /\ port # "b" /\ p \in EdgePins[port]
  /\ gpios' = [gpios EXCEPT ![port] = G!set_input_pin(@, p, state)]
  /\ owed' = IF state /\ p \notin gpios[port].io_level
             THEN owed \union {PinVector(port, p)} ELSE owed
  /\ UNCHANGED <<timers, uart, cpu, reset>>

LinkSends(b) ==
  /\ Len(uart.link.rx) < MaxRx
  /\ uart' = [uart EXCEPT !.link.rx = Append(@, b)]
  /\ UNCHANGED <<timers, gpios, cpu, reset, owed>>

\* A request that comes while the CPU stands at address 0, reset and about to
\* clear the flag, asks for nothing more.
RequestReset ==
  /\ soft_reset' = TRUE
  /\ requested' = (requested \/ stage # "reset_store")
  /\ UNCHANGED <<devices, cpu, owed, age>>
-----------------------------------------------------------------------------
DoInterrupts == LookForReset \/ SoftReset \/ ClearFlag \/ NoPoll \/ PollTimers
                  \/ PollUart \/ Snapshot \/ FireGpio

Handler == Acknowledge \/ ReturnFromHandler

Next ==
  \/ LookForReset \/ SoftReset \/ ClearFlag
  \/ NoPoll \/ PollTimers \/ PollUart \/ Snapshot \/ FireGpio
  \/ Plain \/ Acknowledge \/ ReturnFromHandler
  \/ \E b \in Iff : SetIff(b)
  \/ \E i \in Timers, c \in CtlWrites : WriteTimerCtl(i, c)
  \/ \E w \in Ier : WriteIer(w[1], w[2])
  \/ Vsync
  \/ \E port \in Ports, p \in Pins, state \in BOOLEAN : Joystick(port, p, state)
  \/ \E b \in Bytes : LinkSends(b)
  \/ RequestReset

Spec == Init /\ [][Next]_vars

\* The CPU thread goes on; a handler and the main program, which from time to
\* time enables interrupts, get where they are going.
Fairness ==
  /\ WF_vars(DoInterrupts)
  /\ WF_vars(Plain \/ Handler)
  /\ SF_vars(Handler)
  /\ SF_vars(SetIff(TRUE))

FairSpec == Spec /\ Fairness
-----------------------------------------------------------------------------
(***************************************************************************)
(* Properties                                                              *)
(***************************************************************************)

Enters(v) == stage \in {"poll", "fire"} /\ iff1 /\ ~ iff1' /\ mode' = v

\* No handler is entered for nothing: since its device was last acknowledged
\* (a timer also: configured) there was an expiry of the timer or an edge on
\* the pin, however ticks, pulses, acknowledgements and soft resets fell between
\* the steps of the loop.  An event is thus served once, with one exception the
\* statement allows: a handler that a soft reset cuts off before it acknowledged
\* is entered again for the same event; one cut off after it never is.
NoSpuriousEntry ==
  [][\A v \in TimerVectors \union PinVectors : Enters(v) => v \in owed]_vars

\* The copy of interrupt_due is used after the lock is gone; what it names is
\* still due then: other threads add interrupts but never take one away.
SnapshotStillDue ==
  stage = "fire" => \A port \in Ports : due[port] \subseteq gpios[port].interrupt_due

\* The handler entered is of the highest priority among what was due when the
\* loop looked, though the looking takes three steps and other threads act in
\* between ("Interrupts in priority order").
Seen == DueTimers \union (IF U!irq_due([uart EXCEPT !.link.rx = <<>>]) THEN {UartVector} ELSE {})
          \union (IF stage = "fire" THEN DuePins ELSE {})
HighestFirst ==
  [][\A v \in Vectors : Enters(v) => \A w \in Seen : v <= w]_vars

\* A soft reset is made before ResetEvery more instructions are executed, and
\* none is lost to the gap between reading the flag and clearing it.
ResetPrompt == requested => soft_reset /\ age <= ResetEvery

\* A pending vsync is served in the end, provided that time and again a poll
\* gets past the timers and the UART to the ports, where no pin comes before it:
\* soft resets, which skip a poll, do not starve it.
VsyncServed ==
  []<>(stage = "snapshot") =>
    (VsyncPin \in gpios["b"].interrupt_due ~> mode = VsyncVector)

\* A soft reset asked for is made.
ResetMade == requested ~> ~ requested
=============================================================================
