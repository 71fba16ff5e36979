# Formal models of agon-cpu-emulator

TLA+ models of the emulator of the Agon Light in `src/`, model-checked with TLC
and partly proved with TLAPS. Every definition is a translation of the Rust
source; `PROJECT.json` says which lines each one stands for, which run checks
which property, and which plausible bug (mutant) each property would catch. The
eZ80 CPU itself is the crate `ez80`, which is not part of the repository, and
the program the CPU runs is firmware: both are modelled by what they can do to
the devices.

## 1. Inventory

| Component | State | Operations | Meets the others through |
|---|---|---|---|
| Reload timers, `prt_timer.rs` | `ctl`, `reload`, `counter`, `step_`, `latch_counter_high` | port reads and writes 0x80 ff., `apply_ticks` after each instruction | `irq_due`, polled by the machine loop |
| UART, `uart.rs` | `rx_buf`, `tx_fifo`, `cooldown`, divisor, `ier`, `lctl`, `fctl`, a `SerialLink` | ports 0xc0 ff., `apply_ticks`, the receive poll of `do_interrupts` | the link (two channels) to the VDP thread |
| GPIO ports, `gpio.rs` | `dr`, `ddr`, `alt1`, `alt2`, `io_level`, `interrupt_due` of ports B, C, D | ports 0x9a ff., `set_input_pin(s)` | a mutex shared with the VDP thread (vsync on pin 1 of B) and the joystick's owner |
| SD card, `spi_sdcard.rs` | byte buffers in and out, transfer flag, sector of the write under way, image file | ports 0xbb, 0xbc, one byte at a time | the SD driver in the firmware |
| Machine loop, `agon_machine.rs` | `instructions_executed`, `cycle_counter`, `soft_reset`, CPU state | `start`: tick of the debugger, `do_interrupts`, `execute_instruction` | all devices, atomics and the mutex shared with other threads |
| Debugger, `debugger.rs` | `triggers`, `paused`, the machine's out-of-bounds marker and `last_pc` | `tick`, `handle_debug_cmd` | two channels to a client |
| Host file system, `agon_machine.rs` 487-1145 | `open_files`, `open_dirs`, `mos_current_dir`; the FatFs structures in guest memory | traps at the entry points of FatFs in MOS | guest memory, the host's files |
| Paths, `agon_machine.rs` 948-1000 | none | `mos_path_join`, `mos_path_to_host_path` | the directories of the host, for the spelling of names |
| Memory map, `agon_machine.rs` 62-91, 421-442 | three memories, chip select bounds, on-chip RAM enable and segment, flash segment | peek, poke, ports 0xa8, 0xa9, 0xb4, 0xb5, 0xf7 | everything the CPU fetches; the condition of the traps; the debugger's out-of-bounds marker |
| VDP, `bin/agon.rs` | position in a packet, `vdp_terminal_mode`, lines typed | one thread: a packet of the link, vsync, keyboard | UART link, GPIO, the user's terminal |
| Symbol maps, start-up | none after start | parsing, options, loading of images | - |

**What is hard.**  The CPU thread shares the GPIO ports (mutex), the soft reset
flag (atomic) and the UART channels with other threads, and `do_interrupts`
looks at them in several accesses with time in between. Interrupts are only
polled every 64 instructions. Devices do nothing by themselves: they advance
when an instruction has been executed, by its cycles. The SD card tells
commands, data and polling apart only by its state, in one stream of bytes that
a soft reset may cut anywhere. The VDP waits inside a packet for its next byte
and makes no vsync meanwhile. The host file system keeps the truth about a file
in `open_files` and a copy of it in guest memory, and a soft reset clears one and
not the other. What an address means depends on ports the program may write at
any time, and the traps of the host file system go by the address and the place
of the flash alone. The debugger executes instructions of its own inside `tick`,
and handles any number of queued commands there. The list of hazards in `PROJECT.json` gives each at its
line with the properties that watch over it.

**What makes each component correct.**  Timers: an expiry per period, neither
early nor lost nor doubled, and 16-bit reads through 8-bit ports. UART: both
directions are queues, announced room and announced bytes are there, the baud
rate is kept. GPIO: no interrupt vanishes but by acknowledgement or
configuration. SD card: driver and card agree on where they are, and together
are a block device. Machine loop: interrupts have a cause, come in order of
priority and are served; soft resets are made. Debugger: breakpoints stop,
what the client was told is so, out-of-bounds reports blame the right
instruction. Host file system: behind the traps there is a store of files in
which every FIL structure is a cursor of its own, MOS's copy of a position is
the position, a path denotes what was typed but for case. Memory map: what is
stored at an address is read there and nowhere else, and a trap stands for a
function of the firmware. VDP: polls are answered once each and in their order,
and the vsync goes on.

## 2. Modules

| Component | Modules |
|---|---|
| Timers | `PrtTimerOps` (the struct and its methods as operators), `PrtTimer` (port accesses and ticks as actions), `MCPrtTimer`, `PrtTimerProofs` |
| UART | `UartOps`, `Uart`, `MCUart`, `UartProofs` |
| GPIO | `GpioOps`, `Gpio`, `MCGpio`, `GpioLinkProofs` |
| SD card | `SpiSdcardOps`, `SpiSdcard` (card and driver), `BlockDevice` (what they implement), `MCSpiSdcard`, `SpiSdcardProofs` |
| Machine loop | `AgonMachine`, which composes `PrtTimerOps`, `UartOps` and `GpioOps`; `MCAgonMachine`, `AgonMachineProofs` |
| Debugger | `Debugger`, `MCDebugger`, `DebuggerProofs` |
| Host file system | `HostFs` (the traps as actions), on `MosPaths` (paths and the host's tree, as operators), `FileStore` (what they implement), `MCHostFs`, `HostFsProofs` |
| Memory map | `MemoryMap`, `MCMemoryMap`, `MemoryMapProofs` |
| VDP | `VdpLink`, `MCVdpLink`, `GpioLinkProofs` |

A device is in two modules. The `Ops` module is the Rust struct: a set of
records, and one operator per method with the method's name. It is what the
machine loop composes. The other module makes a state machine of it: one action
per port access of `agon_machine.rs` that changes state, one for the ticks of an
instruction, one per call from another thread. Definitions marked `Mutant` next
to a definition are changed forms of it that no specification uses; each
is a bug that some property must catch.

**Timers.**  One timer stands for the six, which share nothing. `ctl` is a
record of its bits; bit 5, which nothing reads, is left out. A u16 is a number
below `ByteSize * ByteSize` and `wrapping_add` wraps there. History variables:
`fires`, `unacked`, a `window` of ticks since the last restart, and the `sample`
latched by a read of the low half.

**UART.**  `rx_buf`, an `Option<u8>`, is a sequence of at most one byte. `link`
holds what the other end has sent and what has been sent to it. The divisor is
its two halves, so that a program may change one at a time. `Monus` is the
`max(0, ..)` of `apply_ticks`. Unused register bits, the scratch pad and the
constant modem status are left out, and UART 1, the same struct without ticks on
a link that goes nowhere.

**GPIO.**  Registers are sets of pins. `get_mode` maps the four register bits to
the mode number of the source. Every pin may be in every mode; `Vsync` is the
pair of calls that `bin/agon.rs` makes under one lock.

**SD card.**  The card has its image. A sector is named by the bytes of its
address and has `SectorLen` bytes. The driver is firmware; what it does is
reconstructed from the answers the card prepares: a frame, polling with 255 for
the response, the token, the data and the checksum or the status. It reads the
receive register only while it polls. (The card queues the answer to a frame
with its last byte; a driver that read the register for every byte it sent would
read the beginning of the answer too early.) An access to the image moves any
number of bytes, from the first on, and has failed if it moves fewer than
`SectorLen`: a write is then torn, a read sends the part it has and zeros behind
it, and the card acknowledges both as if nothing had happened. `BlockDevice`
promises its client no more than that part. `moved` is history: how many bytes
the access moved that the last byte sent has caused. A soft
reset restarts the driver and leaves the card as it is; the driver starts a
command only with at most `MaxBacklog` bytes unread, a bound of the model.

**Machine loop.**  `stage` is where the CPU thread stands between two accesses
to shared state: look at the soft reset flag (`reset`), set the PC
(`reset_pc`), clear the flag (`reset_store`), timers and UART (`poll`), copy of
`interrupt_due` under the lock (`snapshot`), use of the copy (`fire`), the
instruction (`execute`). An instruction is one that touches no device (`Plain`),
`EI`/`DI`, a write to a timer or to the UART's interrupt enable, or a step of an
interrupt handler. Handlers do what `timer_irq_handler` in
`sdcard/regression_suite/timerirq.asm` does: touch the device once to
acknowledge, then `EI` and `RETI`, counted here as one instruction. The program
does not write bit 7 of a timer's control register. `HALT` is left out. `owed`
is history: the vectors with an event, an expiry or an edge, that nothing has
acknowledged; acknowledging and configuring the timer retire it, entering the
handler and soft resets do not. So a handler cut off by a reset before it has
acknowledged is entered again for the same event, and one cut off later is not.

**Debugger.**  The machine and the server are a record `m` that
`handle_debug_cmd` transforms; `tick` is several actions, because the client
sends while it runs: `Tick` (the marker, the triggers found), `RunAction` and
`EndTrigger` for each action of theirs, `DropOnce`, `Command` for each command
found, `EndTick`. The actions of a trigger are commands like the client's, handled
by the same operator: `DebugCmd` and `Trigger`, which refer to one another, are
constants.
The program is a table of instructions: plain ones, calls, returns, one that
accesses memory out of bounds, and entry points of FatFs that are served by the
host (`trap`). `Bottom` is what a return finds when the program has pushed
nothing, so any program may be given. The machine starts with the out-of-bounds marker set or
not, as the random fill of the RAM leaves it; a push of an interrupt may set it too.
History: `stray`, the marker comes from one of these two; `stopped`, `tick` has found a
breakpoint and no `Continue` or `StepOver` has been handled since; `over`, where the
client's last step over a call is to stop.

**Host file system.**  The host is a `tree` from paths to files (numbers) or
directories, and the `content` of the files; a file lives as long as it has a
name or is open, as on the host. `open_files` maps the address of an FIL to a
file, a position and whether it may be written; `fptr` is the one member of the
FIL in guest memory that the calls keep up to date, FPTR. One action per
trapped function (`f_open` to `f_mount`), which takes its outcome from the tree
as the match on `io::ErrorKind` does; in addition the host may refuse any call
on a file, and may fail in the middle of a write (`Put`) and of the line that
`f_gets` reads, which leaves the position part of the way along it. `result` is the
register HL on return, `out` the bytes read. `SoftReset` is a soft reset of the
machine: nothing happens in the host file system, and the firmware clears its
structures when it begins anew. Left out, because no property tells them apart:
OBJSIZE, FILINFO, the label, the zeros `f_read` stores behind the end of a file,
and what a directory lists.

A path, in `MosPaths`, is the sequence of its fragments, what splitting at `/`
and `\` leaves, so `/a` is `<<"", "a">>`. `mos_path_join` is a recursive function over
them. The tree at the start may be any in which every entry lies in a directory;
the host could have two entries that differ in case only, and MOS could then
reach but one of the two. The properties about names say so (`NoCaseTwins`).

**Memory map.**  An address is a segment (the upper byte) and an offset. The
three `get_*_address` functions of the source are operators that yield a cell of
one memory or `None`, `Cell` is the order in which peek and poke ask them. The
address space of the model has one segment more than the 24 bits of the CPU,
because the host file system counts on beyond the end. `And` is the bitwise and
of the source, defined by recursion on the bits. A random start has filled the
external range and the on-chip RAM; a bound on the bytes that differ from zero,
`MaxDirty`, stands in for arbitrary contents. `patched` is history: the
program has stored something in the flash. Wait states are left out.

**VDP.**  `at` is where the thread's loop stands, `taken` are the bytes of the
packet it is in; `Length` says how many the packet has, which the source
decides byte by byte. The program sends packets byte by byte and may be cut by a
soft reset between any two. `since` (history) counts the bytes it has sent since
then, and `asked` (history) are the polls whose last byte came with `Settled = 6`
bytes sent before it: the poll's first three, and three more, which is what a
packet cut short may lack. A packet that ends in an argument 17 or 23
(`Misleading`) looks to a VDP out of step like the beginning of another and keeps
it out of step, so `since` begins anew there. The packets may be any, with any
arguments. Those called polls carry the number of the packet as their argument, so
that answers can be told apart: numbers from 256 on, which stand for any byte that
begins no packet of several. The payload of answers, the keys of a line and what is printed
are left out. The effect of the vsync on the port is in `Gpio` and in `AgonMachine`,
the FIFO and the channel on the machine's side in `Uart`.

## 3. Runs

| Run | Checks | Distinct states |
|---|---|---|
| `prt_timer` | five safety properties of a timer, and that a single pass ends | 221 000 |
| `uart` | both directions, polite programs, baud rate, and that all is sent | 1 000 000 |
| `gpio` | levels, missed vsyncs, what may take an interrupt away | 2 300 |
| `gpio_alt` | finding: writing ALT1 drops other pins' interrupts | - |
| `sd_card` | card and driver in step and a `BlockDevice`, with image accesses failing part of the way and a soft reset; buffer bounds; commands end | 1 760 000 |
| `sd_card_arg_255` | finding: a byte 255 of a sector number is dropped | - |
| `machine` | interrupts are justified, ordered; copies stay right; resets prompt; vsyncs are served | 194 000 |
| `debugger` | breakpoints, steps over calls, what the client is told, blame | 5 260 000 |
| `debugger_continue` | finding: an instruction is executed without a tick before it | - |
| `host_fs` | refinement of `FileStore`, MOS's copy of positions, what a string means, no two names made that differ in case only | 218 000 |
| `memory_map` | RAM is whole, a store is local, traps mean the firmware | 64 500 |
| `vdp_link` | answers follow polls, every poll answered, the vsync goes on | 1 020 000 |

### Bounds, and why they are enough

* `prt_timer`: `ByteSize = 2`, so the 16-bit registers have 4 values and every
  wrap, borrow and torn read occurs; dividers 1 and 2 with up to 2 ticks per
  instruction, so that an instruction can outlast a period and `step_` wraps;
  a `window` is reopened after `MaxElapsed = 6` ticks. The control writes all
  have IRQ_EN set: it only gates `irq_due`, which nothing in the timer reads.
  0 ticks are allowed though no instruction takes none.
* `uart`: two byte values, a FIFO of 2, two bytes in and three out (more than
  the FIFO holds), divisors 0 to 3. A write to the interrupt enable sets both
  bits: with the receive bit the poll of `do_interrupts` fetches bytes, and a
  read of the identification register clears the transmit bit. The proofs hold
  for every choice.
* `gpio`: two pins, the vsync and one more, with all values of all registers.
  The pins of a port are independent but for `set_dr`, `update` and the masks
  they share, which two pins exercise.
* `sd_card`: addresses of one byte and sectors of four, longer than a frame (as
  512 is longer than 6), with payloads that hold tokens, dummies and commands.
  Any access to the image may
  move all four bytes, two or none. One soft reset anywhere, after which every
  split of the stream by the card against the driver's occurs; with at most
  `MaxBacklog = 4` bytes unread when a command starts. That bound, not the
  code, may stop the driver, so deadlock is not checked.
* `machine`: one timer that counts 2, the vsync pin and a joystick pin of another
  port, the UART with one byte and both of its interrupts; interrupts are polled
  every 2 instructions and resets every 4 (64 and 256: one is a multiple of the
  other).
* `debugger`: a program with calls of a function and of a trapped one, a return, a
  wild access, a loop and an interrupt handler of two instructions, so that a second interrupt could come
  between them; two commands waiting; two triggers besides those that triggers set.
  A trigger may pause, delete itself and pause, continue, step and delete, step over a call, or set
  another and look at memory: every command is some trigger's action.
* `host_fs`: two FILs, the least for a file open twice, and names two of which
  differ in case only; a root with a directory `b` and at most two entries more; files of
  at most one byte, which `f_lseek` and `f_truncate` may leave with a position beyond
  the end; positions wrap at 2 (2^24). Three strings, `../B`, `.` and `/B/a`, so
  that files and directories two levels deep, two entries beside each other,
  renaming to a name in use, and changing into a directory and renaming
  that away all occur. The FILs are symmetric. The calls that make two entries which differ in
  case only need a root with a second `b` in `b`, an instance too large for this run; the
  theorem `TwinsAreNotMade` has no bounds.
* `memory_map`: 8 segments of 2 bytes with RAM for 4, a flash of 2 and an on-chip
  RAM of 1 byte: every bound of the chip select against every other, the flash and the
  on-chip RAM over RAM, over each other, at the first and the last segment, and
  beyond the end. At most `MaxDirty = 1` byte differs from the start; one is
  enough to see where a store went.
* `vdp_link`: three packets, two soft resets and a line typed, packets of one, two,
  three and four bytes, two of which end in an argument 17 or 23.
  Three packets hold one cut short, one that makes up for it, and a poll the VDP is
  sure to see. The bounds stop the program, and the emulator
  ends when its input does: deadlock is not checked.

### Fairness, and why the code justifies it

* `PrtTimer`, `Uart`: weak fairness of an instruction's ticks. `start` loops
  for ever, and every fetch counts a cycle, so ticks are at least 1.
* `SpiSdcard`: weak fairness of the driver's transfers and of its initial
  sequence. The CPU goes on executing the driver, which has nothing else to do.
  New calls are up to its client.
* `AgonMachine`: weak fairness of `do_interrupts` and of executing an
  instruction: the CPU thread goes on and holds no lock for long. Strong
  fairness of the handler's steps and of enabling interrupts are assumptions
  about the program, as is the premise of `VsyncServed`: polls do reach
  the ports time and again, for timers and the UART come first and a program
  that never acknowledges them starves the vsync.
* `VdpLink`: weak fairness of the VDP thread, a loop that waits for another
  thread nowhere but in the middle of a packet, and of sending
  the rest of a packet once it is begun: the program
  waits for nothing in the middle of one. Packets, lines, resets and the passing
  of time are not fair.
* `Debugger`, `HostFs`, `MemoryMap`: none; their properties are safety.

### Findings

The violation runs each show one disagreement between the code and what it says
of itself; `PROJECT.json` quotes the lines.

1. `gpio_alt`: `set_alt1` and `set_alt2` compute the modified bits from DDR.
2. `sd_card_arg_255`: 255 is dropped "in the init sequence", in fact anywhere in
   a frame; sector 255 cannot be read.
3. `debugger_continue`: after `Continue`, the second instruction is executed
   without a tick before it; a breakpoint there is missed.
Met while modelling and not in a run:

* `apply_ticks` of a timer consumes at most one divider per call, though calls
  with "< 8" ticks are announced and the smallest divider is 4.
* `StepOver` of a call of a FatFs function served by the host runs past its
  breakpoint, since `execute_instruction` executes the instruction after the
  call at once.
* An access out of bounds made by a step is forgotten: the marker is cleared at
  the end of the tick that made the step, before anyone looks at it.
* After a soft reset in the middle of a write the card still waits for its data,
  whatever CMD0 says.
* `f_opendir` answers 0 whether or not the directory is there.
* `f_gets` at the end of a file that does not end with a line feed fails and
  moves the position there, so that its last line cannot be read; FPTR still has the old one.
* `FA_CREATE_NEW` opens a file that exists.
* A poke stores into the flash, and no soft reset restores it.
* The random fill at the start runs over addresses whose offsets are those of the
  upper half of the RAM only, and leaves the out-of-bounds marker set if
  addresses of the range have no RAM: the first tick reports it and blames PC 0.
* The push of an interrupt outside memory is blamed on the first instruction of the
  handler, which is executed before the next tick.
* A trigger's `Continue` executes an instruction inside the trigger check.
* Triggers to execute once are dropped by the PC that `tick` read before it ran
  their actions. A `StepOver` that comes after an action which has moved the PC
  may so lose the breakpoint it has just set.
* A soft reset leaves the ports of the memory map and `vdp_terminal_mode`
  alone: address 0 may no longer be the firmware's, and the VDP goes on sending
  lines as they are typed.
* After a soft reset in the middle of a packet, bytes that make up for the rest of it
  may be the first of a poll, which is then not answered: a single byte 0 that the
  firmware sends before the poll is not enough. An argument 17 or 23 in the
  packets that follow keeps the VDP out of step for as long as they are sent
  (`Misleading`).
* A name cannot be renamed to itself in another case: the new name is matched to
  the old.
* The current directory is a path that nothing checks again: once it has been
  renamed or removed, an entry made under its old name may differ in case only from
  one that is there. This is why `NoTwinMade` and the second half of `PathsFound`
  speak of a current directory that is there.
* An access out of bounds made by the instruction after a trapped call is blamed on
  the trap's entry point, which is where `last_pc` was when `execute_instruction`
  began.

## 4. Proofs

Checked by TLAPS for every value of the constants that satisfies the named
assumptions (`ASSUME` in `PrtTimerOps`, `PrtTimer`, `UartOps`, `Uart`,
`GpioOps`, `Gpio`, `SpiSdcardOps`, `SpiSdcard`, `AgonMachine`, `Debugger`,
`MosPaths`, `HostFs`, `MemoryMap`, `VdpLink`: types and positive sizes, that the UART's and
the timers' constants make sense, that resets are looked for at a multiple of the
polls, that the program leaves bit 7 of a timer's control register alone, that no
call returns to itself or to the interrupt handler, that the debugger's commands and
triggers are made of one another, that a path has at least one
fragment, that the host's tree is one to begin with, and that the program's packets
have the length that `handle_vdp` gives them).
The type invariants of the timer, the UART, the ports, the card, the
machine loop, the debugger, the host file system, the memory map (`TypeCorrect` of
each module) and the link (`LinkTypeCorrect`) are theorems and therefore not in the
runs.

* **`PrtTimerProofs`.**  Lemmas `WordSplit` and `WordJoin` say that the halves
  of a word determine it; `TicksType` and `TicksCount` what a call of
  `apply_ticks` does to the ranges and to the count. `IInv` is the conjunction
  of the invariants with `SinglePassMoves`, which ties the counter of a
  single-pass timer to the moves counted in the window: `NeverEarly` needs it, as
  by itself it says nothing of how far the counter has moved. `Invariance` then
  gives `TypeCorrect`, `OneShot`, `Pending` and `Accounting`, `Punctual` follows
  by arithmetic, and `TornFree` has an invariant of its own, that the latch
  belongs to the last sample.
* **`UartProofs`.**  The receive and the transmit side share the record but no
  field (`RxPart`, `TxPart`), so each operator has a lemma on what it does to
  its side. `IInv` adds to the invariants that the cooldown covers the rest of
  the gap (`GapCovered`), from which `BaudRate` follows; the queues rest on
  `HeadMoves` and `AppendMoves`. Theorems `ReceiveInOrder`, `TransmitInOrder`,
  `ReadyKept`, `Polite`, `BaudRate`.
* **`GpioLinkProofs`**, the port: `Asserts` is what `set_input_pins` establishes: what its
  levels trigger is due. Every action ends with it (`InputPins`, `Registers`,
  `UpdateAsserts`), which gives `Levels`. `VsyncSeen` needs `ReadyForVsync`: after
  a missed pulse the pin is low and in rising-edge mode, so the next is an edge.
  `NothingLost` needs no invariant beyond the types: it goes through the actions
  and finds what each leaves in `interrupt_due`.
* **`GpioLinkProofs`**, the link: `AnswersFollowPolls` speaks of answers only, while
  what they will be is decided by bytes on the way and by where the VDP is in a
  packet. `LinkInv` looks at both through `Parsing`: what `handle_vdp` will have taken
  after each byte on the way, one of the six beginnings of a packet (`Partials`).
  What it will have taken at the end of them is either what the program has sent of
  its packet (`InStep`), or nothing while the program is in the arguments of one
  (`Arguments`), or longer than what has been sent since the VDP last may have lost step
  (`Behind`): each byte either ends the packet the VDP is in, or makes that one byte longer as it
  makes `since` (`StepStays`), so after three bytes it is not behind any more; a
  misleading one starts the count again, as a reset does. A
  poll begun then is met with its first three bytes taken, and is
  answered (`AskedOK`); the numbers in answers and on the way only grow, each is there
  once (`NumbersOK`), and without resets none is there that was not asked
  (`NoResetsOK`). TLC checked it for two sets of packets before it was proved.
  Theorems `PollsInOrder` and `LinkTypeCorrect`.
* **`AgonMachineProofs`** first says what the devices do as seen from the machine,
  then proves all the safety properties of its loop, each from an invariant of its
  own:
  - `ResetInv` bounds the age of a request by the instructions executed since
    the flag was last looked at (`Since`); by itself `ResetPrompt` says nothing
    of `count`. It gives `Prompt`.
  - `PortsInv`: ports stay ports, and threads other than the CPU's only add to
    `interrupt_due` (`OnePin`, `Gains`). It gives `StillDue`.
  - `EntryInv`: whatever is pending has an event that nothing has acknowledged, whether
    or not a handler has been entered or a reset has cut it off. A timer interrupts only when it
    expires (`TicksTimer`). For the ports this needs `Configured`: pins are in
    rising-edge mode or plain inputs, so acknowledging takes one interrupt
    away and raises none (`EdgeAcknowledge`), and a vsync or a joystick raises
    no more than it owes (`EdgeInput`). With `PortsInv`, since a pin's handler is
    chosen from the copy, it gives `Justified`.
  - `LookInv`: when the loop comes to the ports, no timer has become due and the
    UART holds nothing (bytes still in the link do not count). It gives
    `Priority`.
  - `TypeCorrect` from all of these and `CpuInv`.
* **`SpiSdcardProofs`.**  `Fits` is what the card keeps up whatever it is sent
  (`AcceptFits`, by the four ways a byte is taken); with the types of the
  driver it gives `TypeCorrect` and `NeverOverrun` (`BufferBounded`), through
  resets and failing images. `CardInStep` (`Synchronised`) needs `StepInv`: what the card has
  taken in (`Taken`), what it still owes (`Owed`, by the phase of the driver) and
  which phases a command has (`Course`). By itself `Synchronised` says nothing of
  what the driver will read next, on which its next phase depends. Its assumption
  `PlainTargets`, that no byte of a sector number is 255, is the one that
  `sd_card_arg_255` shows to be necessary. Under the same assumption
  `CardIsBlockDevice` proves the refinement of `BlockDevice`. The call is served
  at the step that completes its frame or sector, as far as the access to the image
  went (`moved`); `Carried` says where its contents are until
  the driver has them: in the buffer the card sends from, behind response and
  token, or in what the driver has received so far, and for a write in what the card
  has taken in. `CallInv` joins it to `StepInv`, and each action of card and driver is
  then an action of the device or nothing to it.
* **`DebuggerProofs`.**  One inductive invariant, `IInv`, with a part per
  property: `MarkerInv` (who set the out-of-bounds marker, by the stage of the
  loop, if it is not stray), `StoppedInv` (a machine on a breakpoint is paused, or the
  `Pause` is still among the actions to run) and `OverInv` (while a step over is
  under way the machine runs and its trigger is armed, and once the triggers at the PC
  have been run the machine is not on its instruction, in whatever frame).
  By itself none of the properties survives a step: they speak of one stage of
  the loop only. They hold for every program that satisfies the assumption, however
  it uses its stack, and for triggers with any actions: `Handles` says what a command does
  to the parts, whoever sent it.
* **`MemoryMapProofs`.**  The mask of the external RAM is a bitwise and with one
  less than a power of two; that this is the remainder, for every power of two and
  every number, is proved by the least counterexample, as are the other facts
  about `And` and `PowersOfTwo`. `WholeRam` follows: the segments of a regular range
  have remainders of their own. `StoresAreLocal` adds that the three memories share no cell and
  that peek and poke agree on the order in which they are asked.
  `TrapsAreFirmware` needs that the flash holds the firmware until `patched`.
* **`HostFsProofs`.**  `HostInv`: the tree is one (`Fits`: every entry in a
  directory, no file with two names, no more nodes than the bound), a FIL that is
  not open is cleared, and only files that are named or held have contents. It was checked by TLC
  before it was proved. A rename moves a whole subtree, and that the
  outcome is a tree again (`RenamedFits`) rests on `RenamedOrigins`: each
  entry afterwards has one before, and no two have the same. `JoinedPath` is the
  induction over the fragments of a string, by the least counterexample;
  `FreeFile`, that there is a file left to create, counts.
  `TypeCorrect`, `HostIsStore` (the refinement of `FileStore`, a lemma for each
  kind of call: what it reads, puts, cuts off, opens or closes is what the
  store does at the same cursor), `FptrTracks` and `TwinsAreNotMade` follow, the last
  with `Spelled`: a joined path is spelled as the host spells it wherever it is there.
  `PathsAreFound` compares `mos_path_join`, a stack, with what a path denotes, which is
  defined by counting: the names that no later `..` takes away. `Stacked` relates the two
  after each fragment. Its last part makes it inductive: by how much the names from a
  survivor on outnumber the `..` is how many survive from there, so the one that the
  next `..` takes away is the last, the top of the stack (`StackedUp`). What is
  there is found because there is no first name in which its path could differ from one
  so spelled (`SpelledFound`), in a tree without twins.

## 5. Model-checked only

Liveness and everything else that needs `ENABLED` is out of TLAPS's reach:
`SinglePassExpires`, `AllTransmitted`, `EveryCommandEnds`, `VsyncServed`,
`ResetMade`, `EveryPollAnswered`, `VsyncGoesOn`. Every other property of a passing run
is a theorem. (Induction over data is out of reach in general, too. Where the
inductions needed here are over a number, as for the bitwise and, for
`mos_path_join` and for counting, they were done by the least counterexample.)
The three violation runs are TLC's, as a counterexample is.

## 6. Not modelled, and the plan

Not modelled: the eZ80 CPU (not in the repository); symbol maps, options and
loading of images (done once at start-up, text and I/O); pacing by the wall
clock; UART 1 and the scratch pads, which meet nothing else; the commands of the
debugger that only answer, but for one that stands for them; within the
components modelled, the data named in section 2.

What could come next: the trap's own reads of guest memory (OBJSIZE, FILINFO and the
listing of a directory), for which `HostFs` and `MemoryMap` would be composed; and
a CPU with the few instructions that read a port and act on it, with which the programs assumed
about in the machine loop and the SD card could be models of the firmware.
