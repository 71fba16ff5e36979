------------------------------- MODULE UartOps -------------------------------
(***************************************************************************)
(* The UART of the eZ80F92: struct Uart of src/uart.rs and its methods, as *)
(* operators on a record.  The serial link is part of it: link.rx holds    *)
(* the bytes link.recv() has yet to return, link.tx those given to         *)
(* link.send().  Of the registers only the bits some code tests are kept;  *)
(* the scratch pad and the modem status, which has no state, are left out. *)
(***************************************************************************)
EXTENDS Naturals, Sequences

CONSTANTS
  Bytes,        \* the bytes that travel on the line
  FifoSize,     \* depth of the transmit FIFO (16)
  FrameClocks,  \* clocks per unit of brg_div to shift a byte out (16 * 9)
  ByteSize      \* number of values of either half of brg_div (256)

ASSUME UartAssumption ==
  /\ FifoSize \in Nat /\ FifoSize > 0
  /\ FrameClocks \in Nat
  /\ ByteSize \in Nat /\ ByteSize > 1

Half == 0 .. (ByteSize - 1)

\* Option<u8>: the empty sequence is None.
None   == <<>>
Option == {<<>>} \union {<<b>> : b \in Bytes}

Link == [rx : Seq(Bytes), tx : Seq(Bytes)]

Uart == [link     : Link,
         rx_buf   : Option,
         cooldown : Nat,        \* transmit_cooldown
         rdi      : BOOLEAN,    \* ier bit 0: interrupt on received data
         thri     : BOOLEAN,    \* ier bit 1: interrupt on transmitter
         fifoEn   : BOOLEAN,    \* fctl FIFOEN
         dlab     : BOOLEAN,    \* lctl bit 7
         brg_lo   : Half,       \* the two bytes of brg_div
         brg_hi   : Half,
         tx_fifo  : Seq(Bytes)]

\* brg_div starts as 2.
new ==
  [link |-> [rx |-> <<>>, tx |-> <<>>], rx_buf |-> None, cooldown |-> 0,
   rdi |-> FALSE, thri |-> FALSE, fifoEn |-> FALSE, dlab |-> FALSE,
   brg_lo |-> 2 % ByteSize, brg_hi |-> 2 \div ByteSize, tx_fifo |-> <<>>]

brg_div(u) == (ByteSize * u.brg_hi) + u.brg_lo

is_access_brg_registers(u) == u.dlab
is_rx_interrupt_enabled(u) == u.rdi

\* i32::max(0, a - b)
Monus(a, b) == IF a > b THEN a - b ELSE 0

\* The oldest byte of the FIFO goes to the link.
Transmit(u) ==
  [u EXCEPT !.link.tx  = Append(u.link.tx, Head(u.tx_fifo)),
            !.tx_fifo  = Tail(u.tx_fifo),
            !.cooldown = brg_div(u) * FrameClocks]

\* Mutant: the cooldown is not waited for.
ApplyTicksEager(u, n) ==
  LET v == [u EXCEPT !.cooldown = Monus(@, n)]
  IN  IF u.tx_fifo # <<>> THEN Transmit(v) ELSE v

\* Mutant: without FIFO the holding register is forgotten.
ApplyTicksFifoOnly(u, n) ==
  LET left == Monus(u.cooldown, n)
      v    == [u EXCEPT !.cooldown = left]
  IN  IF left = 0 /\ u.fifoEn /\ u.tx_fifo # <<>> THEN Transmit(v) ELSE v

apply_ticks(u, n) ==
  LET left == Monus(u.cooldown, n)
      v    == [u EXCEPT !.cooldown = left]
  IN  IF left = 0 /\ u.tx_fifo # <<>> THEN Transmit(v) ELSE v

\* Mutant: the FIFO is a byte short.
HasRoomShort(u) == IF u.fifoEn THEN Len(u.tx_fifo) + 1 < FifoSize ELSE u.tx_fifo = <<>>

\* Room for one more byte in the FIFO, or without FIFO in the holding register.
HasRoom(u) == IF u.fifoEn THEN Len(u.tx_fifo) < FifoSize ELSE u.tx_fifo = <<>>

\* A byte that finds no room is dropped.
send_byte(u, b) == IF HasRoom(u) THEN [u EXCEPT !.tx_fifo = Append(@, b)] ELSE u

\* Mutant: a byte not read yet is overwritten.
FillOverwriting(u) ==
  IF u.link.rx # <<>>
  THEN [u EXCEPT !.rx_buf = <<Head(u.link.rx)>>, !.link.rx = Tail(u.link.rx)]
  ELSE u

maybe_fill_rx_buf(u) ==
  IF u.rx_buf = None /\ u.link.rx # <<>>
  THEN [u EXCEPT !.rx_buf = <<Head(u.link.rx)>>, !.link.rx = Tail(u.link.rx)]
  ELSE u

\* A read of the data register consumes the byte; finding none, it returns 0.
receive_byte(u) == [maybe_fill_rx_buf(u) EXCEPT !.rx_buf = None]

\* The line status register: the read fetches a byte, then reports.
read_lsr(u)   == maybe_fill_rx_buf(u)
DataReady(u)  == u.rx_buf # None
THRE(u)       == u.tx_fifo = <<>>

\* Mutant: switching the FIFO empties it.
WriteFctlFlushing(u, en) == [u EXCEPT !.fifoEn = en, !.tx_fifo = <<>>]

write_fctl(u, en) == [u EXCEPT !.fifoEn = en]

\* Reading the interrupt identification clears the transmitter interrupt.
read_iir(u) == [u EXCEPT !.thri = FALSE]

\* Mutant: the interrupt poll consumes the byte.
PollConsuming(u) == IF is_rx_interrupt_enabled(u) THEN receive_byte(u) ELSE u

\* do_interrupts: the poll fetches a byte when receive interrupts are on.
poll(u)     == IF is_rx_interrupt_enabled(u) THEN maybe_fill_rx_buf(u) ELSE u
irq_due(u)  == (is_rx_interrupt_enabled(u) /\ DataReady(maybe_fill_rx_buf(u)))
               \/ u.thri
=============================================================================
