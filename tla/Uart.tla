-------------------------------- MODULE Uart --------------------------------
(***************************************************************************)
(* UART 0 between the program (ports 0xc0..0xc7 of agon_machine.rs), the   *)
(* machine loop (apply_ticks after each instruction, the interrupt poll)   *)
(* and the thread at the other end of the link.  One action per port       *)
(* access that changes state.                                              *)
(*                                                                         *)
(* produced, accepted, consumed, credit, ready, since and gap are history. *)
(***************************************************************************)
EXTENDS UartOps

CONSTANTS
  Ticks,   \* cycles an instruction can take
  Ier,     \* what the program writes to ier: <<receive, transmit>>
  MaxRx,   \* bound: bytes the other end sends
  MaxTx    \* bound: bytes the program gets accepted

ASSUME UartInputs ==
  /\ Ticks \subseteq Nat
  /\ Ier \subseteq BOOLEAN \X BOOLEAN
  /\ MaxRx \in Nat /\ MaxTx \in Nat

VARIABLES
  uart,
  produced,   \* every byte the other end has sent
  consumed,   \* every byte the program has read
  accepted,   \* every byte the program wrote that was not dropped
  credit,     \* bytes the program may write on the strength of its last THRE
  ready,      \* the last status read said a byte was ready, and none read since
  since,      \* clocks since the last byte was transmitted, up to gap
  gap         \* clocks that byte takes to shift out

rxVars == <<produced, consumed, ready>>
txVars == <<accepted, credit, since, gap>>
vars   == <<uart, rxVars, txVars>>

TypeOK == /\ uart \in Uart
          /\ produced \in Seq(Bytes) /\ consumed \in Seq(Bytes)
          /\ accepted \in Seq(Bytes)
          /\ credit \in 0 .. FifoSize
          /\ ready \in BOOLEAN
          /\ since \in Nat /\ gap \in Nat
-----------------------------------------------------------------------------
Init == /\ uart = new
        /\ produced = <<>> /\ consumed = <<>> /\ accepted = <<>>
        /\ credit = 0 /\ ready = FALSE
        /\ since = 0 /\ gap = 0

\* A read that finds no byte returns 0, like a byte 0 that did arrive.
ReadData ==
  /\ ~ is_access_brg_registers(uart)
  /\ uart' = receive_byte(uart)
  /\ consumed' = consumed \o maybe_fill_rx_buf(uart).rx_buf
  /\ ready' = FALSE
  /\ UNCHANGED <<produced, txVars>>

ReadIir ==
  /\ uart' = read_iir(uart)
  /\ UNCHANGED <<rxVars, txVars>>

ReadLsr ==
  /\ uart' = read_lsr(uart)
  /\ ready' = DataReady(uart')
  /\ credit' = IF ~ THRE(uart) THEN 0 ELSE IF uart.fifoEn THEN FifoSize ELSE 1
  /\ UNCHANGED <<produced, consumed, accepted, since, gap>>

WriteData(b) ==
  /\ ~ is_access_brg_registers(uart)
  /\ Len(accepted) < MaxTx
  /\ uart' = send_byte(uart, b)
  /\ accepted' = IF uart' # uart THEN Append(accepted, b) ELSE accepted
  /\ credit' = Monus(credit, 1)
  /\ UNCHANGED <<rxVars, since, gap>>

\* With DLAB set the data and ier ports reach the divisor, a byte at a time.
WriteDivisorLow(b) ==
  /\ is_access_brg_registers(uart)
  /\ uart' = [uart EXCEPT !.brg_lo = b]
  /\ UNCHANGED <<rxVars, txVars>>

WriteDivisorHigh(b) ==
  /\ is_access_brg_registers(uart)
  /\ uart' = [uart EXCEPT !.brg_hi = b]
  /\ UNCHANGED <<rxVars, txVars>>

WriteIer(r, t) ==
  /\ ~ is_access_brg_registers(uart)
  /\ uart' = [uart EXCEPT !.rdi = r, !.thri = t]
  /\ UNCHANGED <<rxVars, txVars>>

\* Switching the FIFO off or on takes back what an earlier THRE promised.
WriteFctl(en) ==
  /\ uart' = write_fctl(uart, en)
  /\ credit' = 0
  /\ UNCHANGED <<rxVars, accepted, since, gap>>

WriteLctl(dlab) ==
  /\ uart' = [uart EXCEPT !.dlab = dlab]
  /\ UNCHANGED <<rxVars, txVars>>

Transmitted == uart'.link.tx # uart.link.tx

ApplyTicks(n) ==
  /\ uart' = apply_ticks(uart, n)
  /\ since' = IF Transmitted THEN 0
              ELSE IF since + n < gap THEN since + n ELSE gap
  /\ gap' = IF Transmitted THEN uart'.cooldown ELSE gap
  /\ UNCHANGED <<rxVars, accepted, credit>>

PollInterrupt ==
  /\ uart' = poll(uart)
  /\ UNCHANGED <<rxVars, txVars>>

\* The thread at the other end puts a byte on the channel.
LinkSends(b) ==
  /\ Len(produced) < MaxRx
  /\ uart' = [uart EXCEPT !.link.rx = Append(@, b)]
  /\ produced' = Append(produced, b)
  /\ UNCHANGED <<consumed, ready, txVars>>

Tick == \E n \in Ticks \ {0} : ApplyTicks(n)

Next == \/ ReadData
        \/ ReadIir
        \/ ReadLsr
        \/ \E b \in Bytes : WriteData(b)
        \/ \E b \in Half : WriteDivisorLow(b)
        \/ \E b \in Half : WriteDivisorHigh(b)
        \/ \E w \in Ier : WriteIer(w[1], w[2])
        \/ \E en \in BOOLEAN : WriteFctl(en)
        \/ \E dlab \in BOOLEAN : WriteLctl(dlab)
        \/ \E n \in Ticks : ApplyTicks(n)
        \/ PollInterrupt
        \/ \E b \in Bytes : LinkSends(b)

Spec     == Init /\ [][Next]_vars
FairSpec == Spec /\ WF_vars(Tick)
-----------------------------------------------------------------------------
(***************************************************************************)
(* Properties                                                              *)
(***************************************************************************)

\* No byte from the link is lost, duplicated or reordered, whichever of the
\* three callers of maybe_fill_rx_buf (data read, status read, interrupt poll)
\* fetched it.
RxConserved == consumed \o uart.rx_buf \o uart.link.rx = produced

\* Every byte accepted from the program is in the FIFO or on the wire, once
\* and in order, whatever is done to the FIFO control in between.
TxConserved == uart.link.tx \o uart.tx_fifo = accepted

\* A status read that announced a byte is still right when the program comes
\* to read it, so the byte read is never the 0 of an empty line.
ReadyIsKept == ready => DataReady(uart)

\* A program that writes, after seeing THRE, no more bytes than the holding
\* register or FIFO holds never has one dropped (uart.rs:57).
PoliteNeverDropped == credit > 0 => HasRoom(uart)

\* Bytes leave no faster than the baud rate: two transmissions are separated
\* by the clocks that the first takes to shift out.
BaudRespected ==
  [][\A n \in Ticks : ApplyTicks(n) /\ Transmitted => since + n >= gap]_vars

\* Every accepted byte is transmitted in the end.
AllTransmitted ==
  \A k \in 1 .. MaxTx : Len(accepted) >= k ~> Len(uart.link.tx) >= k
=============================================================================
