----------------------------- MODULE UartProofs -----------------------------
(***************************************************************************)
(* Proofs about Uart, for any set of bytes, FIFO depth, baud rate, range   *)
(* of ticks and length of run.                                             *)
(***************************************************************************)
EXTENDS Uart, SequenceTheorems, TLAPS

\* Moving the head of one queue to the tail of the queue before it.
LEMMA HeadMoves ==
  ASSUME NEW S, NEW s \in Seq(S), NEW t \in Seq(S), t # <<>>
  PROVE  /\ <<Head(t)>> \o Tail(t) = t
         /\ Append(s, Head(t)) \o Tail(t) = s \o t
         /\ Append(s, Head(t)) \in Seq(S) /\ Tail(t) \in Seq(S) /\ Head(t) \in S
<1> DEFINE h == Head(t)
           r == Tail(t)
<1>1. h \in S /\ r \in Seq(S) /\ <<h>> \in Seq(S) /\ <<h>> \o r \in Seq(S)
  <2>1. h \in S /\ r \in Seq(S)
    BY HeadTailProperties
  <2> HIDE DEF h, r
  <2>2. <<h>> \in Seq(S)
    BY <2>1, SMT
  <2> QED BY <2>1, <2>2, ConcatProperties
<1>2. <<h>> \o r = t
  <2>1. Len(t) \in Nat /\ Len(r) = Len(t) - 1 /\ Len(<<h>>) = 1 /\ <<h>>[1] = h
        /\ h = t[1] /\ Len(r) \in Nat
    BY <1>1, HeadTailProperties, LenProperties, EmptySeq, SMT
  <2>2. Len(<<h>> \o r) = Len(t)
    BY <1>1, <2>1, ConcatProperties, SMT
  <2>3. \A i \in 1 .. Len(<<h>> \o r) : (<<h>> \o r)[i] = t[i]
    <3> TAKE i \in 1 .. Len(<<h>> \o r)
    <3>1. (<<h>> \o r)[i] = IF i <= 1 THEN <<h>>[i] ELSE r[i - 1]
      BY <1>1, <2>1, <2>2, ConcatProperties, SMT
    <3>2. \A j \in 1 .. Len(r) : r[j] = t[j + 1]
      BY HeadTailProperties
    <3> HIDE DEF h, r
    <3>3. CASE i = 1
      BY <3>1, <3>3, <2>1, SMT
    <3>4. CASE i # 1
      <4>1. i - 1 \in 1 .. Len(r) /\ ~ (i <= 1) /\ i - 1 + 1 = i
        BY <3>4, <2>1, <2>2, SMT
      <4> QED BY <4>1, <3>1, <3>2
    <3> QED BY <3>3, <3>4
  <2> HIDE DEF h, r
  <2> QED BY <1>1, <2>2, <2>3, SeqEqual
<1> HIDE DEF h, r
<1>3. Append(s, h) = s \o <<h>> /\ Append(s, h) \in Seq(S)
  BY <1>1, AppendIsConcat, AppendProperties
<1>4. Append(s, h) \o r = s \o t
  <2>1. (s \o <<h>>) \o r = s \o (<<h>> \o r)
    BY <1>1, ConcatAssociative
  <2> QED BY <2>1, <1>2, <1>3
<1> QED BY <1>1, <1>2, <1>3, <1>4 DEF h, r

LEMMA AppendMoves ==
  ASSUME NEW S, NEW s \in Seq(S), NEW t \in Seq(S), NEW e \in S
  PROVE  s \o Append(t, e) = Append(s \o t, e)
<1>1. <<e>> \in Seq(S) /\ s \o t \in Seq(S)
  <2>1. <<e>> \in Seq(S)
    BY SMT
  <2> QED BY <2>1, ConcatProperties
<1>2. Append(t, e) = t \o <<e>> /\ Append(s \o t, e) = (s \o t) \o <<e>>
  BY <1>1, AppendIsConcat
<1> QED BY <1>1, <1>2, ConcatAssociative

LEMMA BytesAssociative ==
  \A x, y, z \in Seq(Bytes) : (x \o y) \o z = x \o (y \o z)
  BY ConcatAssociative

LEMMA RxQueues ==
  ASSUME NEW u \in Uart
  PROVE  u.rx_buf \in Seq(Bytes) /\ u.link.rx \in Seq(Bytes)
<1>1. <<>> \in Seq(Bytes) /\ \A b \in Bytes : <<b>> \in Seq(Bytes)
  BY SMT
<1>2. u.rx_buf \in Option /\ u.link \in Link
  BY DEF Uart
<1> QED BY <1>1, <1>2 DEF Option, Link
-----------------------------------------------------------------------------
\* The two directions share the record but no field.
RxPart(u) == <<u.rx_buf, u.link.rx>>
TxPart(u) == <<u.tx_fifo, u.link.tx, u.cooldown, u.fifoEn>>

\* What maybe_fill_rx_buf does: a byte moves up, if there is room and a byte.
LEMMA FillRxBuf ==
  ASSUME NEW u \in Uart
  PROVE  LET v == maybe_fill_rx_buf(u)
         IN  /\ v \in Uart /\ TxPart(v) = TxPart(u)
             /\ v.rx_buf \o v.link.rx = u.rx_buf \o u.link.rx
             /\ u.rx_buf # None => v.rx_buf # None
<1> DEFINE q == u.link.rx
           v == maybe_fill_rx_buf(u)
<1>1. q \in Seq(Bytes) /\ u.link \in Link /\ u.rx_buf \in Option
  BY DEF Uart, Link
<1>2. CASE u.rx_buf = None /\ q # <<>>
  <2>1. /\ Head(q) \in Bytes /\ Tail(q) \in Seq(Bytes)
        /\ <<Head(q)>> \o Tail(q) = q /\ <<>> \o q = q
    BY <1>1, <1>2, HeadMoves, EmptySeq, ConcatEmptySeq
  <2>2. <<Head(q)>> \in Option /\ <<Head(q)>> # <<>>
    BY <2>1, SMT DEF Option
  <2> DEFINE h == <<Head(q)>>
             r == Tail(q)
  <2>3. v = [u EXCEPT !.rx_buf = h, !.link.rx = r]
    BY <1>2 DEF maybe_fill_rx_buf
  <2>4. h \in Option /\ h # None /\ r \in Seq(Bytes) /\ h \o r = q
    BY <2>1, <2>2 DEF None
  <2> HIDE DEF h, r, v
  <2>5. v.rx_buf = h /\ v.link.rx = r /\ v \in Uart /\ TxPart(v) = TxPart(u)
    BY <2>3, <2>4, <1>1 DEF Uart, Link, TxPart
  <2> QED BY <1>2, <2>1, <2>4, <2>5 DEF v, None
<1>3. CASE ~ (u.rx_buf = None /\ q # <<>>)
  BY <1>3 DEF maybe_fill_rx_buf
<1> QED BY <1>2, <1>3

LEMMA ReceiveByte ==
  ASSUME NEW u \in Uart
  PROVE  LET v == receive_byte(u)
             m == maybe_fill_rx_buf(u)
         IN  /\ v \in Uart /\ TxPart(v) = TxPart(u)
             /\ v.rx_buf = <<>> /\ v.link.rx = m.link.rx
<1> DEFINE m == maybe_fill_rx_buf(u)
<1>1. m \in Uart /\ TxPart(m) = TxPart(u)
  BY FillRxBuf
<1> HIDE DEF m
<1>2. [m EXCEPT !.rx_buf = None] \in Uart
  BY <1>1 DEF Uart, None, Option
<1>3. /\ [m EXCEPT !.rx_buf = None].rx_buf = <<>>
      /\ [m EXCEPT !.rx_buf = None].link = m.link
      /\ TxPart([m EXCEPT !.rx_buf = None]) = TxPart(m)
  BY <1>1 DEF Uart, None, TxPart
<1> QED BY <1>1, <1>2, <1>3 DEF receive_byte, m

\* What a call of apply_ticks does: at most one byte leaves, when the cooldown
\* has run out, and starts a new one.
LEMMA TicksTransmit ==
  ASSUME NEW u \in Uart, NEW n \in Nat
  PROVE  LET v == apply_ticks(u, n)
         IN  /\ v \in Uart /\ RxPart(v) = RxPart(u) /\ v.fifoEn = u.fifoEn
             /\ v.link.tx \o v.tx_fifo = u.link.tx \o u.tx_fifo
             /\ Len(v.tx_fifo) <= Len(u.tx_fifo)
             /\ v.link.tx # u.link.tx => u.cooldown <= n
             /\ v.link.tx = u.link.tx => u.cooldown <= v.cooldown + n
<1> DEFINE left == Monus(u.cooldown, n)
           w == [u EXCEPT !.cooldown = left]
           v == apply_ticks(u, n)
<1>1. /\ u.cooldown \in Nat /\ u.tx_fifo \in Seq(Bytes) /\ u.link \in Link
      /\ u.link.tx \in Seq(Bytes) /\ Len(u.tx_fifo) \in Nat
  BY LenProperties DEF Uart, Link
<1>2. left \in Nat /\ u.cooldown <= left + n /\ (left = 0 => u.cooldown <= n)
  BY <1>1, SMT DEF Monus
<1>3. v = IF left = 0 /\ u.tx_fifo # <<>> THEN Transmit(w) ELSE w
  BY DEF apply_ticks
<1> HIDE DEF left, v
<1>4. /\ w \in Uart /\ w.cooldown = left /\ w.link = u.link
      /\ w.rx_buf = u.rx_buf /\ w.tx_fifo = u.tx_fifo /\ w.fifoEn = u.fifoEn
  BY <1>2 DEF Uart
<1>5. CASE ~ (left = 0 /\ u.tx_fifo # <<>>)
  <2>1. v = w
    BY <1>3, <1>5
  <2>2. Len(u.tx_fifo) <= Len(u.tx_fifo)
    BY <1>1, SMT
  <2> QED BY <1>2, <1>4, <2>1, <2>2 DEF RxPart, v
<1>6. CASE left = 0 /\ u.tx_fifo # <<>>
  <2> DEFINE tx == Append(u.link.tx, Head(u.tx_fifo))
             rest == Tail(u.tx_fifo)
             wait == brg_div(w) * FrameClocks
  <2>1. v = Transmit(w)
    BY <1>3, <1>6
  <2> HIDE DEF w
  <2>2. v = [w EXCEPT !.link.tx = tx, !.tx_fifo = rest, !.cooldown = wait]
    BY <2>1, <1>4 DEF Transmit
  <2>3. /\ tx \in Seq(Bytes) /\ rest \in Seq(Bytes)
        /\ tx \o rest = u.link.tx \o u.tx_fifo /\ Len(rest) <= Len(u.tx_fifo)
    <3>1. Len(rest) = Len(u.tx_fifo) - 1
      BY <1>1, <1>6, HeadTailProperties
    <3>2. Len(rest) <= Len(u.tx_fifo)
      BY <3>1, <1>1, SMT
    <3>3. u.tx_fifo # <<>>
      BY <1>6
    <3>4. /\ tx \o rest = u.link.tx \o u.tx_fifo
          /\ tx \in Seq(Bytes) /\ rest \in Seq(Bytes)
      <4> DEFINE a == u.link.tx
                 b == u.tx_fifo
      <4>1. a \in Seq(Bytes) /\ b \in Seq(Bytes) /\ b # <<>>
        BY <3>3, <1>1
      <4> HIDE DEF a, b
      <4>2. /\ Append(a, Head(b)) \o Tail(b) = a \o b
            /\ Append(a, Head(b)) \in Seq(Bytes) /\ Tail(b) \in Seq(Bytes)
        BY <4>1, HeadMoves
      <4> QED BY <4>2 DEF a, b
    <3> QED BY <3>2, <3>4
  <2>4. wait \in Nat
    BY <1>4, UartAssumption, SMT DEF brg_div, Uart, Half
  <2> HIDE DEF tx, rest, wait
  <2>5. /\ v \in Uart /\ v.link.tx = tx /\ v.tx_fifo = rest
        /\ v.link.rx = w.link.rx /\ v.rx_buf = w.rx_buf /\ v.fifoEn = w.fifoEn
    BY <2>2, <2>3, <2>4, <1>4, <1>1 DEF Uart, Link
  <2>6. tx # u.link.tx
    <3>1. Len(tx) = Len(u.link.tx) + 1 /\ Len(u.link.tx) \in Nat
      BY <1>1, <1>6, HeadMoves, AppendProperties, LenProperties DEF tx
    <3> QED BY <3>1, SMT
  <2> QED BY <1>2, <1>4, <1>6, <2>3, <2>5, <2>6 DEF RxPart, v
<1> QED BY <1>5, <1>6
-----------------------------------------------------------------------------
\* What makes PoliteNeverDropped inductive: the credit fits in the free room.
CreditCovered ==
  credit + Len(uart.tx_fifo) <= (IF uart.fifoEn THEN FifoSize ELSE 1) \/ credit = 0

\* What makes BaudRespected hold: the cooldown covers what is left of the gap.
GapCovered == gap <= since + uart.cooldown

RxInv == RxConserved /\ ReadyIsKept
TxInv == TxConserved /\ CreditCovered /\ GapCovered
IInv  == TypeOK /\ RxInv /\ TxInv

LEMMA InitIInv == Init => IInv
<1> SUFFICES ASSUME Init PROVE IInv
  OBVIOUS
<1>1. <<>> \in Seq(Bytes) /\ <<>> \o <<>> = <<>> /\ Len(<<>>) = 0
  BY EmptySeq, ConcatEmptySeq
<1>2. 2 % ByteSize \in Half /\ 2 \div ByteSize \in Half
  <2>1. ByteSize \in Nat /\ ByteSize > 1 /\ (ByteSize = 2 \/ ByteSize > 2)
    BY UartAssumption, SMT
  <2>2. CASE ByteSize = 2
    BY <2>2, SMT DEF Half
  <2>3. CASE ByteSize > 2
    BY <2>1, <2>3, SMT DEF Half
  <2> QED BY <2>1, <2>2, <2>3
<1>3. new \in Uart
  <2>1. 0 \in Nat
    BY SMT
  <2> QED BY <1>1, <1>2, <2>1 DEF new, Uart, Link, Option, None
<1>4. TypeOK
  <2>1. 0 \in 0 .. FifoSize /\ 0 \in Nat
    BY UartAssumption, SMT
  <2> QED BY <1>1, <1>3, <2>1 DEF Init, TypeOK
<1>5. /\ uart.rx_buf = <<>> /\ uart.link.rx = <<>> /\ uart.link.tx = <<>>
      /\ uart.tx_fifo = <<>> /\ uart.cooldown = 0
  BY DEF Init, new, None
<1>6. RxInv
  BY <1>1, <1>5 DEF Init, RxInv, RxConserved, ReadyIsKept
<1>7. TxInv
  <2>1. 0 <= 0 + 0
    BY SMT
  <2> QED BY <1>1, <1>5, <2>1 DEF Init, TxInv, TxConserved, CreditCovered, GapCovered
<1> QED BY <1>4, <1>6, <1>7 DEF IInv

\* A step on one side keeps the invariant of the other.
LEMMA RxKept ==
  RxInv /\ RxPart(uart') = RxPart(uart) /\ UNCHANGED rxVars => RxInv'
<1> SUFFICES ASSUME RxInv, RxPart(uart') = RxPart(uart), UNCHANGED rxVars
             PROVE  RxInv'
  OBVIOUS
<1>1. /\ uart'.rx_buf = uart.rx_buf /\ uart'.link.rx = uart.link.rx
      /\ produced' = produced /\ consumed' = consumed /\ ready' = ready
  BY DEF RxPart, rxVars
<1> QED BY <1>1 DEF RxInv, RxConserved, ReadyIsKept, DataReady

LEMMA TxKept ==
  TxInv /\ TxPart(uart') = TxPart(uart) /\ UNCHANGED txVars => TxInv'
  BY DEF TxInv, TxConserved, CreditCovered, GapCovered, TxPart, txVars

LEMMA StepReadData == ASSUME IInv, ReadData PROVE IInv'
<1> DEFINE m == maybe_fill_rx_buf(uart)
<1>1. uart \in Uart /\ consumed \in Seq(Bytes)
  BY DEF IInv, TypeOK
<1>2. m \in Uart /\ m.rx_buf \o m.link.rx = uart.rx_buf \o uart.link.rx
  BY <1>1, FillRxBuf
<1>3. /\ uart' \in Uart /\ TxPart(uart') = TxPart(uart)
      /\ uart'.rx_buf = <<>> /\ uart'.link.rx = m.link.rx
  BY <1>1, ReceiveByte DEF ReadData
<1>4. consumed' = consumed \o m.rx_buf /\ ready' = FALSE /\ produced' = produced
  BY DEF ReadData
<1> HIDE DEF m
<1>5. /\ m.rx_buf \in Seq(Bytes) /\ m.link.rx \in Seq(Bytes)
      /\ uart.rx_buf \in Seq(Bytes) /\ uart.link.rx \in Seq(Bytes)
  BY <1>1, <1>2, RxQueues
<1>6. consumed' \in Seq(Bytes) /\ consumed' \o <<>> = consumed'
  BY <1>1, <1>4, <1>5, ConcatProperties, ConcatEmptySeq
<1>7. consumed' \o m.link.rx = produced
  <2>1. consumed' \o m.link.rx = consumed \o (m.rx_buf \o m.link.rx)
    BY <1>1, <1>4, <1>5, BytesAssociative
  <2>2. (consumed \o uart.rx_buf) \o uart.link.rx
          = consumed \o (uart.rx_buf \o uart.link.rx)
    BY <1>1, <1>5, BytesAssociative
  <2> QED BY <2>1, <2>2, <1>2 DEF IInv, RxInv, RxConserved
<1>8. RxInv'
  BY <1>3, <1>4, <1>6, <1>7 DEF RxInv, RxConserved, ReadyIsKept
<1>9. TxInv' /\ TypeOK'
  BY <1>3, <1>4, <1>6, TxKept DEF IInv, TypeOK, ReadData, txVars
<1> QED BY <1>8, <1>9 DEF IInv

\* The status read and the interrupt poll fetch a byte and consume none.
LEMMA StepFill ==
  ASSUME IInv, uart' = maybe_fill_rx_buf(uart), UNCHANGED <<produced, consumed>>,
         ready' \in BOOLEAN, ready' => ready \/ DataReady(uart')
  PROVE  uart' \in Uart /\ TxPart(uart') = TxPart(uart) /\ RxInv'
<1>1. uart \in Uart /\ consumed \in Seq(Bytes)
  BY DEF IInv, TypeOK
<1>2. /\ uart' \in Uart /\ TxPart(uart') = TxPart(uart)
      /\ uart'.rx_buf \o uart'.link.rx = uart.rx_buf \o uart.link.rx
      /\ uart.rx_buf # None => uart'.rx_buf # None
  BY <1>1, FillRxBuf
<1>3. /\ uart'.rx_buf \in Seq(Bytes) /\ uart'.link.rx \in Seq(Bytes)
      /\ uart.rx_buf \in Seq(Bytes) /\ uart.link.rx \in Seq(Bytes)
  BY <1>1, <1>2, RxQueues
<1>4. RxConserved'
  <2>1. (consumed \o uart'.rx_buf) \o uart'.link.rx
          = consumed \o (uart'.rx_buf \o uart'.link.rx)
    BY <1>1, <1>3, BytesAssociative
  <2>2. (consumed \o uart.rx_buf) \o uart.link.rx
          = consumed \o (uart.rx_buf \o uart.link.rx)
    BY <1>1, <1>3, BytesAssociative
  <2> QED BY <2>1, <2>2, <1>2 DEF IInv, RxInv, RxConserved
<1>5. ReadyIsKept'
  BY <1>2 DEF IInv, RxInv, ReadyIsKept, DataReady
<1> QED BY <1>2, <1>4, <1>5 DEF RxInv

LEMMA StepReadLsr == ASSUME IInv, ReadLsr PROVE IInv'
<1>1. ready' = DataReady(uart') /\ uart' = maybe_fill_rx_buf(uart)
  BY DEF ReadLsr, read_lsr
<1>2. ready' \in BOOLEAN
  BY <1>1 DEF DataReady
<1>3. uart' \in Uart /\ TxPart(uart') = TxPart(uart) /\ RxInv'
  BY <1>1, <1>2, StepFill DEF ReadLsr
<1>4. credit' \in 0 .. FifoSize
  BY UartAssumption, SMT DEF ReadLsr
<1>5. /\ uart'.tx_fifo = uart.tx_fifo /\ uart'.link.tx = uart.link.tx
      /\ uart'.cooldown = uart.cooldown /\ uart'.fifoEn = uart.fifoEn
  BY <1>3 DEF TxPart
<1>6. CreditCovered'
  <2>1. CASE THRE(uart)
    <3>1. Len(uart'.tx_fifo) = 0
      BY <2>1, <1>5, EmptySeq DEF THRE
    <3>2. credit' = IF uart'.fifoEn THEN FifoSize ELSE 1
      BY <2>1, <1>5 DEF ReadLsr
    <3> QED BY <3>1, <3>2, UartAssumption, SMT DEF CreditCovered
  <2>2. CASE ~ THRE(uart)
    BY <2>2 DEF ReadLsr, CreditCovered
  <2> QED BY <2>1, <2>2
<1>7. TxInv'
  BY <1>5, <1>6 DEF IInv, TxInv, TxConserved, GapCovered, ReadLsr
<1>8. TypeOK'
  BY <1>2, <1>3, <1>4 DEF IInv, TypeOK, ReadLsr
<1> QED BY <1>3, <1>7, <1>8 DEF IInv

LEMMA StepPollInterrupt == ASSUME IInv, PollInterrupt PROVE IInv'
<1>1. CASE uart.rdi
  <2>1. uart' = maybe_fill_rx_buf(uart) /\ UNCHANGED <<rxVars, txVars>>
    BY <1>1 DEF PollInterrupt, poll, is_rx_interrupt_enabled
  <2>2. ready' \in BOOLEAN /\ ready' = ready
    BY <2>1 DEF IInv, TypeOK, rxVars
  <2>3. uart' \in Uart /\ TxPart(uart') = TxPart(uart) /\ RxInv'
    BY <2>1, <2>2, StepFill DEF rxVars
  <2> QED BY <2>1, <2>3, TxKept DEF IInv, TypeOK, rxVars, txVars
<1>2. CASE ~ uart.rdi
  <2>1. uart' = uart
    BY <1>2 DEF PollInterrupt, poll, is_rx_interrupt_enabled
  <2> QED BY <2>1, RxKept, TxKept DEF IInv, TypeOK, PollInterrupt, rxVars, txVars
<1> QED BY <1>1, <1>2

\* Spending one credit frees the room it stood for.
LEMMA CreditSpent ==
  \A c, d, len, room \in Nat :
    (c = 0 \/ c + len <= room) /\ (d = 0 \/ d + 1 = c)
      => (d = 0 \/ d + len <= room) /\ (d = 0 \/ d + (len + 1) <= room)
  BY SMT

LEMMA StepWriteData ==
  ASSUME IInv, NEW b \in Bytes, WriteData(b) PROVE IInv'
<1> DEFINE f == uart.tx_fifo
           tx == uart.link.tx
           room == IF uart.fifoEn THEN FifoSize ELSE 1
<1>1. /\ uart \in Uart /\ f \in Seq(Bytes) /\ tx \in Seq(Bytes) /\ Len(f) \in Nat
      /\ credit \in Nat /\ credit <= FifoSize /\ accepted \in Seq(Bytes)
      /\ tx \o f = accepted
  <2>1. uart.tx_fifo \in Seq(Bytes) /\ uart.link.tx \in Seq(Bytes)
    BY DEF IInv, TypeOK, Uart, Link
  <2>2. credit \in Nat /\ credit <= FifoSize
    BY UartAssumption, SMT DEF IInv, TypeOK
  <2> QED BY <2>1, <2>2, LenProperties DEF IInv, TypeOK, TxInv, TxConserved
<1>2. /\ credit' \in 0 .. FifoSize /\ credit' \in Nat
      /\ credit' = 0 \/ credit' + 1 = credit
  BY <1>1, UartAssumption, SMT DEF WriteData, Monus
<1>3. UNCHANGED <<rxVars, since, gap>>
  BY DEF WriteData
<1>6. room \in Nat
  BY UartAssumption, SMT
<1>4. CASE HasRoom(uart)
  <2>1. uart' = [uart EXCEPT !.tx_fifo = Append(f, b)]
    BY <1>4 DEF WriteData, send_byte
  <2>2. Append(f, b) \in Seq(Bytes) /\ Len(Append(f, b)) = Len(f) + 1
    BY <1>1, AppendProperties
  <2> DEFINE g == Append(f, b)
  <2> HIDE DEF g
  <2>3. /\ uart' \in Uart /\ uart'.tx_fifo = g /\ uart'.link = uart.link
        /\ uart'.fifoEn = uart.fifoEn /\ uart'.cooldown = uart.cooldown
        /\ RxPart(uart') = RxPart(uart)
    BY <1>1, <2>1, <2>2 DEF Uart, RxPart, g
  <2>4. uart' # uart
    <3>1. Len(g) # Len(f)
      BY <1>1, <2>2, SMT DEF g
    <3> QED BY <2>3, <3>1
  <2>5. accepted' = Append(accepted, b) /\ accepted' \in Seq(Bytes)
    <3>1. accepted' = Append(accepted, b)
      BY <2>4 DEF WriteData
    <3> QED BY <3>1, <1>1, AppendProperties
  <2>6. TxConserved'
    <3>1. tx \o Append(f, b) = Append(tx \o f, b)
      <4> HIDE DEF tx, f
      <4> QED BY <1>1, AppendMoves
    <3> QED BY <3>1, <1>1, <2>3, <2>5 DEF TxConserved, g
  <2>7. CreditCovered'
    <3>1. credit = 0 \/ credit + Len(f) <= room
      BY DEF IInv, TxInv, CreditCovered
    <3>2. Len(uart'.tx_fifo) = Len(f) + 1
      BY <2>2, <2>3 DEF g
    <3>3. credit' = 0 \/ credit' + Len(uart'.tx_fifo) <= room
      <4> HIDE DEF room, f
      <4> QED BY <3>1, <3>2, <1>1, <1>2, <1>6, CreditSpent
    <3> QED BY <3>3, <2>3 DEF CreditCovered
  <2>8. GapCovered'
    BY <2>3, <1>3 DEF IInv, TxInv, GapCovered
  <2>9. RxInv'
    BY <2>3, <1>3, RxKept DEF IInv
  <2> QED BY <2>3, <2>5, <2>6, <2>7, <2>8, <2>9, <1>2, <1>3
          DEF IInv, TypeOK, TxInv, rxVars
<1>5. CASE ~ HasRoom(uart)
  <2>1. uart' = uart /\ accepted' = accepted
    BY <1>5 DEF WriteData, send_byte
  <2>2. CreditCovered'
    <3>1. credit = 0 \/ credit + Len(f) <= room
      BY DEF IInv, TxInv, CreditCovered
    <3>2. credit' = 0 \/ credit' + Len(f) <= room
      <4> HIDE DEF room, f
      <4> QED BY <3>1, <1>1, <1>2, <1>6, CreditSpent
    <3> QED BY <3>2, <2>1 DEF CreditCovered
  <2>3. RxInv'
    BY <2>1, <1>3, RxKept DEF IInv, RxPart
  <2> QED BY <2>1, <2>2, <2>3, <1>2, <1>3
          DEF IInv, TypeOK, TxInv, TxConserved, GapCovered, rxVars
<1> QED BY <1>4, <1>5

\* The register writes that reach neither queue.
LEMMA StepRegister ==
  ASSUME IInv, uart' \in Uart, UNCHANGED <<rxVars, txVars>>,
         RxPart(uart') = RxPart(uart), TxPart(uart') = TxPart(uart)
  PROVE  IInv'
  BY RxKept, TxKept DEF IInv, TypeOK, rxVars, txVars

LEMMA StepWriteFctl ==
  ASSUME IInv, NEW en \in BOOLEAN, WriteFctl(en) PROVE IInv'
<1>1. /\ uart' \in Uart /\ RxPart(uart') = RxPart(uart)
      /\ uart'.link = uart.link /\ uart'.tx_fifo = uart.tx_fifo
      /\ uart'.cooldown = uart.cooldown
  BY DEF IInv, TypeOK, WriteFctl, write_fctl, Uart, RxPart
<1>2. credit' = 0 /\ UNCHANGED <<rxVars, accepted, since, gap>>
  BY DEF WriteFctl
<1>3. credit' \in 0 .. FifoSize
  BY <1>2, UartAssumption, SMT
<1>4. TxInv'
  BY <1>1, <1>2 DEF IInv, TxInv, TxConserved, CreditCovered, GapCovered
<1> QED BY <1>1, <1>2, <1>3, <1>4, RxKept DEF IInv, TypeOK, rxVars

LEMMA StepLinkSends ==
  ASSUME IInv, NEW b \in Bytes, LinkSends(b) PROVE IInv'
<1> DEFINE q == uart.link.rx
           c == consumed \o uart.rx_buf
<1>1. uart \in Uart /\ q \in Seq(Bytes) /\ c \in Seq(Bytes) /\ c \o q = produced
  <2>1. uart \in Uart /\ consumed \in Seq(Bytes) /\ c \o q = produced
    BY DEF IInv, TypeOK, RxInv, RxConserved
  <2>2. uart.rx_buf \in Seq(Bytes) /\ q \in Seq(Bytes)
    BY <2>1, RxQueues
  <2> QED BY <2>1, <2>2, ConcatProperties
<1>2. Append(q, b) \in Seq(Bytes) /\ c \o Append(q, b) = Append(produced, b)
  <2> HIDE DEF q, c
  <2>0. c \in Seq(Bytes) /\ q \in Seq(Bytes)
    BY <1>1
  <2>1. c \o Append(q, b) = Append(c \o q, b)
    BY <2>0, AppendMoves
  <2> QED BY <1>1, <2>1, AppendProperties
<1>3. produced' = Append(produced, b) /\ UNCHANGED <<consumed, ready, txVars>>
  BY DEF LinkSends
<1>4. /\ uart' \in Uart /\ uart'.link.rx = Append(q, b)
      /\ uart'.rx_buf = uart.rx_buf /\ TxPart(uart') = TxPart(uart)
  <2> DEFINE r == Append(q, b)
  <2>1. uart' = [uart EXCEPT !.link.rx = r]
    BY DEF LinkSends
  <2> HIDE DEF r, q
  <2>2. r \in Seq(Bytes)
    BY <1>2 DEF r
  <2> QED BY <1>1, <2>1, <2>2 DEF Uart, Link, TxPart, r
<1>5. produced' \in Seq(Bytes)
  BY <1>3, AppendProperties DEF IInv, TypeOK
<1>6. RxInv'
  BY <1>2, <1>3, <1>4 DEF IInv, RxInv, RxConserved, ReadyIsKept, DataReady
<1> QED BY <1>3, <1>4, <1>5, <1>6, TxKept DEF IInv, TypeOK, txVars

LEMMA StepApplyTicks ==
  ASSUME IInv, NEW n \in Ticks, ApplyTicks(n)
  PROVE  IInv' /\ (Transmitted => since + n >= gap)
<1>1. /\ n \in Nat /\ since \in Nat /\ gap \in Nat /\ uart \in Uart
      /\ uart.cooldown \in Nat /\ gap <= since + uart.cooldown
      /\ Len(uart.tx_fifo) \in Nat
  BY UartInputs, LenProperties DEF IInv, TypeOK, TxInv, GapCovered, Uart
<1>2. /\ uart' \in Uart /\ RxPart(uart') = RxPart(uart) /\ uart'.fifoEn = uart.fifoEn
      /\ uart'.link.tx \o uart'.tx_fifo = uart.link.tx \o uart.tx_fifo
      /\ Len(uart'.tx_fifo) <= Len(uart.tx_fifo)
      /\ Transmitted => uart.cooldown <= n
      /\ ~ Transmitted => uart.cooldown <= uart'.cooldown + n
  BY <1>1, TicksTransmit DEF ApplyTicks, Transmitted
<1>3. uart'.cooldown \in Nat /\ Len(uart'.tx_fifo) \in Nat
  BY <1>2, LenProperties DEF Uart
<1>4. UNCHANGED <<rxVars, accepted, credit>>
  BY DEF ApplyTicks
<1>5. Transmitted => since + n >= gap
  BY <1>1, <1>2, SMT
<1>6. since' \in Nat /\ gap' \in Nat /\ GapCovered'
  <2>1. CASE Transmitted
    <3>1. since' = 0 /\ gap' = uart'.cooldown
      BY <2>1 DEF ApplyTicks
    <3> QED BY <3>1, <1>3, SMT DEF GapCovered
  <2>2. CASE ~ Transmitted
    <3>1. gap' = gap /\ since' = IF since + n < gap THEN since + n ELSE gap
      BY <2>2 DEF ApplyTicks
    <3>2. uart.cooldown <= uart'.cooldown + n
      BY <2>2, <1>2
    <3> QED BY <3>1, <3>2, <1>1, <1>3, SMT DEF GapCovered
  <2> QED BY <2>1, <2>2
<1>7. CreditCovered'
  <2> DEFINE room == IF uart.fifoEn THEN FifoSize ELSE 1
  <2>1. credit = 0 \/ credit + Len(uart.tx_fifo) <= room
    BY DEF IInv, TxInv, CreditCovered
  <2>2. room \in Nat /\ credit \in Nat
    BY UartAssumption, SMT DEF IInv, TypeOK
  <2> HIDE DEF room
  <2>3. credit = 0 \/ credit + Len(uart'.tx_fifo) <= room
    BY <2>1, <2>2, <1>1, <1>2, <1>3, SMT
  <2> QED BY <2>3, <1>2, <1>4 DEF CreditCovered, room
<1>8. TxConserved'
  BY <1>2, <1>4 DEF IInv, TxInv, TxConserved
<1>9. RxInv'
  BY <1>2, <1>4, RxKept DEF IInv
<1> QED BY <1>2, <1>4, <1>5, <1>6, <1>7, <1>8, <1>9 DEF IInv, TypeOK, TxInv, rxVars

LEMMA NextIInv == IInv /\ [Next]_vars => IInv'
<1> SUFFICES ASSUME IInv, [Next]_vars PROVE IInv'
  OBVIOUS
<1>0. uart \in Uart
  BY DEF IInv, TypeOK
<1>1. CASE ReadData
  BY <1>1, StepReadData
<1>2. CASE ReadIir
  BY <1>0, <1>2, StepRegister DEF ReadIir, read_iir, Uart, RxPart, TxPart
<1>3. CASE ReadLsr
  BY <1>3, StepReadLsr
<1>4. CASE \E b \in Bytes : WriteData(b)
  BY <1>4, StepWriteData
<1>5. CASE \E b \in Half : WriteDivisorLow(b)
  BY <1>0, <1>5, StepRegister DEF WriteDivisorLow, Uart, RxPart, TxPart
<1>6. CASE \E b \in Half : WriteDivisorHigh(b)
  BY <1>0, <1>6, StepRegister DEF WriteDivisorHigh, Uart, RxPart, TxPart
<1>7. CASE \E w \in Ier : WriteIer(w[1], w[2])
  BY <1>0, <1>7, StepRegister, UartInputs DEF WriteIer, Uart, RxPart, TxPart
<1>8. CASE \E en \in BOOLEAN : WriteFctl(en)
  BY <1>8, StepWriteFctl
<1>9. CASE \E dlab \in BOOLEAN : WriteLctl(dlab)
  BY <1>0, <1>9, StepRegister DEF WriteLctl, Uart, RxPart, TxPart
<1>10. CASE \E n \in Ticks : ApplyTicks(n)
  BY <1>10, StepApplyTicks
<1>11. CASE PollInterrupt
  BY <1>11, StepPollInterrupt
<1>12. CASE \E b \in Bytes : LinkSends(b)
  BY <1>12, StepLinkSends
<1>13. CASE UNCHANGED vars
  BY <1>0, <1>13, StepRegister DEF vars
<1> QED BY <1>1, <1>2, <1>3, <1>4, <1>5, <1>6, <1>7, <1>8, <1>9, <1>10, <1>11,
           <1>12, <1>13 DEF Next

THEOREM Invariance == Spec => []IInv
  BY InitIInv, NextIInv, PTL DEF Spec
-----------------------------------------------------------------------------
\* The registers and queues stay in range (uart.rs:9-28).
THEOREM TypeCorrect == Spec => []TypeOK
<1>1. IInv => TypeOK
  BY DEF IInv
<1> QED BY <1>1, Invariance, PTL

\* Received bytes reach the program once and in order, through any mixture of
\* data reads, status reads and interrupt polls (uart.rs:61-79).
THEOREM ReceiveInOrder == Spec => []RxConserved
<1>1. IInv => RxConserved
  BY DEF IInv, RxInv
<1> QED BY <1>1, Invariance, PTL

\* Accepted bytes reach the wire once and in order (uart.rs:40-59).
THEOREM TransmitInOrder == Spec => []TxConserved
<1>1. IInv => TxConserved
  BY DEF IInv, TxInv
<1> QED BY <1>1, Invariance, PTL

\* Data-ready stays true until the byte is read (uart.rs:82-84).
THEOREM ReadyKept == Spec => []ReadyIsKept
<1>1. IInv => ReadyIsKept
  BY DEF IInv, RxInv
<1> QED BY <1>1, Invariance, PTL

\* A program that respects THRE loses no byte (uart.rs:52-59, 86).
THEOREM Polite == Spec => []PoliteNeverDropped
<1>1. IInv => PoliteNeverDropped
  <2> SUFFICES ASSUME IInv, credit > 0 PROVE HasRoom(uart)
    BY DEF PoliteNeverDropped
  <2>1. /\ credit \in Nat /\ credit # 0 /\ Len(uart.tx_fifo) \in Nat
        /\ uart.tx_fifo \in Seq(Bytes)
    BY UartAssumption, LenProperties, SMT DEF IInv, TypeOK, Uart
  <2>2. credit + Len(uart.tx_fifo) <= IF uart.fifoEn THEN FifoSize ELSE 1
    BY <2>1 DEF IInv, TxInv, CreditCovered
  <2>3. CASE uart.fifoEn
    <3>1. Len(uart.tx_fifo) < FifoSize
      BY <2>1, <2>2, <2>3, UartAssumption, SMT
    <3> QED BY <2>3, <3>1 DEF HasRoom
  <2>4. CASE ~ uart.fifoEn
    <3>1. Len(uart.tx_fifo) = 0
      BY <2>1, <2>2, <2>4, SMT
    <3>2. uart.tx_fifo = <<>>
      BY <2>1, <3>1, EmptySeq, SMT
    <3> QED BY <2>4, <3>2 DEF HasRoom
  <2> QED BY <2>3, <2>4
<1> QED BY <1>1, Invariance, PTL

\* Bytes are a frame apart on the wire (uart.rs:41-49).
THEOREM BaudRate == Spec => BaudRespected
<1>1. IInv => \A n \in Ticks : ApplyTicks(n) /\ Transmitted => since + n >= gap
  BY StepApplyTicks
<1> QED BY <1>1, Invariance, PTL DEF BaudRespected, Spec
=============================================================================
