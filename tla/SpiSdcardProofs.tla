-------------------------- MODULE SpiSdcardProofs --------------------------
(***************************************************************************)
(* Proofs about SpiSdcard for every length of addresses and sectors: the   *)
(* types and the bound of the card's input buffer, through failing images  *)
(* and soft resets at any byte; that card and driver stay in step; and     *)
(* that the card, through its driver, is a block device.                   *)
(***************************************************************************)
EXTENDS SpiSdcard, SequenceTheorems, TLAPS

LEMMA Lengths ==
  /\ FrameLen \in Nat /\ FrameLen > 2 /\ FrameLen < SectorLen /\ SectorLen \in Nat
  /\ AddrBytes \in Nat /\ AddrBytes > 0 /\ FrameLen = AddrBytes + 2
BY SpiSdcardAssumption DEF FrameLen

LEMMA SomeBytes ==
  {0, 1, 5, 64, 72, 119, 105, 122, 81, 88, 254, 255} \subseteq Bytes
BY SpiSdcardAssumption
   DEF Commands, CMD0, CMD8, CMD55, ACMD41, CMD58, CMD17, CMD24, StartToken, Dummy

(***************************************************************************)
(* The card                                                                *)
(***************************************************************************)
\* What the card keeps up by itself, whatever it is sent.
Fits(c) ==
  /\ c \in SpiSdcard
  /\ Len(c.in_buf) < IF c.next_write_started THEN SectorLen ELSE FrameLen
  /\ c.next_write_started => c.next_write_sector # <<>>

\* The fields of a card have their types.
LEMMA Fields ==
  ASSUME NEW c \in SpiSdcard
  PROVE  /\ c.in_buf \in Seq(Bytes) /\ c.out_buf \in Seq(Bytes) /\ c.spi_sr \in BOOLEAN
         /\ c.image \in [Address -> Sector]
         /\ c.next_write_sector \in {<<>>} \union {<<a>> : a \in Address}
         /\ c.next_write_started \in BOOLEAN
BY DEF SpiSdcard

\* c and d agree in all that the driver can bring about or see.
Alike(c, d) ==
  /\ c.in_buf = d.in_buf /\ c.out_buf = d.out_buf
  /\ c.next_write_sector = d.next_write_sector
  /\ c.next_write_started = d.next_write_started

\* The status bit is of no consequence for the rest.
LEMMA StatusSet ==
  ASSUME NEW c \in SpiSdcard
  PROVE  /\ [c EXCEPT !.spi_sr = TRUE] \in SpiSdcard /\ Alike([c EXCEPT !.spi_sr = TRUE], c)
         /\ get_spi_status_register(c) \in SpiSdcard /\ Alike(get_spi_status_register(c), c)
<1>1. [c EXCEPT !.spi_sr = TRUE] \in SpiSdcard
  BY Zenon DEF SpiSdcard
<1>2. [c EXCEPT !.spi_sr = FALSE] \in SpiSdcard
  BY Zenon DEF SpiSdcard
<1>3. Alike([c EXCEPT !.spi_sr = TRUE], c)
  BY Zenon DEF SpiSdcard, Alike
<1>4. Alike([c EXCEPT !.spi_sr = FALSE], c)
  BY Zenon DEF SpiSdcard, Alike
<1> QED  BY <1>1, <1>2, <1>3, <1>4 DEF get_spi_status_register

LEMMA FitsAlike ==
  ASSUME NEW c, NEW d \in SpiSdcard, Alike(d, c), Fits(c)
  PROVE  Fits(d)
BY Zenon DEF Alike, Fits

\* Answering empties the input and appends to the output.
LEMMA Answering ==
  ASSUME NEW c \in SpiSdcard, NEW r \in Seq(Bytes)
  PROVE  /\ Answer(c, r) \in SpiSdcard
         /\ Answer(c, r).in_buf = <<>> /\ Answer(c, r).out_buf = c.out_buf \o r
         /\ Answer(c, r).next_write_sector = c.next_write_sector
         /\ Answer(c, r).next_write_started = c.next_write_started
<1>1. c.out_buf \o r \in Seq(Bytes) /\ <<>> \in Seq(Bytes)
  BY Fields
<1>2. Answer(c, r) \in SpiSdcard
  BY <1>1 DEF Answer, SpiSdcard
<1> QED  BY <1>2 DEF Answer, SpiSdcard

\* An empty input fits.
LEMMA EmptyFits ==
  ASSUME NEW c \in SpiSdcard, c.in_buf = <<>>, c.next_write_started => c.next_write_sector # <<>>
  PROVE  Fits(c)
<1>1. 0 < FrameLen /\ 0 < SectorLen
  BY Lengths
<1>2. Len(c.in_buf) = 0
  OBVIOUS
<1> QED  BY <1>1, <1>2 DEF Fits

LEMMA PushType ==
  ASSUME NEW c \in SpiSdcard, NEW b \in Bytes
  PROVE  /\ Push(c, b) \in SpiSdcard
         /\ Push(c, b).in_buf = Append(c.in_buf, b)
         /\ Push(c, b).in_buf \in Seq(Bytes)
         /\ Len(Push(c, b).in_buf) = Len(c.in_buf) + 1
         /\ Push(c, b).out_buf = c.out_buf
         /\ Push(c, b).next_write_sector = c.next_write_sector
         /\ Push(c, b).next_write_started = c.next_write_started
<1>1. c.in_buf \in Seq(Bytes)
  BY Fields
<1>2. Append(c.in_buf, b) \in Seq(Bytes) /\ Len(Append(c.in_buf, b)) = Len(c.in_buf) + 1
  BY <1>1
<1>3. Push(c, b) \in SpiSdcard
  BY <1>2 DEF Push, SpiSdcard
<1>4. /\ Push(c, b).in_buf = Append(c.in_buf, b) /\ Push(c, b).out_buf = c.out_buf
      /\ Push(c, b).next_write_sector = c.next_write_sector
      /\ Push(c, b).next_write_started = c.next_write_started
  BY DEF Push, SpiSdcard
<1> QED  BY <1>2, <1>3, <1>4

\* A write that waits for its data has begun with the token.
LEMMA Begun ==
  ASSUME NEW c \in SpiSdcard
  PROVE  LET d == [c EXCEPT !.next_write_started = TRUE]
         IN  /\ d \in SpiSdcard /\ d.in_buf = c.in_buf /\ d.out_buf = c.out_buf
             /\ d.next_write_sector = c.next_write_sector /\ d.next_write_started = TRUE
BY Zenon DEF SpiSdcard

\* What is left of a transfer that fails is a sector like any other.
LEMMA Torn ==
  ASSUME NEW t \in Sector, NEW u \in Sector, NEW n
  PROVE  Partly(t, u, n) \in Sector
BY Zenon DEF Partly, Sector

\* The last byte of a sector ends the write and changes that sector of the image.
LEMMA CommittingAt ==
  ASSUME NEW c \in SpiSdcard, NEW n \in 0 .. SectorLen, NEW a \in Address,
         c.next_write_sector = <<a>>, Len(c.in_buf) = SectorLen
  PROVE  /\ Commit(c, n) \in SpiSdcard
         /\ Commit(c, n).in_buf = <<>> /\ Commit(c, n).out_buf = c.out_buf \o <<5, 1>>
         /\ Commit(c, n).next_write_sector = <<>>
         /\ Commit(c, n).next_write_started = FALSE
         /\ Commit(c, n).image = [c.image EXCEPT ![a] = Partly(c.in_buf, @, n)]
<1> DEFINE m == [c.image EXCEPT ![a] = Partly(c.in_buf, c.image[a], n)]
           e == [c EXCEPT !.next_write_sector = <<>>, !.next_write_started = FALSE, !.image = m]
<1>1. c.in_buf \in Sector /\ c.image[a] \in Sector /\ c.image \in [Address -> Sector]
  BY Fields, Lengths DEF Sector
<1>2. Partly(c.in_buf, c.image[a], n) \in Sector
  BY <1>1, Torn
<1>3. m \in [Address -> Sector]
  BY <1>1, <1>2
<1>4. c.next_write_sector[1] = a
  OBVIOUS
<1>5. Commit(c, n) = Answer([c EXCEPT !.next_write_sector = <<>>, !.next_write_started = FALSE,
                                      !.image[a] = Partly(c.in_buf, @, n)], <<5, 1>>)
  BY <1>4, Zenon DEF Commit
<1>6. [c EXCEPT !.next_write_sector = <<>>, !.next_write_started = FALSE,
                !.image[a] = Partly(c.in_buf, @, n)] = e
  BY DEF SpiSdcard
<1>7. Commit(c, n) = Answer(e, <<5, 1>>)
  BY <1>5, <1>6, Zenon
<1> HIDE DEF m
<1>8. e \in SpiSdcard /\ e.in_buf = c.in_buf /\ e.out_buf = c.out_buf
      /\ e.next_write_sector = <<>> /\ e.next_write_started = FALSE /\ e.image = m
  BY <1>3, Zenon DEF SpiSdcard
<1> HIDE DEF e
<1>9. <<5, 1>> \in Seq(Bytes)
  BY SomeBytes
<1>10. /\ Answer(e, <<5, 1>>) \in SpiSdcard
       /\ Answer(e, <<5, 1>>).in_buf = <<>>
       /\ Answer(e, <<5, 1>>).out_buf = c.out_buf \o <<5, 1>>
       /\ Answer(e, <<5, 1>>).next_write_sector = <<>>
       /\ Answer(e, <<5, 1>>).next_write_started = FALSE
  BY <1>8, <1>9, Answering, Zenon
<1>11. Answer(e, <<5, 1>>).image = m
  BY <1>8 DEF Answer, SpiSdcard
<1> QED  BY <1>7, <1>10, <1>11 DEF m

LEMMA Committing ==
  ASSUME NEW c \in SpiSdcard, NEW n \in 0 .. SectorLen,
         c.next_write_sector # <<>>, Len(c.in_buf) = SectorLen
  PROVE  /\ Commit(c, n) \in SpiSdcard
         /\ Commit(c, n).in_buf = <<>> /\ Commit(c, n).out_buf = c.out_buf \o <<5, 1>>
         /\ Commit(c, n).next_write_sector = <<>>
         /\ Commit(c, n).next_write_started = FALSE
<1>1. PICK a \in Address : c.next_write_sector = <<a>>
  BY Fields
<1> QED  BY <1>1, CommittingAt

\* What the card answers to each command, as far as the driver relies on it.
Replied(cmd, o) ==
  /\ cmd \in {CMD0, CMD55} => o = <<1>>
  /\ cmd \in {ACMD41, CMD58, CMD24} => o = <<0>>
  /\ cmd = CMD8 => Len(o) = 5 /\ o[1] = 1
  /\ cmd = CMD17 => Len(o) = SectorLen + 4 /\ o[1] = 0 /\ o[2] = StartToken

LEMMA Distinct ==
  /\ CMD8 \notin {CMD0, CMD55, ACMD41, CMD58} /\ CMD17 \notin {CMD0, CMD55, ACMD41, CMD58, CMD8}
  /\ CMD24 \notin {CMD0, CMD55, ACMD41, CMD58, CMD8, CMD17}
  /\ CMD0 \notin {ACMD41, CMD58} /\ CMD55 \notin {ACMD41, CMD58} /\ ACMD41 # CMD58
BY DEF CMD0, CMD8, CMD55, ACMD41, CMD58, CMD17, CMD24

\* d is c with its frame consumed; only CMD24 opens a write.
Executed(c, d) ==
  /\ d \in SpiSdcard /\ d.in_buf = <<>> /\ ~ d.next_write_started
  /\ c.in_buf[1] # CMD24 => d.next_write_sector = c.next_write_sector
  /\ c.in_buf[1] = CMD24 => d.next_write_sector # <<>>
  /\ c.in_buf[1] \in Commands /\ c.out_buf = <<>> => Replied(c.in_buf[1], d.out_buf)

\* The answers to the commands are sequences of bytes; appended to nothing
\* they are all there is.
LEMMA ShortAnswers == <<0>> \in Seq(Bytes) /\ <<1>> \in Seq(Bytes)
<1>1. 0 \in Bytes /\ 1 \in Bytes
  BY SomeBytes
<1> QED  BY <1>1

LEMMA AfterNothing ==
  ASSUME NEW r \in Seq(Bytes)
  PROVE  <<>> \o r = r
OBVIOUS

LEMMA Executing ==
  ASSUME NEW c \in SpiSdcard, NEW n \in 0 .. SectorLen,
         ~ c.next_write_started, Len(c.in_buf) = FrameLen
  PROVE  Executed(c, Execute(c, n))
<1> DEFINE d == Execute(c, n)
           f == c.in_buf[1]
           a == SubSeq(c.in_buf, 2, AddrBytes + 1)
<1>1. c.in_buf \in Seq(Bytes) /\ c.out_buf \in Seq(Bytes)
  BY Fields
<1>2. c.in_buf[AddrBytes + 1] \in Bytes
  BY <1>1, Lengths
<1>3. a \in Address
  <2>1. AddrBytes + 1 <= Len(c.in_buf) /\ 2 <= AddrBytes + 1
    BY Lengths
  <2>2. a \in Seq(Bytes) /\ Len(a) = AddrBytes
    BY <1>1, <2>1, Lengths, SubSeqProperties
  <2> HIDE DEF a
  <2> QED  BY <2>2 DEF Address
<1>4. CASE f \in {CMD0, CMD55}
  <2>3. f \notin {ACMD41, CMD58, CMD24, CMD8, CMD17}
    BY <1>4, Distinct
  <2>1. d = Answer(c, <<1>>)
    BY <1>4, <2>3, Zenon DEF Execute
  <2>2. <<1>> \in Seq(Bytes) /\ (c.out_buf = <<>> => c.out_buf \o <<1>> = <<1>>)
    BY ShortAnswers, AfterNothing, Zenon
  <2> QED  BY <1>4, <2>1, <2>2, <2>3, Answering, Zenon DEF Executed, Replied
<1>5. CASE f \in {ACMD41, CMD58}
  <2>1. f \notin {CMD0, CMD55, CMD8, CMD17, CMD24}
    BY <1>5, Distinct
  <2>2. d = Answer(c, <<0>>)
    BY <1>5, <2>1, Zenon DEF Execute
  <2>3. <<0>> \in Seq(Bytes) /\ (c.out_buf = <<>> => c.out_buf \o <<0>> = <<0>>)
    BY ShortAnswers, AfterNothing, Zenon
  <2> QED  BY <1>5, <2>1, <2>2, <2>3, Answering, Zenon DEF Executed, Replied
<1>6. CASE f = CMD8
  <2> DEFINE r == <<1, 0, 0, 1, c.in_buf[AddrBytes + 1]>>
  <2>1. f \notin {CMD0, CMD55, ACMD41, CMD58, CMD17, CMD24}
    BY <1>6, Distinct
  <2>2. d = Answer(c, r)
    BY <1>6, <2>1, Zenon DEF Execute
  <2>3. r \in Seq(Bytes) /\ Len(r) = 5 /\ r[1] = 1
    <3>1. 0 \in Bytes /\ 1 \in Bytes
      BY SomeBytes
    <3> QED  BY <1>2, <3>1
  <2> HIDE DEF r
  <2>4. Replied(f, r)
    BY <1>6, <2>1, <2>3, Zenon DEF Replied
  <2>5. c.out_buf = <<>> => c.out_buf \o r = r
    BY <2>3, AfterNothing, Zenon
  <2> QED  BY <1>6, <2>1, <2>2, <2>3, <2>4, <2>5, Answering, Zenon DEF Executed
<1>7. CASE f = CMD17
  <2> DEFINE t == Partly(c.image[a], Repeat(0, SectorLen), n)
             r == <<0, StartToken>> \o t \o <<0, 0>>
  <2>1. f \notin {CMD0, CMD55, ACMD41, CMD58, CMD8, CMD24}
    BY <1>7, Distinct
  <2>2. d = Answer(c, r)
    <3>1. d = ReadSector(c, a, n)
      BY <1>7, <2>1, Zenon DEF Execute
    <3> QED  BY <3>1 DEF ReadSector
  <2>3. t \in Seq(Bytes) /\ Len(t) = SectorLen
    <3>1. t \in Sector
      <4>1. 0 \in Bytes
        BY SomeBytes
      <4>2. c.image[a] \in Sector
        BY <1>3, Fields
      <4>3. Repeat(0, SectorLen) \in Sector
        BY <4>1 DEF Sector, Repeat
      <4> QED  BY <4>2, <4>3, Torn
    <3> HIDE DEF t
    <3> QED  BY <3>1, Lengths DEF Sector
  <2> HIDE DEF t
  <2>4. r \in Seq(Bytes) /\ Len(r) = SectorLen + 4 /\ r[1] = 0 /\ r[2] = StartToken
    <3>1. 0 \in Bytes /\ StartToken \in Bytes
      BY SomeBytes DEF StartToken
    <3> QED  BY <2>3, <3>1, Lengths
  <2> HIDE DEF r
  <2>5. c.out_buf = <<>> => c.out_buf \o r = r
    BY <2>4
  <2> QED  BY <1>7, <2>1, <2>2, <2>4, <2>5, Answering, Zenon DEF Executed, Replied
<1>8. CASE f = CMD24
  <2> DEFINE e == [c EXCEPT !.next_write_sector = <<a>>, !.next_write_started = FALSE]
  <2>1. f \notin {CMD0, CMD55, ACMD41, CMD58, CMD8, CMD17}
    BY <1>8, Distinct
  <2>2. d = Answer(e, <<0>>)
    <3>1. d = WriteSector(c, a)
      BY <1>8, <2>1, Zenon DEF Execute
    <3> QED  BY <3>1 DEF WriteSector
  <2>3. <<a>> \in {<<>>} \union {<<b>> : b \in Address} /\ <<a>> # <<>>
    BY <1>3
  <2>4. /\ e \in SpiSdcard /\ e.out_buf = c.out_buf
        /\ e.next_write_sector = <<a>> /\ e.next_write_started = FALSE
    BY <2>3, Zenon DEF SpiSdcard
  <2> HIDE DEF a, e
  <2>5. <<0>> \in Seq(Bytes) /\ (c.out_buf = <<>> => c.out_buf \o <<0>> = <<0>>)
    BY ShortAnswers, AfterNothing, Zenon
  <2>6. /\ d \in SpiSdcard /\ d.in_buf = <<>> /\ d.out_buf = e.out_buf \o <<0>>
        /\ d.next_write_sector = e.next_write_sector /\ d.next_write_started = e.next_write_started
    BY <2>2, <2>4, <2>5, Answering, Zenon
  <2> QED  BY <1>8, <2>1, <2>3, <2>4, <2>5, <2>6, Zenon DEF Executed, Replied
<1>9. CASE f \notin Commands
  <2>1. f \notin {CMD0, CMD55, ACMD41, CMD58, CMD8, CMD17, CMD24}
    BY <1>9 DEF Commands
  <2>2. d = [c EXCEPT !.in_buf = <<>>]
    BY <2>1, Zenon DEF Execute
  <2>3. <<>> \in Seq(Bytes)
    OBVIOUS
  <2>4. /\ d \in SpiSdcard /\ d.in_buf = <<>> /\ d.next_write_sector = c.next_write_sector
        /\ d.next_write_started = c.next_write_started
    BY <2>2, <2>3, Zenon DEF SpiSdcard
  <2> QED  BY <1>9, <2>1, <2>4, Zenon DEF Executed
<1> QED  BY <1>4, <1>5, <1>6, <1>7, <1>8, <1>9, Zenon DEF Commands

\* What a byte is taken for, by the state of the card.
LEMMA AcceptIgnores ==
  ASSUME NEW c, ~ c.next_write_started, NEW n
  PROVE  Accept(c, Dummy, n) = c
<1>1. StartToken # Dummy
  BY DEF StartToken, Dummy
<1> QED  BY <1>1, Zenon DEF Accept, Ignored

LEMMA AcceptToken ==
  ASSUME NEW c, ~ c.next_write_started, c.next_write_sector # <<>>, NEW n
  PROVE  Accept(c, StartToken, n) = [c EXCEPT !.next_write_started = TRUE]
<1>1. StartToken # Dummy
  BY DEF StartToken, Dummy
<1> QED  BY <1>1, Zenon DEF Accept, Ignored, Waiting

LEMMA AcceptData ==
  ASSUME NEW c, c.next_write_started, c.next_write_sector # <<>>, NEW n, NEW b
  PROVE  Accept(c, b, n) = IF Len(c.in_buf) + 1 = SectorLen THEN Commit(Push(c, b), n)
                            ELSE Push(c, b)
BY Zenon DEF Accept, Ignored, Waiting

LEMMA AcceptFrame ==
  ASSUME NEW c, ~ c.next_write_started, NEW n, NEW b, b # Dummy,
         c.next_write_sector = <<>> \/ b # StartToken
  PROVE  Accept(c, b, n) = IF Len(c.in_buf) + 1 >= FrameLen THEN Execute(Push(c, b), n)
                            ELSE Push(c, b)
BY Zenon DEF Accept, Ignored, Waiting

\* Whatever byte comes, the card is fit for the next.
LEMMA AcceptFits ==
  ASSUME NEW c \in SpiSdcard, Fits(c), NEW b \in Bytes, NEW n \in 0 .. SectorLen
  PROVE  Fits(Accept(c, b, n))
<1> DEFINE p == Push(c, b)
<1>1. CASE ~ c.next_write_started /\ b = Dummy
  BY <1>1, AcceptIgnores, Zenon
<1>2. CASE ~ c.next_write_started /\ c.next_write_sector # <<>> /\ b = StartToken
  <2> DEFINE d == [c EXCEPT !.next_write_started = TRUE]
  <2>1. /\ d \in SpiSdcard /\ d.in_buf = c.in_buf /\ d.next_write_started = TRUE
        /\ d.next_write_sector = c.next_write_sector
    BY Begun
  <2>2. Len(c.in_buf) < FrameLen
    BY <1>2, Zenon DEF Fits
  <2>3. Len(c.in_buf) < SectorLen
    BY <2>2, Lengths, Fields
  <2> HIDE DEF d
  <2>4. Fits(d)
    BY <1>2, <2>1, <2>3, Zenon DEF Fits
  <2> QED  BY <1>2, <2>4, AcceptToken, Zenon DEF d
<1>3. CASE c.next_write_started
  <2>1. c.next_write_sector # <<>> /\ Len(c.in_buf) < SectorLen /\ Len(c.in_buf) \in Nat
    BY <1>3, Fields DEF Fits
  <2>2. CASE Len(c.in_buf) + 1 = SectorLen
    <3>1. Accept(c, b, n) = Commit(p, n)
      BY <1>3, <2>1, <2>2, AcceptData, Zenon
    <3>2. p \in SpiSdcard /\ p.next_write_sector # <<>> /\ Len(p.in_buf) = SectorLen
      BY <2>1, <2>2, PushType, Zenon
    <3> HIDE DEF p
    <3>3. /\ Commit(p, n) \in SpiSdcard /\ Commit(p, n).in_buf = <<>>
          /\ Commit(p, n).next_write_started = FALSE
      BY <3>2, Committing, Zenon
    <3> QED  BY <3>1, <3>3, EmptyFits, Zenon
  <2>3. CASE Len(c.in_buf) + 1 # SectorLen
    <3>1. Accept(c, b, n) = p
      BY <1>3, <2>1, <2>3, AcceptData, Zenon
    <3>2. Len(c.in_buf) + 1 < SectorLen
      BY <2>1, <2>3, Lengths
    <3>3. p \in SpiSdcard /\ Len(p.in_buf) < SectorLen /\ p.next_write_started
          /\ p.next_write_sector # <<>>
      BY <1>3, <2>1, <3>2, PushType, Zenon
    <3> QED  BY <3>1, <3>3, Zenon DEF Fits
  <2> QED  BY <2>2, <2>3
<1>4. CASE /\ ~ c.next_write_started /\ b # Dummy
           /\ c.next_write_sector = <<>> \/ b # StartToken
  <2>1. Len(c.in_buf) < FrameLen /\ Len(c.in_buf) \in Nat
    BY <1>4, Fields DEF Fits
  <2>2. /\ p \in SpiSdcard /\ Len(p.in_buf) = Len(c.in_buf) + 1 /\ ~ p.next_write_started
    BY <1>4, PushType, Zenon
  <2> HIDE DEF p
  <2>3. CASE Len(c.in_buf) + 1 >= FrameLen
    <3>1. Len(p.in_buf) = FrameLen
      BY <2>1, <2>2, <2>3, Lengths
    <3>2. Executed(p, Execute(p, n))
      BY <2>2, <3>1, Executing
    <3>3. Fits(Execute(p, n))
      BY <3>2, EmptyFits, Zenon DEF Executed
    <3> QED  BY <1>4, <2>3, <3>3, AcceptFrame, Zenon DEF p
  <2>4. CASE ~ (Len(c.in_buf) + 1 >= FrameLen)
    <3>1. Len(p.in_buf) < FrameLen
      BY <2>1, <2>2, <2>4, Lengths
    <3>2. Fits(p)
      BY <2>2, <3>1, Zenon DEF Fits
    <3> QED  BY <1>4, <2>4, <3>2, AcceptFrame, Zenon DEF p
  <2> QED  BY <2>3, <2>4
<1> QED  BY <1>1, <1>2, <1>3, <1>4

\* The card after a byte and the wait for its transfer.
Sent(c, b, n) == get_spi_status_register(recv_byte(c, b, n))

LEMMA SentFits ==
  ASSUME NEW c \in SpiSdcard, Fits(c), NEW b \in Bytes, NEW n \in 0 .. SectorLen
  PROVE  Fits(Sent(c, b, n))
<1> DEFINE d == [c EXCEPT !.spi_sr = TRUE]
           e == Accept(d, b, n)
<1>1. d \in SpiSdcard /\ Alike(d, c)
  BY StatusSet
<1>2. Fits(d)
  BY <1>1, FitsAlike
<1> HIDE DEF d
<1>3. Fits(e) /\ e \in SpiSdcard
  BY <1>1, <1>2, AcceptFits DEF Fits
<1> HIDE DEF e
<1>4. Fits(get_spi_status_register(e))
  BY <1>3, StatusSet, FitsAlike
<1> QED  BY <1>4 DEF Sent, recv_byte, d, e

\* A read of the receive register takes what there is from the output.
LEMMA Taking ==
  ASSUME NEW c \in SpiSdcard
  PROVE  /\ send_byte(c) \in SpiSdcard /\ Received(c) \in Bytes
         /\ send_byte(c).in_buf = c.in_buf
         /\ send_byte(c).next_write_sector = c.next_write_sector
         /\ send_byte(c).next_write_started = c.next_write_started
         /\ c.out_buf = <<>> => send_byte(c).out_buf = <<>> /\ Received(c) = Dummy
         /\ c.out_buf # <<>> => /\ send_byte(c).out_buf = Tail(c.out_buf)
                                /\ Received(c) = c.out_buf[1]
<1>1. CASE c.out_buf = <<>>
  <2>1. Dummy \in Bytes
    BY SomeBytes DEF Dummy
  <2> QED  BY <1>1, <2>1, Zenon DEF send_byte, Received
<1>2. CASE c.out_buf # <<>>
  <2>1. Head(c.out_buf) \in Bytes /\ Tail(c.out_buf) \in Seq(Bytes) /\ Head(c.out_buf) = c.out_buf[1]
    BY <1>2, Fields
  <2>2. send_byte(c) = [c EXCEPT !.out_buf = Tail(c.out_buf)]
    BY <1>2 DEF send_byte, SpiSdcard
  <2>3. Received(c) = Head(c.out_buf)
    BY <1>2 DEF Received
  <2> QED  BY <1>2, <2>1, <2>2, <2>3 DEF SpiSdcard
<1> QED  BY <1>1, <1>2

(***************************************************************************)
(* The driver                                                              *)
(***************************************************************************)
\* How many bytes a phase has.
Limit(p) == IF p = "frame" THEN FrameLen
            ELSE IF p \in {"data_out", "data_in"} THEN SectorLen
            ELSE IF p = "extra" THEN 4
            ELSE IF p = "crc" THEN 2
            ELSE 1

DriverOK ==
  /\ phase \in Phases /\ job \in Job /\ pos \in 0 .. Limit(phase) - 1
  /\ got \in Seq(Bytes) /\ boot \in 0 .. Len(InitSequence)
  /\ moved \in 0 .. SectorLen /\ resets \in 0 .. MaxResets

\* The inductive invariant behind the types and the bound of the buffer.
CardInv == DriverOK /\ Fits(card)

LEMMA Limits ==
  ASSUME NEW p \in Phases
  PROVE  Limit(p) \in Nat /\ 1 <= Limit(p) /\ Limit(p) <= SectorLen
BY Lengths DEF Limit

LEMMA InitSequenceType ==
  Len(InitSequence) = 5 /\ \A i \in 1 .. 5 : InitSequence[i] \in Commands \ {CMD17, CMD24}
<1>1. {CMD0, CMD8, CMD55, ACMD41, CMD58} \subseteq Commands \ {CMD17, CMD24}
  BY Distinct, Zenon DEF Commands
<1> QED  BY <1>1 DEF InitSequence

LEMMA CardInvImplies == CardInv => TypeOK /\ BufferBounded
<1> SUFFICES ASSUME CardInv PROVE TypeOK /\ BufferBounded
  OBVIOUS
<1>1. pos \in 0 .. SectorLen + FrameLen
  BY Limits, Lengths DEF CardInv, DriverOK
<1>2. TypeOK
  BY <1>1 DEF CardInv, DriverOK, Fits, TypeOK
<1>3. BufferBounded
  BY Zenon DEF CardInv, Fits, BufferBounded
<1> QED  BY <1>2, <1>3

LEMMA BlankType == Blank \in Sector /\ Repeat(0, AddrBytes) \in Address /\ <<>> \in Seq(Bytes)
<1>1. 0 \in Bytes
  BY SomeBytes
<1> QED  BY <1>1 DEF Blank, Repeat, Sector, Address

LEMMA CardInvInit == Init => CardInv
<1> SUFFICES ASSUME Init PROVE CardInv
  OBVIOUS
<1>1. PICK contents \in [Targets -> Payloads \union {Blank}] :
         card = new([a \in Address |-> IF a \in Targets THEN contents[a] ELSE Blank])
  BY DEF Init
<1> DEFINE m == [a \in Address |-> IF a \in Targets THEN contents[a] ELSE Blank]
<1>2. m \in [Address -> Sector]
  BY BlankType, DriverAssumption
<1> HIDE DEF m
<1>3. card \in SpiSdcard /\ card.in_buf = <<>> /\ ~ card.next_write_started
  BY <1>1, <1>2, BlankType DEF new, SpiSdcard, m
<1>4. Fits(card)
  BY <1>3, EmptyFits
<1>5. job \in Job
  BY BlankType, Zenon DEF Init, Job, Commands
<1>6. phase \in Phases /\ pos \in 0 .. Limit(phase) - 1
  BY Limits DEF Init, Phases
<1>7. got \in Seq(Bytes) /\ moved \in 0 .. SectorLen
  <2>1. got = <<>> /\ moved = 0
    BY DEF Init
  <2> QED  BY <2>1, BlankType, Lengths
<1>8. boot = 0 /\ resets = 0
  BY DEF Init
<1>9. boot \in 0 .. Len(InitSequence) /\ resets \in 0 .. MaxResets
  BY <1>8, InitSequenceType, DriverAssumption
<1> QED  BY <1>4, <1>5, <1>6, <1>7, <1>9 DEF CardInv, DriverOK

\* A phase is left with its last byte.
LEMMA Going ==
  ASSUME NEW p \in Phases, Goto(p)
  PROVE  phase' \in Phases /\ pos' \in 0 .. Limit(phase') - 1
BY Limits DEF Goto

LEMMA Stepping ==
  ASSUME DriverOK, NEW p \in Phases, Step(Limit(phase), p)
  PROVE  phase' \in Phases /\ pos' \in 0 .. Limit(phase') - 1
<1>1. CASE pos + 1 = Limit(phase)
  BY <1>1, Going DEF Step
<1>2. CASE pos + 1 # Limit(phase)
  BY <1>2, Limits DEF Step, DriverOK
<1> QED  BY <1>1, <1>2

\* A byte is sent and the card fits.
LEMMA OutFits ==
  ASSUME Fits(card), NEW b \in Bytes, NEW n \in IoOutcomes, Out(b, n)
  PROVE  Fits(card')
<1>1. n \in 0 .. SectorLen /\ card \in SpiSdcard
  BY DriverAssumption DEF Fits
<1>2. Fits(Sent(card, b, n))
  BY <1>1, SentFits
<1> QED  BY <1>2 DEF Out, Sent

LEMMA InFits ==
  ASSUME Fits(card), NEW b, In(b)
  PROVE  Fits(card') /\ b \in Bytes
<1>1. PICK n \in IoOutcomes : b = Received(Polled(n)) /\ card' = send_byte(Polled(n))
  BY DEF In
<1>2. n \in 0 .. SectorLen /\ card \in SpiSdcard /\ Dummy \in Bytes
  BY DriverAssumption, SomeBytes DEF Fits, Dummy
<1>3. Fits(Polled(n))
  BY <1>2, SentFits DEF Sent, Polled
<1> HIDE DEF Polled
<1>4. Polled(n) \in SpiSdcard
  BY <1>3 DEF Fits
<1>5. /\ card' \in SpiSdcard /\ card'.in_buf = Polled(n).in_buf /\ b \in Bytes
      /\ card'.next_write_sector = Polled(n).next_write_sector
      /\ card'.next_write_started = Polled(n).next_write_started
  BY <1>1, <1>4, Taking
<1> QED  BY <1>3, <1>5, Zenon DEF Fits

LEMMA JobType ==
  ASSUME NEW j \in Job
  PROVE  j.cmd \in Commands /\ j.at \in Address /\ j.data \in Sector
BY DEF Job

LEMMA FrameBytes ==
  ASSUME NEW j \in Job
  PROVE  /\ Frame(j) \in Seq(Bytes) /\ Len(Frame(j)) = FrameLen /\ Frame(j)[1] = j.cmd
         /\ \A i \in 1 .. FrameLen : Frame(j)[i] \in {j.cmd, 1} \union {j.at[k] : k \in 1 .. AddrBytes}
<1>1. j.cmd \in Bytes /\ 1 \in Bytes /\ j.at \in [1 .. AddrBytes -> Bytes]
  BY JobType, SpiSdcardAssumption DEF Address
<1>2. j.at \in Seq(Bytes) /\ Len(j.at) = AddrBytes
  BY <1>1, Lengths
<1>3. <<j.cmd>> \in Seq(Bytes) /\ <<1>> \in Seq(Bytes)
  BY <1>1
<1> DEFINE s == j.at
<1> HIDE DEF s
<1>4. Frame(j) = (<<j.cmd>> \o s) \o <<1>>
  BY DEF Frame, s
<1> QED  BY <1>1, <1>2, <1>3, <1>4, Lengths DEF s

\* A command begins.
LEMMA Starting ==
  ASSUME NEW j \in Job, Start(j)
  PROVE  /\ phase' \in Phases /\ pos' \in 0 .. Limit(phase') - 1
         /\ job' \in Job /\ got' \in Seq(Bytes)
<1>1. "frame" \in Phases
  BY DEF Phases
<1> QED  BY <1>1, Going, BlankType, Zenon DEF Start

LEMMA Jobs ==
  /\ \A a \in Address : [cmd |-> CMD17, at |-> a, data |-> Blank] \in Job
  /\ \A a \in Address, d \in Sector : [cmd |-> CMD24, at |-> a, data |-> d] \in Job
  /\ \A c \in Commands : [cmd |-> c, at |-> Repeat(0, AddrBytes), data |-> Blank] \in Job
BY BlankType DEF Job, Commands

\* Polls leave the driver's variables in their types.
LEMMA PollDriver ==
  ASSUME DriverOK, NEW b \in Bytes, UNCHANGED <<job, moved, resets>>,
         \/ PollResponse(b) \/ PollToken(b) \/ PollStatus(b) \/ PollBusy(b)
         \/ PollAgain(b) \/ PollExtra \/ PollData(b) \/ PollCrc
  PROVE  DriverOK'
<1> USE DEF Phases
<1>1. CASE PollResponse(b)
  <2>1. AfterResponse(b) \in Phases
    BY DEF AfterResponse
  <2>2. boot' \in 0 .. Len(InitSequence)
    BY <1>1, InitSequenceType DEF PollResponse, DriverOK, Booting
  <2>3. phase' \in Phases /\ pos' \in 0 .. Limit(phase') - 1
    BY <1>1, <2>1, Going DEF PollResponse
  <2>4. UNCHANGED got
    BY <1>1 DEF PollResponse
  <2> QED  BY <2>2, <2>3, <2>4 DEF DriverOK
<1>2. CASE PollToken(b)
  <2>1. phase' \in Phases /\ pos' \in 0 .. Limit(phase') - 1
    BY <1>2, Going DEF PollToken
  <2> QED  BY <1>2, <2>1 DEF PollToken, DriverOK
<1>3. CASE PollStatus(b)
  <2>1. phase' \in Phases /\ pos' \in 0 .. Limit(phase') - 1
    BY <1>3, Going DEF PollStatus
  <2> QED  BY <1>3, <2>1 DEF PollStatus, DriverOK
<1>4. CASE PollBusy(b)
  <2>1. phase' \in Phases /\ pos' \in 0 .. Limit(phase') - 1
    BY <1>4, Going DEF PollBusy
  <2> QED  BY <1>4, <2>1 DEF PollBusy, DriverOK
<1>5. CASE PollAgain(b)
  BY <1>5, Zenon DEF PollAgain, driver, DriverOK
<1>6. CASE PollExtra
  <2>1. phase' \in Phases /\ pos' \in 0 .. Limit(phase') - 1
    <3>1. Limit(phase) = 4
      BY <1>6 DEF PollExtra, Limit
    <3> QED  BY <1>6, <3>1, Stepping DEF PollExtra
  <2> QED  BY <1>6, <2>1 DEF PollExtra, DriverOK
<1>7. CASE PollData(b)
  <2>1. phase' \in Phases /\ pos' \in 0 .. Limit(phase') - 1
    <3>1. Limit(phase) = SectorLen
      BY <1>7 DEF PollData, Limit
    <3> QED  BY <1>7, <3>1, Stepping DEF PollData
  <2>2. got' \in Seq(Bytes)
    BY <1>7 DEF PollData, DriverOK
  <2> QED  BY <1>7, <2>1, <2>2 DEF PollData, DriverOK
<1>8. CASE PollCrc
  <2>1. phase' \in Phases /\ pos' \in 0 .. Limit(phase') - 1
    <3>1. Limit(phase) = 2
      BY <1>8 DEF PollCrc, Limit
    <3> QED  BY <1>8, <3>1, Stepping DEF PollCrc
  <2> QED  BY <1>8, <2>1 DEF PollCrc, DriverOK
<1> QED  BY <1>1, <1>2, <1>3, <1>4, <1>5, <1>6, <1>7, <1>8

LEMMA CardInvStep == CardInv /\ [Next]_vars => CardInv'
<1> SUFFICES ASSUME CardInv, [Next]_vars PROVE CardInv'
  OBVIOUS
<1> USE DEF CardInv
<1>1. ASSUME NEW j \in Job, Start(j), UNCHANGED <<card, boot, last, moved, resets>>
      PROVE  CardInv'
  BY <1>1, Starting DEF DriverOK
<1>2. CASE InitCommand
  <2>1. InitSequence[boot + 1] \in Commands
    BY <1>2, InitSequenceType DEF InitCommand, Booting, DriverOK
  <2> QED  BY <1>1, <1>2, <2>1, Jobs DEF InitCommand
<1>3. CASE ReadCall
  BY <1>1, <1>3, Jobs, DriverAssumption DEF ReadCall
<1>4. CASE WriteCall
  BY <1>1, <1>4, Jobs, DriverAssumption DEF WriteCall
<1>5. CASE SendFrame
  <2>1. PICK n \in IoOutcomes : /\ Out(Frame(job)[pos + 1], n)
                             /\ moved' = IF pos + 1 = FrameLen /\ job.cmd = CMD17 THEN n ELSE 0
    BY <1>5 DEF SendFrame
  <2>2. Limit(phase) = FrameLen
    BY <1>5 DEF SendFrame, Limit
  <2>3. Frame(job)[pos + 1] \in Bytes
    BY <2>2, FrameBytes, Lengths DEF DriverOK
  <2>4. Fits(card')
    BY <2>1, <2>3, OutFits
  <2>5. phase' \in Phases /\ pos' \in 0 .. Limit(phase') - 1
    BY <1>5, <2>2, Stepping DEF SendFrame, Phases
  <2>6. moved' \in 0 .. SectorLen
    BY <2>1, DriverAssumption, Lengths
  <2> QED  BY <1>5, <2>4, <2>5, <2>6 DEF SendFrame, DriverOK
<1>6. CASE SendToken
  <2>1. PICK n \in IoOutcomes : Out(StartToken, n)
    BY <1>6 DEF SendToken
  <2>2. Fits(card')
    BY <2>1, OutFits, SomeBytes DEF StartToken
  <2>3. phase' \in Phases /\ pos' \in 0 .. Limit(phase') - 1
    BY <1>6, Going DEF SendToken, Phases
  <2>4. moved' \in 0 .. SectorLen
    BY <1>6, Lengths DEF SendToken
  <2> QED  BY <1>6, <2>2, <2>3, <2>4 DEF SendToken, DriverOK
<1>7. CASE SendData
  <2>1. PICK n \in IoOutcomes : /\ Out(job.data[pos + 1], n)
                             /\ moved' = IF pos + 1 = SectorLen THEN n ELSE 0
    BY <1>7 DEF SendData
  <2>2. Limit(phase) = SectorLen
    BY <1>7 DEF SendData, Limit
  <2>3. job.data[pos + 1] \in Bytes
    BY <2>2, JobType, Lengths DEF DriverOK, Sector
  <2>4. Fits(card')
    BY <2>1, <2>3, OutFits
  <2>5. phase' \in Phases /\ pos' \in 0 .. Limit(phase') - 1
    BY <1>7, <2>2, Stepping DEF SendData, Phases
  <2>6. moved' \in 0 .. SectorLen
    BY <2>1, DriverAssumption, Lengths
  <2> QED  BY <1>7, <2>4, <2>5, <2>6 DEF SendData, DriverOK
<1>8. CASE Poll
  <2>1. PICK b \in Bytes : /\ In(b)
                           /\ \/ PollResponse(b) \/ PollToken(b) \/ PollStatus(b) \/ PollBusy(b)
                              \/ PollAgain(b) \/ PollExtra \/ PollData(b) \/ PollCrc
    BY <1>8 DEF Poll
  <2>2. UNCHANGED <<job, moved, resets>>
    BY <1>8 DEF Poll
  <2>3. DriverOK'
    BY <2>1, <2>2, PollDriver
  <2>4. Fits(card')
    BY <2>1, InFits
  <2> QED  BY <2>3, <2>4
<1>9. CASE SoftReset
  <2>1. phase' \in Phases /\ pos' \in 0 .. Limit(phase') - 1
    BY <1>9, Going DEF SoftReset, Phases
  <2>2. resets' \in 0 .. MaxResets /\ boot' \in 0 .. Len(InitSequence)
    BY <1>9, DriverAssumption, InitSequenceType DEF SoftReset, DriverOK
  <2> QED  BY <1>9, <2>1, <2>2 DEF SoftReset, DriverOK
<1>10. CASE UNCHANGED vars
  BY <1>10, Zenon DEF vars, DriverOK
<1> QED  BY <1>2, <1>3, <1>4, <1>5, <1>6, <1>7, <1>8, <1>9, <1>10 DEF Next, Transfer

LEMMA CardInvariance == Spec => []CardInv
<1> QED  BY CardInvInit, CardInvStep, PTL DEF Spec

\* Every variable has its type, after any number of resets in mid-transfer.
THEOREM TypeCorrect == Spec => []TypeOK
<1> QED  BY CardInvariance, CardInvImplies, PTL

\* The lengths that recv_byte compares for equality are never passed, and the
\* sector it unwraps is there, for every length of frames and sectors.
THEOREM NeverOverrun == Spec => []BufferBounded
<1> QED  BY CardInvariance, CardInvImplies, PTL

(***************************************************************************)
(* Card and driver in step                                                 *)
(***************************************************************************)
\* The driver addresses no sector whose number has a byte that the card drops.
PlainTargets == \A a \in Targets : \A i \in 1 .. AddrBytes : a[i] # Dummy

\* What the card has yet to send, by the phase of the driver.
Owed ==
  LET o == card.out_buf
  IN  /\ phase \in {"idle", "frame", "token_out", "data_out"} => o = <<>>
      /\ phase = "response" => Replied(job.cmd, o)
      /\ phase = "extra"    => o = <<>> \/ Len(o) = 4 - pos
      /\ phase = "token_in" => Len(o) = SectorLen + 3 /\ o[1] = StartToken
      /\ phase = "data_in"  => Len(o) = SectorLen + 2 - pos
      /\ phase = "crc"      => Len(o) = 2 - pos
      /\ phase = "status"   => o = <<5, 1>>
      /\ phase = "busy"     => o = <<1>>

\* What the card has taken in.
Taken ==
  /\ Len(card.in_buf) = IF phase \in {"frame", "data_out"} THEN pos ELSE 0
  /\ card.next_write_started <=> phase = "data_out"
  /\ card.next_write_sector # <<>> <=>
        phase \in {"token_out", "data_out"} \/ (phase = "response" /\ job.cmd = CMD24)
  /\ phase = "frame" /\ pos > 0 => card.in_buf[1] = job.cmd

\* The phases of each command.
Course ==
  /\ phase \in {"token_out", "data_out", "status", "busy"} => job.cmd = CMD24
  /\ phase \in {"token_in", "data_in", "crc"} => job.cmd = CMD17
  /\ phase = "extra" => job.cmd \in {CMD8, CMD58}
  /\ \A i \in 1 .. AddrBytes : job.at[i] # Dummy

\* The inductive invariant behind Synchronised.
StepInv == resets = 0 => Owed /\ Taken /\ Course

LEMMA StepInvImplies == StepInv => Synchronised
BY Zenon DEF StepInv, Owed, Taken, Synchronised

\* A byte of a frame that is not the dummy is taken in; the last one has the
\* frame executed.
LEMMA SentFrame ==
  ASSUME NEW c \in SpiSdcard, NEW b \in Bytes, NEW n \in 0 .. SectorLen, b # Dummy,
         ~ c.next_write_started, c.next_write_sector = <<>>, c.out_buf = <<>>,
         Len(c.in_buf) < FrameLen
  PROVE  LET d == Sent(c, b, n)
             i == Append(c.in_buf, b)
         IN  /\ ~ d.next_write_started
             /\ Len(i) < FrameLen => d.in_buf = i /\ d.out_buf = <<>> /\ d.next_write_sector = <<>>
             /\ Len(i) = FrameLen =>
                  /\ d.in_buf = <<>>
                  /\ d.next_write_sector # <<>> <=> i[1] = CMD24
                  /\ i[1] \in Commands => Replied(i[1], d.out_buf)
<1> DEFINE c1 == [c EXCEPT !.spi_sr = TRUE]
           p  == Push(c1, b)
           e  == Accept(c1, b, n)
           d  == get_spi_status_register(e)
           i  == Append(c.in_buf, b)
<1>1. c1 \in SpiSdcard /\ Alike(c1, c)
  BY StatusSet
<1> HIDE DEF c1
<1>2. /\ p \in SpiSdcard /\ p.in_buf = i /\ Len(i) = Len(c.in_buf) + 1 /\ p.out_buf = <<>>
      /\ p.next_write_sector = <<>> /\ ~ p.next_write_started
  BY <1>1, PushType, Zenon DEF Alike
<1> HIDE DEF p
<1>3. e = IF Len(c1.in_buf) + 1 >= FrameLen THEN Execute(p, n) ELSE p
  BY <1>1, AcceptFrame, Zenon DEF Alike, p
<1>4. Len(c1.in_buf) + 1 = Len(i) /\ Len(i) \in Nat
  BY <1>1, <1>2, Fields DEF Alike
<1> HIDE DEF e
<1>5. e \in SpiSdcard => Alike(d, e)
  BY StatusSet
<1> HIDE DEF d
<1>6. CASE Len(i) < FrameLen
  <2>1. e = p /\ Len(i) # FrameLen
    BY <1>3, <1>4, <1>6, Lengths
  <2>2. d.in_buf = i /\ d.out_buf = <<>> /\ d.next_write_sector = <<>> /\ ~ d.next_write_started
    BY <1>2, <1>5, <2>1, Zenon DEF Alike
  <2> QED  BY <1>6, <2>1, <2>2 DEF Sent, recv_byte, d, e, c1
<1>7. CASE Len(i) = FrameLen
  <2>1. e = Execute(p, n) /\ ~ (Len(i) < FrameLen)
    BY <1>3, <1>4, <1>7, Lengths
  <2>2. Executed(p, e)
    BY <1>2, <1>7, <2>1, Executing, Zenon
  <2>3. /\ d.in_buf = <<>> /\ ~ d.next_write_started
        /\ d.next_write_sector # <<>> <=> i[1] = CMD24
        /\ i[1] \in Commands => Replied(i[1], d.out_buf)
    BY <1>2, <1>5, <2>2, Zenon DEF Alike, Executed
  <2> QED  BY <1>7, <2>1, <2>3 DEF Sent, recv_byte, d, e, c1
<1>8. Len(i) < FrameLen \/ Len(i) = FrameLen
  BY <1>2, <1>4, Lengths, Fields
<1> QED  BY <1>6, <1>7, <1>8

\* The token of a write, and the bytes of its sector.
LEMMA SentToken ==
  ASSUME NEW c \in SpiSdcard, NEW n \in 0 .. SectorLen,
         ~ c.next_write_started, c.next_write_sector # <<>>
  PROVE  LET d == Sent(c, StartToken, n)
         IN  /\ d.next_write_started /\ d.in_buf = c.in_buf /\ d.out_buf = c.out_buf
             /\ d.next_write_sector = c.next_write_sector
<1> DEFINE c1 == [c EXCEPT !.spi_sr = TRUE]
           e  == Accept(c1, StartToken, n)
<1>1. c1 \in SpiSdcard /\ Alike(c1, c)
  BY StatusSet
<1> HIDE DEF c1
<1>2. e = [c1 EXCEPT !.next_write_started = TRUE]
  BY <1>1, AcceptToken, Zenon DEF Alike
<1>3. /\ e \in SpiSdcard /\ e.next_write_started /\ e.in_buf = c.in_buf /\ e.out_buf = c.out_buf
      /\ e.next_write_sector = c.next_write_sector
  BY <1>1, <1>2, Begun, Zenon DEF Alike
<1> HIDE DEF e
<1>4. Alike(get_spi_status_register(e), e)
  BY <1>3, StatusSet
<1> QED  BY <1>3, <1>4, Zenon DEF Alike, Sent, recv_byte, e, c1

LEMMA SentData ==
  ASSUME NEW c \in SpiSdcard, NEW b \in Bytes, NEW n \in 0 .. SectorLen,
         c.next_write_started, c.next_write_sector # <<>>, c.out_buf = <<>>
  PROVE  LET d == Sent(c, b, n)
         IN  /\ Len(c.in_buf) + 1 # SectorLen =>
                  /\ d.next_write_started /\ d.next_write_sector # <<>> /\ d.out_buf = <<>>
                  /\ Len(d.in_buf) = Len(c.in_buf) + 1
             /\ Len(c.in_buf) + 1 = SectorLen =>
                  /\ ~ d.next_write_started /\ d.next_write_sector = <<>>
                  /\ d.out_buf = <<5, 1>> /\ d.in_buf = <<>>
<1> DEFINE c1 == [c EXCEPT !.spi_sr = TRUE]
           p  == Push(c1, b)
           e  == Accept(c1, b, n)
           d  == get_spi_status_register(e)
<1>1. c1 \in SpiSdcard /\ Alike(c1, c)
  BY StatusSet
<1> HIDE DEF c1
<1>2. /\ p \in SpiSdcard /\ Len(p.in_buf) = Len(c.in_buf) + 1 /\ p.out_buf = <<>>
      /\ p.next_write_sector # <<>> /\ p.next_write_started
  BY <1>1, PushType, Zenon DEF Alike
<1> HIDE DEF p
<1>3. e = IF Len(c.in_buf) + 1 = SectorLen THEN Commit(p, n) ELSE p
  BY <1>1, AcceptData, Zenon DEF Alike, p
<1> HIDE DEF e
<1>4. e \in SpiSdcard => Alike(d, e)
  BY StatusSet
<1> HIDE DEF d
<1>5. CASE Len(c.in_buf) + 1 # SectorLen
  BY <1>2, <1>3, <1>4, <1>5, Zenon DEF Alike, Sent, recv_byte, d, e, c1
<1>6. CASE Len(c.in_buf) + 1 = SectorLen
  <2>1. <<5, 1>> \in Seq(Bytes)
    <3>1. 5 \in Bytes /\ 1 \in Bytes
      BY SomeBytes
    <3> QED  BY <3>1
  <2>2. /\ e \in SpiSdcard /\ e.in_buf = <<>> /\ e.out_buf = <<5, 1>>
        /\ e.next_write_sector = <<>> /\ e.next_write_started = FALSE
    BY <1>2, <1>3, <1>6, <2>1, Committing, AfterNothing, Zenon
  <2> QED  BY <1>4, <1>6, <2>2, Zenon DEF Alike, Sent, recv_byte, d, e, c1
<1> QED  BY <1>5, <1>6

\* A poll outside the data of a write leaves the card as it is.
LEMMA SentDummy ==
  ASSUME NEW c \in SpiSdcard, NEW n \in 0 .. SectorLen, ~ c.next_write_started
  PROVE  Sent(c, Dummy, n) \in SpiSdcard /\ Alike(Sent(c, Dummy, n), c)
<1> DEFINE c1 == [c EXCEPT !.spi_sr = TRUE]
<1>1. c1 \in SpiSdcard /\ Alike(c1, c)
  BY StatusSet
<1> HIDE DEF c1
<1>2. Accept(c1, Dummy, n) = c1
  BY <1>1, AcceptIgnores, Zenon DEF Alike
<1>3. get_spi_status_register(c1) \in SpiSdcard /\ Alike(get_spi_status_register(c1), c1)
  BY <1>1, StatusSet
<1> QED  BY <1>1, <1>2, <1>3, Zenon DEF Alike, Sent, recv_byte, c1

InStep == Owed /\ Taken /\ Course

LEMMA StepInvInit == Init => StepInv
<1> SUFFICES ASSUME Init PROVE Owed /\ Taken /\ Course
  BY DEF StepInv
<1>1. PICK contents \in [Targets -> Payloads \union {Blank}] :
         card = new([a \in Address |-> IF a \in Targets THEN contents[a] ELSE Blank])
  BY DEF Init
<1>2. /\ card.in_buf = <<>> /\ card.out_buf = <<>> /\ ~ card.next_write_started
      /\ card.next_write_sector = <<>>
  BY <1>1, Zenon DEF new
<1>3. phase = "idle" /\ pos = 0
  BY DEF Init
<1>4. Owed
  BY <1>2, <1>3, Zenon DEF Owed
<1>5. Taken
  <2>1. Len(card.in_buf) = 0
    BY <1>2
  <2> QED  BY <1>2, <1>3, <2>1 DEF Taken
<1>6. \A i \in 1 .. AddrBytes : job.at[i] # Dummy
  BY DEF Init, Repeat, Dummy
<1>7. Course
  BY <1>3, <1>6 DEF Course
<1> QED  BY <1>4, <1>5, <1>7

\* A command begins between two others.
LEMMA StartKeeps ==
  ASSUME InStep, phase = "idle", NEW j, Start(j), UNCHANGED card,
         \A i \in 1 .. AddrBytes : j.at[i] # Dummy
  PROVE  InStep'
<1>1. phase' = "frame" /\ pos' = 0 /\ job' = j
  BY DEF Start, Goto
<1>2. /\ card'.out_buf = <<>> /\ Len(card'.in_buf) = 0 /\ ~ card'.next_write_started
      /\ card'.next_write_sector = <<>>
  BY DEF InStep, Owed, Taken
<1>3. Owed'
  BY <1>1, <1>2 DEF Owed
<1>4. Taken'
  BY <1>1, <1>2 DEF Taken
<1>5. Course'
  BY <1>1 DEF Course
<1> QED  BY <1>3, <1>4, <1>5 DEF InStep

LEMMA FrameKeeps ==
  ASSUME CardInv, InStep, SendFrame
  PROVE  InStep'
<1> DEFINE b == Frame(job)[pos + 1]
           i == Append(card.in_buf, b)
<1>1. PICK n \in IoOutcomes : Out(b, n)
  BY DEF SendFrame
<1>2. /\ phase = "frame" /\ job \in Job /\ pos \in Nat /\ pos + 1 <= FrameLen
      /\ card \in SpiSdcard /\ n \in 0 .. SectorLen
  BY Lengths, DriverAssumption DEF SendFrame, CardInv, DriverOK, Fits, Limit
<1>3. /\ Len(card.in_buf) = pos /\ ~ card.next_write_started /\ card.next_write_sector = <<>>
      /\ card.out_buf = <<>> /\ (pos > 0 => card.in_buf[1] = job.cmd)
  BY <1>2 DEF InStep, Taken, Owed
<1>4. b \in Bytes /\ b # Dummy
  <2>1. b \in {job.cmd, 1} \union {job.at[k] : k \in 1 .. AddrBytes} /\ b \in Bytes
    BY <1>2, FrameBytes, Lengths
  <2>2. job.cmd # Dummy /\ 1 # Dummy
    BY <1>2, JobType DEF Commands, CMD0, CMD8, CMD55, ACMD41, CMD58, CMD17, CMD24, Dummy
  <2> QED  BY <2>1, <2>2 DEF InStep, Course
<1>5. /\ Len(i) = pos + 1 /\ i[1] = job.cmd
  BY <1>2, <1>3, <1>4, FrameBytes, Fields
<1>6. card' = Sent(card, b, n)
  BY <1>1 DEF Out, Sent
<1> HIDE DEF b, i
<1>7. Len(card.in_buf) < FrameLen
  BY <1>2, <1>3, Lengths
<1>8. /\ ~ card'.next_write_started
      /\ Len(i) < FrameLen => /\ card'.in_buf = i /\ card'.out_buf = <<>>
                              /\ card'.next_write_sector = <<>>
      /\ Len(i) = FrameLen => /\ card'.in_buf = <<>>
                              /\ card'.next_write_sector # <<>> <=> i[1] = CMD24
                              /\ i[1] \in Commands => Replied(i[1], card'.out_buf)
  BY <1>2, <1>3, <1>4, <1>6, <1>7, SentFrame DEF i
<1>9. job' = job
  BY DEF SendFrame
<1>10. CASE pos + 1 = FrameLen
  <2>1. phase' = "response" /\ pos' = 0
    BY <1>10 DEF SendFrame, Step, Goto
  <2>2. /\ card'.in_buf = <<>> /\ Replied(job.cmd, card'.out_buf)
        /\ card'.next_write_sector # <<>> <=> job.cmd = CMD24
    BY <1>2, <1>5, <1>8, <1>10, JobType
  <2>3. Owed'
    BY <1>9, <2>1, <2>2 DEF Owed
  <2>4. Taken'
    BY <1>8, <1>9, <2>1, <2>2 DEF Taken
  <2>5. Course'
    BY <1>9, <2>1 DEF InStep, Course
  <2> QED  BY <2>3, <2>4, <2>5 DEF InStep
<1>11. CASE pos + 1 # FrameLen
  <2>1. phase' = "frame" /\ pos' = pos + 1
    BY <1>2, <1>11 DEF SendFrame, Step
  <2>2. card'.in_buf = i /\ card'.out_buf = <<>> /\ card'.next_write_sector = <<>>
    BY <1>2, <1>5, <1>8, <1>11, Lengths
  <2>3. Owed'
    BY <2>1, <2>2 DEF Owed
  <2>4. Taken'
    BY <1>5, <1>8, <1>9, <2>1, <2>2 DEF Taken
  <2>5. Course'
    BY <1>9, <2>1 DEF InStep, Course
  <2> QED  BY <2>3, <2>4, <2>5 DEF InStep
<1> QED  BY <1>10, <1>11

LEMMA TokenKeeps ==
  ASSUME CardInv, InStep, SendToken
  PROVE  InStep'
<1>1. PICK n \in IoOutcomes : Out(StartToken, n)
  BY DEF SendToken
<1>2. phase = "token_out" /\ card \in SpiSdcard /\ n \in 0 .. SectorLen /\ pos = 0
  BY DriverAssumption DEF SendToken, CardInv, DriverOK, Fits, Limit
<1>3. /\ Len(card.in_buf) = 0 /\ ~ card.next_write_started /\ card.next_write_sector # <<>>
      /\ card.out_buf = <<>>
  BY <1>2 DEF InStep, Taken, Owed
<1>4. card' = Sent(card, StartToken, n)
  BY <1>1 DEF Out, Sent
<1>5. /\ card'.next_write_started /\ card'.in_buf = card.in_buf /\ card'.out_buf = <<>>
      /\ card'.next_write_sector # <<>>
  BY <1>2, <1>3, <1>4, SentToken
<1>6. phase' = "data_out" /\ pos' = 0 /\ job' = job /\ job.cmd = CMD24
  BY <1>2 DEF SendToken, Goto, InStep, Course
<1>7. Owed'
  BY <1>5, <1>6 DEF Owed
<1>8. Taken'
  BY <1>3, <1>5, <1>6 DEF Taken
<1>9. Course'
  BY <1>6 DEF InStep, Course
<1> QED  BY <1>7, <1>8, <1>9 DEF InStep

LEMMA DataKeeps ==
  ASSUME CardInv, InStep, SendData
  PROVE  InStep'
<1> DEFINE b == job.data[pos + 1]
<1>1. PICK n \in IoOutcomes : Out(b, n)
  BY DEF SendData
<1>2. /\ phase = "data_out" /\ card \in SpiSdcard /\ n \in 0 .. SectorLen
      /\ pos \in Nat /\ pos + 1 <= SectorLen /\ job \in Job
  <2>1. phase = "data_out" /\ n \in 0 .. SectorLen
    BY DriverAssumption DEF SendData
  <2>2. pos \in 0 .. SectorLen - 1 /\ card \in SpiSdcard /\ job \in Job
    BY <2>1 DEF CardInv, DriverOK, Fits, Limit
  <2> QED  BY <2>1, <2>2, Lengths
<1>3. /\ Len(card.in_buf) = pos /\ card.next_write_started /\ card.next_write_sector # <<>>
      /\ card.out_buf = <<>>
  BY <1>2 DEF InStep, Taken, Owed
<1>4. b \in Bytes
  BY <1>2, JobType, Lengths DEF Sector
<1>5. card' = Sent(card, b, n)
  BY <1>1 DEF Out, Sent
<1> HIDE DEF b
<1>6. /\ Len(card.in_buf) + 1 # SectorLen =>
            /\ card'.next_write_started /\ card'.next_write_sector # <<>> /\ card'.out_buf = <<>>
            /\ Len(card'.in_buf) = Len(card.in_buf) + 1
      /\ Len(card.in_buf) + 1 = SectorLen =>
            /\ ~ card'.next_write_started /\ card'.next_write_sector = <<>>
            /\ card'.out_buf = <<5, 1>> /\ card'.in_buf = <<>>
  BY <1>2, <1>3, <1>4, <1>5, SentData
<1>7. job' = job /\ job.cmd = CMD24
  BY <1>2 DEF SendData, InStep, Course
<1>8. CASE pos + 1 = SectorLen
  <2>1. phase' = "status" /\ pos' = 0
    BY <1>8 DEF SendData, Step, Goto
  <2>2. /\ ~ card'.next_write_started /\ card'.next_write_sector = <<>>
        /\ card'.out_buf = <<5, 1>> /\ Len(card'.in_buf) = 0
    BY <1>3, <1>6, <1>8
  <2>3. Owed' /\ Taken'
    BY <2>1, <2>2 DEF Owed, Taken
  <2>4. Course'
    BY <1>7, <2>1 DEF InStep, Course
  <2> QED  BY <2>3, <2>4 DEF InStep
<1>9. CASE pos + 1 # SectorLen
  <2>1. phase' = "data_out" /\ pos' = pos + 1
    BY <1>2, <1>9 DEF SendData, Step
  <2>2. /\ card'.next_write_started /\ card'.next_write_sector # <<>>
        /\ card'.out_buf = <<>> /\ Len(card'.in_buf) = pos + 1
    BY <1>3, <1>6, <1>9
  <2>3. Owed' /\ Taken'
    BY <2>1, <2>2 DEF Owed, Taken
  <2>4. Course'
    BY <1>7, <2>1 DEF InStep, Course
  <2> QED  BY <2>3, <2>4 DEF InStep
<1> QED  BY <1>8, <1>9

\* Outside the data of a write, a poll takes the first byte the card owes, and
\* reads the dummy if there is none.
LEMMA Reading ==
  ASSUME CardInv, InStep, phase # "data_out", NEW b, In(b)
  PROVE  /\ card'.in_buf = card.in_buf
         /\ card'.next_write_sector = card.next_write_sector
         /\ ~ card'.next_write_started
         /\ card.out_buf \in Seq(Bytes)
         /\ card.out_buf = <<>> => b = Dummy /\ card'.out_buf = <<>>
         /\ card.out_buf # <<>> => b = card.out_buf[1] /\ card'.out_buf = Tail(card.out_buf)
<1>1. PICK n \in IoOutcomes : b = Received(Polled(n)) /\ card' = send_byte(Polled(n))
  BY DEF In
<1>2. n \in 0 .. SectorLen /\ card \in SpiSdcard /\ ~ card.next_write_started
  BY DriverAssumption DEF CardInv, Fits, InStep, Taken
<1>3. Polled(n) \in SpiSdcard /\ Alike(Polled(n), card)
  BY <1>2, SentDummy DEF Sent, Polled
<1> HIDE DEF Polled
<1> QED  BY <1>1, <1>2, <1>3, Taking, Fields, Zenon DEF Alike

\* The card answers at once: there is always a byte for a poll in time, and none of
\* them is one that has the driver poll again.
LEMMA AnsweredAtOnce ==
  ASSUME CardInv, InStep, NEW b, In(b)
  PROVE  ~ PollAgain(b)
<1> SUFFICES ASSUME PollAgain(b) PROVE FALSE
  OBVIOUS
<1> DEFINE o == card.out_buf
<1>1. o # <<>> /\ o[1] # (IF phase = "busy" THEN 0 ELSE Dummy)
  <2>1. CASE phase = "response"
    <3>1. Replied(job.cmd, o) /\ job.cmd \in Commands
      BY <2>1, JobType DEF CardInv, DriverOK, InStep, Owed
    <3>2. \/ o = <<0>>
          \/ o = <<1>>
          \/ Len(o) = 5 /\ o[1] = 1
          \/ Len(o) = SectorLen + 4 /\ o[1] = 0
      <4>1. job.cmd \in {CMD0, CMD55} => o = <<1>>
        BY <3>1, Zenon DEF Replied
      <4>2. job.cmd \in {ACMD41, CMD58, CMD24} => o = <<0>>
        BY <3>1, Zenon DEF Replied
      <4>3. job.cmd = CMD8 => Len(o) = 5 /\ o[1] = 1
        BY <3>1, Zenon DEF Replied
      <4>4. job.cmd = CMD17 => Len(o) = SectorLen + 4 /\ o[1] = 0
        BY <3>1, Zenon DEF Replied
      <4> QED  BY <3>1, <4>1, <4>2, <4>3, <4>4, Zenon DEF Commands
    <3>3. o # <<>> /\ o[1] \in {0, 1}
      <4>1. CASE o = <<0>> \/ o = <<1>>
        BY ONLY <4>1
      <4>2. CASE Len(o) = 5 /\ o[1] = 1
        BY ONLY <4>2
      <4>3. CASE Len(o) = SectorLen + 4 /\ o[1] = 0
        <5>1. SectorLen + 4 # 0
          BY ONLY Lengths
        <5> QED  BY ONLY <4>3, <5>1
      <4> QED  BY <3>2, <4>1, <4>2, <4>3, Zenon
    <3> QED  BY <2>1, <3>3 DEF Dummy
  <2>2. CASE phase = "token_in"
    <3>1. Len(o) = SectorLen + 3 /\ o[1] = StartToken
      BY <2>2 DEF InStep, Owed
    <3> QED  BY <2>2, <3>1, Lengths DEF StartToken, Dummy
  <2>3. CASE phase \in {"status", "busy"}
    <3>1. o = (IF phase = "busy" THEN <<1>> ELSE <<5, 1>>)
      BY <2>3 DEF InStep, Owed
    <3> QED  BY <2>3, <3>1 DEF Dummy
  <2> QED  BY <2>1, <2>2, <2>3 DEF PollAgain
<1>2. b = o[1]
  BY <1>1, Reading DEF PollAgain
<1> QED  BY <1>1, <1>2 DEF PollAgain

\* A phase that has nothing left over, but for what the card still owes.
LEMMA PollKeeps ==
  ASSUME CardInv, InStep, NEW b, In(b), job' = job,
         \/ PollResponse(b) \/ PollToken(b) \/ PollStatus(b) \/ PollBusy(b)
         \/ PollAgain(b) \/ PollExtra \/ PollData(b) \/ PollCrc
  PROVE  InStep'
<1> DEFINE o == card.out_buf
           t == card'.out_buf
<1>1. phase \notin {"data_out", "frame", "token_out", "idle"}
  BY DEF PollResponse, PollToken, PollStatus, PollBusy, PollAgain, PollExtra, PollData, PollCrc
<1>2. /\ ~ card'.next_write_started /\ Len(card'.in_buf) = 0
      /\ card'.next_write_sector # <<>> <=> phase = "response" /\ job.cmd = CMD24
  BY <1>1, Reading DEF InStep, Taken
<1>3. /\ o \in Seq(Bytes)
      /\ o = <<>> => b = Dummy /\ t = <<>>
      /\ o # <<>> => b = o[1] /\ t = Tail(o)
  BY <1>1, Reading
<1>4. /\ Len(o) > 0 => /\ b = o[1] /\ Len(t) = Len(o) - 1 /\ t = Tail(o)
                       /\ \A i \in 1 .. Len(t) : t[i] = o[i + 1]
      /\ Len(o) = 0 => o = <<>>
      /\ Len(t) = 0 => t = <<>>
      /\ Len(o) \in Nat
  <2>1. o # <<>> => Tail(o) \in Seq(Bytes)
    BY <1>3, HeadTailProperties
  <2>2. t \in Seq(Bytes)
    BY <1>3, <2>1
  <2>3. o # <<>> => Len(Tail(o)) = Len(o) - 1 /\ \A i \in 1 .. Len(Tail(o)) : Tail(o)[i] = o[i + 1]
    BY <1>3, HeadTailProperties
  <2>4. Len(<<>>) = 0
    OBVIOUS
  <2> HIDE DEF o, t
  <2> QED  BY <1>3, <2>2, <2>3, <2>4, EmptySeq
<1>5. pos \in Nat /\ job \in Job
  BY Limits DEF CardInv, DriverOK
<1>6. ASSUME phase' \notin {"data_out", "frame", "token_out", "response"},
             phase = "response" => job.cmd # CMD24
      PROVE  Taken'
  BY <1>2, <1>6 DEF Taken
<1>7. CASE PollResponse(b)
  <2>1. phase = "response" /\ pos' = 0 /\ phase' = AfterResponse(b) /\ Replied(job.cmd, o)
    BY <1>7 DEF PollResponse, Goto, InStep, Owed
  <2>2. CASE job.cmd = CMD17
    <3>1. phase' = "token_in"
      BY <2>1, <2>2, Distinct, Zenon DEF AfterResponse
    <3>2. Len(o) = SectorLen + 4 /\ o[2] = StartToken
      BY <2>1, <2>2, Distinct, Zenon DEF Replied
    <3>3. Len(t) = SectorLen + 3 /\ t[1] = StartToken
      <4>1. Len(o) > 0 => /\ Len(t) = Len(o) - 1
                          /\ \A i \in 1 .. Len(t) : t[i] = o[i + 1]
        BY ONLY <1>4
      <4>2. Len(o) > 0
        BY ONLY <3>2, Lengths
      <4>3. Len(t) = SectorLen + 3
        BY ONLY <3>2, <4>1, <4>2, Lengths
      <4>4. t[1] = o[1 + 1]
        BY ONLY <4>1, <4>2, <4>3, Lengths
      <4>5. 1 + 1 = 2
        OBVIOUS
      <4> QED  BY <3>2, <4>3, <4>4, <4>5
    <3>4. Owed'
      BY <3>1, <3>3 DEF Owed
    <3>5. Taken'
      BY <1>6, <2>2, <3>1, Distinct
    <3>6. Course'
      BY <2>2, <3>1 DEF InStep, Course
    <3> QED  BY <3>4, <3>5, <3>6 DEF InStep
  <2>3. CASE job.cmd = CMD24
    <3>1. o = <<0>> /\ b = 0
      <4>1. o = <<0>>
        BY <2>1, <2>3, Zenon DEF Replied
      <4>2. Len(o) = 1 /\ o[1] = 0
        BY <4>1
      <4> QED  BY <1>4, <4>1, <4>2
    <3>2. phase' = "token_out"
      BY <2>1, <2>3, <3>1, Distinct, Zenon DEF AfterResponse
    <3>3. t = <<>>
      BY <1>3, <3>1
    <3>4. Owed'
      BY <3>2, <3>3 DEF Owed
    <3>5. Taken'
      BY <1>2, <2>1, <2>3, <3>2 DEF Taken
    <3>6. Course'
      BY <2>3, <3>2 DEF InStep, Course
    <3> QED  BY <3>4, <3>5, <3>6 DEF InStep
  <2>4. CASE job.cmd \in {CMD8, CMD58}
    <3>1. phase' = "extra"
      BY <2>1, <2>4, Distinct, Zenon DEF AfterResponse
    <3>2. Len(o) = 5 \/ o = <<0>>
      BY <2>1, <2>4, Distinct, Zenon DEF Replied
    <3>3. t = <<>> \/ Len(t) = 4
      <4>1. Len(o) = 5 \/ Len(o) = 1
        BY <3>2
      <4>2. Len(o) > 0 => Len(t) = Len(o) - 1
        BY ONLY <1>4
      <4>3. Len(t) = 0 => t = <<>>
        BY ONLY <1>4
      <4>4. CASE Len(o) = 5
        BY ONLY <4>2, <4>4
      <4>5. CASE Len(o) = 1
        BY ONLY <4>2, <4>3, <4>5
      <4> QED  BY <4>1, <4>4, <4>5, Zenon
    <3>4. Owed'
      BY <2>1, <3>1, <3>3 DEF Owed
    <3>5. Taken'
      BY <1>6, <2>4, <3>1, Distinct
    <3>6. Course'
      BY <2>4, <3>1 DEF InStep, Course
    <3> QED  BY <3>4, <3>5, <3>6 DEF InStep
  <2>5. CASE job.cmd \in {CMD0, CMD55, ACMD41}
    <3>1. phase' = "idle"
      BY <2>1, <2>5, Distinct, Zenon DEF AfterResponse
    <3>2. o = <<1>> \/ o = <<0>>
      BY <2>1, <2>5, Distinct, Zenon DEF Replied
    <3>3. t = <<>>
      <4>1. Len(o) = 1
        BY <3>2
      <4> QED  BY <1>4, <4>1
    <3>4. Owed'
      BY <3>1, <3>3 DEF Owed
    <3>5. Taken'
      BY <1>6, <2>5, <3>1, Distinct
    <3>6. Course'
      BY <3>1 DEF InStep, Course
    <3> QED  BY <3>4, <3>5, <3>6 DEF InStep
  <2> QED  BY <1>5, <2>2, <2>3, <2>4, <2>5, JobType DEF Commands
<1>8. CASE PollToken(b)
  <2>1. /\ phase = "token_in" /\ pos' = 0 /\ phase' = IF b = StartToken THEN "data_in" ELSE "idle"
        /\ Len(o) = SectorLen + 3 /\ o[1] = StartToken
    BY <1>8 DEF PollToken, Goto, InStep, Owed
  <2>2. o # <<>>
    BY <2>1, Lengths
  <2>3. phase' = "data_in" /\ Len(t) = SectorLen + 2
    BY <1>3, <1>4, <2>1, <2>2, Lengths
  <2>4. Owed'
    BY <2>1, <2>3, Lengths DEF Owed
  <2>5. Taken'
    BY <1>6, <2>1, <2>3
  <2>6. Course'
    BY <2>1, <2>3 DEF InStep, Course
  <2> QED  BY <2>4, <2>5, <2>6 DEF InStep
<1>9. CASE PollStatus(b)
  <2>1. phase = "status" /\ pos' = 0 /\ phase' = (IF b % 32 = 5 THEN "busy" ELSE "idle") /\ o = <<5, 1>>
    BY <1>9 DEF PollStatus, Goto, InStep, Owed
  <2>2. b = 5 /\ t = <<1>>
    BY <1>3, <2>1
  <2>3. phase' = "busy"
    BY <2>1, <2>2
  <2>4. Owed'
    BY <2>2, <2>3 DEF Owed
  <2>5. Taken'
    BY <1>6, <2>1, <2>3
  <2>6. Course'
    BY <2>1, <2>3 DEF InStep, Course
  <2> QED  BY <2>4, <2>5, <2>6 DEF InStep
<1>10. CASE PollBusy(b)
  <2>1. phase = "busy" /\ phase' = "idle" /\ o = <<1>>
    BY <1>10 DEF PollBusy, Goto, InStep, Owed
  <2>2. t = <<>>
    BY <1>3, <2>1
  <2>3. Owed'
    BY <2>1, <2>2 DEF Owed
  <2>4. Taken'
    BY <1>6, <2>1
  <2>5. Course'
    BY <2>1 DEF InStep, Course
  <2> QED  BY <2>3, <2>4, <2>5 DEF InStep
<1>11. CASE PollAgain(b)
  BY <1>11, AnsweredAtOnce
<1>12. CASE PollExtra
  <2>1. phase = "extra" /\ pos < 4 /\ (o = <<>> \/ Len(o) = 4 - pos)
    BY <1>12 DEF PollExtra, CardInv, DriverOK, Limit, InStep, Owed
  <2>2. t = <<>> \/ Len(t) = 4 - (pos + 1)
    BY <1>3, <1>4, <1>5, <2>1
  <2>3. CASE pos + 1 = 4
    <3>1. phase' = "idle" /\ t = <<>>
      <4>1. t = <<>> \/ Len(t) = 0
        BY <2>2, <2>3
      <4> QED  BY <1>4, <1>12, <2>3, <4>1 DEF PollExtra, Step, Goto
    <3>2. Owed' /\ Course'
      BY <3>1 DEF Owed, InStep, Course
    <3>3. Taken'
      BY <1>6, <2>1, <3>1
    <3> QED  BY <3>2, <3>3 DEF InStep
  <2>4. CASE pos + 1 # 4
    <3>1. phase' = "extra" /\ pos' = pos + 1
      BY <1>12, <2>1, <2>4 DEF PollExtra, Step
    <3>2. Owed' /\ Course'
      BY <2>1, <2>2, <3>1 DEF Owed, InStep, Course
    <3>3. Taken'
      BY <1>6, <2>1, <3>1
    <3> QED  BY <3>2, <3>3 DEF InStep
  <2> QED  BY <2>3, <2>4
<1>13. CASE PollData(b)
  <2>1. phase = "data_in" /\ pos < SectorLen /\ Len(o) = SectorLen + 2 - pos
    BY <1>13, Lengths DEF PollData, CardInv, DriverOK, Limit, InStep, Owed
  <2>2. Len(t) = SectorLen + 2 - (pos + 1)
    <3> HIDE DEF o, t
    <3> QED  BY <1>4, <1>5, <2>1, Lengths
  <2>3. CASE pos + 1 = SectorLen
    <3>1. phase' = "crc" /\ pos' = 0 /\ Len(t) = 2
      BY <1>13, <2>2, <2>3, Lengths DEF PollData, Step, Goto
    <3>2. Owed' /\ Course'
      BY <2>1, <3>1 DEF Owed, InStep, Course
    <3>3. Taken'
      BY <1>6, <2>1, <3>1
    <3> QED  BY <3>2, <3>3 DEF InStep
  <2>4. CASE pos + 1 # SectorLen
    <3>1. phase' = "data_in" /\ pos' = pos + 1
      BY <1>13, <2>1, <2>4 DEF PollData, Step
    <3>2. Owed' /\ Course'
      BY <2>1, <2>2, <3>1 DEF Owed, InStep, Course
    <3>3. Taken'
      BY <1>6, <2>1, <3>1
    <3> QED  BY <3>2, <3>3 DEF InStep
  <2> QED  BY <2>3, <2>4
<1>14. CASE PollCrc
  <2>1. phase = "crc" /\ pos < 2 /\ Len(o) = 2 - pos
    BY <1>14 DEF PollCrc, CardInv, DriverOK, Limit, InStep, Owed
  <2>2. Len(t) = 2 - (pos + 1)
    <3> HIDE DEF o, t
    <3> QED  BY <1>4, <1>5, <2>1
  <2>3. CASE pos + 1 = 2
    <3>1. phase' = "idle"
      BY <1>14, <2>3 DEF PollCrc, Step, Goto
    <3>2. t = <<>>
      BY <1>4, <1>5, <2>2, <2>3
    <3>3. Owed' /\ Course'
      BY <3>1, <3>2 DEF Owed, InStep, Course
    <3>4. Taken'
      BY <1>6, <2>1, <3>1
    <3> QED  BY <3>3, <3>4 DEF InStep
  <2>4. CASE pos + 1 # 2
    <3>1. phase' = "crc" /\ pos' = pos + 1
      BY <1>14, <2>1, <2>4 DEF PollCrc, Step
    <3>2. Owed' /\ Course'
      BY <2>1, <2>2, <3>1 DEF Owed, InStep, Course
    <3>3. Taken'
      BY <1>6, <2>1, <3>1
    <3> QED  BY <3>2, <3>3 DEF InStep
  <2> QED  BY <2>3, <2>4
<1> QED  BY <1>7, <1>8, <1>9, <1>10, <1>11, <1>12, <1>13, <1>14

LEMMA StepInvStep ==
  ASSUME PlainTargets
  PROVE  CardInv /\ StepInv /\ [Next]_vars => StepInv'
<1> SUFFICES ASSUME CardInv, StepInv, [Next]_vars, resets' = 0
             PROVE  InStep'
  BY Zenon DEF StepInv, InStep
<1>1. resets = 0 \/ SoftReset
  BY DEF Next, Transfer, InitCommand, ReadCall, WriteCall, SendFrame, SendToken, SendData, Poll, vars
<1>2. ~ SoftReset
  BY DEF SoftReset, CardInv, DriverOK
<1>3. InStep
  BY <1>1, <1>2, Zenon DEF StepInv, InStep
<1>4. CASE InitCommand
  <2>1. \A i \in 1 .. AddrBytes : Repeat(0, AddrBytes)[i] # Dummy
    BY DEF Repeat, Dummy
  <2> QED  BY <1>3, <1>4, <2>1, StartKeeps DEF InitCommand
<1>5. CASE ReadCall
  BY <1>3, <1>5, StartKeeps DEF ReadCall, PlainTargets
<1>6. CASE WriteCall
  BY <1>3, <1>6, StartKeeps DEF WriteCall, PlainTargets
<1>7. CASE SendFrame
  BY <1>3, <1>7, FrameKeeps
<1>8. CASE SendToken
  BY <1>3, <1>8, TokenKeeps
<1>9. CASE SendData
  BY <1>3, <1>9, DataKeeps
<1>10. CASE Poll
  BY <1>3, <1>10, PollKeeps DEF Poll
<1>11. CASE UNCHANGED vars
  BY <1>3, <1>11, Zenon DEF vars, InStep, Owed, Taken, Course
<1> QED  BY <1>2, <1>4, <1>5, <1>6, <1>7, <1>8, <1>9, <1>10, <1>11 DEF Next, Transfer

\* Until a soft reset cuts a command, the card splits the stream of bytes where
\* the driver does and ends every command with nothing left over, for every length
\* of addresses and sectors and whatever a sector holds, as long as no byte of
\* a sector number is 255.
THEOREM CardInStep ==
  ASSUME PlainTargets
  PROVE  Spec => []Synchronised
<1>1. Init => CardInv /\ StepInv
  BY CardInvInit, StepInvInit
<1>2. CardInv /\ StepInv /\ [Next]_vars => CardInv' /\ StepInv'
  BY CardInvStep, StepInvStep
<1> QED  BY <1>1, <1>2, StepInvImplies, PTL DEF Spec

(***************************************************************************)
(* The calls of the driver, on a block device                              *)
(***************************************************************************)
\* Of all that the card does, only the end of a write changes the image.
LEMMA ImageKept ==
  ASSUME NEW c \in SpiSdcard, NEW b, NEW r
  PROVE  /\ Answer(c, r).image = c.image /\ Push(c, b).image = c.image
         /\ send_byte(c).image = c.image /\ get_spi_status_register(c).image = c.image
         /\ [c EXCEPT !.spi_sr = TRUE].image = c.image
         /\ [c EXCEPT !.next_write_started = TRUE].image = c.image
BY DEF SpiSdcard, Answer, Push, send_byte, get_spi_status_register

\* The sector a frame names.
Addressed(f) == SubSeq(f, 2, AddrBytes + 1)

\* What a frame does to the image, and where its sector number goes.
LEMMA ExecutedCall ==
  ASSUME NEW c \in SpiSdcard, NEW n \in 0 .. SectorLen
  PROVE  LET d == Execute(c, n)
             f == c.in_buf
         IN  /\ d.image = c.image
             /\ f[1] = CMD17 => d = ReadSector(c, Addressed(f), n)
             /\ f[1] = CMD24 => d = WriteSector(c, Addressed(f))
<1> DEFINE d == Execute(c, n)
           f == c.in_buf
<1>1. CASE f[1] \in {CMD0, CMD55}
  <2>1. f[1] \notin {ACMD41, CMD58, CMD24, CMD8, CMD17}
    BY <1>1, Distinct
  <2>2. d = Answer(c, <<1>>)
    BY <1>1, <2>1, Zenon DEF Execute
  <2>3. d.image = c.image
    BY <2>2 DEF Answer, WriteSector, SpiSdcard
  <2> QED  BY <2>1, <2>2, <2>3
<1>2. CASE f[1] \in {ACMD41, CMD58}
  <2>1. f[1] \notin {CMD0, CMD55, CMD8, CMD17, CMD24}
    BY <1>2, Distinct
  <2>2. d = Answer(c, <<0>>)
    BY <1>2, <2>1, Zenon DEF Execute
  <2>3. d.image = c.image
    BY <2>2 DEF Answer, WriteSector, SpiSdcard
  <2> QED  BY <2>1, <2>2, <2>3
<1>3. CASE f[1] = CMD8
  <2>1. f[1] \notin {CMD0, CMD55, ACMD41, CMD58, CMD17, CMD24}
    BY <1>3, Distinct
  <2>2. d = Answer(c, <<1, 0, 0, 1, f[AddrBytes + 1]>>)
    BY <1>3, <2>1, Zenon DEF Execute
  <2>3. d.image = c.image
    BY <2>2 DEF Answer, WriteSector, SpiSdcard
  <2> QED  BY <2>1, <2>2, <2>3
<1>4. CASE f[1] = CMD17
  <2>1. f[1] \notin {CMD0, CMD55, ACMD41, CMD58, CMD8, CMD24}
    BY <1>4, Distinct
  <2>2. d = ReadSector(c, Addressed(f), n)
    BY <1>4, <2>1, Zenon DEF Execute, Addressed
  <2>3. d.image = c.image
    BY <2>2 DEF ReadSector, Answer, SpiSdcard
  <2> QED  BY <2>1, <2>2, <2>3
<1>5. CASE f[1] = CMD24
  <2>1. f[1] \notin {CMD0, CMD55, ACMD41, CMD58, CMD8, CMD17}
    BY <1>5, Distinct
  <2>2. d = WriteSector(c, Addressed(f))
    BY <1>5, <2>1, Zenon DEF Execute, Addressed
  <2>3. d.image = c.image
    BY <2>2 DEF Answer, WriteSector, SpiSdcard
  <2> QED  BY <2>1, <2>2, <2>3
<1>6. CASE f[1] \notin Commands
  <2>1. f[1] \notin {CMD0, CMD55, ACMD41, CMD58, CMD8, CMD17, CMD24}
    BY <1>6 DEF Commands
  <2>2. d = [c EXCEPT !.in_buf = <<>>]
    BY <2>1, Zenon DEF Execute
  <2> QED  BY <2>1, <2>2 DEF SpiSdcard
<1> QED  BY <1>1, <1>2, <1>3, <1>4, <1>5, <1>6, Zenon DEF Commands

\* The sector a frame reads stands behind two bytes of the answer.
LEMMA SectorRead ==
  ASSUME NEW c \in SpiSdcard, NEW a \in Address, NEW n \in 0 .. SectorLen, c.out_buf = <<>>
  PROVE  \A i \in 1 .. SectorLen :
           ReadSector(c, a, n).out_buf[i + 2] = Partly(c.image[a], Blank, n)[i]
<1> DEFINE t == Partly(c.image[a], Blank, n)
           r == <<0, StartToken>> \o t \o <<0, 0>>
<1>1. 0 \in Bytes /\ StartToken \in Bytes
  BY SomeBytes DEF StartToken
<1>2. t \in Sector
  BY BlankType, Fields, Torn
<1>3. ReadSector(c, a, n) = Answer(c, r)
  BY Zenon DEF ReadSector, Blank
<1> HIDE DEF t
<1>4. t \in Seq(Bytes) /\ Len(t) = SectorLen
  BY <1>2, Lengths DEF Sector
<1>5. r \in Seq(Bytes) /\ \A i \in 1 .. SectorLen : r[i + 2] = t[i]
  BY <1>1, <1>4, Lengths
<1> HIDE DEF r
<1>6. ReadSector(c, a, n).out_buf = r
  BY <1>3, <1>5, Answering, AfterNothing, Zenon
<1> QED  BY <1>5, <1>6 DEF t

\* The last byte of a frame serves a read, or tells the card where to write.
LEMMA SentCall ==
  ASSUME NEW c \in SpiSdcard, NEW b \in Bytes, NEW n \in 0 .. SectorLen, b # Dummy,
         ~ c.next_write_started, c.next_write_sector = <<>>, c.out_buf = <<>>,
         Len(c.in_buf) < FrameLen
  PROVE  LET d == Sent(c, b, n)
             i == Append(c.in_buf, b)
             a == Addressed(i)
         IN  /\ d.image = c.image
             /\ Len(i) = FrameLen /\ a \in Address =>
                  /\ i[1] = CMD17 => \A k \in 1 .. SectorLen :
                                       d.out_buf[k + 2] = Partly(c.image[a], Blank, n)[k]
                  /\ i[1] = CMD24 => d.next_write_sector = <<a>>
<1> DEFINE c1 == [c EXCEPT !.spi_sr = TRUE]
           p  == Push(c1, b)
           e  == Accept(c1, b, n)
           d  == get_spi_status_register(e)
           i  == Append(c.in_buf, b)
           a  == Addressed(i)
<1>1. c1 \in SpiSdcard /\ Alike(c1, c) /\ c1.image = c.image
  BY StatusSet, ImageKept
<1> HIDE DEF c1
<1>2. /\ p \in SpiSdcard /\ p.in_buf = i /\ Len(i) = Len(c.in_buf) + 1 /\ p.out_buf = <<>>
      /\ p.image = c.image
  BY <1>1, PushType, ImageKept, Zenon DEF Alike
<1> HIDE DEF p
<1>3. e = IF Len(c1.in_buf) + 1 >= FrameLen THEN Execute(p, n) ELSE p
  BY <1>1, AcceptFrame, Zenon DEF Alike, p
<1>4. Len(c1.in_buf) + 1 = Len(i) /\ Len(i) \in Nat
  BY <1>1, <1>2, Fields DEF Alike
<1>5. e \in SpiSdcard
  <2>1. Fits(c1)
    BY <1>1, Zenon DEF Fits, Alike
  <2> QED  BY <1>1, <2>1, AcceptFits, Zenon DEF Fits
<1> HIDE DEF e
<1>6. Alike(d, e) /\ d.image = e.image
  BY <1>5, StatusSet, ImageKept
<1> HIDE DEF d
<1>7. e.image = c.image
  BY <1>2, <1>3, ExecutedCall, Zenon
<1>8. ASSUME Len(i) = FrameLen, a \in Address
      PROVE  /\ i[1] = CMD17 => \A k \in 1 .. SectorLen :
                                  d.out_buf[k + 2] = Partly(c.image[a], Blank, n)[k]
             /\ i[1] = CMD24 => d.next_write_sector = <<a>>
  <2>1. e = Execute(p, n)
    BY <1>3, <1>4, <1>8, Lengths
  <2>2. CASE i[1] = CMD17
    <3>1. e = ReadSector(p, a, n)
      BY <1>2, <2>1, <2>2, ExecutedCall, Zenon
    <3>2. \A k \in 1 .. SectorLen : e.out_buf[k + 2] = Partly(c.image[a], Blank, n)[k]
      BY <1>2, <1>8, <3>1, SectorRead
    <3> QED  BY <1>6, <2>2, <3>2, Distinct, Zenon DEF Alike
  <2>3. CASE i[1] = CMD24
    <3>1. e = WriteSector(p, a)
      BY <1>2, <2>1, <2>3, ExecutedCall, Zenon
    <3>2. e.next_write_sector = <<a>>
      BY <1>2, <3>1 DEF WriteSector, Answer, SpiSdcard
    <3> QED  BY <1>6, <2>3, <3>2, Distinct, Zenon DEF Alike
  <2> QED  BY <2>2, <2>3
<1> QED  BY <1>6, <1>7, <1>8, Zenon DEF Sent, recv_byte, d, e, c1

LEMMA TokenKeepsImage ==
  ASSUME NEW c \in SpiSdcard, NEW n \in 0 .. SectorLen,
         ~ c.next_write_started, c.next_write_sector # <<>>
  PROVE  Sent(c, StartToken, n).image = c.image
<1> DEFINE c1 == [c EXCEPT !.spi_sr = TRUE]
           e  == Accept(c1, StartToken, n)
<1>1. c1 \in SpiSdcard /\ Alike(c1, c) /\ c1.image = c.image
  BY StatusSet, ImageKept
<1> HIDE DEF c1
<1>2. e = [c1 EXCEPT !.next_write_started = TRUE]
  BY <1>1, AcceptToken, Zenon DEF Alike
<1>3. e \in SpiSdcard /\ e.image = c.image
  BY <1>1, <1>2, Begun, ImageKept
<1> HIDE DEF e
<1> QED  BY <1>3, ImageKept DEF Sent, recv_byte, e, c1

LEMMA DummyKeepsImage ==
  ASSUME NEW c \in SpiSdcard, NEW n \in 0 .. SectorLen, ~ c.next_write_started
  PROVE  Sent(c, Dummy, n).image = c.image
<1> DEFINE c1 == [c EXCEPT !.spi_sr = TRUE]
<1>1. c1 \in SpiSdcard /\ Alike(c1, c) /\ c1.image = c.image
  BY StatusSet, ImageKept
<1> HIDE DEF c1
<1>2. Accept(c1, Dummy, n) = c1
  BY <1>1, AcceptIgnores, Zenon DEF Alike
<1> QED  BY <1>1, <1>2, ImageKept DEF Sent, recv_byte, c1

\* The bytes of a sector are gathered, and the last one puts it in the image.
LEMMA SentSector ==
  ASSUME NEW c \in SpiSdcard, NEW b \in Bytes, NEW n \in 0 .. SectorLen, NEW a \in Address,
         c.next_write_started, c.next_write_sector = <<a>>, c.out_buf = <<>>
  PROVE  LET d == Sent(c, b, n)
             i == Append(c.in_buf, b)
         IN  /\ Len(i) # SectorLen => /\ d.image = c.image /\ d.in_buf = i
                                      /\ d.next_write_sector = <<a>>
             /\ Len(i) = SectorLen => d.image = [c.image EXCEPT ![a] = Partly(i, @, n)]
<1> DEFINE c1 == [c EXCEPT !.spi_sr = TRUE]
           p  == Push(c1, b)
           e  == Accept(c1, b, n)
           d  == get_spi_status_register(e)
           i  == Append(c.in_buf, b)
<1>1. c1 \in SpiSdcard /\ Alike(c1, c) /\ c1.image = c.image /\ <<a>> # <<>>
  BY StatusSet, ImageKept
<1> HIDE DEF c1
<1>2. /\ p \in SpiSdcard /\ p.in_buf = i /\ Len(i) = Len(c.in_buf) + 1 /\ p.image = c.image
      /\ p.next_write_sector = <<a>>
  BY <1>1, PushType, ImageKept, Zenon DEF Alike
<1> HIDE DEF p
<1>3. e = IF Len(i) = SectorLen THEN Commit(p, n) ELSE p
  BY <1>1, <1>2, AcceptData, Zenon DEF Alike, p
<1> HIDE DEF e
<1>4. e \in SpiSdcard => Alike(d, e) /\ d.image = e.image
  BY StatusSet, ImageKept
<1> HIDE DEF d
<1>5. CASE Len(i) # SectorLen
  <2>1. d.image = c.image /\ d.in_buf = i /\ d.next_write_sector = <<a>>
    BY <1>2, <1>3, <1>4, <1>5, Zenon DEF Alike
  <2> QED  BY <1>5, <2>1, Zenon DEF Sent, recv_byte, d, e, c1
<1>6. CASE Len(i) = SectorLen
  <2>1. e = Commit(p, n)
    BY <1>3, <1>6
  <2>2. e \in SpiSdcard /\ e.image = [c.image EXCEPT ![a] = Partly(i, @, n)]
    <3>1. p \in SpiSdcard /\ p.next_write_sector = <<a>> /\ Len(p.in_buf) = SectorLen
      BY <1>2, <1>6, Zenon
    <3>2. /\ Commit(p, n) \in SpiSdcard
          /\ Commit(p, n).image = [p.image EXCEPT ![a] = Partly(p.in_buf, @, n)]
      BY <3>1, CommittingAt
    <3>3. p.in_buf = i /\ p.image = c.image
      BY <1>2
    <3> HIDE DEF i
    <3>4. Commit(p, n).image = [c.image EXCEPT ![a] = Partly(i, @, n)]
      BY <3>2, <3>3
    <3> QED  BY <2>1, <3>2, <3>4, Zenon
  <2>3. d.image = [c.image EXCEPT ![a] = Partly(i, @, n)]
    BY <1>4, <2>2, Zenon
  <2> QED  BY <1>6, <2>3, Zenon DEF Sent, recv_byte, d, e, c1
<1> QED  BY <1>5, <1>6

\* What a read in progress is to return.
Read == Partly(card.image[job.at], Blank, moved)

\* Where the sector being moved is, byte by byte: with the driver, with the card,
\* or on its way from one to the other.
Carried ==
  LET o == card.out_buf
  IN  /\ phase = "frame"    => \A i \in 1 .. pos : card.in_buf[i] = Frame(job)[i]
      /\ phase = "data_out" => \A i \in 1 .. pos : card.in_buf[i] = job.data[i]
      /\ card.next_write_sector \in {<<>>, <<job.at>>}
      /\ phase \notin {"idle", "data_in", "crc"} => got = <<>>
      /\ phase = "response" /\ job.cmd = CMD17 => \A i \in 1 .. SectorLen : o[i + 2] = Read[i]
      /\ phase = "token_in" => \A i \in 1 .. SectorLen : o[i + 1] = Read[i]
      /\ phase = "data_in"  => /\ Len(got) = pos
                               /\ \A i \in 1 .. pos : got[i] = Read[i]
                               /\ \A i \in pos + 1 .. SectorLen : o[i - pos] = Read[i]
      /\ phase = "crc"      => got = Read
      /\ Booting /\ phase # "idle" => job.cmd \notin {CMD17, CMD24}

\* The inductive invariant behind the refinement.
CallInv == CardInv /\ StepInv /\ (resets = 0 => Carried)

\* Steps of the driver, and what they are to the block device.
Unseen == UNCHANGED <<Device!vars, resets>>
Seen   == Device!Next /\ UNCHANGED resets

\* A step that the device does not see.
LEMMA Hidden ==
  ASSUME card'.image = card.image, last' = last, resets' = resets,
         Busy' = Busy, Served' = Served, Busy => job' = job, Served => moved' = moved
  PROVE  Unseen
<1>1. Call(job)' = Call(job')
  BY DEF Call
<1>2. (IF Busy THEN Call(job) ELSE NoCall)' = IF Busy THEN Call(job) ELSE NoCall
  BY <1>1, Zenon
<1>3. (IF Served THEN moved ELSE 0)' = IF Served THEN moved ELSE 0
  BY Zenon
<1> QED  BY <1>2, <1>3 DEF Unseen, Device!vars

\* Its answer to a call that reads a sector, or that writes one.
LEMMA ServeRead ==
  ASSUME card'.image = card.image, last' = last, resets' = resets, job' = job,
         Busy, Busy', ~ Served, Served', job.cmd = CMD17, moved' \in 0 .. SectorLen
  PROVE  Seen
<1>1. Call(job) = [op |-> "read", at |-> job.at] /\ Call(job)' = Call(job)
  BY DEF Call
<1>2. Call(job) # [op |-> "none"] /\ Call(job).op # "write"
  BY <1>1
<1>3. Device!Serve(moved')
  BY <1>1, <1>2 DEF Device!Serve, Device!NoCall
<1> QED  BY <1>3 DEF Seen, Device!Next

\* A call begins; what initialises the card is no call.
LEMMA StartSeen ==
  ASSUME CardInv, InStep, phase = "idle", NEW j \in Job, Start(j),
         UNCHANGED <<card, boot, last, moved, resets>>,
         Booting <=> j.cmd \notin {CMD17, CMD24}
  PROVE  Carried' /\ (Unseen \/ Seen)
<1>1. phase' = "frame" /\ pos' = 0 /\ job' = j /\ got' = <<>>
  BY DEF Start, Goto
<1>2. UNCHANGED <<card, last, moved, resets>> /\ Booting' = Booting /\ card.next_write_sector = <<>>
  BY DEF Booting, InStep, Taken
<1>3. Carried'
  BY <1>1, <1>2 DEF Carried
<1>4. ~ Busy /\ ~ Served /\ ~ Served'
  BY <1>1 DEF Busy, Served
<1>5. CASE Booting
  <2>1. ~ Busy'
    BY <1>2, <1>5 DEF Busy
  <2>2. Busy' = Busy /\ Served' = Served
    BY <1>4, <2>1 DEF Busy, Served
  <2> QED  BY <1>2, <1>3, <1>4, <2>2, Hidden
<1>6. CASE ~ Booting
  <2>1. j.cmd \in {CMD17, CMD24} /\ Busy'
    BY <1>1, <1>2, <1>6 DEF Busy
  <2>2. Call(job)' \in Device!Call
    BY <1>1, JobType DEF Call, Device!Call
  <2>3. Device!Invoke
    <3>1. (IF Busy THEN Call(job) ELSE NoCall) = NoCall
      BY <1>4, Zenon
    <3>2. (IF Busy THEN Call(job) ELSE NoCall)' \in Device!Call
      BY <2>1, <2>2, Zenon
    <3>3. Served' = Served /\ (IF Served THEN moved ELSE 0)' = IF Served THEN moved ELSE 0
      BY <1>4 DEF Served
    <3> QED  BY <1>2, <3>1, <3>2, <3>3 DEF Device!Invoke, Device!NoCall, NoCall
  <2> QED  BY <1>2, <1>3, <2>3 DEF Seen, Device!Next
<1> QED  BY <1>5, <1>6

LEMMA AddressedFrame ==
  ASSUME NEW j \in Job, NEW i \in Seq(Bytes), Len(i) = FrameLen,
         \A k \in 1 .. FrameLen : i[k] = Frame(j)[k]
  PROVE  Addressed(i) = j.at /\ j.at \in Address
<1>1. j.cmd \in Bytes /\ j.at \in Address /\ 1 \in Bytes
  BY JobType, SpiSdcardAssumption
<1> DEFINE a == j.at
<1>2. a \in Seq(Bytes) /\ Len(a) = AddrBytes
  BY <1>1, Lengths DEF Address
<1> HIDE DEF a
<1>3. Frame(j) = (<<j.cmd>> \o a) \o <<1>>
  BY DEF Frame, a
<1>4. \A k \in 1 .. AddrBytes : Frame(j)[k + 1] = a[k]
  BY <1>1, <1>2, <1>3, Lengths
<1>5. /\ Addressed(i) = [k \in 1 .. AddrBytes |-> i[k + 1]]
  BY Lengths DEF Addressed
<1>6. \A k \in 1 .. AddrBytes : i[k + 1] = a[k]
  BY <1>4, Lengths
<1>7. Addressed(i) = a
  BY <1>1, <1>5, <1>6 DEF Address, a
<1> QED  BY <1>1, <1>7 DEF a

LEMMA FrameSeen ==
  ASSUME CardInv, InStep, InStep', Carried, SendFrame
  PROVE  Carried' /\ (Unseen \/ Seen)
<1> DEFINE b == Frame(job)[pos + 1]
           i == Append(card.in_buf, b)
<1>1. PICK n \in IoOutcomes : /\ Out(b, n)
                            /\ moved' = IF pos + 1 = FrameLen /\ job.cmd = CMD17 THEN n ELSE 0
  BY DEF SendFrame
<1>2. /\ phase = "frame" /\ job \in Job /\ pos \in Nat /\ pos + 1 <= FrameLen
      /\ card \in SpiSdcard /\ n \in 0 .. SectorLen
  BY Lengths, DriverAssumption DEF SendFrame, CardInv, DriverOK, Fits, Limit
<1>3. /\ Len(card.in_buf) = pos /\ ~ card.next_write_started /\ card.next_write_sector = <<>>
      /\ card.out_buf = <<>> /\ card.in_buf \in Seq(Bytes)
  BY <1>2, Fields DEF InStep, Taken, Owed
<1>4. b \in Bytes /\ b # Dummy
  <2>1. b \in {job.cmd, 1} \union {job.at[k] : k \in 1 .. AddrBytes} /\ b \in Bytes
    BY <1>2, FrameBytes, Lengths
  <2>2. job.cmd # Dummy /\ 1 # Dummy
    BY <1>2, JobType DEF Commands, CMD0, CMD8, CMD55, ACMD41, CMD58, CMD17, CMD24, Dummy
  <2> QED  BY <2>1, <2>2 DEF InStep, Course
<1>5. i \in Seq(Bytes) /\ Len(i) = pos + 1 /\ \A k \in 1 .. pos + 1 : i[k] = Frame(job)[k]
  <2>1. \A k \in 1 .. pos : card.in_buf[k] = Frame(job)[k]
    BY <1>2 DEF Carried
  <2> HIDE DEF Carried
  <2>2. i[pos + 1] = b /\ \A k \in 1 .. pos : i[k] = card.in_buf[k]
    BY <1>2, <1>3, <1>4
  <2>3. i \in Seq(Bytes) /\ Len(i) = pos + 1
    BY <1>3, <1>4
  <2> QED  BY <1>2, <2>1, <2>2, <2>3
<1>6. i[1] = job.cmd
  BY <1>2, <1>5, FrameBytes
<1>7. card' = Sent(card, b, n)
  BY <1>1 DEF Out, Sent
<1> HIDE DEF b, i
<1>8. Len(card.in_buf) < FrameLen
  BY <1>2, <1>3, Lengths
<1>9. /\ Len(i) < FrameLen => card'.in_buf = i /\ card'.next_write_sector = <<>>
      /\ Len(i) = FrameLen => card'.next_write_sector # <<>> <=> i[1] = CMD24
  BY <1>2, <1>3, <1>4, <1>7, <1>8, SentFrame DEF i
<1>10. /\ card'.image = card.image
       /\ Len(i) = FrameLen /\ Addressed(i) \in Address =>
            /\ i[1] = CMD17 => \A k \in 1 .. SectorLen :
                 card'.out_buf[k + 2] = Partly(card.image[Addressed(i)], Blank, n)[k]
            /\ i[1] = CMD24 => card'.next_write_sector = <<Addressed(i)>>
  BY <1>2, <1>3, <1>4, <1>7, <1>8, SentCall DEF i
<1>11. /\ job' = job /\ got' = got /\ last' = last /\ resets' = resets /\ Booting' = Booting
       /\ got = <<>>
  BY <1>2 DEF SendFrame, Booting, Carried
<1>12. CASE pos + 1 = FrameLen
  <2>1. phase' = "response" /\ pos' = 0 /\ (job.cmd = CMD17 => moved' = n)
    BY <1>1, <1>2, <1>12 DEF SendFrame, Step, Goto
  <2>2. Len(i) = FrameLen /\ Addressed(i) = job.at /\ Addressed(i) \in Address
    BY <1>2, <1>5, <1>12, AddressedFrame
  <2>3. card'.next_write_sector \in {<<>>, <<job'.at>>}
    BY <1>9, <1>10, <1>11, <2>2, Zenon
  <2>4. job.cmd = CMD17 => \A k \in 1 .. SectorLen : card'.out_buf[k + 2] = Read'[k]
    <3>1. ASSUME job.cmd = CMD17 PROVE Read' = Partly(card.image[Addressed(i)], Blank, n)
      BY <1>2, <1>10, <1>11, <2>1, <2>2, <3>1 DEF Read, Blank
    <3> QED  BY <1>6, <1>10, <2>2, <3>1, Zenon
  <2>5. Carried'
    <3>1. Booting => job.cmd \notin {CMD17, CMD24}
      BY <1>2 DEF Carried
    <3> QED  BY <1>11, <2>1, <2>3, <2>4, <3>1 DEF Carried
  <2>6. CASE Busy /\ job.cmd = CMD17
    <3>1. Busy' /\ ~ Served /\ Served' /\ moved' \in 0 .. SectorLen
      BY <1>2, <1>11, <2>1, <2>6, Distinct DEF Busy, Served
    <3> QED  BY <1>10, <1>11, <2>5, <2>6, <3>1, ServeRead
  <2>7. CASE ~ (Busy /\ job.cmd = CMD17)
    <3>1. Busy' = Busy /\ ~ Served /\ ~ Served'
      BY <1>2, <1>11, <2>1, <2>7 DEF Busy, Served
    <3>2. Served' = Served
      BY <3>1 DEF Served
    <3> QED  BY <1>10, <1>11, <2>5, <3>1, <3>2, Hidden
  <2> QED  BY <2>6, <2>7
<1>13. CASE pos + 1 # FrameLen
  <2>1. phase' = "frame" /\ pos' = pos + 1
    BY <1>2, <1>13 DEF SendFrame, Step
  <2>2. card'.in_buf = i /\ card'.next_write_sector = <<>>
    BY <1>2, <1>5, <1>9, <1>13, Lengths
  <2>3. Carried'
    <3>1. Booting => job.cmd \notin {CMD17, CMD24}
      BY <1>2 DEF Carried
    <3>2. \A k \in 1 .. pos' : card'.in_buf[k] = Frame(job)'[k]
      BY <1>5, <1>11, <2>1, <2>2 DEF Frame
    <3> QED  BY <1>11, <2>1, <2>2, <3>1, <3>2 DEF Carried
  <2>4. Busy' = Busy /\ ~ Served /\ ~ Served'
    BY <1>2, <1>11, <2>1 DEF Busy, Served
  <2>5. Served' = Served
    BY <2>4 DEF Served
  <2> QED  BY <1>10, <1>11, <2>3, <2>4, <2>5, Hidden
<1> QED  BY <1>12, <1>13

LEMMA TokenSeen ==
  ASSUME CardInv, InStep, Carried, SendToken
  PROVE  Carried' /\ (Unseen \/ Seen)
<1>1. PICK n \in IoOutcomes : Out(StartToken, n)
  BY DEF SendToken
<1>2. phase = "token_out" /\ card \in SpiSdcard /\ n \in 0 .. SectorLen
  BY DriverAssumption DEF SendToken, CardInv, Fits
<1>3. ~ card.next_write_started /\ card.next_write_sector # <<>> /\ job.cmd = CMD24
  BY <1>2 DEF InStep, Taken, Course
<1>4. card' = Sent(card, StartToken, n)
  BY <1>1 DEF Out, Sent
<1>5. card'.next_write_sector = card.next_write_sector /\ card'.image = card.image
  BY <1>2, <1>3, <1>4, SentToken, TokenKeepsImage
<1>6. /\ phase' = "data_out" /\ pos' = 0 /\ job' = job /\ got' = got /\ last' = last
      /\ resets' = resets /\ Booting' = Booting
  BY DEF SendToken, Goto, Booting
<1>7. Carried'
  <2>1. /\ card.next_write_sector \in {<<>>, <<job.at>>} /\ got = <<>>
        /\ Booting => job.cmd \notin {CMD17, CMD24}
    BY <1>2 DEF Carried
  <2> QED  BY <1>5, <1>6, <2>1 DEF Carried
<1>8. Busy' = Busy /\ ~ Served /\ ~ Served'
  BY <1>2, <1>3, <1>6, Distinct DEF Busy, Served
<1>9. Served' = Served
  BY <1>8 DEF Served
<1> QED  BY <1>5, <1>6, <1>7, <1>8, <1>9, Hidden

LEMMA DataSeen ==
  ASSUME CardInv, InStep, InStep', Carried, SendData
  PROVE  Carried' /\ (Unseen \/ Seen)
<1> DEFINE b == job.data[pos + 1]
           i == Append(card.in_buf, b)
<1>1. PICK n \in IoOutcomes : Out(b, n) /\ moved' = IF pos + 1 = SectorLen THEN n ELSE 0
  BY DEF SendData
<1>2. /\ phase = "data_out" /\ card \in SpiSdcard /\ n \in 0 .. SectorLen
      /\ pos \in Nat /\ pos + 1 <= SectorLen /\ job \in Job
  BY DriverAssumption, Lengths DEF SendData, CardInv, DriverOK, Fits, Limit
<1>3. /\ Len(card.in_buf) = pos /\ card.next_write_started /\ card.next_write_sector # <<>>
      /\ card.out_buf = <<>> /\ card.in_buf \in Seq(Bytes) /\ job.cmd = CMD24
  BY <1>2, Fields DEF InStep, Taken, Owed, Course
<1>4. /\ card.next_write_sector = <<job.at>> /\ got = <<>> /\ ~ Booting
      /\ \A k \in 1 .. pos : card.in_buf[k] = job.data[k]
  BY <1>2, <1>3 DEF Carried
<1>5. job.data \in Sector /\ job.at \in Address /\ b \in Bytes
  BY <1>2, JobType, Lengths DEF Sector
<1>6. i \in Seq(Bytes) /\ Len(i) = pos + 1 /\ \A k \in 1 .. pos + 1 : i[k] = job.data[k]
  <2>1. i[pos + 1] = b /\ \A k \in 1 .. pos : i[k] = card.in_buf[k]
    BY <1>2, <1>3, <1>5
  <2>2. i \in Seq(Bytes) /\ Len(i) = pos + 1
    BY <1>3, <1>5
  <2> QED  BY <1>2, <1>4, <2>1, <2>2
<1>7. card' = Sent(card, b, n)
  BY <1>1 DEF Out, Sent
<1> HIDE DEF b, i
<1>8. /\ Len(i) # SectorLen => /\ card'.image = card.image /\ card'.in_buf = i
                               /\ card'.next_write_sector = <<job.at>>
      /\ Len(i) = SectorLen =>
           card'.image = [card.image EXCEPT ![job.at] = Partly(i, @, n)]
  BY <1>2, <1>3, <1>4, <1>5, <1>7, SentSector DEF i
<1>9. /\ job' = job /\ got' = got /\ last' = last /\ resets' = resets /\ Booting' = Booting
  BY DEF SendData, Booting
<1>10. Busy /\ ~ Served
  BY <1>2, <1>3, <1>4, Distinct DEF Busy, Served
<1>11. CASE pos + 1 = SectorLen
  <2>1. phase' = "status" /\ pos' = 0 /\ moved' = n
    BY <1>1, <1>2, <1>11 DEF SendData, Step, Goto
  <2>2. i = job.data
    BY <1>5, <1>6, <1>11 DEF Sector
  <2>3. card'.next_write_sector = <<>>
    BY <2>1 DEF InStep, Taken
  <2>4. Carried'
    BY <1>4, <1>9, <2>1, <2>3 DEF Carried
  <2>5. Busy' /\ Served'
    BY <1>3, <1>4, <1>9, <2>1 DEF Busy, Served
  <2>6. /\ Call(job) = [op |-> "write", at |-> job.at, data |-> job.data]
        /\ Call(job)' = Call(job)
    BY <1>3, <1>9, Distinct DEF Call
  <2>7. /\ Call(job) # [op |-> "none"] /\ Call(job).op = "write" /\ Call(job).at = job.at
        /\ Call(job).data = job.data
    BY <2>6
  <2>8. card'.image = [card.image EXCEPT ![Call(job).at] = Device!Over(Call(job).data, @, n)]
    BY <1>6, <1>8, <1>11, <2>2, <2>7 DEF Device!Over, Partly
  <2>9. Device!Serve(n)
    BY <1>9, <1>10, <2>1, <2>5, <2>6, <2>7, <2>8 DEF Device!Serve, Device!NoCall
  <2> QED  BY <1>2, <1>9, <2>4, <2>9 DEF Seen, Device!Next
<1>12. CASE pos + 1 # SectorLen
  <2>1. phase' = "data_out" /\ pos' = pos + 1
    BY <1>2, <1>12 DEF SendData, Step
  <2>2. card'.in_buf = i /\ card'.next_write_sector = <<job.at>> /\ card'.image = card.image
    BY <1>6, <1>8, <1>12
  <2>3. Carried'
    BY <1>4, <1>6, <1>9, <2>1, <2>2 DEF Carried
  <2>4. Busy' /\ ~ Served'
    BY <1>3, <1>4, <1>9, <2>1, Distinct DEF Busy, Served
  <2>5. Busy' = Busy /\ Served' = Served
    BY <1>10, <2>4 DEF Busy, Served
  <2> QED  BY <1>9, <1>10, <2>2, <2>3, <2>5, Hidden
<1> QED  BY <1>11, <1>12

LEMMA PollKeepsImage ==
  ASSUME CardInv, InStep, phase # "data_out", NEW b, In(b)
  PROVE  card'.image = card.image
<1>1. PICK n \in IoOutcomes : card' = send_byte(Polled(n))
  BY DEF In
<1>2. n \in 0 .. SectorLen /\ card \in SpiSdcard /\ ~ card.next_write_started
  BY DriverAssumption DEF CardInv, Fits, InStep, Taken
<1>3. Polled(n) \in SpiSdcard /\ Polled(n).image = card.image
  BY <1>2, SentDummy, DummyKeepsImage DEF Sent, Polled
<1> HIDE DEF Polled
<1> QED  BY <1>1, <1>3, ImageKept

\* A poll takes a byte, and the call returns with the last one of it.
LEMMA ReturnSeen ==
  ASSUME card'.image = card.image, resets' = resets, Busy, Served, ~ Busy',
         NEW v, v = (IF job.cmd = CMD17 THEN Read ELSE job.data), Return(v),
         job.cmd \in {CMD17, CMD24}
  PROVE  Seen
<1>1. ~ Served'
  BY DEF Served
<1> DEFINE c == IF Busy THEN Call(job) ELSE NoCall
<1>2. c = Call(job)
  BY Zenon
<1>3. c' = NoCall
  BY Zenon
<1>4. (IF Served THEN moved ELSE 0)' = 0 /\ Served' = FALSE
  BY <1>1, Zenon DEF Served
<1>5. Device!Contents = v
  <2>1. CASE job.cmd = CMD17
    <3>1. Call(job) = [op |-> "read", at |-> job.at]
      BY <2>1 DEF Call
    <3>2. c.op # "write" /\ c.at = job.at
      BY <1>2, <3>1
    <3> QED  BY <2>1, <3>2 DEF Device!Contents, Device!Over, Partly, Read
  <2>2. CASE job.cmd = CMD24
    <3>1. Call(job) = [op |-> "write", at |-> job.at, data |-> job.data]
      BY <2>2, Distinct DEF Call
    <3>2. c.op = "write" /\ c.data = job.data
      BY <1>2, <3>1
    <3> QED  BY <2>2, <3>2, Distinct DEF Device!Contents
  <2> QED  BY <2>1, <2>2
<1>6. Device!Return
  BY <1>2, <1>3, <1>4, <1>5 DEF Device!Return, Device!NoCall, NoCall, Return
<1> QED  BY <1>6 DEF Seen, Device!Next

LEMMA ReadType ==
  ASSUME CardInv
  PROVE  Read \in Sector
BY BlankType, JobType, Fields, Torn DEF Read, CardInv, DriverOK, Fits

LEMMA PollSeen ==
  ASSUME CardInv, InStep, Carried, NEW b, In(b), UNCHANGED <<job, moved, resets>>,
         \/ PollResponse(b) \/ PollToken(b) \/ PollStatus(b) \/ PollBusy(b)
         \/ PollAgain(b) \/ PollExtra \/ PollData(b) \/ PollCrc
  PROVE  Carried' /\ (Unseen \/ Seen)
<1> DEFINE o == card.out_buf
           t == card'.out_buf
<1>1. phase \notin {"data_out", "frame", "token_out", "idle"}
  BY DEF PollResponse, PollToken, PollStatus, PollBusy, PollAgain, PollExtra, PollData, PollCrc
<1>2. card'.image = card.image /\ card'.next_write_sector = card.next_write_sector
  BY <1>1, PollKeepsImage, Reading
<1>3. o # <<>> => b = o[1] /\ \A i \in 1 .. Len(o) - 1 : t[i] = o[i + 1]
  <2>1. o \in Seq(Bytes) /\ (o # <<>> => b = o[1] /\ t = Tail(o))
    BY <1>1, Reading
  <2> HIDE DEF o, t
  <2> QED  BY <2>1, HeadTailProperties
<1>4. pos \in Nat /\ job \in Job /\ boot \in Nat /\ Read' = Read /\ Read \in Sector
  BY <1>2, ReadType, Limits DEF CardInv, DriverOK, Read, Blank
<1>5. Booting' => Booting
  BY <1>4, InitSequenceType
     DEF Booting, PollResponse, PollToken, PollStatus, PollBusy, PollAgain, driver, PollExtra, PollData, PollCrc
<1>6. job.cmd \in {CMD17, CMD24} => ~ Booting
  BY <1>1 DEF Carried
<1>7. /\ card'.next_write_sector \in {<<>>, <<job'.at>>}
      /\ Booting' /\ phase' # "idle" => job'.cmd \notin {CMD17, CMD24}
  BY <1>2, <1>5, <1>6, Zenon DEF Carried
<1>8. phase \notin {"idle", "data_in", "crc"} => got = <<>>
  BY Zenon DEF Carried
<1> HIDE DEF o, t
\* The driver goes on with the same call, or with none.
<1>9. ASSUME job.cmd \in {CMD17, CMD24}, phase' # "idle", last' = last,
             Served <=> Served'
      PROVE  Unseen
  <2>1. ~ Booting /\ ~ Booting'
    BY <1>5, <1>6, <1>9
  <2>2. Busy' = Busy
    BY <1>1, <1>9, <2>1 DEF Busy
  <2>3. Served' = Served
    BY <1>9 DEF Served
  <2> QED  BY <1>2, <1>9, <2>2, <2>3, Hidden
<1>10. ASSUME job.cmd \notin {CMD17, CMD24}, last' = last
       PROVE  Unseen
  <2>1. Busy' = Busy /\ Served' = Served
    BY <1>10 DEF Busy, Served
  <2> QED  BY <1>2, <1>10, <2>1, Hidden
<1>11. CASE PollResponse(b)
  <2>1. /\ phase = "response" /\ phase' = AfterResponse(b) /\ pos' = 0 /\ got' = <<>> /\ last' = last
        /\ Replied(job.cmd, o)
    BY <1>8, <1>11 DEF PollResponse, Goto, InStep, Owed, o
  <2>2. CASE job.cmd = CMD17
    <3>1. phase' = "token_in"
      BY <2>1, <2>2, Distinct, Zenon DEF AfterResponse
    <3>2. Len(o) = SectorLen + 4 /\ \A i \in 1 .. SectorLen : o[i + 2] = Read[i]
      BY <2>1, <2>2, Distinct DEF Replied, Carried, o
    <3>3. \A i \in 1 .. SectorLen : t[i + 1] = Read[i]
      <4>1. o # <<>>
        BY <3>2, Lengths
      <4> QED  BY <1>3, <3>2, <4>1, Lengths
    <3>4. Carried'
      BY <1>4, <1>7, <2>1, <3>1, <3>3 DEF Carried, t
    <3>5. Busy /\ Busy' /\ Served /\ Served'
      BY <1>5, <1>6, <2>1, <2>2, <3>1 DEF Busy, Served
    <3> QED  BY <1>9, <2>1, <2>2, <3>1, <3>4, <3>5
  <2>3. CASE job.cmd = CMD24
    <3>1. o = <<0>> /\ b = 0
      <4>1. o = <<0>>
        BY <2>1, <2>3, Zenon DEF Replied
      <4> QED  BY <1>3, <4>1
    <3>2. phase' = "token_out"
      BY <2>1, <2>3, <3>1, Distinct, Zenon DEF AfterResponse
    <3>3. Carried'
      BY <1>7, <2>1, <3>2 DEF Carried
    <3>4. ~ Served /\ ~ Served'
      BY <2>1, <2>3, <3>2, Distinct DEF Served
    <3> QED  BY <1>9, <2>1, <2>3, <3>2, <3>3, <3>4
  <2>4. CASE job.cmd \notin {CMD17, CMD24}
    <3>1. phase' \in {"extra", "idle"}
      BY <2>1, <2>4, Zenon DEF AfterResponse
    <3>2. Carried'
      BY <1>7, <2>1, <3>1 DEF Carried
    <3> QED  BY <1>10, <2>1, <2>4, <3>2
  <2> QED  BY <2>2, <2>3, <2>4
<1>12. CASE PollToken(b)
  <2>1. /\ phase = "token_in" /\ pos' = 0 /\ phase' = (IF b = StartToken THEN "data_in" ELSE "idle")
        /\ got' = <<>> /\ last' = last /\ Len(o) = SectorLen + 3 /\ o[1] = StartToken
        /\ job.cmd = CMD17 /\ \A i \in 1 .. SectorLen : o[i + 1] = Read[i]
    BY <1>8, <1>12 DEF PollToken, Goto, InStep, Owed, Course, Carried, o
  <2>2. o # <<>>
    BY <2>1, Lengths
  <2>3. phase' = "data_in" /\ \A i \in 1 .. SectorLen : t[i] = Read[i]
    BY <1>3, <2>1, <2>2, Lengths
  <2>4. \A i \in pos' + 1 .. SectorLen : t[i - pos'] = Read[i]
    BY <2>1, <2>3, Lengths
  <2>5. Len(got') = pos' /\ \A i \in 1 .. pos' : got'[i] = Read[i]
    BY <2>1
  <2>6. Carried'
    BY <1>4, <1>7, <2>3, <2>4, <2>5 DEF Carried, t
  <2>7. Served /\ Served'
    BY <1>5, <1>6, <2>1, <2>3 DEF Busy, Served
  <2> QED  BY <1>9, <2>1, <2>3, <2>6, <2>7
<1>13. CASE PollStatus(b)
  <2>1. /\ phase = "status" /\ pos' = 0 /\ phase' = (IF b % 32 = 5 THEN "busy" ELSE "idle")
        /\ o = <<5, 1>> /\ got' = <<>> /\ last' = last /\ job.cmd = CMD24
    BY <1>8, <1>13 DEF PollStatus, Goto, InStep, Owed, Course, o
  <2>2. b = 5
    BY <1>3, <2>1
  <2>3. phase' = "busy"
    BY <2>1, <2>2
  <2>4. Carried'
    BY <1>7, <2>1, <2>3 DEF Carried
  <2>5. Served /\ Served'
    BY <1>5, <1>6, <2>1, <2>3 DEF Busy, Served
  <2> QED  BY <1>9, <2>1, <2>3, <2>4, <2>5
<1>14. CASE PollBusy(b)
  <2>1. phase = "busy" /\ phase' = "idle" /\ job.cmd = CMD24 /\ Return(job.data)
    BY <1>14 DEF PollBusy, Goto, InStep, Course
  <2>2. Carried'
    BY <1>7, <2>1 DEF Carried
  <2>3. Busy /\ Served /\ ~ Busy'
    BY <1>6, <2>1 DEF Busy, Served
  <2>4. Seen
    BY <1>2, <2>1, <2>3, ReturnSeen, Distinct
  <2> QED  BY <2>2, <2>4
<1>15. CASE PollAgain(b)
  BY <1>15, AnsweredAtOnce
<1>16. CASE PollExtra
  <2>1. /\ phase = "extra" /\ phase' \in {"extra", "idle"} /\ got' = <<>> /\ last' = last
        /\ job.cmd \notin {CMD17, CMD24}
    BY <1>8, <1>16, Distinct DEF PollExtra, Step, Goto, InStep, Course
  <2>2. Carried'
    BY <1>7, <2>1 DEF Carried
  <2> QED  BY <1>10, <2>1, <2>2
<1>17. CASE PollData(b)
  <2>1. /\ phase = "data_in" /\ pos < SectorLen /\ Len(o) = SectorLen + 2 - pos
        /\ job.cmd = CMD17 /\ got' = Append(got, b) /\ last' = last /\ got \in Seq(Bytes)
    BY <1>17, Lengths DEF PollData, CardInv, DriverOK, Limit, InStep, Owed, Course, o
  <2>2. /\ Len(got) = pos /\ \A i \in 1 .. pos : got[i] = Read[i]
        /\ \A i \in pos + 1 .. SectorLen : o[i - pos] = Read[i]
    BY <2>1 DEF Carried, o
  <2>3. o # <<>> /\ pos + 1 \in pos + 1 .. SectorLen /\ pos + 1 - pos = 1
    BY <1>4, <2>1, Lengths
  <2>4. b = Read[pos + 1]
    BY <1>3, <2>2, <2>3
  <2>5. b \in Bytes
    BY <1>4, <2>1, <2>4, Lengths DEF Sector
  <2>6. got' \in Seq(Bytes) /\ Len(got') = pos + 1 /\ \A i \in 1 .. pos + 1 : got'[i] = Read[i]
    <3>1. got'[pos + 1] = b /\ \A i \in 1 .. pos : got'[i] = got[i]
      BY <1>4, <2>1, <2>2, <2>5
    <3>2. got' \in Seq(Bytes) /\ Len(got') = pos + 1
      BY <2>1, <2>2, <2>5
    <3> QED  BY <1>4, <2>2, <2>4, <3>1, <3>2
  <2>7. CASE pos + 1 = SectorLen
    <3>1. phase' = "crc"
      BY <1>17, <2>7 DEF PollData, Step, Goto
    <3>2. got' = Read
      BY <1>4, <2>6, <2>7 DEF Sector
    <3>3. Carried'
      BY <1>4, <1>7, <3>1, <3>2 DEF Carried
    <3>4. Served /\ Served'
      BY <1>5, <1>6, <2>1, <3>1 DEF Busy, Served
    <3> QED  BY <1>9, <2>1, <3>1, <3>3, <3>4
  <2>8. CASE pos + 1 # SectorLen
    <3>1. phase' = "data_in" /\ pos' = pos + 1
      BY <1>17, <2>1, <2>8 DEF PollData, Step
    <3>2. \A i \in pos + 2 .. SectorLen : t[i - (pos + 1)] = Read[i]
      <4> SUFFICES ASSUME NEW i \in pos + 2 .. SectorLen PROVE t[i - (pos + 1)] = Read[i]
        OBVIOUS
      <4>1. i - (pos + 1) \in 1 .. Len(o) - 1 /\ i - (pos + 1) + 1 = i - pos
        BY <1>4, <2>1, Lengths
      <4>2. t[i - (pos + 1)] = o[i - pos]
        BY <1>3, <2>3, <4>1
      <4>3. i \in pos + 1 .. SectorLen
        BY <1>4, Lengths
      <4> QED  BY <2>2, <4>2, <4>3
    <3>3. /\ Len(got') = pos' /\ \A i \in 1 .. pos' : got'[i] = Read'[i]
          /\ \A i \in pos' + 1 .. SectorLen : t[i - pos'] = Read'[i]
      <4>1. pos + 1 + 1 = pos + 2
        BY <1>4
      <4> QED  BY <1>4, <2>6, <3>1, <3>2, <4>1
    <3>4. Carried'
      BY <1>7, <3>1, <3>3 DEF Carried, t
    <3>5. Served /\ Served'
      BY <1>5, <1>6, <2>1, <3>1 DEF Busy, Served
    <3> QED  BY <1>9, <2>1, <3>1, <3>4, <3>5
  <2> QED  BY <2>7, <2>8
<1>18. CASE PollCrc
  <2>1. phase = "crc" /\ job.cmd = CMD17 /\ got' = got /\ got = Read
    BY <1>18 DEF PollCrc, InStep, Course, Carried
  <2>2. CASE pos = 1
    <3>1. phase' = "idle" /\ Return(got)
      BY <1>18, <2>2 DEF PollCrc, Step, Goto
    <3>2. Carried'
      BY <1>7, <3>1 DEF Carried
    <3>3. Busy /\ Served /\ ~ Busy'
      BY <1>6, <2>1, <3>1 DEF Busy, Served
    <3>4. Seen
      BY <1>2, <2>1, <3>1, <3>3, ReturnSeen
    <3> QED  BY <3>2, <3>4
  <2>3. CASE pos # 1
    <3>1. phase' = "crc" /\ last' = last
      BY <1>4, <1>18, <2>1, <2>3 DEF PollCrc, Step
    <3>2. Carried'
      BY <1>4, <1>7, <2>1, <3>1 DEF Carried
    <3>3. Served /\ Served'
      BY <1>5, <1>6, <2>1, <3>1 DEF Busy, Served
    <3> QED  BY <1>9, <2>1, <3>1, <3>2, <3>3
  <2> QED  BY <2>2, <2>3
<1> QED  BY <1>11, <1>12, <1>13, <1>14, <1>15, <1>16, <1>17, <1>18

LEMMA CallInvInit == Init => CallInv /\ Device!Init
<1> SUFFICES ASSUME Init PROVE Carried /\ Device!Init
  BY CardInvInit, StepInvInit DEF CallInv
<1>1. phase = "idle" /\ got = <<>> /\ last = [of |-> NoCall] /\ moved = 0
  BY DEF Init
<1>2. ~ Busy /\ ~ Served
  BY <1>1 DEF Busy, Served
<1>3. card.next_write_sector = <<>> /\ card.image \in [Address -> Sector]
  <2>1. PICK contents \in [Targets -> Payloads \union {Blank}] :
           card = new([a \in Address |-> IF a \in Targets THEN contents[a] ELSE Blank])
    BY DEF Init
  <2>2. card.next_write_sector = <<>>
    BY <2>1 DEF new
  <2> QED  BY <2>2, CardInvInit, Fields DEF CardInv, Fits
<1>4. Carried
  BY <1>1, <1>3 DEF Carried
<1>5. (IF Busy THEN Call(job) ELSE NoCall) = NoCall /\ (IF Served THEN moved ELSE 0) = 0 /\ Served = FALSE
  BY <1>1, <1>2 DEF Served
<1>6. Device!Init
  BY <1>1, <1>3, <1>5 DEF Device!Init, Device!NoCall, NoCall
<1> QED  BY <1>4, <1>6

LEMMA CallInvStep ==
  ASSUME PlainTargets, CallInv, [Next]_vars
  PROVE  CallInv' /\ [Device!Next \/ resets' > 0]_<<Device!vars, resets>>
<1>1. CardInv' /\ StepInv'
  BY CardInvStep, StepInvStep DEF CallInv
<1>2. CASE resets' # 0
  <2>1. resets' > 0
    BY <1>1, <1>2 DEF CardInv, DriverOK
  <2> QED  BY <1>1, <1>2, <2>1 DEF CallInv
<1>3. CASE resets' = 0
  <2>1. ~ SoftReset
    BY <1>3 DEF SoftReset, CallInv, CardInv, DriverOK
  <2>2. resets = 0
    BY <1>3, <2>1
       DEF Next, Transfer, InitCommand, ReadCall, WriteCall, SendFrame, SendToken, SendData, Poll, vars
  <2>3. CardInv /\ InStep /\ Carried /\ InStep'
    BY <1>1, <1>3, <2>2, Zenon DEF CallInv, StepInv, InStep
  <2>4. Carried' /\ (Unseen \/ Seen)
    <3>1. CASE InitCommand
      <4>1. InitSequence[boot + 1] \in Commands \ {CMD17, CMD24} /\ Booting /\ phase = "idle"
        BY <2>3, <3>1, InitSequenceType DEF InitCommand, Booting, CardInv, DriverOK
      <4> DEFINE j == [cmd |-> InitSequence[boot + 1], at |-> Repeat(0, AddrBytes), data |-> Blank]
      <4>2. j \in Job /\ j.cmd = InitSequence[boot + 1] /\ Start(j)
        BY <3>1, <4>1, Jobs DEF InitCommand
      <4> HIDE DEF j
      <4> QED  BY <2>3, <3>1, <4>1, <4>2, StartSeen DEF InitCommand
    <3>2. CASE ReadCall
      <4>1. PICK a \in Targets : Start([cmd |-> CMD17, at |-> a, data |-> Blank])
        BY <3>2 DEF ReadCall
      <4> DEFINE j == [cmd |-> CMD17, at |-> a, data |-> Blank]
      <4>2. j \in Job /\ j.cmd = CMD17 /\ Start(j)
        BY <4>1, Jobs, DriverAssumption
      <4> HIDE DEF j
      <4> QED  BY <2>3, <3>2, <4>2, StartSeen DEF ReadCall
    <3>3. CASE WriteCall
      <4>1. PICK a \in Targets, d \in Payloads : Start([cmd |-> CMD24, at |-> a, data |-> d])
        BY <3>3 DEF WriteCall
      <4> DEFINE j == [cmd |-> CMD24, at |-> a, data |-> d]
      <4>2. j \in Job /\ j.cmd = CMD24 /\ Start(j)
        BY <4>1, Jobs, DriverAssumption
      <4> HIDE DEF j
      <4> QED  BY <2>3, <3>3, <4>2, StartSeen DEF WriteCall
    <3>4. CASE SendFrame
      BY <2>3, <3>4, FrameSeen
    <3>5. CASE SendToken
      BY <2>3, <3>5, TokenSeen
    <3>6. CASE SendData
      BY <2>3, <3>6, DataSeen
    <3>7. CASE Poll
      BY <2>3, <3>7, PollSeen DEF Poll
    <3>8. CASE UNCHANGED vars
      <4>1. Carried'
        BY <2>3, <3>8, Zenon DEF vars, Carried, Read, Booting
      <4>2. Unseen
        BY <3>8, Hidden DEF vars, Busy, Served, Booting
      <4> QED  BY <4>1, <4>2
    <3> QED  BY <2>1, <3>1, <3>2, <3>3, <3>4, <3>5, <3>6, <3>7, <3>8 DEF Next, Transfer
  <2> QED  BY <1>1, <2>4 DEF CallInv, Unseen, Seen
<1> QED  BY <1>2, <1>3

\* What a client of the card is promised: an acknowledged write is in the image and
\* a read returns what the image holds, each served at one moment of the call, for
\* every length of addresses and sectors, whatever the sectors hold and wherever
\* the image fails, in the middle of a sector too, until a soft reset cuts a command.
THEOREM CardIsBlockDevice ==
  ASSUME PlainTargets
  PROVE  Spec => ImplementsBlockDevice
<1>1. Init => CallInv /\ Device!Init
  BY CallInvInit
<1>2. CallInv /\ [Next]_vars =>
        CallInv' /\ [Device!Next \/ resets' > 0]_<<Device!vars, resets>>
  BY CallInvStep
<1> QED  BY <1>1, <1>2, PTL DEF Spec, ImplementsBlockDevice
=============================================================================
