---------------------------- MODULE SpiSdcardOps ----------------------------
(***************************************************************************)
(* The SD card behind the SPI port: struct SpiSdcard of src/spi_sdcard.rs  *)
(* and its methods, as operators on a record, for a card with an image.    *)
(* A sector is named by the address bytes of its command, most significant *)
(* first, instead of the number they make up.                              *)
(***************************************************************************)
EXTENDS Naturals, Sequences

CONSTANTS
  Bytes,       \* the byte values that occur on the bus
  AddrBytes,   \* argument bytes of a command (4)
  SectorLen    \* bytes of a sector (512)

CMD0   == 64
CMD8   == 72
CMD55  == 119
ACMD41 == 105
CMD58  == 122
CMD17  == 81
CMD24  == 88
Commands == {CMD0, CMD8, CMD55, ACMD41, CMD58, CMD17, CMD24}

StartToken == 254   \* SD_START_TOKEN
Dummy      == 255   \* what an idle bus reads and writes

ASSUME SpiSdcardAssumption ==
  /\ Commands \union {0, 1, 5, StartToken, Dummy} \subseteq Bytes
  /\ AddrBytes \in Nat /\ AddrBytes > 0
  /\ SectorLen \in Nat /\ SectorLen > AddrBytes + 2

FrameLen == AddrBytes + 2   \* command, argument, CRC
Address  == [1 .. AddrBytes -> Bytes]
Sector   == [1 .. SectorLen -> Bytes]

Repeat(b, n) == [i \in 1 .. n |-> b]

SpiSdcard == [in_buf  : Seq(Bytes),
              out_buf : Seq(Bytes),
              spi_sr  : BOOLEAN,   \* bit 7: transfer finished
              image   : [Address -> Sector],
              next_write_sector  : {<<>>} \union {<<a>> : a \in Address},
              next_write_started : BOOLEAN]

new(image) == [in_buf |-> <<>>, out_buf |-> <<>>, spi_sr |-> FALSE, image |-> image,
               next_write_sector |-> <<>>, next_write_started |-> FALSE]

\* The frame is consumed and answered with the bytes r.
Answer(c, r) == [c EXCEPT !.in_buf = <<>>, !.out_buf = @ \o r]

\* What a transfer of sector s over sector t leaves when it moves n bytes and then
\* fails, unless those are all.
Partly(s, t, n) == [i \in 1 .. SectorLen |-> IF i <= n THEN s[i] ELSE t[i]]

\* CMD17.  What cannot be read of a sector is answered with zeros.
ReadSector(c, a, n) ==
  Answer(c, <<0, StartToken>> \o Partly(c.image[a], Repeat(0, SectorLen), n) \o <<0, 0>>)

\* CMD24: what follows the start token is for this sector.
WriteSector(c, a) ==
  Answer([c EXCEPT !.next_write_sector = <<a>>, !.next_write_started = FALSE], <<0>>)

\* The match on a complete frame.  Only CMD8 echoes its argument.
Execute(c, n) ==
  LET f == c.in_buf
      a == SubSeq(f, 2, AddrBytes + 1)
  IN  CASE f[1] \in {CMD0, CMD55}   -> Answer(c, <<1>>)
        [] f[1] \in {ACMD41, CMD58} -> Answer(c, <<0>>)
        [] f[1] = CMD8  -> Answer(c, <<1, 0, 0, 1, f[AddrBytes + 1]>>)
        [] f[1] = CMD17 -> ReadSector(c, a, n)
        [] f[1] = CMD24 -> WriteSector(c, a)
        [] OTHER        -> [c EXCEPT !.in_buf = <<>>]

\* Mutant: the sector stays in the buffer.
CommitKeepingBuffer(c, n) ==
  [c EXCEPT !.next_write_sector = <<>>, !.next_write_started = FALSE, !.out_buf = @ \o <<5, 1>>,
            !.image[c.next_write_sector[1]] = Partly(c.in_buf, @, n)]

\* Mutant: the write is acknowledged and not made.
CommitLost(c, n) ==
  Answer([c EXCEPT !.next_write_sector = <<>>, !.next_write_started = FALSE], <<5, 1>>)

\* The last byte of a sector has come.  A write that fails, perhaps part of the
\* way, is acknowledged too.
Commit(c, n) ==
  Answer([c EXCEPT !.next_write_sector = <<>>, !.next_write_started = FALSE,
                   !.image[c.next_write_sector[1]] = Partly(c.in_buf, @, n)],
         <<5, 1>>)

Push(c, b) == [c EXCEPT !.in_buf = Append(@, b)]

Waiting(c) == c.next_write_sector # <<>> /\ ~ c.next_write_started

\* Mutant: 255 is dropped in the data of a write too.
IgnoredInData(c, b) == b = Dummy

\* Outside the data of a write, 255 is dropped wherever it stands.
Ignored(c, b) == (c.next_write_sector = <<>> \/ ~ c.next_write_started) /\ b = Dummy

\* Mutant: a frame is looked at a byte late.
AcceptLongFrame(c, b, n) ==
  CASE Ignored(c, b)                -> c
    [] Waiting(c) /\ b = StartToken -> [c EXCEPT !.next_write_started = TRUE]
    [] c.next_write_started         ->
         IF Len(c.in_buf) + 1 = SectorLen THEN Commit(Push(c, b), n) ELSE Push(c, b)
    [] OTHER                        ->
         IF Len(c.in_buf) + 1 > FrameLen THEN Execute(Push(c, b), n) ELSE Push(c, b)

\* n: the bytes an access to the image file would move.
Accept(c, b, n) ==
  CASE Ignored(c, b)                   -> c
    [] Waiting(c) /\ b = StartToken    -> [c EXCEPT !.next_write_started = TRUE]
    [] c.next_write_started            ->
         IF Len(c.in_buf) + 1 = SectorLen THEN Commit(Push(c, b), n) ELSE Push(c, b)
    [] OTHER                           ->
         IF Len(c.in_buf) + 1 >= FrameLen THEN Execute(Push(c, b), n) ELSE Push(c, b)

recv_byte(c, b, n) == Accept([c EXCEPT !.spi_sr = TRUE], b, n)

\* The byte a read of the receive register returns, and the card it leaves.
Received(c)  == IF c.out_buf = <<>> THEN Dummy ELSE Head(c.out_buf)
send_byte(c) == IF c.out_buf = <<>> THEN c ELSE [c EXCEPT !.out_buf = Tail(@)]

get_spi_status_register(c) == [c EXCEPT !.spi_sr = FALSE]
=============================================================================
