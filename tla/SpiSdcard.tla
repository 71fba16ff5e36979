----------------------------- MODULE SpiSdcard -----------------------------
(***************************************************************************)
(* The SD card driven byte by byte through the ports 0xbb and 0xbc of      *)
(* src/agon_machine.rs.  The driver is firmware, not part of the           *)
(* repository: it sends a frame, polls with dummy bytes for the answer and *)
(* moves the sector.  It reads the receive register only while polling,    *)
(* which is what the card counts on when it queues the answer to a frame   *)
(* behind its last byte.  A soft reset of the machine restarts the driver  *)
(* and leaves the card as it is.                                           *)
(***************************************************************************)
EXTENDS SpiSdcardOps

CONSTANTS
  Targets,      \* the sectors the driver reads and writes
  Payloads,     \* what it writes to them
  IoOutcomes,   \* bytes that accesses to the image move: SectorLen or, failing, fewer
  MaxResets,    \* bound: soft resets
  MaxBacklog    \* bound: bytes left unread from earlier when a command starts

ASSUME DriverAssumption ==
  /\ Targets \subseteq Address /\ Payloads \subseteq Sector
  /\ IoOutcomes \subseteq 0 .. SectorLen
  /\ MaxResets \in Nat /\ MaxBacklog \in Nat

VARIABLES
  card,     \* the SpiSdcard
  phase,    \* what the driver is doing
  job,      \* its command
  pos,      \* bytes moved in this phase
  got,      \* bytes of the sector received
  boot,     \* commands of the init sequence done
  last,     \* the last call that returned, and with what contents
  moved,    \* history: the bytes that the access made for the last byte sent moved
            \* of a sector, 0 if it made none
  resets    \* soft resets so far

driver == <<phase, job, pos, got, boot, last>>
vars   == <<card, phase, job, pos, got, boot, last, moved, resets>>

NoCall == [op |-> "none"]
Blank  == Repeat(0, SectorLen)

InitSequence == <<CMD0, CMD8, CMD55, ACMD41, CMD58>>

Job == [cmd : Commands, at : Address, data : Sector]

Phases == {"idle", "frame", "response", "extra", "token_out", "data_out",
           "status", "busy", "token_in", "data_in", "crc"}

\* Command, argument, CRC with its stop bit.
Frame(j) == <<j.cmd>> \o j.at \o <<1>>

-----------------------------------------------------------------------------
\* A byte written to 0xbc, and the wait on 0xbb for its transfer.
Out(b, n) == card' = get_spi_status_register(recv_byte(card, b, n))

\* A poll: a dummy byte out, then 0xbc read; `received` is the byte it reads.
Polled(n) == get_spi_status_register(recv_byte(card, Dummy, n))
In(received) == \E n \in IoOutcomes : /\ received = Received(Polled(n))
                                      /\ card' = send_byte(Polled(n))

Goto(p) == phase' = p /\ pos' = 0

\* The phase moves n bytes and is followed by p.
Step(n, p) == IF pos + 1 = n THEN Goto(p) ELSE phase' = phase /\ pos' = pos + 1

Booting == boot < Len(InitSequence)

Start(j) ==
  /\ Len(card.out_buf) <= MaxBacklog
  /\ Goto("frame") /\ job' = j /\ got' = <<>>

\* The next command of the init sequence; its argument does not matter here.
InitCommand ==
  /\ phase = "idle" /\ Booting
  /\ Start([cmd |-> InitSequence[boot + 1], at |-> Repeat(0, AddrBytes), data |-> Blank])
  /\ UNCHANGED <<card, boot, last, moved, resets>>

ReadCall ==
  /\ phase = "idle" /\ ~ Booting
  /\ \E a \in Targets : Start([cmd |-> CMD17, at |-> a, data |-> Blank])
  /\ UNCHANGED <<card, boot, last, moved, resets>>

WriteCall ==
  /\ phase = "idle" /\ ~ Booting
  /\ \E a \in Targets, d \in Payloads : Start([cmd |-> CMD24, at |-> a, data |-> d])
  /\ UNCHANGED <<card, boot, last, moved, resets>>

SendFrame ==
  /\ phase = "frame"
  /\ \E n \in IoOutcomes :
       /\ Out(Frame(job)[pos + 1], n)
       /\ moved' = IF pos + 1 = FrameLen /\ job.cmd = CMD17 THEN n ELSE 0
  /\ Step(FrameLen, "response")
  /\ UNCHANGED <<job, got, boot, last, resets>>

SendToken ==
  /\ phase = "token_out"
  /\ \E n \in IoOutcomes : Out(StartToken, n)
  /\ Goto("data_out")
  /\ moved' = 0
  /\ UNCHANGED <<job, got, boot, last, resets>>

SendData ==
  /\ phase = "data_out"
  /\ \E n \in IoOutcomes : /\ Out(job.data[pos + 1], n)
                           /\ moved' = IF pos + 1 = SectorLen THEN n ELSE 0
  /\ Step(SectorLen, "status")
  /\ UNCHANGED <<job, got, boot, last, resets>>

\* What the driver does next once the card has answered r to the frame.
AfterResponse(r) ==
  CASE job.cmd = CMD17           -> "token_in"
    [] job.cmd = CMD24           -> IF r = 0 THEN "token_out" ELSE "idle"
    [] job.cmd \in {CMD8, CMD58} -> "extra"
    [] OTHER                     -> "idle"

Call(j) == IF j.cmd = CMD17 THEN [op |-> "read", at |-> j.at]
           ELSE [op |-> "write", at |-> j.at, data |-> j.data]

Return(contents) == last' = [of |-> Call(job), contents |-> contents]

\* A poll that reads b, in the phases where a dummy means "nothing yet".
PollResponse(b) ==
  /\ phase = "response" /\ b # Dummy
  /\ Goto(AfterResponse(b))
  /\ boot' = IF Booting THEN boot + 1 ELSE boot
  /\ UNCHANGED <<got, last>>

PollToken(b) ==
  /\ phase = "token_in" /\ b # Dummy
  /\ Goto(IF b = StartToken THEN "data_in" ELSE "idle")
  /\ UNCHANGED <<got, boot, last>>

PollStatus(b) ==
  /\ phase = "status" /\ b # Dummy
  /\ Goto(IF b % 32 = 5 THEN "busy" ELSE "idle")
  /\ UNCHANGED <<got, boot, last>>

PollBusy(b) ==
  /\ phase = "busy" /\ b # 0
  /\ Goto("idle") /\ Return(job.data)
  /\ UNCHANGED <<got, boot>>

PollAgain(b) ==
  /\ \/ phase \in {"response", "token_in", "status"} /\ b = Dummy
     \/ phase = "busy" /\ b = 0
  /\ UNCHANGED driver

\* Bytes that follow an answer: of no use to the driver, or of the sector.
PollExtra ==
  /\ phase = "extra"
  /\ Step(4, "idle")
  /\ UNCHANGED <<got, boot, last>>

PollData(b) ==
  /\ phase = "data_in"
  /\ Step(SectorLen, "crc")
  /\ got' = Append(got, b)
  /\ UNCHANGED <<boot, last>>

PollCrc ==
  /\ phase = "crc"
  /\ Step(2, "idle")
  /\ IF pos = 1 THEN Return(got) ELSE last' = last
  /\ UNCHANGED <<got, boot>>

Poll ==
  /\ \E b \in Bytes :
       /\ In(b)
       /\ \/ PollResponse(b) \/ PollToken(b) \/ PollStatus(b) \/ PollBusy(b)
          \/ PollAgain(b) \/ PollExtra \/ PollData(b) \/ PollCrc
  /\ UNCHANGED <<job, moved, resets>>

\* The machine is reset under the driver, which starts over.
SoftReset ==
  /\ resets < MaxResets
  /\ resets' = resets + 1
  /\ boot' = 0
  /\ Goto("idle")
  /\ UNCHANGED <<card, job, got, last, moved>>

Init ==
  /\ \E contents \in [Targets -> Payloads \union {Blank}] :
       card = new([a \in Address |-> IF a \in Targets THEN contents[a] ELSE Blank])
  /\ phase = "idle" /\ pos = 0
  /\ job = [cmd |-> CMD0, at |-> Repeat(0, AddrBytes), data |-> Blank]
  /\ got = <<>> /\ boot = 0 /\ last = [of |-> NoCall]
  /\ moved = 0 /\ resets = 0

Transfer == SendFrame \/ SendToken \/ SendData \/ Poll

Next == InitCommand \/ ReadCall \/ WriteCall \/ Transfer \/ SoftReset

Spec == Init /\ [][Next]_vars

\* The CPU goes on executing the driver; new calls are up to the client.
FairSpec == Spec /\ WF_vars(InitCommand \/ Transfer)

-----------------------------------------------------------------------------
\* Every variable has its type; the sectors of the image keep their length.
TypeOK ==
  /\ card \in SpiSdcard
  /\ phase \in Phases /\ job \in Job /\ pos \in 0 .. SectorLen + FrameLen
  /\ got \in Seq(Bytes) /\ boot \in 0 .. Len(InitSequence)
  /\ moved \in 0 .. SectorLen /\ resets \in 0 .. MaxResets

\* The frame and the sector are matched by comparing a length (`>= 6`, `== 512`)
\* and the sector's number is unwrapped: whatever bytes come, in whatever order
\* after a reset in mid-transfer, the buffer never grows past what those
\* comparisons catch, and a started write has a sector.
BufferBounded ==
  /\ Len(card.in_buf) < IF card.next_write_started THEN SectorLen ELSE FrameLen
  /\ card.next_write_started => card.next_write_sector # <<>>

\* The card splits the bytes it gets where the driver does, until a soft reset
\* cuts a command: between frames and between the parts of a write nothing is
\* left over that would shift the next, whether or not the image fails.
Synchronised ==
  resets = 0 =>
    /\ Len(card.in_buf) = IF phase \in {"frame", "data_out"} THEN pos ELSE 0
    /\ card.next_write_started <=> phase = "data_out"
    /\ phase = "idle" => card.out_buf = <<>> /\ card.next_write_sector = <<>>

\* Calls on the card, seen through the driver, are calls on a block device: an
\* acknowledged write is in the image and a read returns what the image holds.
\* If the image fails at the call, a first part of the sector is written and the
\* rest is as it was, or a first part is read and the rest is zeros: no other
\* sector, no later byte and no other call suffers.  A soft reset ends the promise.
Busy   == ~ Booting /\ phase # "idle" /\ job.cmd \in {CMD17, CMD24}
Served == Busy /\ \/ job.cmd = CMD17 /\ phase \in {"response", "token_in", "data_in", "crc"}
                  \/ job.cmd = CMD24 /\ phase \in {"status", "busy"}
Device == INSTANCE BlockDevice WITH
  disk   <- card.image,
  call   <- IF Busy THEN Call(job) ELSE NoCall,
  served <- Served,
  moved  <- IF Served THEN moved ELSE 0
ImplementsBlockDevice ==
  Device!Init /\ [][Device!Next \/ resets' > 0]_<<Device!vars, resets>>

\* Every command of the driver ends: the card owes it no byte it does not send.
EveryCommandEnds == phase # "idle" ~> phase = "idle" \/ resets > 0

\* The comment on dropped bytes: "init sequence. ignore".  Once the card is
\* initialised and no write is under way, a byte of a frame is not dropped.
OnlyInitBytesIgnored ==
  phase = "frame" => Len(card.in_buf) = pos
=============================================================================
