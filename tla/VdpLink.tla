------------------------------ MODULE VdpLink ------------------------------
(***************************************************************************)
(* The VDP thread of src/bin/agon.rs at the other end of the serial link:  *)
(* a loop that handles one packet of the eZ80, makes the vsync when it is  *)
(* due and types a line of the standard input.  Inside a packet it waits   *)
(* for the next byte and does nothing else.  The program sends packets     *)
(* byte by byte; a soft reset makes it begin anew wherever it is.          *)
(***************************************************************************)
EXTENDS Naturals, Sequences

CONSTANTS
  Others,       \* the packets the program sends besides general polls
  MaxPackets,   \* bound: packets the program begins
  MaxResets,    \* bound: soft resets
  MaxLines      \* bound: lines typed

Colour == 17
Vdu23  == 23

Poll     == 128
ModeInfo == 134
Rtc      == 135
Terminal == 255

\* How many bytes the packet that begins with p has, as far as p tells.
Length(p) ==
  IF p[1] = Colour                           THEN 2
  ELSE IF p[1] # Vdu23                       THEN 1
  ELSE IF Len(p) = 1 \/ p[2] # 0             THEN 2
  ELSE IF Len(p) = 2 \/ p[3] \notin {Poll, Rtc} THEN 3 ELSE 4

\* The packets are numbered beyond the bytes.  A number on the link stands for the
\* argument of that poll, any byte that begins no packet of several: handle_vdp
\* does nothing with such a byte but echo it.  So the number tells whose it is.
Number == 256 .. 255 + MaxPackets
Byte   == (0 .. 255) \union Number

PollPacket(n) == <<Vdu23, 0, Poll, n>>

\* The others are any packets, polls with any argument among them.
ASSUME VdpLinkAssumption ==
  /\ {MaxPackets, MaxResets, MaxLines} \subseteq Nat
  /\ \A p \in Others : p \in Seq(0 .. 255) \ {<<>>} /\ Len(p) = Length(p)

\* A packet cut short may lack three bytes.  A poll the VDP is sure to see comes
\* after as many, and this many come before its last.
Settled == 6

VARIABLES
  to_vdp,      \* the bytes on the way to the VDP
  answers,     \* what the VDP has answered, without the lines in between
  at,          \* where the loop is: "packet", "vsync", "keys", or "exit"
  taken,       \* the bytes of the packet handle_vdp is in
  vdp_terminal_mode,
  vsync_due,   \* 16666 microseconds have elapsed
  stdin,       \* the lines in the channel from the standard input
  eof,         \* that has ended
  rest,        \* what the program has yet to send of its packet
  begun,       \* the number of the last packet it has begun
  since,       \* history: bytes sent since the VDP may have lost step, up to Settled
  asked,       \* history: polls sent whole that the VDP is sure to see
  resets

vdp  == <<answers, at, taken, vdp_terminal_mode>>
ez80 == <<rest, begun, since, asked, resets>>
link_vars == <<to_vdp, vdp, vsync_due, stdin, eof, ez80>>

LinkTypeOK ==
  /\ to_vdp \in Seq(Byte) /\ taken \in Seq(Byte) /\ rest \in Seq(Byte)
  /\ at \in {"packet", "vsync", "keys", "exit"}
  /\ answers \in Seq(Seq(Byte))
  /\ {vdp_terminal_mode, vsync_due, eof} \subseteq BOOLEAN
  /\ stdin \in 0 .. MaxLines /\ begun \in 255 .. 255 + MaxPackets /\ resets \in 0 .. MaxResets
  /\ asked \subseteq Number /\ since \in 0 .. Settled

LinkInit ==
  /\ to_vdp = <<>> /\ answers = <<>>
  /\ at = "packet" /\ taken = <<>> /\ vdp_terminal_mode = FALSE
  /\ vsync_due = FALSE /\ stdin = 0 /\ eof = FALSE
  /\ rest = <<>> /\ begun = 255 /\ since = Settled /\ asked = {} /\ resets = 0
-----------------------------------------------------------------------------
\* handle_vdp

Is(p, cmd) == Len(p) >= 3 /\ p[1] = Vdu23 /\ p[3] = cmd

\* The answer to a packet, without its payload but for the byte echoed.
Answer(p) ==
  CASE Is(p, Poll)              -> << <<Poll, p[4]>> >>
    [] Is(p, ModeInfo)          -> << <<ModeInfo>> >>
    [] Is(p, Rtc) /\ p[4] = 0   -> << <<Rtc>> >>
    [] OTHER                    -> <<>>

\* Mutant: no packet is answered in terminal mode.
AnswerOutsideTerminal(p) == IF vdp_terminal_mode THEN <<>> ELSE Answer(p)

Answered(p) == Answer(p)

\* recv, or try_recv for the first byte; the packet is handled with its last.
TakeByte ==
  LET p == Append(taken, Head(to_vdp))
  IN  /\ at = "packet" /\ to_vdp # <<>>
      /\ to_vdp' = Tail(to_vdp)
      /\ IF Len(p) = Length(p)
         THEN /\ taken' = <<>> /\ at' = "vsync"
              /\ answers' = answers \o Answered(p)
              /\ vdp_terminal_mode' = (vdp_terminal_mode \/ Is(p, Terminal))
         ELSE /\ taken' = p
              /\ UNCHANGED <<at, answers, vdp_terminal_mode>>
      /\ UNCHANGED <<vsync_due, stdin, eof, ez80>>

\* Mutant: the loop begins anew when there is no packet.
NoByteContinue ==
  /\ at = "packet" /\ taken = <<>> /\ to_vdp = <<>>
  /\ UNCHANGED link_vars

\* Mutant: handle_vdp gives a packet up whose next byte is not there yet.
NoByteGiveUp ==
  /\ at = "packet" /\ to_vdp = <<>>
  /\ at' = "vsync" /\ taken' = <<>>
  /\ UNCHANGED <<to_vdp, answers, vdp_terminal_mode, vsync_due, stdin, eof, ez80>>

NoByte ==
  /\ at = "packet" /\ taken = <<>> /\ to_vdp = <<>>
  /\ at' = "vsync"
  /\ UNCHANGED <<to_vdp, answers, taken, vdp_terminal_mode, vsync_due, stdin, eof, ez80>>

FakeVsync ==
  /\ at = "vsync" /\ at' = "keys"
  /\ vsync_due' = FALSE
  /\ UNCHANGED <<to_vdp, answers, taken, vdp_terminal_mode, stdin, eof, ez80>>

\* A line, if a second has passed since the last one, as key packets or, in
\* terminal mode, as it is; the emulator ends when the standard input has ended
\* and every line has been typed.
Keys ==
  /\ at = "keys"
  /\ \/ at' = "packet" /\ UNCHANGED <<stdin, answers>>
     \/ /\ stdin > 0 /\ stdin' = stdin - 1
        /\ answers' = answers
        /\ at' = "packet"
     \/ /\ stdin = 0 /\ eof /\ at' = "exit"
        /\ UNCHANGED <<stdin, answers>>
  /\ UNCHANGED <<to_vdp, taken, vdp_terminal_mode, vsync_due, eof, ez80>>

VdpStep == TakeByte \/ NoByte \/ FakeVsync \/ Keys
-----------------------------------------------------------------------------
\* Time passes and the user types.
Elapse ==
  /\ ~ vsync_due /\ vsync_due' = TRUE
  /\ UNCHANGED <<to_vdp, vdp, stdin, eof, ez80>>

Type ==
  /\ ~ eof
  /\ \/ stdin < MaxLines /\ stdin' = stdin + 1 /\ eof' = FALSE
     \/ eof' = TRUE /\ stdin' = stdin
  /\ UNCHANGED <<to_vdp, vdp, vsync_due, ez80>>

\* The program, through ChannelSerialLink
Begin ==
  /\ rest = <<>> /\ begun + 1 \in Number
  /\ begun' = begun + 1
  /\ rest' \in Others \union {PollPacket(begun + 1)}
  /\ UNCHANGED <<to_vdp, vdp, vsync_due, stdin, eof, since, asked, resets>>

\* The last byte of a packet looks like the first of one, COLOUR 17 say: a VDP that
\* is out of step takes it for that and stays out of step.
Misleading == rest \in {<<Colour>>, <<Vdu23>>}

SendByte ==
  /\ rest # <<>>
  /\ to_vdp' = Append(to_vdp, Head(rest))
  /\ rest' = Tail(rest)
  /\ since' = IF since = Settled THEN Settled ELSE IF Misleading THEN 0 ELSE since + 1
  /\ asked' = IF rest = <<begun>> /\ since = Settled THEN asked \union {begun} ELSE asked
  /\ UNCHANGED <<vdp, vsync_due, stdin, eof, begun, resets>>

SoftReset ==
  /\ resets < MaxResets
  /\ resets' = resets + 1
  /\ rest' = <<>> /\ since' = 0
  /\ UNCHANGED <<to_vdp, vdp, vsync_due, stdin, eof, begun, asked>>

LinkNext == at # "exit" /\ (VdpStep \/ Elapse \/ Type \/ Begin \/ SendByte \/ SoftReset)

Fairness == WF_link_vars(at # "exit" /\ VdpStep) /\ WF_link_vars(at # "exit" /\ SendByte)

LinkSpec == LinkInit /\ [][LinkNext]_link_vars /\ Fairness
-----------------------------------------------------------------------------
(***************************************************************************)
(* Properties                                                              *)
(***************************************************************************)
Echoed(i, n) == i \in DOMAIN answers /\ answers[i] = <<Poll, n>>

\* general poll. "echo back the sent byte": the answers come in the order of
\* the polls, none twice; none is left out unless a reset has cut a packet, or an
\* argument after it has misled the VDP, at most three bytes before it; and
\* without resets no other is answered.
AnswersFollowPolls ==
  \A j \in DOMAIN answers, n \in Number : Echoed(j, n) =>
    /\ \A i \in DOMAIN answers, m \in Number : Echoed(i, m) /\ i < j => m < n
    /\ \A m \in asked : m < n => \E i \in 1 .. j : Echoed(i, m)
    /\ resets = 0 => n \in asked

\* Such a poll is answered, whatever comes before it and behind it, unless the
\* emulator ends.
EveryPollAnswered ==
  \A n \in Number :
    n \in asked ~> (at = "exit" \/ \E i \in DOMAIN answers : Echoed(i, n))

\* The VDP is inside a packet that nobody sends the rest of.
Stuck == taken # <<>> /\ to_vdp = <<>> /\ rest = <<>>

\* "a fake vsync every 16ms": a vsync that is due is made, however much the
\* program sends, unless a reset has cut a packet short.
VsyncGoesOn == vsync_due ~> (~ vsync_due \/ at = "exit" \/ (Stuck /\ resets > 0))
=============================================================================
