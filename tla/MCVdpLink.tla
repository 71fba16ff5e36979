----------------------------- MODULE MCVdpLink -----------------------------
(***************************************************************************)
(* An instance of VdpLink: polls among packets of every length.            *)
(***************************************************************************)
EXTENDS VdpLink

MCOthers == {<<0>>, <<Colour, Vdu23>>, <<Vdu23, 0, Terminal>>, <<Vdu23, 0, Rtc, 0>>,
             <<Vdu23, 0, Poll, Colour>>}
=============================================================================
