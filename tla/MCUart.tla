------------------------------- MODULE MCUart -------------------------------
(* Small instances of Uart for TLC. *)
EXTENDS Uart

\* With the receive bit set, the interrupt poll fetches bytes.
EnableBoth == {<<TRUE, TRUE>>}
=============================================================================
