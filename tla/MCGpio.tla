------------------------------- MODULE MCGpio -------------------------------
(* Small instances of Gpio for TLC. *)
EXTENDS Gpio
=============================================================================
