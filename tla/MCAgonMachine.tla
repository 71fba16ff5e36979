--------------------------- MODULE MCAgonMachine ---------------------------
(* Small instances of AgonMachine for TLC. *)
EXTENDS AgonMachine

MCClkDiv == [d \in {0} |-> 1]

\* The vsync, and a joystick pin of port C.
VsyncAndJoystick == [b |-> {1}, c |-> {1}, d |-> {}]

\* A single pass, interrupting.
OneCtl == {[en |-> TRUE, rst |-> TRUE, div |-> 0, cont |-> FALSE, irqEn |-> TRUE, irq |-> FALSE]}

On       == {TRUE}
RxAndTx  == {<<TRUE, TRUE>>}
=============================================================================
