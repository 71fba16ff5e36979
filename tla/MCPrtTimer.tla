----------------------------- MODULE MCPrtTimer -----------------------------
(* Small instances of PrtTimer for TLC. *)
EXTENDS PrtTimer

\* Dividers so short that an instruction can outlast one.
MCClkDiv == [d \in 0 .. 1 |-> d + 1]

\* IRQ_EN only gates irq_due, which nothing in the timer reads.
MCCtlWrites == {c \in Ctl : c.irqEn}
=============================================================================
