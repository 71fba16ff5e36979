---------------------------- MODULE MCMemoryMap ----------------------------
(***************************************************************************)
(* An instance of MemoryMap: 8 segments of two bytes, half as much RAM as  *)
(* there are addresses, and a flash of two segments.                       *)
(***************************************************************************)
EXTENDS MemoryMap

MCMos == [i \in 0 .. RomSize - 1 |-> 1]
=============================================================================
