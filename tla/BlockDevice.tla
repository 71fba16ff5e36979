---------------------------- MODULE BlockDevice ----------------------------
(***************************************************************************)
(* What a client of the SD card is promised: one call at a time on an      *)
(* array of sectors.  A call takes effect at one moment between its        *)
(* invocation and its return, and returns what the sector then holds.  If  *)
(* the access to the sector fails, the client is not told: bytes are moved *)
(* from the first on, and where it fails a write leaves the rest of the    *)
(* sector as it was, and a read leaves the rest of what it returns blank.  *)
(***************************************************************************)
EXTENDS Naturals

CONSTANTS Address, Sector, SectorLen, Blank

VARIABLES
  disk,     \* the sectors
  call,     \* the call being served, NoCall between calls
  served,   \* it has taken effect
  moved,    \* as far as this many bytes of the sector
  last      \* the last call and the contents it returned

vars == <<disk, call, served, moved, last>>

NoCall == [op |-> "none"]
Call   == [op : {"read"}, at : Address] \union [op : {"write"}, at : Address, data : Sector]

\* The first n bytes of sector s, the rest of t.
Over(s, t, n) == [i \in 1 .. SectorLen |-> IF i <= n THEN s[i] ELSE t[i]]

Init ==
  /\ disk \in [Address -> Sector]
  /\ call = NoCall
  /\ served = FALSE /\ moved = 0
  /\ last = [of |-> NoCall]

Invoke ==
  /\ call = NoCall
  /\ call' \in Call
  /\ UNCHANGED <<disk, served, moved, last>>

Serve(n) ==
  /\ call # NoCall
  /\ ~ served
  /\ disk' = IF call.op = "write" THEN [disk EXCEPT ![call.at] = Over(call.data, @, n)] ELSE disk
  /\ served' = TRUE /\ moved' = n
  /\ UNCHANGED <<call, last>>

Contents == IF call.op = "write" THEN call.data ELSE Over(disk[call.at], Blank, moved)

Return ==
  /\ served
  /\ last' = [of |-> call, contents |-> Contents]
  /\ call' = NoCall
  /\ served' = FALSE /\ moved' = 0
  /\ UNCHANGED disk

Next == Invoke \/ Return \/ \E n \in 0 .. SectorLen : Serve(n)

Spec == Init /\ [][Next]_vars
=============================================================================
