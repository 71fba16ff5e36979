------------------------------ MODULE MemoryMap ------------------------------
(***************************************************************************)
(* The memories of src/agon_machine.rs and the ports that place them: the  *)
(* on-chip RAM at the end of a segment, the flash at a segment of its own  *)
(* and the external RAM between two chip select bounds, in this order of   *)
(* precedence.  A segment is what the upper byte of an address selects.    *)
(***************************************************************************)
EXTENDS Naturals, FiniteSets

CONSTANTS
  Segs,          \* 2^8, the segments of a 24-bit address
  SegSize,       \* 2^16
  RomSegs,       \* 2, ROM_SIZE in segments
  ExtSegs,       \* 8, EXTERNAL_RAM_SIZE in segments
  OnchipSize,    \* 2^13, ONCHIP_RAM_SIZE
  Bytes,         \* the values of bytes
  Mos,           \* the firmware, by address in the flash
  mos_map,       \* the addresses of its FatFs functions
  FlashSegs, OnchipSegs, Bounds,   \* the values the program writes to the ports
  InitRange,     \* 0x40000 .. 0xbffff, what a random start fills
  MaxDirty       \* bound: bytes that are not those of the start

RomSize == RomSegs * SegSize
ExtSize == ExtSegs * SegSize

\* The host file system reaches beyond 24 bits when a buffer ends there.
Address == 0 .. (Segs + 1) * SegSize - 1

ASSUME MemoryMapAssumption ==
  /\ {Segs, SegSize, RomSegs, ExtSegs, OnchipSize} \subseteq Nat \ {0}
  /\ OnchipSize <= SegSize /\ RomSegs < Segs /\ ExtSegs <= Segs
  /\ {0, 1} \subseteq Bytes /\ Mos \in [0 .. RomSize - 1 -> Bytes]
  /\ mos_map \subseteq 0 .. RomSize - 1
  /\ FlashSegs \union OnchipSegs \union Bounds \subseteq 0 .. Segs - 1
  /\ InitRange \subseteq Address /\ MaxDirty \in Nat

VARIABLES
  mem_rom, mem_external, mem_internal,   \* the bytes of the memories
  onchip_mem_enable, onchip_mem_segment, flash_addr_u,
  cs0_lbr, cs0_ubr,
  mem_out_of_bounds,   \* whether an access has found no memory
  patched              \* history: the program has written to the flash

memory == <<mem_rom, mem_external, mem_internal>>
ports  == <<onchip_mem_enable, onchip_mem_segment, flash_addr_u, cs0_lbr, cs0_ubr>>
vars   == <<memory, ports, mem_out_of_bounds, patched>>

TypeOK ==
  /\ mem_rom \in [0 .. RomSize - 1 -> Bytes] /\ mem_external \in [0 .. ExtSize - 1 -> Bytes]
  /\ mem_internal \in [0 .. OnchipSize - 1 -> Bytes]
  /\ {onchip_mem_segment, flash_addr_u, cs0_lbr, cs0_ubr} \subseteq 0 .. Segs - 1
  /\ {onchip_mem_enable, mem_out_of_bounds, patched} \subseteq BOOLEAN
-----------------------------------------------------------------------------
None == [mem |-> "none", at |-> 0]

Seg(a) == a \div SegSize

\* Bitwise and, the lowest bit last
And[x \in 0 .. Segs] ==
  [y \in 0 .. Segs |-> IF x = 0 \/ y = 0 THEN 0
                       ELSE (2 * And[x \div 2][y \div 2]) + ((x % 2) * (y % 2))]

OnchipBase == onchip_mem_segment * SegSize + (SegSize - OnchipSize)
FlashBase  == flash_addr_u * SegSize

get_internal_ram_address(a) ==
  IF onchip_mem_enable /\ a \in OnchipBase .. OnchipBase + OnchipSize - 1
  THEN [mem |-> "onchip", at |-> a - OnchipBase] ELSE None

get_rom_address(a) ==
  IF a \in FlashBase .. FlashBase + RomSize - 1
  THEN [mem |-> "rom", at |-> a - FlashBase] ELSE None

\* Mutant: the segment is masked with the upper bound.
MaskUpper == cs0_ubr

\* cs0_ubr.wrapping_sub(cs0_lbr)
Mask == (cs0_ubr + Segs - cs0_lbr) % Segs

get_external_ram_address(a) ==
  LET offset == And[Seg(a)][Mask] * SegSize + (a % SegSize)
  IN  IF Seg(a) \in cs0_lbr .. cs0_ubr /\ offset < ExtSize
      THEN [mem |-> "external", at |-> offset] ELSE None

\* The first of the memories that has the address.
Cell(a) ==
  IF get_internal_ram_address(a) # None THEN get_internal_ram_address(a)
  ELSE IF get_rom_address(a) # None     THEN get_rom_address(a)
  ELSE get_external_ram_address(a)

\* What a read of the address returns, 0xf5 where there is no memory.
Read(a) ==
  LET c == Cell(a)
  IN  CASE c.mem = "onchip"   -> mem_internal[c.at]
        [] c.mem = "rom"      -> mem_rom[c.at]
        [] c.mem = "external" -> mem_external[c.at]
        [] OTHER              -> 245

\* Mutant: the traps do not ask where the flash is.
TrapsAnywhere(pc) == pc < RomSize /\ pc \in mos_map

\* The condition of execute_instruction for the traps
Traps(pc) == pc < RomSize /\ flash_addr_u = 0 /\ pc \in mos_map

-----------------------------------------------------------------------------
\* How many bytes are not those of the start.
Dirty ==
  LET Differ(f, g) == Cardinality({i \in DOMAIN f : f[i] # g[i]})
  IN  Differ(mem_rom, Mos) + Differ(mem_external, [i \in 0 .. ExtSize - 1 |-> 0])
        + Differ(mem_internal, [i \in 0 .. OnchipSize - 1 |-> 0])

Filled(size, ones) == [i \in 0 .. size - 1 |-> IF i \in ones THEN 1 ELSE 0]

\* RamInit::Random fills the on-chip RAM and what InitRange reaches before the
\* program has placed the memories; the rest of InitRange marks an access out of
\* bounds.  A byte of each at most is not zero.
RandomInit ==
  LET reached == {Cell(a).at : a \in {b \in InitRange : Cell(b).mem = "external"}}
  IN  /\ mem_external \in {Filled(ExtSize, {})} \union {Filled(ExtSize, {i}) : i \in reached}
      /\ mem_internal \in {Filled(OnchipSize, {i}) : i \in 0 .. OnchipSize}
      /\ mem_out_of_bounds = \E a \in InitRange : Cell(a) = None

ZeroInit ==
  /\ mem_external = Filled(ExtSize, {}) /\ mem_internal = Filled(OnchipSize, {})
  /\ mem_out_of_bounds = FALSE

Init ==
  /\ onchip_mem_enable = TRUE /\ onchip_mem_segment = Segs - 1
  /\ flash_addr_u = 0 /\ cs0_lbr = 0 /\ cs0_ubr = Segs - 1
  /\ mem_rom = Mos
  /\ RandomInit \/ ZeroInit
  /\ patched = FALSE
-----------------------------------------------------------------------------
\* Mutant: the flash comes first when a byte is written.
PokeRomFirst(a) == IF get_rom_address(a) # None THEN get_rom_address(a) ELSE Cell(a)

\* The flash is as writable as the RAM.
Poked(a) == Cell(a)

poke(a, v) ==
  LET c == Poked(a)
  IN  /\ mem_internal' = IF c.mem = "onchip" THEN [mem_internal EXCEPT ![c.at] = v] ELSE mem_internal
      /\ mem_rom'      = IF c.mem = "rom" THEN [mem_rom EXCEPT ![c.at] = v] ELSE mem_rom
      /\ mem_external' = IF c.mem = "external" THEN [mem_external EXCEPT ![c.at] = v] ELSE mem_external
      /\ mem_out_of_bounds' = (mem_out_of_bounds \/ c = None)
      /\ patched' = (patched \/ c.mem = "rom")
      /\ UNCHANGED ports

Poke ==
  /\ \E a \in Address, v \in Bytes : poke(a, v)
  /\ Dirty' <= MaxDirty

Peek(a) ==
  /\ mem_out_of_bounds' = (mem_out_of_bounds \/ Cell(a) = None)
  /\ UNCHANGED <<memory, ports, patched>>

\* DebuggerServer::tick looks at the marker and clears it.
Tick ==
  /\ mem_out_of_bounds' = FALSE
  /\ UNCHANGED <<memory, ports, patched>>

\* The ports 0xb4, 0xb5, 0xf7, 0xa8 and 0xa9
WritePort ==
  /\ \/ /\ onchip_mem_enable' \in BOOLEAN
        /\ UNCHANGED <<onchip_mem_segment, flash_addr_u, cs0_lbr, cs0_ubr>>
     \/ /\ onchip_mem_segment' \in OnchipSegs
        /\ UNCHANGED <<onchip_mem_enable, flash_addr_u, cs0_lbr, cs0_ubr>>
     \/ /\ flash_addr_u' \in FlashSegs
        /\ UNCHANGED <<onchip_mem_enable, onchip_mem_segment, cs0_lbr, cs0_ubr>>
     \/ /\ cs0_lbr' \in Bounds
        /\ UNCHANGED <<onchip_mem_enable, onchip_mem_segment, flash_addr_u, cs0_ubr>>
     \/ /\ cs0_ubr' \in Bounds
        /\ UNCHANGED <<onchip_mem_enable, onchip_mem_segment, flash_addr_u, cs0_lbr>>
  /\ UNCHANGED <<memory, mem_out_of_bounds, patched>>

Next == Poke \/ (\E a \in Address : Peek(a)) \/ Tick \/ WritePort

Spec == Init /\ [][Next]_vars
-----------------------------------------------------------------------------
(***************************************************************************)
(* Properties                                                              *)
(***************************************************************************)
PowersOfTwo == {n \in 1 .. Segs : \A d, q \in 1 .. n : n = d * q => d = 1 \/ d % 2 = 0}

\* The chip select holds a range of segments whose number is a power of two,
\* no more than there is RAM, wherever it begins.
Regular == /\ cs0_ubr >= cs0_lbr
           /\ (cs0_ubr - cs0_lbr) + 1 \in PowersOfTwo
           /\ (cs0_ubr - cs0_lbr) + 1 <= ExtSegs

\* What is stored in memory is read back from that address and seen at no
\* other, wherever the program has put the memories and however they overlap,
\* as long as the range is a regular one.
PokeIsLocal ==
  [][Regular => \A a \in Address, v \in Bytes :
       poke(a, v) => Read(a)' = v /\ \A b \in Address \ {a} : Read(b)' = Read(b)]_memory

\* Every address of a regular range has RAM, or the flash or the on-chip RAM
\* over it, and no two share it; the whole RAM is reached if the range is as
\* long.
RamIsWhole ==
  LET range == {a \in Address : Seg(a) \in cs0_lbr .. cs0_ubr}
      at    == [a \in range |-> get_external_ram_address(a)]
  IN  Regular => /\ \A a \in range : at[a] # None
                 /\ Cardinality({at[a] : a \in range}) = Cardinality(range)

\* A trap takes the place of the firmware's own function: the byte that would
\* have been executed is the firmware's, unless the program has covered it with
\* the on-chip RAM or has written to the flash.
TrapMeansFirmware ==
  \A pc \in Address : Traps(pc) =>
    patched \/ get_internal_ram_address(pc) # None \/ Read(pc) = Mos[pc]
=============================================================================
