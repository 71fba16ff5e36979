--------------------------- MODULE MemoryMapProofs ---------------------------
(***************************************************************************)
(* Proofs about MemoryMap, for any sizes of the memories and wherever the  *)
(* program puts them: a trap means the firmware's function, the RAM of a   *)
(* regular chip select is whole, and a store changes one address.  The     *)
(* lemmas in front of them are about the bitwise and.                      *)
(***************************************************************************)
EXTENDS MemoryMap, TLAPS, FiniteSetTheorems

LEMMA Quotient ==
  ASSUME NEW n \in Nat \ {0}, NEW a \in Nat
  PROVE  a % n \in 0 .. n - 1 /\ a \div n \in Nat /\ a = n * (a \div n) + (a % n)
BY SMT

\* Quotient and remainder are determined by the equation they solve.
LEMMA Division ==
  ASSUME NEW n \in Nat \ {0}, NEW k \in Nat, NEW r \in 0 .. n - 1
  PROVE  /\ (n * k + r) % n = r
         /\ (n * k + r) \div n = k
<1> DEFINE a == n * k + r
<1>1. n * k \in Nat /\ a \in Nat
  BY SMT
<1>2. a % n \in 0 .. n - 1 /\ a \div n \in Nat /\ a = n * (a \div n) + (a % n)
  BY <1>1, Quotient
<1>3. PICK q \in Nat : q = a \div n
  BY <1>2
<1>4. PICK s \in 0 .. n - 1 : s = a % n
  BY <1>2
<1>5. n * k + r = n * q + s
  BY <1>2, <1>3, <1>4
<1>6. q = k
  <2>1. CASE q < k
    <3>1. k >= q + 1 /\ n * k >= n * (q + 1)
      BY <2>1, SMT
    <3>2. n * (q + 1) = n * q + n
      BY SMT
    <3> QED BY <3>1, <3>2, <1>5, <1>1, SMT
  <2>2. CASE q > k
    <3>1. q >= k + 1 /\ n * q >= n * (k + 1)
      BY <2>2, SMT
    <3>2. n * (k + 1) = n * k + n
      BY SMT
    <3> QED BY <3>1, <3>2, <1>5, <1>1, SMT
  <2> QED BY <2>1, <2>2, SMT
<1>7. r = s
  BY <1>5, <1>6, <1>1, SMT
<1> QED BY <1>3, <1>4, <1>6, <1>7

LEMMA Halves ==
  ASSUME NEW x \in Nat
  PROVE  /\ x \div 2 \in Nat /\ x % 2 \in 0 .. 1 /\ x = 2 * (x \div 2) + (x % 2)
         /\ x \div 2 <= x /\ (x # 0 => x \div 2 < x)
BY SMT

\* A set of numbers that is not empty has a least element.
LEMMA Least ==
  ASSUME NEW S \in SUBSET Nat, S # {}
  PROVE  \E v \in S : \A w \in S : v <= w
<1> DEFINE R == OpToRel(<, Nat)
<1>1. PICK v \in S : \A w \in S : ~ (<<w, v>> \in R)
  <2> HIDE DEF R
  <2>1. IsWellFoundedOn(R, Nat)
    BY NatLessThanWellFounded DEF R
  <2> QED BY <2>1, WFMin
<1>2. \A w \in S : v <= w
  <2> SUFFICES ASSUME NEW w \in S PROVE ~ (w < v)
    OBVIOUS
  <2>1. v \in Nat /\ w \in Nat
    OBVIOUS
  <2>2. w < v => <<w, v>> \in R
    BY <2>1, Zenon DEF OpToRel
  <2> QED BY <1>1, <2>2
<1> QED BY <1>2
-----------------------------------------------------------------------------
(***************************************************************************)
(* The bitwise and is defined by recursion.  That there is a function that *)
(* solves the equation, and what it is when one operand is all ones, are   *)
(* shown by least counterexamples.                                         *)
(***************************************************************************)
AndRow(f, x) == [y \in 0 .. Segs |-> IF x = 0 \/ y = 0 THEN 0
                                     ELSE (2 * f[x \div 2][y \div 2]) + ((x % 2) * (y % 2))]

AndUpTo(f, n) == f = [x \in 0 .. n |-> AndRow(f, x)]

LEMMA AndExtends ==
  ASSUME NEW n \in Nat, NEW g, AndUpTo(g, n)
  PROVE  \E f : AndUpTo(f, n + 1)
<1> DEFINE f == [x \in 0 .. n + 1 |-> AndRow(g, x)]
<1>1. ASSUME NEW x \in 0 .. n + 1 PROVE AndRow(f, x) = AndRow(g, x)
  <2>1. CASE x = 0
    BY <2>1 DEF AndRow
  <2>2. CASE x # 0
    <3>1. x \div 2 \in 0 .. n
      BY <2>2, SMT
    <3>2. f[x \div 2] = AndRow(g, x \div 2)
      <4>1. x \div 2 \in 0 .. n + 1
        BY <3>1, SMT
      <4> QED BY <4>1
    <3>3. g[x \div 2] = AndRow(g, x \div 2)
      BY <3>1 DEF AndUpTo
    <3>4. f[x \div 2] = g[x \div 2]
      BY <3>2, <3>3
    <3> HIDE DEF f
    <3> QED BY <3>4 DEF AndRow
  <2> QED BY <2>1, <2>2
<1>2. f = [x \in 0 .. n + 1 |-> AndRow(f, x)]
  <2> DEFINE h == [x \in 0 .. n + 1 |-> AndRow(f, x)]
  <2>1. \A x \in 0 .. n + 1 : f[x] = AndRow(f, x)
    BY <1>1
  <2> QED BY <1>1, Zenon
<1> HIDE DEF f
<1> QED BY <1>2 DEF AndUpTo

LEMMA AndSolved == \A x \in 0 .. Segs : And[x] = AndRow(And, x)
<1> DEFINE T == {n \in Nat : ~ \E f : AndUpTo(f, n)}
<1>1. T = {}
  <2> SUFFICES ASSUME T # {} PROVE FALSE
    OBVIOUS
  <2>1. PICK n \in T : \A m \in T : n <= m
    <3>1. T \in SUBSET Nat
      OBVIOUS
    <3> HIDE DEF T
    <3> QED BY <3>1, Least
  <2>2. n \in Nat /\ ~ \E f : AndUpTo(f, n)
    OBVIOUS
  <2>3. CASE n = 0
    <3> DEFINE f == [x \in 0 .. 0 |-> AndRow(<<>>, x)]
    <3>1. \A x \in 0 .. 0 : AndRow(f, x) = AndRow(<<>>, x)
      <4> SUFFICES ASSUME NEW x \in 0 .. 0 PROVE AndRow(f, x) = AndRow(<<>>, x)
        OBVIOUS
      <4>1. x = 0
        BY SMT
      <4> QED BY <4>1 DEF AndRow
    <3>2. f = [x \in 0 .. 0 |-> AndRow(f, x)]
      BY <3>1, Zenon
    <3> HIDE DEF f
    <3> QED BY <2>2, <2>3, <3>2 DEF AndUpTo
  <2>4. CASE n # 0
    <3>1. n - 1 \in Nat /\ (n - 1) + 1 = n /\ ~ (n <= n - 1)
      BY <2>2, <2>4, SMT
    <3>2. PICK g : AndUpTo(g, n - 1)
      BY <2>1, <3>1
    <3>3. \E f : AndUpTo(f, (n - 1) + 1)
      BY <3>1, <3>2, AndExtends
    <3> QED BY <2>2, <3>1, <3>3
  <2> QED BY <2>3, <2>4
<1>2. \E f : AndUpTo(f, Segs)
  <2>1. Segs \in Nat
    BY MemoryMapAssumption
  <2> QED BY <1>1, <2>1
<1>3. And = CHOOSE f : AndUpTo(f, Segs)
  BY Zenon DEF And, AndUpTo, AndRow
<1>4. AndUpTo(And, Segs)
  <2> HIDE DEF T
  <2> QED BY <1>2, <1>3, Zenon
<1> QED BY <1>4, Zenon DEF AndUpTo

\* Half of a power of two is one.
LEMMA PowerOfTwo ==
  ASSUME NEW m \in Nat \ {0}, m + 1 \in PowersOfTwo
  PROVE  \E q \in Nat : m = 2 * q + 1 /\ q < m /\ q + 1 \in PowersOfTwo
<1>1. Segs \in Nat \ {0}
  BY MemoryMapAssumption
<1>2. m + 1 \in 1 .. Segs /\ \A d, e \in 1 .. m + 1 : m + 1 = d * e => d = 1 \/ d % 2 = 0
  BY DEF PowersOfTwo
<1>3. (m + 1) % 2 = 0
  <2>1. m + 1 \in 1 .. m + 1 /\ 1 \in 1 .. m + 1 /\ m + 1 = (m + 1) * 1 /\ m + 1 # 1
    BY SMT
  <2> QED BY <1>2, <2>1
<1>4. PICK h \in Nat : m + 1 = 2 * h
  BY <1>3, SMT
<1>5. h \in 1 .. Segs /\ h < m + 1
  BY <1>1, <1>2, <1>4, SMT
<1>6. ASSUME NEW d \in 1 .. h, NEW e \in 1 .. h, h = d * e
      PROVE  d = 1 \/ d % 2 = 0
  <2>1. 2 * e \in 1 .. m + 1 /\ d \in 1 .. m + 1
    BY <1>4, SMT
  <2>2. d * (2 * e) = 2 * (d * e)
    BY SMT
  <2>3. m + 1 = d * (2 * e)
    BY <1>4, <1>6, <2>2
  <2> QED BY <1>2, <2>1, <2>3
<1>7. h \in PowersOfTwo
  BY <1>5, <1>6 DEF PowersOfTwo
<1>8. h - 1 \in Nat /\ m = 2 * (h - 1) + 1 /\ h - 1 < m /\ (h - 1) + 1 = h
  BY <1>4, <1>5, SMT
<1> QED BY <1>7, <1>8

\* A mask that is all ones takes the remainder.
LEMMA AndRemainder ==
  ASSUME NEW x \in 0 .. Segs, NEW m \in 0 .. Segs, m + 1 \in PowersOfTwo
  PROVE  And[x][m] = x % (m + 1)
<1> DEFINE Remainder(n) == \A z \in 0 .. Segs : And[z][n] = z % (n + 1)
           T == {n \in 0 .. Segs : n + 1 \in PowersOfTwo /\ ~ Remainder(n)}
<1>0. Segs \in Nat
  BY MemoryMapAssumption
<1>1. T = {}
  <2> SUFFICES ASSUME T # {} PROVE FALSE
    OBVIOUS
  <2>1. PICK n \in T : \A k \in T : n <= k
    <3>1. T \in SUBSET Nat
      BY <1>0, SMT
    <3> HIDE DEF T
    <3> QED BY <3>1, Least
  <2>2. n \in 0 .. Segs /\ n + 1 \in PowersOfTwo /\ ~ Remainder(n)
    OBVIOUS
  <2>3. PICK z \in 0 .. Segs : And[z][n] # z % (n + 1)
    BY <2>2
  <2>4. And[z][n] = IF z = 0 \/ n = 0 THEN 0
                    ELSE (2 * And[z \div 2][n \div 2]) + ((z % 2) * (n % 2))
    BY <2>2, AndSolved DEF AndRow
  <2>5. z # 0 /\ n # 0
    <3>1. 0 % (n + 1) = 0 /\ (n = 0 => z % (n + 1) = 0)
      BY <1>0, SMT
    <3> QED BY <2>3, <2>4, <3>1
  <2>6. PICK q \in Nat : n = 2 * q + 1 /\ q < n /\ q + 1 \in PowersOfTwo
    BY <2>2, <2>5, <1>0, PowerOfTwo, SMT
  <2>7. n % 2 = 1 /\ n \div 2 = q /\ q \in 0 .. Segs /\ n + 1 = 2 * (q + 1) /\ ~ (n <= q)
    BY <2>6, <1>0, SMT
  <2>8. Remainder(q)
    BY <2>1, <2>6, <2>7
  <2>9. PICK h \in 0 .. Segs, b \in 0 .. 1 : z = 2 * h + b /\ z \div 2 = h /\ z % 2 = b
    BY Halves, <1>0, SMT
  <2>10. And[h][q] = h % (q + 1)
    BY <2>8
  <2>11. And[z][n] = (2 * (h % (q + 1))) + b
    <3>1. And[z][n] = (2 * And[h][q]) + (b * 1)
      BY <2>4, <2>5, <2>7, <2>9, Zenon
    <3>2. b * 1 = b
      BY SMT
    <3> QED BY <2>10, <3>1, <3>2
  <2>12. (2 * (h % (q + 1))) + b = z % (n + 1)
    <3>1. PICK k \in Nat, r \in 0 .. q : h = (q + 1) * k + r /\ h % (q + 1) = r
      <4>1. h \div (q + 1) \in Nat /\ h % (q + 1) \in 0 .. q /\ h = (q + 1) * (h \div (q + 1)) + (h % (q + 1))
        <5>1. q + 1 \in Nat \ {0} /\ h \in Nat /\ q = (q + 1) - 1
          BY <1>0, SMT
        <5> QED BY <5>1, Quotient
      <4> QED BY <4>1
    <3>2. 2 * r + b \in 0 .. n /\ n + 1 \in Nat \ {0}
      BY <2>7, <2>6, SMT
    <3>3. z = (n + 1) * k + (2 * r + b)
      <4>1. (2 * (q + 1)) * k = 2 * ((q + 1) * k)
        BY SMT
      <4>2. (q + 1) * k \in Nat /\ z = 2 * ((q + 1) * k + r) + b
        BY <2>9, <3>1, SMT
      <4> QED BY <2>7, <4>1, <4>2, SMT
    <3>4. ((n + 1) * k + (2 * r + b)) % (n + 1) = 2 * r + b
      <4>1. 2 * r + b \in 0 .. (n + 1) - 1
        BY <3>2, <2>6, SMT
      <4> QED BY <3>2, <4>1, Division
    <3> QED BY <3>1, <3>3, <3>4
  <2> QED BY <2>3, <2>11, <2>12
<1> QED BY <1>1
-----------------------------------------------------------------------------
LEMMA Sizes ==
  /\ Segs \in Nat \ {0} /\ SegSize \in Nat \ {0} /\ OnchipSize \in Nat \ {0}
  /\ OnchipSize <= SegSize
  /\ ExtSegs \in Nat \ {0} /\ RomSize \in Nat /\ ExtSize \in Nat
<1>1. {Segs, SegSize, RomSegs, ExtSegs, OnchipSize} \subseteq Nat \ {0}
  BY MemoryMapAssumption
<1> QED BY <1>1, MemoryMapAssumption, SMT DEF RomSize, ExtSize

\* An address is its segment and its offset there.
LEMMA Segments ==
  ASSUME NEW a \in Address
  PROVE  /\ Seg(a) \in 0 .. Segs /\ a % SegSize \in 0 .. SegSize - 1
         /\ a = SegSize * Seg(a) + (a % SegSize)
<1>1. a \in Nat /\ a < (Segs + 1) * SegSize /\ (Segs + 1) * SegSize \in Nat
  BY Sizes, SMT DEF Address
<1>2. Seg(a) \in Nat /\ a % SegSize \in 0 .. SegSize - 1 /\ a = SegSize * Seg(a) + (a % SegSize)
  BY <1>1, Sizes, Quotient DEF Seg
<1>3. Seg(a) <= Segs
  <2> SUFFICES ASSUME Seg(a) >= Segs + 1 PROVE FALSE
    BY <1>2, Sizes, SMT
  <2>1. SegSize * Seg(a) >= SegSize * (Segs + 1)
    BY <1>2, Sizes, SMT
  <2>2. SegSize * (Segs + 1) = (Segs + 1) * SegSize
    BY Sizes, SMT
  <2> QED BY <1>1, <1>2, <2>1, <2>2, Sizes, SMT
<1> QED BY <1>2, <1>3, Sizes, SMT

\* The invariant: every byte has its type, and the flash has the firmware until
\* the program has written to it.
FirmwareKept == patched \/ mem_rom = Mos

IInv == TypeOK /\ FirmwareKept

LEMMA InitIInv == Init => IInv
<1> SUFFICES ASSUME Init PROVE IInv
  OBVIOUS
<1>1. Segs - 1 \in 0 .. Segs - 1 /\ 0 \in 0 .. Segs - 1
  BY Sizes, SMT
<1>f. \A size, ones : Filled(size, ones) \in [0 .. size - 1 -> Bytes]
  BY MemoryMapAssumption DEF Filled
<1>2. /\ mem_external \in [0 .. ExtSize - 1 -> Bytes] /\ mem_internal \in [0 .. OnchipSize - 1 -> Bytes]
      /\ mem_out_of_bounds \in BOOLEAN
  BY <1>f DEF Init, RandomInit, ZeroInit
<1>3. mem_rom \in [0 .. RomSize - 1 -> Bytes]
  BY MemoryMapAssumption DEF Init
<1> QED BY <1>1, <1>2, <1>3 DEF Init, IInv, TypeOK, FirmwareKept

LEMMA PokeKeeps ==
  ASSUME IInv, NEW a \in Address, NEW v \in Bytes, poke(a, v)
  PROVE  IInv'
<1>1. /\ mem_rom' \in [0 .. RomSize - 1 -> Bytes] /\ mem_external' \in [0 .. ExtSize - 1 -> Bytes]
      /\ mem_internal' \in [0 .. OnchipSize - 1 -> Bytes]
  BY DEF IInv, TypeOK, poke
<1>2. {mem_out_of_bounds', patched'} \subseteq BOOLEAN
  BY Zenon DEF IInv, TypeOK, poke
<1>3. FirmwareKept'
  BY DEF IInv, FirmwareKept, poke
<1> QED BY <1>1, <1>2, <1>3 DEF IInv, TypeOK, poke, ports

LEMMA NextIInv == IInv /\ [Next]_vars => IInv'
<1> SUFFICES ASSUME IInv, [Next]_vars PROVE IInv'
  OBVIOUS
<1>1. CASE Poke
  BY <1>1, PokeKeeps DEF Poke
<1>2. ASSUME NEW a \in Address, Peek(a) PROVE IInv'
  BY <1>2 DEF Peek, IInv, TypeOK, FirmwareKept, memory, ports
<1>3. CASE Tick
  BY <1>3 DEF Tick, IInv, TypeOK, FirmwareKept, memory, ports
<1>4. CASE WritePort
  <2>1. FlashSegs \subseteq 0 .. Segs - 1 /\ OnchipSegs \subseteq 0 .. Segs - 1
        /\ Bounds \subseteq 0 .. Segs - 1
    BY MemoryMapAssumption
  <2> QED BY <1>4, <2>1, Zenon DEF WritePort, IInv, TypeOK, FirmwareKept, memory
<1>5. CASE UNCHANGED vars
  BY <1>5 DEF vars, IInv, TypeOK, FirmwareKept, memory, ports
<1> QED BY <1>1, <1>2, <1>3, <1>4, <1>5 DEF Next

\* Every byte of the memories and every port keeps its type.
THEOREM TypeCorrect == Spec => []TypeOK
<1>1. IInv => TypeOK
  BY DEF IInv
<1> QED BY InitIInv, NextIInv, <1>1, PTL DEF Spec

-----------------------------------------------------------------------------
\* The trap condition of execute_instruction asks for the place of the flash
\* and not for what is in front of it: what a trapped address executes is the
\* firmware's, but for the two exceptions stated.
THEOREM TrapsAreFirmware == Spec => []TrapMeansFirmware
<1>1. IInv => TrapMeansFirmware
  <2> SUFFICES ASSUME IInv, NEW pc \in Address, Traps(pc), ~ patched,
                      get_internal_ram_address(pc) = None
               PROVE  Read(pc) = Mos[pc]
    BY DEF TrapMeansFirmware
  <2>1. pc \in 0 .. RomSize - 1 /\ flash_addr_u = 0
    <3>1. mos_map \subseteq 0 .. RomSize - 1
      BY MemoryMapAssumption
    <3> QED BY <3>1 DEF Traps
  <2>2. FlashBase = 0
    BY <2>1, Sizes, SMT DEF FlashBase
  <2>3. get_rom_address(pc) = [mem |-> "rom", at |-> pc]
    BY <2>1, <2>2, Sizes, SMT DEF get_rom_address
  <2>4. Cell(pc) = [mem |-> "rom", at |-> pc]
    BY <2>3 DEF Cell, None
  <2> QED BY <2>4 DEF Read, IInv, FirmwareKept
<1> QED BY InitIInv, NextIInv, <1>1, PTL DEF Spec
-----------------------------------------------------------------------------
InRange(a) == Seg(a) \in cs0_lbr .. cs0_ubr

\* How many segments the chip select has.
Span == (cs0_ubr - cs0_lbr) + 1

LEMMA RegularSpan ==
  ASSUME TypeOK, Regular
  PROVE  /\ Span \in Nat \ {0} /\ Span <= ExtSegs
         /\ Mask \in 0 .. Segs /\ Mask + 1 = Span /\ Span \in PowersOfTwo
<1>1. cs0_ubr \in 0 .. Segs - 1 /\ cs0_lbr \in 0 .. Segs - 1 /\ cs0_ubr >= cs0_lbr
  BY DEF TypeOK, Regular
<1> DEFINE r == cs0_ubr - cs0_lbr
<1>2. r \in 0 .. Segs - 1 /\ cs0_ubr + Segs - cs0_lbr = Segs * 1 + r
  BY <1>1, Sizes, SMT
<1>3. (Segs * 1 + r) % Segs = r
  <2> HIDE DEF r
  <2> QED BY <1>2, Sizes, Division
<1> QED BY <1>2, <1>3, Sizes, SMT DEF Mask, Span, Regular

\* Where a regular range puts an address.
LEMMA ExternalOffset ==
  ASSUME TypeOK, Regular, NEW a \in Address, InRange(a)
  PROVE  LET at == (Seg(a) % Span) * SegSize + (a % SegSize)
         IN  /\ at \in 0 .. ExtSize - 1
             /\ get_external_ram_address(a) = [mem |-> "external", at |-> at]
<1> DEFINE s == Seg(a) % Span
           o == a % SegSize
<1>1. And[Seg(a)][Mask] = s
  BY Segments, RegularSpan, AndRemainder
<1>2. s \in 0 .. Span - 1 /\ o \in 0 .. SegSize - 1
  <2>1. Seg(a) \in Nat
    BY Segments, Sizes, SMT
  <2> QED BY <2>1, Segments, RegularSpan, Quotient
<1> HIDE DEF s, o
<1>3. s * SegSize + o \in 0 .. ExtSize - 1
  <2>1. s \in Nat /\ s + 1 <= ExtSegs /\ o \in Nat /\ o < SegSize
    BY <1>2, RegularSpan, Sizes, SMT
  <2>2. (s + 1) * SegSize <= ExtSegs * SegSize
    BY <2>1, Sizes, SMT
  <2>3. (s + 1) * SegSize = s * SegSize + SegSize /\ s * SegSize \in Nat
    BY <2>1, Sizes, SMT
  <2> QED BY <2>1, <2>2, <2>3, Sizes, SMT DEF ExtSize
<1>4. s * SegSize + o < ExtSize
  BY <1>3, Sizes, SMT
<1> QED BY <1>1, <1>3, <1>4 DEF get_external_ram_address, InRange, s, o

\* No two addresses of a regular range have the same place.
LEMMA ExternalInjective ==
  ASSUME TypeOK, Regular, NEW a \in Address, NEW b \in Address, InRange(a), InRange(b),
         (Seg(a) % Span) * SegSize + (a % SegSize) = (Seg(b) % Span) * SegSize + (b % SegSize)
  PROVE  a = b
<1>1. /\ Seg(a) \in Nat /\ Seg(b) \in Nat
      /\ a % SegSize \in 0 .. SegSize - 1 /\ b % SegSize \in 0 .. SegSize - 1
      /\ a = SegSize * Seg(a) + (a % SegSize) /\ b = SegSize * Seg(b) + (b % SegSize)
  BY Segments, Sizes, SMT
<1>2. Seg(a) \in cs0_lbr .. cs0_ubr /\ Seg(b) \in cs0_lbr .. cs0_ubr
  BY DEF InRange
<1>3. Span \in Nat \ {0} /\ cs0_lbr \in Nat /\ cs0_ubr \in Nat
  BY RegularSpan, Sizes, SMT DEF TypeOK
<1>4. /\ Seg(a) % Span \in 0 .. Span - 1 /\ Seg(a) \div Span \in Nat
      /\ Seg(a) = Span * (Seg(a) \div Span) + (Seg(a) % Span)
      /\ Seg(b) % Span \in 0 .. Span - 1 /\ Seg(b) \div Span \in Nat
      /\ Seg(b) = Span * (Seg(b) \div Span) + (Seg(b) % Span)
  BY <1>1, <1>3, Quotient
<1>5. Seg(a) % Span = Seg(b) % Span /\ a % SegSize = b % SegSize
  <2>1. ASSUME NEW m \in Nat, NEW n \in Nat, NEW o \in 0 .. SegSize - 1, NEW p \in 0 .. SegSize - 1,
               m * SegSize + o = n * SegSize + p
        PROVE  m = n /\ o = p
    <3>1. m * SegSize = SegSize * m /\ n * SegSize = SegSize * n
      BY Sizes, SMT
    <3>2. SegSize * m + o = SegSize * n + p
      BY <2>1, <3>1
    <3> QED BY <3>2, Sizes, Division
  <2>2. Seg(a) % Span \in Nat /\ Seg(b) % Span \in Nat
    BY <1>3, <1>4, SMT
  <2> QED BY <1>1, <2>1, <2>2
<1>6. Seg(a) = Seg(b)
  <2>1. PICK i \in Nat, j \in Nat, r \in 0 .. Span - 1 :
          Seg(a) = Span * i + r /\ Seg(b) = Span * j + r
    BY <1>4, <1>5
  <2>2. Seg(a) < Seg(b) + Span /\ Seg(b) < Seg(a) + Span
    BY <1>1, <1>2, <1>3, SMT DEF Span
  <2>3. Span * i \in Nat /\ Span * j \in Nat
    BY <1>3, SMT
  <2>4. CASE i < j
    <3>1. Span * j >= Span * (i + 1) /\ Span * (i + 1) = Span * i + Span
      BY <1>3, <2>4, SMT
    <3> QED BY <2>1, <2>2, <2>3, <3>1, <1>3, SMT
  <2>5. CASE j < i
    <3>1. Span * i >= Span * (j + 1) /\ Span * (j + 1) = Span * j + Span
      BY <1>3, <2>5, SMT
    <3> QED BY <2>1, <2>2, <2>3, <3>1, <1>3, SMT
  <2> QED BY <2>1, <2>4, <2>5, SMT
<1> QED BY <1>1, <1>5, <1>6

\* The mask of the chip select loses nothing: the RAM behind a regular range is
\* there at every address of it, once.
THEOREM WholeRam == Spec => []RamIsWhole
<1>1. TypeOK => RamIsWhole
  <2> SUFFICES ASSUME TypeOK, Regular PROVE RamIsWhole
    BY DEF RamIsWhole
  <2> DEFINE range == {a \in Address : Seg(a) \in cs0_lbr .. cs0_ubr}
             at    == [a \in range |-> get_external_ram_address(a)]
             image == {at[a] : a \in range}
  <2>1. ASSUME NEW a \in range PROVE at[a] # None
    BY ExternalOffset DEF InRange, None
  <2>2. ASSUME NEW a \in range, NEW b \in range, at[a] = at[b] PROVE a = b
    <3>1. a \in Address /\ b \in Address /\ InRange(a) /\ InRange(b)
      BY DEF InRange
    <3> DEFINE off(c) == (Seg(c) % Span) * SegSize + (c % SegSize)
    <3>2. at[a] = [mem |-> "external", at |-> off(a)] /\ at[b] = [mem |-> "external", at |-> off(b)]
      BY <3>1, ExternalOffset
    <3>3. off(a) = off(b)
      BY <2>2, <3>2
    <3> QED BY <3>1, <3>3, ExternalInjective
  <2>3. IsFiniteSet(range)
    <3>1. (Segs + 1) * SegSize - 1 \in Int
      BY Sizes, SMT
    <3>2. IsFiniteSet(Address)
      BY <3>1, FS_Interval DEF Address
    <3>3. range \in SUBSET Address
      OBVIOUS
    <3> HIDE DEF range
    <3> QED BY <3>2, <3>3, FS_Subset
  <2>4. at \in Bijection(range, image)
    <3>1. at \in [range -> image] /\ (\A a, b \in range : at[a] = at[b] => a = b)
          /\ (\A t \in image : \E s \in range : at[s] = t)
      BY <2>2
    <3> HIDE DEF range, at, image
    <3> QED BY <3>1 DEF Bijection, Injection, Surjection, IsInjective
  <2>5. Cardinality(image) = Cardinality(range)
    <3> HIDE DEF range, at, image
    <3> QED BY <2>3, <2>4, FS_Bijection DEF ExistsBijection
  <2> QED BY <2>1, <2>5 DEF RamIsWhole
<1> QED BY TypeCorrect, <1>1, PTL
-----------------------------------------------------------------------------
\* The places Cell can name, and the address that goes with each.
OnchipCell(a)   == [mem |-> "onchip", at |-> a - OnchipBase]
RomCell(a)      == [mem |-> "rom", at |-> a - FlashBase]
ExternalCell(a) == [mem |-> "external", at |-> (Seg(a) % Span) * SegSize + (a % SegSize)]

CellCases(a) ==
  \/ Cell(a) = None
  \/ Cell(a) = OnchipCell(a) /\ Cell(a).at \in 0 .. OnchipSize - 1
  \/ Cell(a) = RomCell(a) /\ Cell(a).at \in 0 .. RomSize - 1
  \/ Cell(a) = ExternalCell(a) /\ Cell(a).at \in 0 .. ExtSize - 1 /\ InRange(a)

LEMMA Bases == TypeOK => OnchipBase \in Nat /\ FlashBase \in Nat
<1> SUFFICES ASSUME TypeOK PROVE OnchipBase \in Nat /\ FlashBase \in Nat
  OBVIOUS
<1>1. onchip_mem_segment \in Nat /\ flash_addr_u \in Nat
  BY Sizes, SMT DEF TypeOK
<1>2. onchip_mem_segment * SegSize \in Nat /\ flash_addr_u * SegSize \in Nat
  BY <1>1, Sizes, SMT
<1> QED BY <1>2, Sizes, SMT DEF OnchipBase, FlashBase

LEMMA CellType == ASSUME TypeOK, Regular, NEW a \in Address PROVE CellCases(a)
<1>1. a \in Nat
  BY Sizes, SMT DEF Address
<1>2. CASE get_internal_ram_address(a) # None
  <2>1. a \in OnchipBase .. OnchipBase + OnchipSize - 1 /\ get_internal_ram_address(a) = OnchipCell(a)
    BY <1>2 DEF get_internal_ram_address, OnchipCell
  <2>2. a - OnchipBase \in 0 .. OnchipSize - 1
    BY <1>1, <2>1, Bases, Sizes, SMT
  <2>3. Cell(a) = OnchipCell(a)
    BY <1>2, <2>1 DEF Cell
  <2> QED BY <2>2, <2>3 DEF CellCases, OnchipCell
<1>3. CASE get_internal_ram_address(a) = None /\ get_rom_address(a) # None
  <2>1. a \in FlashBase .. FlashBase + RomSize - 1 /\ get_rom_address(a) = RomCell(a)
    BY <1>3 DEF get_rom_address, RomCell
  <2>2. a - FlashBase \in 0 .. RomSize - 1
    BY <1>1, <2>1, Bases, Sizes, SMT
  <2>3. Cell(a) = RomCell(a)
    BY <1>3, <2>1 DEF Cell
  <2> QED BY <2>2, <2>3 DEF CellCases, RomCell
<1>4. CASE get_internal_ram_address(a) = None /\ get_rom_address(a) = None
  <2>1. Cell(a) = get_external_ram_address(a)
    BY <1>4 DEF Cell
  <2>2. CASE InRange(a)
    BY <2>1, <2>2, ExternalOffset DEF CellCases, ExternalCell
  <2>3. CASE ~ InRange(a)
    BY <2>1, <2>3 DEF CellCases, InRange, get_external_ram_address
  <2> QED BY <2>2, <2>3
<1> QED BY <1>2, <1>3, <1>4

\* Two addresses never share a byte.
LEMMA CellInjective ==
  ASSUME TypeOK, Regular, NEW a \in Address, NEW b \in Address,
         Cell(a) # None, Cell(a) = Cell(b)
  PROVE  a = b
<1>1. a \in Nat /\ b \in Nat
  BY Sizes, SMT DEF Address
<1>2. CASE Cell(a).mem = "onchip"
  <2>1. Cell(a).at = a - OnchipBase /\ Cell(b).at = b - OnchipBase
    BY <1>2, CellType DEF CellCases, OnchipCell, RomCell, ExternalCell, None
  <2>2. a - OnchipBase = b - OnchipBase
    BY <2>1
  <2> QED BY <2>2, <1>1, Bases, SMT
<1>3. CASE Cell(a).mem = "rom"
  <2>1. Cell(a).at = a - FlashBase /\ Cell(b).at = b - FlashBase
    BY <1>3, CellType DEF CellCases, OnchipCell, RomCell, ExternalCell, None
  <2>2. a - FlashBase = b - FlashBase
    BY <2>1
  <2> QED BY <2>2, <1>1, Bases, SMT
<1>4. CASE Cell(a).mem = "external"
  <2> DEFINE off(c) == (Seg(c) % Span) * SegSize + (c % SegSize)
  <2>1. Cell(a).at = off(a) /\ Cell(b).at = off(b) /\ InRange(a) /\ InRange(b)
    BY <1>4, CellType DEF CellCases, OnchipCell, RomCell, ExternalCell, None
  <2>2. off(a) = off(b)
    BY <2>1
  <2> QED BY <2>1, <2>2, ExternalInjective
<1> QED BY <1>2, <1>3, <1>4, CellType DEF CellCases, OnchipCell, RomCell, ExternalCell

LEMMA SamePorts == ASSUME UNCHANGED ports PROVE \A a : Cell(a)' = Cell(a)
<1> SUFFICES ASSUME NEW a PROVE Cell(a)' = Cell(a)
  OBVIOUS
<1>1. /\ onchip_mem_enable' = onchip_mem_enable /\ onchip_mem_segment' = onchip_mem_segment
      /\ flash_addr_u' = flash_addr_u /\ cs0_lbr' = cs0_lbr /\ cs0_ubr' = cs0_ubr
  BY DEF ports
<1>2. /\ get_internal_ram_address(a)' = get_internal_ram_address(a)
      /\ get_rom_address(a)' = get_rom_address(a)
      /\ get_external_ram_address(a)' = get_external_ram_address(a)
  BY <1>1, Zenon DEF get_internal_ram_address, get_rom_address, get_external_ram_address,
                     OnchipBase, FlashBase, Mask
<1> QED BY <1>2 DEF Cell

\* A store goes to one place, which is that of one address: it is read back
\* there, and no other address sees it.
LEMMA PokeLocal ==
  ASSUME TypeOK, Regular, NEW a \in Address, NEW v \in Bytes, poke(a, v), memory' # memory
  PROVE  Read(a)' = v /\ \A b \in Address \ {a} : Read(b)' = Read(b)
<1> DEFINE c == Cell(a)
<1>1. \A b : Cell(b)' = Cell(b)
  BY SamePorts DEF poke
<1>2. /\ mem_internal' = IF c.mem = "onchip" THEN [mem_internal EXCEPT ![c.at] = v] ELSE mem_internal
      /\ mem_rom' = IF c.mem = "rom" THEN [mem_rom EXCEPT ![c.at] = v] ELSE mem_rom
      /\ mem_external' = IF c.mem = "external" THEN [mem_external EXCEPT ![c.at] = v] ELSE mem_external
  BY DEF poke, Poked
<1>3. c # None
  <2> SUFFICES ASSUME c = None PROVE memory' = memory
    OBVIOUS
  <2>1. c.mem # "onchip" /\ c.mem # "rom" /\ c.mem # "external"
    BY DEF None
  <2> QED BY <1>2, <2>1 DEF memory
<1>4. /\ DOMAIN mem_internal = 0 .. OnchipSize - 1 /\ DOMAIN mem_rom = 0 .. RomSize - 1
      /\ DOMAIN mem_external = 0 .. ExtSize - 1
  BY DEF TypeOK
<1>5. \/ c.mem = "onchip" /\ c.at \in 0 .. OnchipSize - 1
      \/ c.mem = "rom" /\ c.at \in 0 .. RomSize - 1
      \/ c.mem = "external" /\ c.at \in 0 .. ExtSize - 1
  BY <1>3, CellType DEF CellCases, OnchipCell, RomCell, ExternalCell
<1>6. Read(a)' = v
  <2>1. Read(a)' = CASE c.mem = "onchip" -> mem_internal'[c.at] [] c.mem = "rom" -> mem_rom'[c.at]
                     [] c.mem = "external" -> mem_external'[c.at] [] OTHER -> 245
    BY <1>1 DEF Read
  <2> HIDE DEF c
  <2> QED BY <2>1, <1>2, <1>4, <1>5
<1>7. ASSUME NEW b \in Address \ {a} PROVE Read(b)' = Read(b)
  <2> DEFINE d == Cell(b)
  <2>1. d # c
    BY <1>3, <1>7, CellInjective
  <2>2. /\ Read(b)' = CASE d.mem = "onchip" -> mem_internal'[d.at] [] d.mem = "rom" -> mem_rom'[d.at]
                        [] d.mem = "external" -> mem_external'[d.at] [] OTHER -> 245
        /\ Read(b) = CASE d.mem = "onchip" -> mem_internal[d.at] [] d.mem = "rom" -> mem_rom[d.at]
                       [] d.mem = "external" -> mem_external[d.at] [] OTHER -> 245
    BY <1>1 DEF Read
  <2>3. d.mem = c.mem => d.at # c.at
    <3>1. \A e \in {c, d} : e = [mem |-> e.mem, at |-> e.at]
      BY CellType DEF CellCases, OnchipCell, RomCell, ExternalCell, None
    <3> HIDE DEF c, d
    <3> QED BY <3>1, <2>1
  <2> HIDE DEF c, d
  <2> QED BY <2>2, <2>3, <1>2, <1>4
<1> QED BY <1>6, <1>7

THEOREM StoresAreLocal == Spec => PokeIsLocal
<1>1. TypeOK => [Regular => \A a \in Address, v \in Bytes :
                   poke(a, v) => Read(a)' = v /\ \A b \in Address \ {a} : Read(b)' = Read(b)]_memory
  BY PokeLocal
<1> QED BY TypeCorrect, <1>1, PTL DEF PokeIsLocal
=============================================================================
