---------------------------- MODULE MCSpiSdcard ----------------------------
EXTENDS SpiSdcard

\* The bytes the driver and the card exchange, and those of the payloads.
MCBytes == Commands \union {0, 1, 5, 254, 255}

\* The dummy, the token and a command are data here; with the blank sector there
\* are sectors to tear.
MCPayloads == {<<255, 254, CMD17, 1>>, Blank}

MCTargets    == {<<0>>, <<254>>}
Target255    == {<<0>>, <<255>>}
Works        == {SectorLen}

\* An access may fail at once or half-way.
MayFail      == {0, 2, SectorLen}
=============================================================================
