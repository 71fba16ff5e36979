SPECIFICATION FairSpec
CONSTANTS
  Bytes <- MCBytes
  AddrBytes = 1
  SectorLen = 4
  Targets <- MCTargets
  Payloads <- MCPayloads
  IoOutcomes <- MayFail
  MaxResets = 1
  MaxBacklog = 4
INVARIANTS BufferBounded Synchronised
PROPERTIES ImplementsBlockDevice EveryCommandEnds
CHECK_DEADLOCK FALSE
