SPECIFICATION Spec
CONSTANTS
  Bytes <- MCBytes
  AddrBytes = 1
  SectorLen = 4
  Targets <- Target255
  Payloads <- MCPayloads
  IoOutcomes <- Works
  MaxResets = 0
  MaxBacklog = 0
INVARIANT OnlyInitBytesIgnored
