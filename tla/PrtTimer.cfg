CONSTANTS
  ByteSize = 2
  ClkDiv <- MCClkDiv
  CtlWrites <- MCCtlWrites
  Ticks = {0, 1, 2}
  MaxElapsed = 6
SPECIFICATION FairSpec
INVARIANTS OneShotFiresOnce ExpiryPending TicksPaidFor NeverEarly
PROPERTIES TornFreeRead SinglePassExpires
