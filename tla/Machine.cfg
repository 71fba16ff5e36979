SPECIFICATION FairSpec
CONSTANTS
  NTimers = 1
  Pins = {1}
  EdgePins <- VsyncAndJoystick
  ByteSize = 2
  ClkDiv <- MCClkDiv
  Bytes = {7}
  FifoSize = 1
  FrameClocks = 1
  IrqEvery = 2
  ResetEvery = 4
  Ticks = {1}
  Reload = 2
  CtlWrites <- OneCtl
  Iff <- On
  Ier <- RxAndTx
  MaxRx = 1
INVARIANTS ResetPrompt SnapshotStillDue
PROPERTIES NoSpuriousEntry HighestFirst VsyncServed ResetMade
