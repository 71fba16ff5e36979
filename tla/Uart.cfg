CONSTANTS
  Bytes = {b1, b2}
  ByteSize = 2
  FifoSize = 2
  FrameClocks = 1
  Ticks = {1, 2}
  Ier <- EnableBoth
  MaxRx = 2
  MaxTx = 3
SPECIFICATION FairSpec
INVARIANTS RxConserved ReadyIsKept TxConserved PoliteNeverDropped
PROPERTIES BaudRespected AllTransmitted
