SPECIFICATION Spec
CONSTANTS
  Segs = 8
  SegSize = 2
  RomSegs = 2
  ExtSegs = 4
  OnchipSize = 1
  Bytes = {0, 1}
  Mos <- MCMos
  mos_map = {1, 2}
  FlashSegs = {0, 3, 7}
  OnchipSegs = {0, 3, 7}
  Bounds = {0, 1, 2, 3, 4, 5, 6, 7}
  InitRange = {4, 5, 6, 7, 8, 9, 10, 11}
  MaxDirty = 1
INVARIANTS RamIsWhole TrapMeansFirmware
PROPERTIES PokeIsLocal
