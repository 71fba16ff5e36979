SPECIFICATION Spec
CONSTANTS
  Name = {"a", "B", "b"}
  Lower <- MCLower
  Fils = {f1, f2}
  Dirs = {1}
  Inodes = {1, 2, 3, 4, 5}
  Bytes = {0, 1}
  Chars = {1}
  Strings <- MCStrings
  Modes <- MCModes
  Lengths = {0, 1}
  Texts <- MCTexts
  WordSize = 2
  HostTree <- MCTree
  HostContent <- MCContent
  MaxNodes = 3
  MaxLen = 1
SYMMETRY FilSymmetry
INVARIANTS PathsFound
PROPERTIES NoTwinMade FptrTracksPosition ImplementsFileStore
