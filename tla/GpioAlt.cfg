CONSTANTS
  Pins = {0, 1}
  VsyncPin = 1
SPECIFICATION Spec
PROPERTY AltDropsModifiedOnly
