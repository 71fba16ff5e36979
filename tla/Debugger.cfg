SPECIFICATION Spec
CONSTANTS
  Program <- MCProgram
  DebugCmd <- MCDebugCmd
  Trigger <- MCTrigger
  Handler = 5
  Interrupts = TRUE
  MaxTriggers = 2
  MaxCmds = 2
  Bottom = 0
INVARIANTS ToldPausedIsPaused BlameIsRight
PROPERTIES BreakpointsStop StepOverStops
