SPECIFICATION Spec
CONSTANTS
  Program <- MCProgram
  DebugCmd <- MCDebugCmd
  Trigger <- MCTrigger
  Handler = 5
  Interrupts = FALSE
  MaxTriggers = 1
  MaxCmds = 1
  Bottom = 0
PROPERTY TickedBeforeExecuted
