SPECIFICATION LinkSpec
CONSTANTS
  Others <- MCOthers
  MaxPackets = 3
  MaxResets = 2
  MaxLines = 1
CHECK_DEADLOCK FALSE
INVARIANTS AnswersFollowPolls
PROPERTIES EveryPollAnswered VsyncGoesOn
