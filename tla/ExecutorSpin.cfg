SPECIFICATION FairSpec
CONSTANTS
  MaxTools = 2
  MaxAttempts = 1
  MaxProgress = 0
  NowMessages = FALSE
  Kinds <- EditAndUnknown
PROPERTIES
  TurnEnds
