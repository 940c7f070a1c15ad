SPECIFICATION FairSpec
CONSTANTS
  MaxTools = 3
  MaxAttempts = 2
  MaxProgress = 0
  NowMessages = TRUE
  Kinds <- KnownKinds
INVARIANTS
  ExclusiveResultsInOrder
PROPERTIES
  CancelledToolsStop
  TurnEnds
