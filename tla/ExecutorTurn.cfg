SPECIFICATION Spec
CONSTANTS
  MaxTools = 3
  MaxAttempts = 1
  MaxProgress = 1
  NowMessages = FALSE
  Kinds <- TurnKinds
INVARIANTS
  ExclusiveAccess
  NoOvertaking
  OneResultPerTool
  NoLostWakeup
  AllResultsDelivered
PROPERTIES
  InterruptSparesBlocking
