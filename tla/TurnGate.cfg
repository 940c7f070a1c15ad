SPECIFICATION FairSpec
CONSTANTS
  MaxCommands = 3
  MaxCancels = 1
  Typed <- TypedKinds
  Posted <- PostedKinds
  Incomings <- IncomingKinds
  Outcomes <- AllOutcomes
INVARIANTS
  TypeOK
  GuardIsHeld
  NothingLost
  OneChainUntilCancel
PROPERTIES
  QueueServed
CHECK_DEADLOCK FALSE
