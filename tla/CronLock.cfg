SPECIFICATION FairSpec
CONSTANTS
  Sessions = {s1, s2, s3}
  None = None
  Hidden = {s3}
  MaxProcesses = 2
INVARIANTS
  OneOwnerUnlessRobbed
PROPERTIES
  SomeoneOwns
CHECK_DEADLOCK FALSE
