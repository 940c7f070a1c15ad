SPECIFICATION FairSpec
CONSTANTS
  m1 = m1
  m2 = m2
  m3 = m3
  Messages = {m1, m2, m3}
  Marks = {k1, k2}
  Kind <- Kinds
  None = None
  Dead = Dead
  Readers = {"session", "headless", "teammate"}
  GivesUp = TRUE
  MaxCrashes = 1
INVARIANTS
  WrittenStay
  ProtocolIsHandled
PROPERTIES
  EachIsRead
CHECK_DEADLOCK FALSE
