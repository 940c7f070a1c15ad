SPECIFICATION Spec
CONSTANTS
  Callers = {c1, c2}
  Agents = {a, b}
  None = None
  MaxId = 2
  MaxCalls = 2
  MaxCrashes = 1
  GivesUp = TRUE
  InitialTasks <- Chain
  Operations = {"claim", "update", "unassign", "delete", "block"}
  Changes <- Completion
SYMMETRY CallSymmetry
INVARIANTS
  TypeOK
  NoLostUpdate
PROPERTIES
  ClaimExclusive
