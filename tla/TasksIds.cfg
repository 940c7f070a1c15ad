SPECIFICATION FairSpec
CONSTANTS
  Callers = {c1, c2}
  Agents = {a}
  None = None
  MaxId = 4
  MaxCalls = 2
  MaxCrashes = 1
  GivesUp = FALSE
  InitialTasks <- OneTask
  Operations = {"busyClaim", "create", "reset", "start", "hideTimer", "update"}
  Changes <- Completion
INVARIANTS
  UniqueIds
PROPERTIES
  CallsReturn
