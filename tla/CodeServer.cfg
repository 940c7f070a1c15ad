SPECIFICATION FairSpec
CONSTANTS
  Events = {e}
  Requests = {r}
  Children = {c1, c2}
  None = None
  MaxLines = 2
  MaxHandlers = 2
  MaxRestarts = 1
INVARIANTS
  OneExecution
PROPERTIES
  ProcessedForever
  EventServed
