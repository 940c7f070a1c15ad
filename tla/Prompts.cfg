SPECIFICATION FairSpec
CONSTANTS
    Tools = {t1, t2}
    NoTool = NoTool
    WithHooks = TRUE
    MaxResolved = 2
    MaxCopies = 2
    MaxCrashes = 1
INVARIANTS
    TypeOK
    OneResult
    PromptIsShown
PROPERTIES
    TurnEnds
CHECK_DEADLOCK FALSE
