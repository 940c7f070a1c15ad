SPECIFICATION WorkerFairSpec
CONSTANTS
    Details = {d1}
    Models = {m1}
    Nothing = Nothing
    MaxReports = 6
INVARIANTS
    ShowsAMoment
    QuietIsCurrent
PROPERTIES
    IsSessionMirror
    ShownInTheEnd
CHECK_DEADLOCK FALSE
