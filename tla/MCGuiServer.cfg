CONSTANTS
    MaxRuns = 2
    MaxTasks = 2
    MaxHasty = 1
    None = None
SPECIFICATION Spec
INVARIANTS
    ConnectionAndChannelMatch
    StoppedServesNobody
    WindowTellsTheTruth
PROPERTIES
    WoundUpForCause
    StopEndsSession
CHECK_DEADLOCK FALSE
