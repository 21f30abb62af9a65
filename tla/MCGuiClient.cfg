CONSTANTS
    MaxConnections = 2
    MaxTasks = 2
    None = None
SPECIFICATION Spec
INVARIANTS
    SocketAndChannelMatch
    NoSocketLeaks
    WindowTellsTheTruth
PROPERTIES
    TornDownForCause
    NothingStaysPending
CHECK_DEADLOCK FALSE
