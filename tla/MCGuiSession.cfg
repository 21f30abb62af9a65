CONSTANTS
    MaxConnections = 1
    MaxRuns = 1
    MaxClientTasks = 1
    MaxServerTasks = 1
    None = None
SPECIFICATION Spec
INVARIANT WindowsAgree
PROPERTY SessionsEndTogether
CHECK_DEADLOCK FALSE
