CONSTANTS
    MaxRuns = 2
    MaxTasks = 2
    MaxHasty = 1
    None = None
SPECIFICATION Spec
INVARIANT OneClientAtATime
CHECK_DEADLOCK FALSE
