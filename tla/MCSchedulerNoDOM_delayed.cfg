SPECIFICATION FairSpec
CONSTANTS
    MaxTasks = 2
    MaxTime = 2
    MaxPauses = 0
    Delays <- SomeDelays
    Timeouts <- SomeTimeouts
    enableSchedulerDebugging = FALSE
PROPERTIES
    EveryTaskIsCalled
CHECK_DEADLOCK FALSE
