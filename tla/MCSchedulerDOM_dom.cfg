SPECIFICATION FairSpec
CONSTANTS
    MaxTasks = 2
    MaxTime = 3
    MaxPauses = 1
    Delays <- SomeDelays
    Timeouts <- SomeTimeouts
    YieldInterval = 1
    enableSchedulerDebugging = TRUE
INVARIANTS
    MessageLoop
    NoLostWork
    NoLateTimer
    QueuesPartitionLiveTasks
PROPERTIES
    NothingExpiredAtYield
    ImplementsTaskPool
    EveryTaskIsCalledUnlessPaused
    LoopEnds
CHECK_DEADLOCK FALSE
