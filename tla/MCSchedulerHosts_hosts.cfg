SPECIFICATION ForkSpec
CONSTANTS
    MaxTasks = 2
    MaxTime = 2
    MaxPauses = 0
    MaxYields = 2
    AdvanceInCallbacks = FALSE
    FallbackTasks = 2
    FallbackPauses = 1
    Delays <- SomeDelays
    Timeouts <- SomeTimeouts
    enableSchedulerDebugging = FALSE
INVARIANTS
    FallbackLosesNoWork
    MockLosesNoWork
PROPERTIES
    FallbackCallsReadyTasks
    FlushAllRunsAllDue
CHECK_DEADLOCK FALSE
