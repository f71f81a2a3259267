SPECIFICATION FairSpec
CONSTANTS
    a = a
    b = b
    c = c
    Updates = {a, b}
    Suspending <- OneWaits
    Levels <- ThreeLevels
    Sync = 8
    MaxErrors = 1
    LoadingDelays = FALSE
INVARIANTS
    TypeOK
    FirstPendingIsHighest
    CallbackIsAlive
    AllWorkIsScheduled
PROPERTIES
    NothingIsUnshown
    EveryUpdateIsShown
CHECK_DEADLOCK FALSE
