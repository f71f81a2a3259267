SPECIFICATION Spec
CONSTANTS
    a = a
    b = b
    c = c
    Updates = {a, b, c}
    Suspending <- OneWaits
    Levels <- TwoLevels
    Sync = 8
    MaxErrors = 0
    LoadingDelays = TRUE
INVARIANTS
    AllWorkIsScheduled
CHECK_DEADLOCK FALSE
