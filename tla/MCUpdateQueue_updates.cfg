SPECIFICATION FairSpec
CONSTANTS
    Times <- MCTimes
    Sync = 3
    MaxUpdates = 3
    MaxCaptures = 1
    MaxNodes = 9
    Nested = TRUE
INVARIANTS
    AllUpdatesKept
    RemainingWorkIsMarked
    CallbacksWithTheirUpdate
PROPERTIES
    ImplementsUpdateLog
    EveryUpdateIsShown
