SPECIFICATION Spec
CONSTANTS
    Times <- MCTimes
    Sync = 3
    MaxUpdates = 3
    MaxCaptures = 1
    MaxNodes = 6
    Nested = FALSE
INVARIANTS
    UpdatesSurviveDiscards
