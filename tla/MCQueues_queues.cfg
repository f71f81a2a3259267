SPECIFICATION PartSpec
CONSTANTS
    Ids <- SomeIds
    Keys <- SomeKeys
    Null = Null
    MaxCallbacks = 5
    Capacity = 1
    MaxRows = 4
    MaxSuspensions = 1
INVARIANTS
    StartedOnceInOrder
    NobodyIsStranded
    RowsAreAccounted
    ClientSeesModel
PROPERTIES
    ImplementsPriorityQueue
    EveryCallbackRuns
    EveryResponseEnds
CHECK_DEADLOCK FALSE
