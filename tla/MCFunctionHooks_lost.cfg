SPECIFICATION Spec
CONSTANTS
    States <- MCStates
    InitialState = 0
    Actions <- MCActions
    Props <- MCProps
    RenderPhaseUpdate <- MCRenderPhaseUpdate
    Times <- MCTimes
    Sync = 3
    MaxUpdates = 2
    MaxParentUpdates = 2
    MaxDiscards = 0
INVARIANT SkippedUpdatesAreMarked
CHECK_DEADLOCK FALSE
