SPECIFICATION FairSpec
CONSTANTS
    States <- MCStates
    InitialState = 0
    Actions <- MCActions
    Props <- MCProps
    RenderPhaseUpdate <- MCRenderPhaseUpdate
    Times <- MCTimes
    Sync = 3
    MaxUpdates = 3
    MaxParentUpdates = 1
    MaxDiscards = 1
INVARIANTS
    NothingIsForgotten
    EffectsFollowState
    ScreenShowsState
PROPERTY EveryUpdateIsShown
CHECK_DEADLOCK FALSE
