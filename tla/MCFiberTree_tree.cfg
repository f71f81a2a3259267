SPECIFICATION Spec
CONSTANTS
    Apps <- Applications
    Trees <- MCTrees
    RenderedTwice <- TwiceRendered
    Folded <- FoldedApplications
    FilterChoices <- MCFilters
    MaxInFlight <- MessagesInFlight
    MaxId = 32
    FoldsHidden = FALSE
INVARIANTS
    HostShowsTree
    StoreMirrorsTree
    RowsAreCounted
    OnlyMovesWhatMust
    KeyedChildrenKeepTheirState
    UnmountedOnce
CHECK_DEADLOCK FALSE
