SPECIFICATION Spec
CONSTANTS
    Apps = {"suspending"}
    Trees <- MCTrees
    RenderedTwice = {}
    Folded = {}
    FilterChoices <- FilterSuspense
    MaxInFlight <- MessagesInFlight
    MaxId = 32
    FoldsHidden = FALSE
INVARIANT StoreMirrorsTree
CHECK_DEADLOCK FALSE
