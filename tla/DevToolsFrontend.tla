--------------------------- MODULE DevToolsFrontend ---------------------------
(***************************************************************************)
(* The frontend of the developer tools: the store, which is told what      *)
(* changed, and the user's tree view, which folds it and selects in it     *)
(* (store.js, Tree.js, Element.js and TreeContext.js).  FiberTree joins it *)
(* to a page; StoreSpec takes it alone, with any messages that fit.        *)
(***************************************************************************)
EXTENDS DevToolsStore

CONSTANT FoldsHidden  \* whether the keyboard folds an element that is out of sight

VARIABLES
    store, collapseNodesByDefault,
    selected              \* selectedElementID, 0 for none

storeVars == <<store, collapseNodesByDefault, selected>>

StoreInit ==
    /\ store = EmptyStore
    /\ collapseNodesByDefault \in BOOLEAN
    /\ selected = 0

\* The selection moves to the closest ancestor that is left.
Surviving(before, after, id) ==
    LET up == Lineage(before.elements, id)
        left == {k \in DOMAIN up : Has(after, up[k])}
    IN  IF left = {} THEN 0 ELSE up[CHOOSE k \in left : \A j \in left : k <= j]

\* What is above a new selection is expanded.
Revealed(aStore, id) ==
    IF id = 0 \/ aStore.elements[id].parent = 0 THEN aStore
    ELSE toggleIsCollapsed(aStore, aStore.elements[id].parent, FALSE)

ReceiveMessage(message) ==
    /\ ~store.threw
    /\ \E after \in {onBridgeOperations(store, message, collapseNodesByDefault)} :
       LET survivor == IF after.threw THEN selected ELSE Surviving(store, after, selected)
       IN  /\ selected' = survivor
           /\ store' = IF survivor = selected THEN after ELSE Revealed(after, survivor)
    /\ UNCHANGED collapseNodesByDefault

IsElement(id) == Has(store, id) /\ store.elements[id].parent # 0
InSight(id) == IsElement(id) /\ ~isInsideCollapsedSubTree(store, id)
HasKids(id) == store.elements[id].kids # <<>>

Toggle(id, isCollapsed) ==
    /\ store' = toggleIsCollapsed(store, id, isCollapsed)
    /\ UNCHANGED collapseNodesByDefault

\* A click on the triangle of a row, which does not select the row.
ClickToggle(id) ==
    /\ InSight(id) /\ HasKids(id)
    /\ Toggle(id, ~store.elements[id].collapsed)
    /\ UNCHANGED selected

\* A click on a row, or a search or an element picked in the page, which may be
\* out of sight.
Select(id) ==
    /\ IsElement(id) /\ id # selected
    /\ selected' = id
    /\ store' = Revealed(store, id)
    /\ UNCHANGED collapseNodesByDefault

\* Tree.js:130-143 asks nothing about what is in sight: that guard restricts the
\* behaviours to those the store is right about, unless FoldsHidden lifts it.
ArrowLeft ==
    /\ IsElement(selected) /\ HasKids(selected) /\ ~store.elements[selected].collapsed
    /\ FoldsHidden \/ InSight(selected)
    /\ Toggle(selected, TRUE)
    /\ UNCHANGED selected

ArrowRight ==
    /\ IsElement(selected) /\ HasKids(selected) /\ store.elements[selected].collapsed
    /\ Toggle(selected, FALSE)
    /\ UNCHANGED selected

\* What the user does to the tree view.
UserFolds ==
    \/ \E id \in DOMAIN store.elements : ClickToggle(id) \/ Select(id)
    \/ ArrowLeft \/ ArrowRight

StoreNext(messages) ==
    \/ \E m \in messages : Fits(store, m, collapseNodesByDefault) /\ ReceiveMessage(m)
    \/ UserFolds

StoreSpec(messages) == StoreInit /\ [][StoreNext(messages)]_storeVars

-----------------------------------------------------------------------------
\* INVARIANT.  The weight of an element is the rows below it and its own, and
\* the store counts the rows of the tree view right, so that every row has an
\* index and every index a row.  With FoldsHidden = FALSE it is about users whose
\* keyboard folds only what is in sight; the code (Tree.js:130-143) has no such
\* guard, and with FoldsHidden = TRUE the property fails (store.js:603-607).
RowsAreCounted ==
    LET rowsOf == [k \in DOMAIN store.elements |-> RowsOf(store.elements[k])]
        own(id) == IF store.elements[id].parent = 0 THEN 0 ELSE 1
    IN  ~store.threw =>
            /\ \A id \in DOMAIN store.elements :
                   store.elements[id].weight = Weighed(rowsOf, own(id), store.elements[id].kids)
            /\ store.rows = Cardinality({i \in DOMAIN store.elements : InSight(i)})
===============================================================================
