------------------------------- MODULE FiberTree -------------------------------
(***************************************************************************)
(* A root that renders one tree of elements after another, its host nodes, *)
(* and the DevTools that follow it: the backend in the page, the messages  *)
(* on their way, the store of the frontend and the user's folding of its   *)
(* tree view.  A render and the mutation phase of its commit are one step: *)
(* a render that is thrown away leaves nothing.                            *)
(***************************************************************************)
EXTENDS DevToolsBackend, DevToolsFrontend

CONSTANTS
    Apps,           \* applications; a run is about one of them
    Trees(_),       \* what an application may render
    RenderedTwice,  \* bound: the applications that render no more than twice
    Folded,         \* the applications whose tree view is folded meanwhile
    FilterChoices(_), \* the filters the user of an application may choose
    MaxInFlight(_), \* bound: messages of an application between the backend and the store
    MaxId           \* bound: fibers and elements that are in use at a time

VARIABLES
    app,            \* the application on this page
    tree,           \* root.current
    renders,        \* how many there have been, or 2 if there have been more
    dom, hidden,    \* the host nodes' children; the ones with display: none
    commit,         \* a commit under way: its tree, and what its effects did
    phase,          \* the backend: "detached", "queueing" or "live"
    filters,        \* element types the frontend leaves out
    tracked,        \* fibers in fiberToIDMap
    queue           \* pendingOperationsQueue, and then the messages sent

reactVars == <<app, tree, renders, dom, hidden, commit>>
backendVars == <<phase, filters, tracked>>
vars == <<reactVars, backendVars, queue, storeVars>>

NoCommit == <<>>
EmptyRoot == [createFiber(Element("root", NoKey, Nothing)) EXCEPT !.id = Root]

Init ==
    /\ app \in Apps
    /\ tree = EmptyRoot
    /\ renders = 0
    /\ dom = [p \in {Root} |-> <<>>]
    /\ hidden = {}
    /\ commit = NoCommit
    /\ phase \in {"detached", "queueing"}
    /\ filters \in FilterChoices(app)
    /\ tracked = {}
    /\ queue = <<>>
    /\ StoreInit

Send(message) == queue' = IF SaysNothing(message) THEN queue ELSE Append(queue, message)

\* Ids that nothing refers to any more.
FreeIds ==
    LET inMessage(m) == ToSet(m.removes) \cup OpIds(m.ops)
        used == Ids(tree) \cup DOMAIN store.elements \cup {selected}
                \cup UNION {inMessage(queue[i]) : i \in 1..Len(queue)}
    IN  SelectSeq([i \in 1..MaxId |-> i], LAMBDA i : i \notin used)

-----------------------------------------------------------------------------
(* The page.                                                               *)

\* render(element), up to the end of the mutation phase.
Render(children) ==
    /\ commit = NoCommit /\ Len(queue) < MaxInFlight(app)
    /\ app \in RenderedTwice => renders < 2
    /\ renders' = IF renders < 2 THEN renders + 1 ELSE 2
    /\ \E next \in {Named(beginWork(useFiber(tree), Element("root", NoKey, children)), FreeIds)} :
       \E done \in {commitMutationEffects(next, dom, hidden)} :
            /\ dom' = done.dom
            /\ hidden' = done.hidden
            /\ commit' = [tree |-> next, threw |-> done.threw, moved |-> done.moved,
                          unmounted |-> done.unmounted]
    /\ UNCHANGED <<app, tree, backendVars, queue, storeVars>>

\* root.current = finishedWork, and the DevTools hear of it.
FinishCommit ==
    /\ commit # NoCommit
    /\ tree' = Committed(commit.tree)
    /\ commit' = NoCommit
    /\ IF phase = "detached" THEN UNCHANGED <<tracked, queue>>
       ELSE \E told \in {handleCommitFiberRoot(filters, tracked, tree, commit.tree, commit.unmounted)} :
                tracked' = told.tracked /\ Send(told.message)
    /\ UNCHANGED <<app, renders, dom, hidden, phase, filters, storeVars>>

\* The frontend is there.  What was queued while the page loaded is sent; a
\* backend that has said nothing yet walks the roots.
Connect ==
    LET initial == flushInitialOperations(filters, tree)
    IN  /\ phase # "live" /\ commit = NoCommit
        /\ phase' = "live"
        /\ IF queue = <<>> /\ Mounted(tree)
           THEN tracked' = initial.tracked /\ Send(initial.message)
           ELSE UNCHANGED <<tracked, queue>>
        /\ UNCHANGED <<reactVars, filters, storeVars>>

SetFilters(newFilters) ==
    LET told == updateComponentFilters(filters, newFilters, tracked, tree)
    IN  /\ phase = "live" /\ commit = NoCommit
        /\ Len(queue) < MaxInFlight(app) /\ newFilters # filters
        /\ filters' = newFilters
        /\ IF Mounted(tree) THEN tracked' = told.tracked /\ Send(told.message)
           ELSE UNCHANGED <<tracked, queue>>
        /\ UNCHANGED <<reactVars, phase, storeVars>>

-----------------------------------------------------------------------------
(* The frontend.                                                           *)

Receive ==
    /\ phase = "live" /\ queue # <<>>
    /\ queue' = Tail(queue)
    /\ ReceiveMessage(Head(queue))
    /\ UNCHANGED <<reactVars, backendVars>>

FoldTree ==
    /\ app \in Folded
    /\ UserFolds
    /\ UNCHANGED <<reactVars, backendVars, queue>>

-----------------------------------------------------------------------------
Next ==
    \/ \E c \in Trees(app) : Render(c)
    \/ FinishCommit
    \/ Connect
    \/ \E f \in FilterChoices(app) : SetFilters(f)
    \/ Receive
    \/ FoldTree

Spec == Init /\ [][Next]_vars

-----------------------------------------------------------------------------
(* The host.                                                               *)

\* Fibers below the children of a boundary that shows its fallback.
BehindFallback ==
    UNION {FiberIds(PreOrder(s.kids[1])) : s \in {f \in Fibers(tree) : f.timedOut}}

RECURSIVE HiddenIn(_, _)
HiddenIn(p, above) ==
    LET here(n) == above \/ n \in hidden
        nodes == ToSet(dom[p]) \ {OwnText}
    IN  {n \in nodes : here(n)} \cup UNION {HiddenIn(n, here(n)) : n \in nodes}

\* INVARIANT.  After every commit each host parent has exactly the host nodes of
\* its fibers as children, in their order, no insertBefore or removeChild failed
\* on the way, and what cannot be seen is exactly what is behind a fallback.
HostShowsTree ==
    IF commit # NoCommit THEN ~commit.threw
    ELSE
    /\ dom = [p \in {f.id : f \in {g \in Fibers(tree) : IsHost(g.type) \/ g.type = "root"}} |->
                HostChildren(CHOOSE f \in Fibers(tree) : f.id = p)]
    /\ HiddenIn(Root, FALSE) = BehindFallback \cap DOMAIN dom

\* The children a fiber's element asks for, on screen or not.
OwnKids(fiber) ==
    IF fiber.timedOut THEN fiber.kids[1].kids ELSE fiber.kids

Kept(old, new) == Ids(old) \cap Ids(new)
OrderOf(fibers, ids) ==
    LET s == SelectSeq(fibers, LAMBDA f : f.id \in ids) IN [i \in 1..Len(s) |-> s[i].id]

Pairs(old, new) == {<<f, g>> \in Fibers(old) \X Fibers(new) : f.id = g.id}

\* INVARIANT.  A commit that keeps the children of every parent in their order
\* inserts none of the host nodes that are there already.
OnlyMovesWhatMust ==
    commit # NoCommit /\ commit.moved \cap Ids(tree) # {} =>
        \E q \in Pairs(tree, commit.tree) :
            OrderOf(OwnKids(q[1]), Kept(tree, commit.tree)) # OrderOf(OwnKids(q[2]), Kept(tree, commit.tree))

\* INVARIANT.  A keyed child keeps its fiber, and with it its state,
\* whatever happens around it, a fallback included, as long as its parent stays
\* and asks for a child of that key and type.
KeyedChildrenKeepTheirState ==
    commit # NoCommit =>
        \A q \in Pairs(tree, commit.tree) :
            \A f \in ToSet(OwnKids(q[1])), g \in ToSet(OwnKids(q[2])) :
                f.key = g.key /\ f.key # NoKey /\ f.type = g.type => f.id = g.id

\* INVARIANT.  A commit unmounts every fiber that it does not keep, and no other,
\* once.  Fragments have nothing to unmount: that of a boundary's children is
\* dropped without a deletion when they are shown again.
UnmountedOnce ==
    LET instances(fibers) == {f.id : f \in {g \in fibers : g.type # "Fragment"}}
        unmounted == SelectSeq(commit.unmounted, LAMBDA f : f.type # "Fragment")
    IN  commit # NoCommit =>
            /\ FiberIds(unmounted) = instances(Fibers(tree)) \ instances(Fibers(commit.tree))
            /\ Len(unmounted) = Cardinality(FiberIds(unmounted))

-----------------------------------------------------------------------------
(* The DevTools.                                                           *)

RECURSIVE TopElements(_)
TopElements(fiber) ==
    IF ~shouldFilterFiber(filters, fiber) THEN <<fiber.id>>
    ELSE Concat([i \in 1..Len(ShownKids(fiber)) |-> TopElements(ShownKids(fiber)[i])])

RECURSIVE ShownFibers(_)
ShownFibers(fiber) ==
    {fiber} \cup UNION {ShownFibers(ShownKids(fiber)[i]) : i \in 1..Len(ShownKids(fiber))}

ElementKids ==
    [id \in {f.id : f \in {g \in ShownFibers(tree) : ~shouldFilterFiber(filters, g)}} |->
        LET f == CHOOSE g \in Fibers(tree) : g.id = id
        IN  Concat([i \in 1..Len(ShownKids(f)) |-> TopElements(ShownKids(f)[i])])]

\* INVARIANT.  The store never throws, no message reorders other children than
\* those that are there, and once the store has received everything its tree is
\* the tree on screen without the filtered fibers.
StoreMirrorsTree ==
    /\ ~store.threw
    /\ queue # <<>> => Fits(store, Head(queue), collapseNodesByDefault)
    /\ phase = "live" /\ queue = <<>> =>
        [i \in DOMAIN store.elements |-> store.elements[i].kids]
            = IF Mounted(tree) THEN ElementKids ELSE <<>>
================================================================================
