----------------------------- MODULE UpdateQueue -----------------------------
(***************************************************************************)
(* ReactUpdateQueue.js: the queue of updates of one class component or     *)
(* root, through renders at any priority that are committed or thrown      *)
(* away.  Queues are circular lists of updates: the model keeps the list   *)
(* nodes and their next pointers, because the queue of the current fiber   *)
(* and that of the work in progress share nodes, and what one of them does *)
(* to the list is done to the other.                                       *)
(*                                                                         *)
(* An update appends its number to the state, so a state tells which       *)
(* updates went into it and in which order; an update that captures an     *)
(* error appends Capture.  Every update has a callback.                    *)
(***************************************************************************)
EXTENDS Naturals, Sequences, FiniteSets, FiniteSetsExt, SequencesExt, Strict

CONSTANTS
    Times,         \* expiration times, larger is more urgent; Sync is one
    Sync,
    MaxUpdates,    \* bound: updates made and errors captured
    MaxCaptures,   \* bound: errors captured, among them
    MaxNodes,      \* bound: list nodes in use at the same time
    Nested         \* whether updater functions may make updates

ASSUME TimesAssumption == Times \subseteq Nat \ {0} /\ Sync \in Times /\ \A t \in Times : t <= Sync
ASSUME BoundsAssumption == MaxUpdates \in Nat /\ MaxCaptures \in Nat /\ MaxNodes \in Nat
ASSUME ChoicesAssumption == Nested \in BOOLEAN

Null   == 0        \* null, for a list node
NoWork == 0        \* the expiration time of a fiber without work
Capture == 0       \* what a captured update appends to the state

VARIABLES
    node,          \* the list nodes
    pending,       \* shared.pending: last node of the list of new updates
    current,       \* the committed fiber and its queue
    wip,           \* the work-in-progress fiber and its queue
    pc,            \* where the render is: see Phases
    renderTime,    \* renderExpirationTime
    loop,          \* the local variables of processUpdateQueue
    list,          \* what renders did to the list of current: see Lists
    inserted,      \* updates made so far
    captured,      \* errors captured so far
    calls          \* how often the callback of each update was called

vars == <<node, pending, current, wip, pc, renderTime, loop, list, inserted, captured, calls>>

\* idle: no render; begin: beginWork has reached the fiber; update: about to
\* look at loop.update; reducer: inside its updater function; rendered: done.
Phases == {"idle", "begin", "update", "reducer", "rendered"}

\* clean: nothing but the new updates went into the list of current.  touched:
\* the render under way has linked other updates into it.  spoilt: a render that
\* had done so was thrown away.  (A history variable; no action depends on it.)
Lists == {"clean", "touched", "spoilt"}

Nodes == 1..MaxNodes
Blank == [of |-> Capture, time |-> NoWork, callback |-> FALSE, next |-> Null]
NoLoop == [update |-> Null, first |-> Null, baseQueue |-> Null, newState |-> <<>>,
           newTime |-> NoWork, newBaseState |-> <<>>, newFirst |-> Null, newLast |-> Null]

\* A fiber and its queue.
EmptyFiber == [baseState |-> <<>>, baseQueue |-> Null, effects |-> <<>>,
               memoizedState |-> <<>>, expirationTime |-> NoWork]

Init ==
    /\ node = [n \in Nodes |-> Blank]
    /\ pending = Null
    /\ current = EmptyFiber /\ wip = EmptyFiber
    /\ pc = "idle" /\ renderTime = NoWork
    /\ loop = NoLoop
    /\ list = "clean" /\ inserted = 0 /\ captured = 0
    /\ calls = [u \in 1..MaxUpdates |-> 0]

-----------------------------------------------------------------------------
(* Circular lists *)

\* The nodes that are visited from n on, in order.
Walk(store, n) ==
    LET next == [m \in Nodes \cup {Null} |-> IF m = Null THEN Null ELSE store[m].next]
        at[i \in Nodes] == IF i = 1 THEN n ELSE next[at[i - 1]]
    IN  [i \in Nodes |-> at[i]]

\* The list that ends with the node last, from its first node.
List(store, last) ==
    IF last = Null THEN <<>>
    ELSE LET walk == Walk(store, store[last].next)
         IN  SubSeq(walk, 1, Min({i \in Nodes : walk[i] = last}))

\* The updates a list stands for.
Updates(last) == [i \in DOMAIN List(node, last) |-> node[List(node, last)[i]].of]

Roots ==
    {pending, current.baseQueue, wip.baseQueue, loop.update, loop.first,
     loop.baseQueue, loop.newFirst, loop.newLast} 

InUse == ToSet(wip.effects) \cup UNION {ToSet(Walk(node, n)) : n \in Roots \ {Null}}

\* A new node: one that nothing refers to.
New == Min(Nodes \ InUse)
CanAllocate == Nodes \ InUse # {}

\* What nobody refers to is collected, here at the end of a render.
Collect(store, q) ==
    LET used == UNION {ToSet(Walk(store, n)) : n \in {q, pending} \ {Null}}
    IN  [n \in Nodes |-> IF n \in used THEN store[n] ELSE Blank]

\* update is appended to the list that ends with last.
InsertAfter(store, last, n, update) ==
    IF last = Null THEN [store EXCEPT ![n] = [update EXCEPT !.next = n]]
    ELSE [store EXCEPT ![n] = [update EXCEPT !.next = store[last].next], ![last].next = n]

-----------------------------------------------------------------------------
(* Updates are made *)

\* The render under way links an update of its own into the shared list.
Touched == list' = IF list = "spoilt" THEN list ELSE "touched"

Later(s, t) == IF s > t THEN s ELSE t

\* setState, and scheduleWork, which marks the fiber and its alternate.  While
\* an updater function runs, an update gets the time of the render.
enqueueUpdate(time) ==
    /\ inserted + captured < MaxUpdates /\ CanAllocate
    /\ \/ pc \in {"idle", "begin", "rendered"}
       \/ pc = "reducer" /\ Nested /\ time = renderTime
    /\ inserted' = inserted + 1
    /\ node' = InsertAfter(node, pending, New,
                 [of |-> inserted + 1, time |-> time, callback |-> TRUE, next |-> Null])
    /\ pending' = New
    /\ current' = [current EXCEPT !.expirationTime = Later(@, time)]
    /\ wip' = IF pc = "idle" THEN wip ELSE [wip EXCEPT !.expirationTime = Later(@, time)]
    /\ IF pc = "reducer" THEN Touched ELSE UNCHANGED list
    /\ UNCHANGED <<pc, renderTime, loop, captured, calls>>

-----------------------------------------------------------------------------
(* The render phase *)

\* createWorkInProgress: the work in progress starts as a copy of current.  It
\* shares the queue of current until cloneUpdateQueue copies the fields; nothing
\* changes them before that, so the model has two queues from the beginning.
createWorkInProgress(time) ==
    /\ pc = "idle"
    /\ pc' = "begin" /\ renderTime' = time
    /\ wip' = current
    /\ UNCHANGED <<node, pending, current, loop, list, inserted, captured, calls>>

\* beginWork finds no work of this priority and leaves the queue alone.
bailout ==
    /\ pc = "begin"
    /\ wip.expirationTime < renderTime
    /\ pc' = "rendered"
    /\ UNCHANGED <<node, pending, current, wip, renderTime, loop, list, inserted, captured, calls>>

\* Mutant: forgets the queue of current.
TransferToCurrent_not == UNCHANGED current

\* The new updates go into the base queue of current, too.
TransferToCurrent ==
    current' = IF pending = Null THEN current ELSE [current EXCEPT !.baseQueue = pending]

\* processUpdateQueue, up to its loop: the new updates go to the end of the
\* base queue, of the work in progress and of current.  (The fiber may be
\* rendered without work of its own, when its props or context changed.)
processUpdateQueue ==
    /\ pc = "begin"
    /\ LET queue == [wip EXCEPT !.expirationTime = NoWork]
           base  == IF pending # Null THEN pending ELSE queue.baseQueue
       IN  /\ node' = IF pending # Null /\ queue.baseQueue # Null
                      THEN [node EXCEPT ![queue.baseQueue].next = node[pending].next,
                                        ![pending].next = node[queue.baseQueue].next]
                      ELSE node
           /\ pending' = Null
           /\ TransferToCurrent
           /\ wip' = queue
           /\ IF base = Null THEN pc' = "rendered" /\ UNCHANGED loop
              ELSE /\ pc' = "update"
                   /\ loop' = [NoLoop EXCEPT !.update = node'[base].next, !.first = node'[base].next,
                                             !.baseQueue = base, !.newState = queue.baseState]
    /\ UNCHANGED <<renderTime, list, inserted, captured, calls>>

\* Mutant: the new base queue is not closed.
CloseList_not(store, l) == store

\* The new base queue becomes a circular list.
CloseList(store, l) ==
    IF l.newLast = Null THEN store ELSE [store EXCEPT ![l.newLast].next = l.newFirst]

\* What follows an update: the next one; or the updates that updater functions
\* have made; or the end of the loop.  store, l and w are the nodes, the local
\* variables and the work in progress so far.
nextUpdate(store, l, w) ==
    LET next == store[l.update].next
    IN  \/ /\ next # l.first
           /\ node' = store /\ loop' = [l EXCEPT !.update = next] /\ wip' = w
           /\ pc' = "update"
           /\ UNCHANGED pending
        \/ /\ next = l.first /\ pending # Null
           /\ node' = [store EXCEPT ![l.baseQueue].next = store[pending].next,
                                    ![pending].next = l.first]
           /\ loop' = [l EXCEPT !.update = store[pending].next, !.baseQueue = pending]
           /\ wip' = [w EXCEPT !.baseQueue = pending]
           /\ pending' = Null
           /\ pc' = "update"
        \/ /\ next = l.first /\ pending = Null
           /\ node' = CloseList(store, l)
           /\ wip' = [w EXCEPT !.baseState = IF l.newLast = Null THEN l.newState
                                                               ELSE l.newBaseState,
                               !.baseQueue = l.newLast,
                               !.expirationTime = l.newTime,
                               !.memoizedState = l.newState]
           /\ loop' = NoLoop
           /\ pc' = "rendered"
           /\ UNCHANGED pending

\* The nodes with a copy of loop.update at the end of the new base queue.
WithClone(time) ==
    LET clone == [node[loop.update] EXCEPT !.time = time, !.next = Null]
    IN  IF loop.newLast = Null THEN [node EXCEPT ![New] = clone]
        ELSE [node EXCEPT ![New] = clone, ![loop.newLast].next = New]

\* Mutant: the priority of a skipped update is forgotten.
Remaining_not(time) == loop.newTime

\* The priority of the most urgent update that was skipped.
Remaining(time) == Later(loop.newTime, time)

\* The priority of the update is insufficient: it stays in the queue, and if it
\* is the first one, the state so far is the new base state.
skipUpdate ==
    /\ pc = "update" /\ CanAllocate
    /\ node[loop.update].time < renderTime
    /\ nextUpdate(WithClone(node[loop.update].time),
         [loop EXCEPT !.newLast = New,
                      !.newFirst = IF loop.newLast = Null THEN New ELSE @,
                      !.newBaseState = IF loop.newLast = Null THEN loop.newState ELSE @,
                      !.newTime = Remaining(node[loop.update].time)],
         wip)
    /\ UNCHANGED <<current, renderTime, list, inserted, captured, calls>>

\* Mutant: the copy keeps its priority, so a later render may skip the update.
RebasedTime_own == node[loop.update].time

\* An update that is going to be committed is included by every later render.
RebasedTime == Sync

\* Mutant: nothing that was applied stays in the queue.
Rebase_not == UNCHANGED <<node, loop>>

\* Behind a skipped update, a copy stays in the queue.
Rebase ==
    IF loop.newLast = Null THEN UNCHANGED <<node, loop>>
    ELSE /\ CanAllocate
         /\ node' = WithClone(RebasedTime)
         /\ loop' = [loop EXCEPT !.newLast = New]

\* The priority is sufficient, and the updater function is called.
applyUpdate ==
    /\ pc = "update"
    /\ node[loop.update].time >= renderTime
    /\ Rebase
    /\ pc' = "reducer"
    /\ UNCHANGED <<pending, current, wip, renderTime, list, inserted, captured, calls>>

\* Mutant: the callback of an update that will be applied again has to wait.
Effects_once ==
    IF node[loop.update].callback /\ loop.newLast = Null THEN Append(wip.effects, loop.update)
    ELSE wip.effects

\* The callbacks that will be called after the commit.
Effects ==
    IF node[loop.update].callback THEN Append(wip.effects, loop.update) ELSE wip.effects

\* The updater function returns.
reducerReturns ==
    /\ pc = "reducer"
    /\ nextUpdate(node,
         [loop EXCEPT !.newState = Append(@, node[loop.update].of)],
         [wip EXCEPT !.effects = Effects])
    /\ UNCHANGED <<current, renderTime, list, inserted, captured, calls>>

\* throwException: a component below has thrown and this one is its boundary,
\* which is rendered once more.  The captured update is put behind the last
\* node of the list, and the queue still ends with that node.
enqueueCapturedUpdate ==
    /\ pc = "rendered" /\ CanAllocate
    /\ captured < MaxCaptures /\ inserted + captured < MaxUpdates
    /\ captured' = captured + 1
    /\ node' = InsertAfter(node, wip.baseQueue, New,
                 [of |-> Capture, time |-> renderTime, callback |-> TRUE, next |-> Null])
    /\ wip' = [wip EXCEPT !.baseQueue = IF @ = Null THEN New ELSE @,
                          !.expirationTime = renderTime]
    /\ pc' = "begin"
    /\ Touched
    /\ UNCHANGED <<pending, current, renderTime, loop, inserted, calls>>

-----------------------------------------------------------------------------
(* The render ends *)

\* Bound: calls of one callback are counted up to this.
CallLimit == 2

\* The work in progress becomes current, and the callbacks are called.
commitUpdateQueue ==
    /\ pc = "rendered"
    /\ LET called == {n \in ToSet(wip.effects) : node[n].callback}
       IN  /\ calls' = [u \in DOMAIN calls |->
                          Min({CallLimit, calls[u] + Cardinality({n \in called : node[n].of = u})})]
           /\ node' = Collect([n \in Nodes |-> IF n \in called
                                              THEN [node[n] EXCEPT !.callback = FALSE]
                                              ELSE node[n]], wip.baseQueue)
    /\ current' = [wip EXCEPT !.effects = <<>>]
    /\ wip' = EmptyFiber
    /\ pc' = "idle" /\ renderTime' = NoWork
    /\ list' = IF list = "touched" THEN "clean" ELSE list
    /\ UNCHANGED <<pending, loop, inserted, captured>>

\* The render is thrown away: it was interrupted, or suspended, or an updater
\* function has thrown.
discard ==
    /\ pc \in {"begin", "reducer", "rendered"}
    /\ node' = Collect(node, current.baseQueue)
    /\ wip' = EmptyFiber /\ loop' = NoLoop
    /\ pc' = "idle" /\ renderTime' = NoWork
    /\ list' = IF list = "touched" THEN "spoilt" ELSE list
    /\ UNCHANGED <<pending, current, inserted, captured, calls>>

RenderStep == bailout \/ processUpdateQueue \/ skipUpdate \/ applyUpdate \/ reducerReturns

Next ==
    \/ \E time \in Times : enqueueUpdate(time) \/ createWorkInProgress(time)
    \/ RenderStep
    \/ enqueueCapturedUpdate
    \/ commitUpdateQueue
    \/ discard

Spec == Init /\ [][Next]_vars

(***************************************************************************)
(* The root renders at the expiration time of its fibers again and again   *)
(* while they have work, every render comes to its end, and renders are    *)
(* thrown away only finitely often: React renders what has expired         *)
(* synchronously, and nothing interrupts that.                             *)
(***************************************************************************)
Fairness ==
    /\ SF_vars(current.expirationTime # NoWork /\ createWorkInProgress(current.expirationTime))
    /\ WF_vars(RenderStep \/ commitUpdateQueue)
    /\ <>[][~discard]_vars

FairSpec == Spec /\ Fairness

-----------------------------------------------------------------------------
\* Every variable stays in its domain; all lists are closed; the bound on nodes
\* never keeps the queue from anything.
TypeOK ==
    /\ CanAllocate
    /\ \A n \in Nodes : /\ node[n].of \in 0..MaxUpdates
                        /\ node[n].time \in Times \cup {NoWork}
                        /\ node[n].next \in Nodes \cup {Null}
    /\ {pending, current.baseQueue, wip.baseQueue} \subseteq Nodes \cup {Null}
    /\ pc \in Phases
    /\ renderTime \in Times \cup {NoWork} /\ list \in Lists
    /\ inserted \in 0..MaxUpdates /\ captured \in 0..MaxCaptures
    /\ \A last \in {pending, current.baseQueue, wip.baseQueue} \ {Null} :
          last \in ToSet(Walk(node, node[last].next))

\* The updates without the errors.
Made(updates) ==
    Fold(LAMBDA made, u : IF u = Capture THEN made ELSE Append(made, u), <<>>, updates)

\* The base state, the base queue and the new updates are all updates that
\* were made, in the order they were made.
Complete(fiber) ==
    Made(fiber.baseState \o Updates(fiber.baseQueue) \o Updates(pending))
        = [u \in 1..inserted |-> u]

\* No update is dropped, doubled or moved in the queue: not in that of current,
\* from which the next render may start at any time, because the one under way
\* may be thrown away, and not in that of the work in progress when it commits.
\* This holds as long as no render that had linked captured errors, or updates
\* made by updater functions, into the list of current was thrown away.
AllUpdatesKept ==
    /\ list = "clean" => Complete(current)
    /\ list # "spoilt" /\ pc = "rendered" => Complete(wip)

\* The same without the exception: renders that are thrown away leave no trace.
UpdatesSurviveDiscards == pc = "idle" => Complete(current)

\* What waits in the queue is known to the fiber, so a render will come for it.
\* (Copies of updates that were shown before are Sync; the first update of the
\* base queue is none.)
RemainingWorkIsMarked ==
    list = "clean" =>
    LET base == List(node, current.baseQueue)
        new  == List(node, pending)
    IN  /\ \A i \in DOMAIN new : node[new[i]].time <= current.expirationTime
        /\ \A i \in DOMAIN base :
              node[base[i]].time <= current.expirationTime \/ (i > 1 /\ node[base[i]].time = Sync)

\* A callback of an update is called by the commit that shows the update first
\* (unless the list was spoilt, which takes updates and their callbacks away).
CallbacksWithTheirUpdate ==
    list # "spoilt" =>
        \A u \in 1..MaxUpdates :
            (calls[u] > 0) <=> (u \in ToSet(current.memoizedState))

\* The queue implements the log of updates: commits show updates in the order
\* they were made, once each, and never take one back, with errors captured and
\* updates made by updater functions in between, until a render that is thrown
\* away spoils the list.
Log == INSTANCE UpdateLog WITH committed <- Made(current.memoizedState)

ImplementsUpdateLog ==
    /\ Log!LogInit
    /\ [][list' # "spoilt" => Log!Insert \/ Log!Commit]_(Log!logVars)

\* Every update is shown at last, however low its priority, unless the list of
\* current was spoilt.  (Updates end at their bound, and what was shown once
\* stays: so again and again all that were made are shown.)
EveryUpdateIsShown ==
    []<>(list = "spoilt" \/ 1..inserted \subseteq ToSet(current.memoizedState))
=============================================================================
