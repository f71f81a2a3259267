--------------------------- MODULE RootScheduling ---------------------------
(***************************************************************************)
(* One concurrent root of ReactFiberWorkLoop.js: how updates, renders,     *)
(* suspended data, commits and passive effects keep the root's levels, its *)
(* one callback, the sync queue and the commit timeout in step.            *)
(*                                                                         *)
(* An update stands for a piece of the tree.  A render visits the updates  *)
(* at its level or above, a commit makes the rendered tree the current     *)
(* one.  An update of Suspending renders new content inside a boundary,    *)
(* and suspends there until its data is loaded; a committed fallback hides *)
(* the content until the boundary is retried.  Time is not counted: a      *)
(* deadline may pass whenever the code asks for one.                       *)
(***************************************************************************)
EXTENDS FiberRoot, Sequences, FiniteSets

CONSTANTS Updates,      \* updates that may be made, each at most once
          Suspending,   \* those whose content waits for data
          Levels,       \* levels that updates are made at
          Sync,         \* the level of synchronous work, above all others
          MaxErrors,    \* how many times rendering may throw
          LoadingDelays \* whether updates carry a config with busyDelayMs

ASSUME LevelsAssumption == /\ Sync \in Nat /\ Sync > Idle + 1
                           /\ Levels \subseteq Idle .. Sync
                           /\ \A l \in Levels : l - 1 \notin Levels
                           /\ Suspending \subseteq Updates
                           /\ MaxErrors \in Nat
                           /\ LoadingDelays \in BOOLEAN

VARIABLES root,       \* the levels of the FiberRoot
          callback,   \* its callbackNode and callbackExpirationTime
          finished,   \* its finishedWork and finishedExpirationTime
          timer,      \* its timeoutHandle: a commit is to be made later
          tasks,      \* performConcurrentWorkOnRoot tasks of the Scheduler
          queue,      \* performSyncWorkOnRoot callbacks of the sync queue
          flushing,   \* isFlushingSyncQueue
          wip,        \* workInProgressRoot and what goes with it
          passive,    \* rootWithPendingPassiveEffects
          tree,       \* the updates that the current tree shows
          hidden,     \* the updates it shows a fallback for
          level,      \* the level an update waits at, NoWork if it does not
          loaded,     \* the updates whose data has come
          pings,      \* pingSuspendedRoot listeners that have not run
          retries,    \* resolveRetryThenable listeners that have not run
          errors,     \* how many times rendering threw
          pc,         \* what the thread does
          back,       \* where it returns to
          frame       \* the locals of performConcurrentWorkOnRoot

rootVars == <<root, callback, finished, timer>>
hostVars == <<tasks, queue, flushing>>
treeVars == <<tree, hidden, level>>
dataVars == <<loaded, pings, retries>>
control  == <<pc, back, frame, errors>>
vars == <<rootVars, hostVars, wip, passive, treeVars, dataVars, control>>

Null == 0
Fake == 1     \* fakeCallbackNode: every callback of the sync queue has this node
NoCallback == [node |-> Null, time |-> NoWork]
NoFrame == [task |-> NoCallback, node |-> Null, time |-> NoWork]
None == [time |-> NoWork, tree |-> {}, fallback |-> {}]

\* Mutant: the work-in-progress root keeps the children of its last use.
FreshRender_staleAlternate(t) ==
    [time |-> t, status |-> "incomplete", todo |-> {u \in Updates : level[u] >= t},
     base |-> wip.base, included |-> {}, fallback |-> {}, news |-> FALSE,
     next |-> NoWork, pinged |-> FALSE]

\* createWorkInProgress(root.current): a render that has visited nothing yet.
FreshRender(t) ==
    [time |-> t, status |-> "incomplete", todo |-> {u \in Updates : level[u] >= t},
     base |-> tree, included |-> {}, fallback |-> {}, news |-> FALSE,
     next |-> NoWork, pinged |-> FALSE]
NoRender ==
    [time |-> NoWork, status |-> "incomplete", todo |-> {}, base |-> {}, included |-> {},
     fallback |-> {}, news |-> FALSE, next |-> NoWork, pinged |-> FALSE]

Rendering == wip.time # NoWork

Made(u) == level[u] # NoWork \/ u \in tree \union hidden

\* getRemainingExpirationTime: the highest level of what a tree leaves undone.
HighestOf(S) == IF S = {} THEN NoWork ELSE CHOOSE t \in S : \A s \in S : s <= t
Remaining(done) == HighestOf({level[u] : u \in Updates \ done})

-----------------------------------------------------------------------------
\* scheduleSyncCallback(performSyncWorkOnRoot)
scheduleSyncCallback == /\ callback' = [node |-> Fake, time |-> Sync]
                        /\ queue' = queue + 1

\* Scheduler_scheduleCallback: a task node that no task in use has.
scheduleCallback(t, T) ==
    LET used == {k.node : k \in T} \union {callback.node, frame.node, frame.task.node}
        free == (Fake + 1 .. Fake + 1 + Cardinality(used)) \ used
        node == CHOOSE n \in free : \A m \in free : n <= m
        task == [node |-> node, time |-> t]
    IN  /\ callback' = task
        /\ tasks' = {k \in T : k.node # callback.node} \union {task}

\* The existing callback has the time wanted.  It is enough unless its priority
\* has risen, as it does when the deadline of a normal task comes near.
Sufficient(t) == callback.node # Null /\ callback.time = t
MayRise(t) == Idle < t /\ t < Sync

\* T is the set of the Scheduler's tasks at the time of the call.
ensureRootIsScheduled(r, T) ==
    LET next == getNextRootExpirationTimeToWorkOn(r)
    IN  /\ root' = r
        /\ \/ /\ r.lastExpiredTime # NoWork
              /\ scheduleSyncCallback
              /\ tasks' = T
           \/ /\ r.lastExpiredTime = NoWork /\ next = NoWork
              /\ callback' = NoCallback
              /\ tasks' = T /\ UNCHANGED queue
           \/ /\ r.lastExpiredTime = NoWork /\ next # NoWork
              /\ Sufficient(next)
              /\ tasks' = T /\ UNCHANGED <<callback, queue>>
           \/ /\ r.lastExpiredTime = NoWork /\ next # NoWork
              /\ Sufficient(next) => MayRise(next)
              /\ IF next = Sync
                 THEN /\ scheduleSyncCallback
                      /\ tasks' = {k \in T : k.node # callback.node}
                 ELSE scheduleCallback(next, T) /\ UNCHANGED queue

\* Forgets what is finished and what was begun, and begins again.
prepareFreshStack(t) == /\ finished' = None
                        /\ timer' = FALSE
                        /\ wip' = FreshRender(t)

\* Calls a procedure that will return to the place named.
Call(procedure, place) == pc' = procedure /\ back' = <<place>> \o back
Return == pc' = Head(back) /\ back' = Tail(back)

\* flushSyncCallbackQueue, which does nothing inside itself.
FlushThenReturn ==
    IF flushing \/ queue' = 0 THEN Return /\ UNCHANGED flushing
    ELSE pc' = "flush" /\ flushing' = TRUE /\ UNCHANGED back

\* Listeners of a promise are microtasks: they run before the next task.
Listeners == {p \in pings : p[1] \in loaded} \union {<<u, NoWork>> : u \in retries \intersect loaded}
Free == pc = "idle" /\ Listeners = {}

-----------------------------------------------------------------------------
Init ==
    /\ root = NewRoot /\ callback = NoCallback /\ finished = None /\ timer = FALSE
    /\ tasks = {} /\ queue = 0 /\ flushing = FALSE
    /\ wip = NoRender /\ passive = FALSE
    /\ tree = {} /\ hidden = {} /\ level = [u \in Updates |-> NoWork]
    /\ loaded = {} /\ pings = {} /\ retries = {}
    /\ errors = 0 /\ pc = "idle" /\ back = <<>> /\ frame = NoFrame

-----------------------------------------------------------------------------
(* Updates.                                                                *)

\* computeExpirationForFiber: an update made while rendering belongs to the
\* render; one made during a pause of the render keeps out of its level.
computeExpirationForFiber(l) ==
    IF pc = "render" THEN wip.time
    ELSE IF Rendering /\ l = wip.time THEN l - 1
    ELSE l

\* markUpdateTimeFromFiberToRoot: u waits at level t.  The render in progress
\* may still come to it, or may have been there.
markUpdateTimeFromFiberToRoot(u, t) ==
    LET suspended == Rendering /\ wip.status = "delayed"
        r == IF suspended THEN markRootSuspendedAtTime(root, wip.time) ELSE root
    IN  /\ level' = [level EXCEPT ![u] = Higher(@, t)]
        /\ IF Rendering
           THEN \E met \in {{}, {u}} :
                    wip' = [wip EXCEPT !.next = Higher(@, t),
                                       !.todo = IF t >= wip.time THEN @ \union met ELSE @]
           ELSE UNCHANGED wip
        /\ ensureRootIsScheduled(markRootUpdatedAtTime(r, t), tasks)

\* An update from an event, from a render, from a layout or a passive effect.
scheduleUpdateOnFiber(u, l) ==
    /\ pc \in {"event", "render", "commit", "passive"} \/ Free
    /\ ~Made(u)
    /\ markUpdateTimeFromFiberToRoot(u, computeExpirationForFiber(l))
    /\ IF pc = "idle" THEN Call("event", "idle") ELSE UNCHANGED <<pc, back>>
    /\ UNCHANGED <<finished, timer, flushing, passive, tree, hidden, dataVars, frame, errors>>

\* batchedEventUpdates flushes the synchronous work of the event at its end.
endEvent ==
    /\ pc = "event"
    /\ UNCHANGED <<rootVars, tasks, queue, wip, passive, treeVars, dataVars, frame, errors>>
    /\ FlushThenReturn

-----------------------------------------------------------------------------
(* Entry points of renders.                                                *)

\* A task of the Scheduler whose deadline has passed: the level c of the
\* present moment expires, and with it everything above.
taskTimedOut(k, c) ==
    /\ Free
    /\ k \in tasks
    /\ Idle < c /\ c <= k.time
    /\ ensureRootIsScheduled(markRootExpiredAtTime(root, c), tasks \ {k})
    /\ UNCHANGED <<finished, timer, flushing, wip, passive, treeVars, dataVars, control>>

\* A task in time.  The immediate task of a sync queue that is not empty goes
\* before any task that has not expired.
performConcurrentWorkOnRoot(k) ==
    /\ Free
    /\ queue = 0
    /\ k \in tasks
    /\ tasks' = tasks \ {k}
    /\ LET next == getNextRootExpirationTimeToWorkOn(root)
       IN  IF next = NoWork
           THEN UNCHANGED <<pc, back, frame, passive>>
           ELSE /\ frame' = [task |-> k, node |-> callback.node, time |-> next]
                /\ IF passive THEN Call("passive", "begin")
                   ELSE pc' = "begin" /\ UNCHANGED back
                /\ passive' = FALSE
    /\ UNCHANGED <<rootVars, queue, flushing, wip, treeVars, dataVars, errors>>

\* The next callback of the sync queue, or the end of its flush.
performSyncWorkOnRoot ==
    /\ pc = "flush"
    /\ queue > 0
    /\ queue' = queue - 1
    /\ IF passive THEN Call("passive", "begin") ELSE pc' = "begin" /\ UNCHANGED back
    /\ passive' = FALSE
    /\ UNCHANGED <<rootVars, tasks, flushing, wip, treeVars, dataVars, frame, errors>>

endFlush ==
    /\ pc = "flush"
    /\ queue = 0
    /\ flushing' = FALSE
    /\ Return
    /\ UNCHANGED <<rootVars, tasks, queue, wip, passive, treeVars, dataVars, frame, errors>>

\* The Scheduler's immediate task for the sync queue.
flushTask ==
    /\ Free
    /\ queue > 0
    /\ Call("flush", "idle")
    /\ flushing' = TRUE
    /\ UNCHANGED <<rootVars, tasks, queue, wip, passive, treeVars, dataVars, frame, errors>>

\* The task that a commit scheduled for its passive effects.
passiveTask ==
    /\ Free
    /\ passive
    /\ Call("passive", "idle")
    /\ passive' = FALSE
    /\ UNCHANGED <<rootVars, hostVars, wip, treeVars, dataVars, frame, errors>>

endPassive ==
    /\ pc = "passive"
    /\ UNCHANGED <<rootVars, tasks, queue, wip, passive, treeVars, dataVars, frame, errors>>
    /\ FlushThenReturn

\* The render goes on if it is at the same level, and begins anew if not.
\* The level of a concurrent render was chosen before the passive effects ran.
begin ==
    /\ pc = "begin"
    /\ LET t == IF ~flushing THEN frame.time
                ELSE IF root.lastExpiredTime # NoWork THEN root.lastExpiredTime
                ELSE Sync
       IN  IF Rendering /\ wip.time = t THEN UNCHANGED <<finished, timer, wip>>
           ELSE prepareFreshStack(t)
    /\ pc' = "render"
    /\ UNCHANGED <<root, callback, hostVars, passive, treeVars, dataVars, back, frame, errors>>

-----------------------------------------------------------------------------
(* Rendering.                                                              *)

Visited(u) ==
    [wip EXCEPT !.todo = @ \ {u},
                !.news = @ \/ (u \notin hidden /\ Idle < level[u] /\ level[u] < Sync)]

\* A unit of work that renders u.
renderUnit(u) ==
    /\ pc = "render"
    /\ u \in wip.todo
    /\ u \in Suspending => u \in loaded
    /\ wip' = [Visited(u) EXCEPT !.included = @ \union {u}]
    /\ UNCHANGED <<rootVars, hostVars, passive, treeVars, dataVars, control>>

\* The work loop passes by an update below the level of the render.
skipUnit(u) ==
    /\ pc = "render"
    /\ wip.next < level[u] /\ level[u] < wip.time
    /\ wip' = [wip EXCEPT !.next = level[u]]
    /\ UNCHANGED <<rootVars, hostVars, passive, treeVars, dataVars, control>>

\* A unit of work that throws a promise: the boundary listens to it and shows
\* its fallback.  A boundary that already shows it changes no status, one with
\* nothing to lose suspends the render, any other asks for a delay.
suspendUnit(u) ==
    /\ pc = "render"
    /\ u \in wip.todo \ loaded
    /\ u \in Suspending
    /\ pings' = pings \union {<<u, wip.time>>}
    /\ LET w == [Visited(u) EXCEPT !.fallback = @ \union {u}]
       IN  \/ /\ u \in hidden
              /\ wip' = w
              /\ UNCHANGED root
           \/ /\ u \notin hidden
              /\ wip' = [w EXCEPT !.status = IF @ = "incomplete" THEN "suspended" ELSE @]
              /\ UNCHANGED root
           \/ /\ u \notin hidden
              /\ wip' = [w EXCEPT !.status =
                             IF @ \in {"incomplete", "suspended"} THEN "delayed" ELSE @]
              /\ root' = IF w.next = NoWork THEN root
                         ELSE markRootUpdatedAtTime(markRootSuspendedAtTime(root, w.time), w.next)
    /\ UNCHANGED <<callback, finished, timer, hostVars, passive, treeVars, loaded, retries, control>>

\* A unit of work of a concurrent render that throws an error.
throwUnit(u) ==
    /\ pc = "render" /\ ~flushing
    /\ u \in wip.todo
    /\ errors < MaxErrors
    /\ errors' = errors + 1
    /\ wip' = [Visited(u) EXCEPT !.status = "errored"]
    /\ UNCHANGED <<rootVars, hostVars, passive, treeVars, dataVars, pc, back, frame>>

\* shouldYield interrupts the concurrent work loop only.
yield ==
    /\ pc = "render" /\ ~flushing
    /\ pc' = "tail"
    /\ UNCHANGED <<rootVars, hostVars, wip, passive, treeVars, dataVars, back, frame, errors>>

\* The work loop is back at the root.  A synchronous render commits at once.
complete ==
    /\ pc = "render"
    /\ wip.todo = {}
    /\ finished' = [time |-> wip.time, tree |-> wip.base \union wip.included,
                    fallback |-> wip.fallback]
    /\ IF flushing THEN Call("commitRoot", "tail") /\ wip' = NoRender
       ELSE /\ pc' = "finish" /\ UNCHANGED back
            /\ wip' = [wip EXCEPT !.status = IF @ = "incomplete" THEN "completed" ELSE @]
    /\ UNCHANGED <<root, callback, timer, hostVars, passive, treeVars, dataVars, frame, errors>>

-----------------------------------------------------------------------------
(* finishConcurrentRender.                                                 *)

FinishedLeaves == Remaining(finished.tree \union finished.fallback)

\* The root with the finished level marked as suspended.
SuspendedRoot ==
    LET s == markRootSuspendedAtTime(root, wip.time)
    IN  IF s.lastSuspendedTime = wip.time
        THEN [s EXCEPT !.nextKnownPendingLevel = FinishedLeaves] ELSE s

CommitNow(r) == /\ root' = r
                /\ Call("commitRoot", "tail")
                /\ wip' = NoRender
                /\ UNCHANGED <<finished, timer>>

CommitLater(r) == /\ root' = r /\ timer' = TRUE /\ wip' = NoRender
                  /\ pc' = "tail" /\ UNCHANGED <<finished, back>>

\* What the code does before it waits for data or shows a fallback.
PingedMeanwhile(r) == wip.pinged /\ (r.lastPingedTime = NoWork \/ r.lastPingedTime >= wip.time)
MoreWork(r) == getNextRootExpirationTimeToWorkOn(r) \notin {NoWork, wip.time}
LowerSuspended(r) == r.lastSuspendedTime # wip.time
Elsewhere(r) == PingedMeanwhile(r) \/ MoreWork(r) \/ LowerSuspended(r)

GoElsewhere(r) ==
    /\ pc' = "tail" /\ UNCHANGED back
    /\ \/ /\ PingedMeanwhile(r)
          /\ root' = [r EXCEPT !.lastPingedTime = wip.time]
          /\ prepareFreshStack(wip.time)
       \/ /\ ~PingedMeanwhile(r) /\ MoreWork(r)
          /\ root' = r /\ wip' = NoRender /\ UNCHANGED <<finished, timer>>
       \/ /\ ~PingedMeanwhile(r) /\ ~MoreWork(r) /\ LowerSuspended(r)
          /\ root' = [r EXCEPT !.lastPingedTime = r.lastSuspendedTime]
          /\ wip' = NoRender /\ UNCHANGED <<finished, timer>>

finishErrored ==
    /\ pc = "finish" /\ wip.status = "errored"
    /\ root' = markRootExpiredAtTime(root, IF wip.time > Idle THEN Idle ELSE wip.time)
    /\ wip' = NoRender
    /\ pc' = "tail"
    /\ UNCHANGED <<callback, finished, timer, hostVars, passive, treeVars, dataVars, back, frame, errors>>

\* A fallback may be shown; only retries are throttled.
finishSuspended ==
    /\ pc = "finish" /\ wip.status = "suspended"
    /\ LET r == SuspendedRoot
       IN  \/ CommitNow(r)
           \/ ~wip.news /\ GoElsewhere(r)
           \/ ~wip.news /\ ~Elsewhere(r) /\ CommitLater(r)
    /\ UNCHANGED <<callback, hostVars, passive, treeVars, dataVars, frame, errors>>

\* A fallback would hide what the user sees: avoided while there is time.
finishDelayed ==
    /\ pc = "finish" /\ wip.status = "delayed"
    /\ LET r == SuspendedRoot
       IN  \/ GoElsewhere(r)
           \/ ~Elsewhere(r) /\ CommitNow(r)
           \/ ~Elsewhere(r) /\ wip.news /\ CommitLater(r)
    /\ UNCHANGED <<callback, hostVars, passive, treeVars, dataVars, frame, errors>>

\* With a suspense config a complete tree may wait, so that a loading state
\* stays long enough to be read.
finishCompleted ==
    /\ pc = "finish" /\ wip.status = "completed"
    /\ \/ CommitNow(root)
       \/ LoadingDelays /\ wip.news /\ CommitLater(markRootSuspendedAtTime(root, wip.time))
    /\ UNCHANGED <<callback, hostVars, passive, treeVars, dataVars, frame, errors>>

-----------------------------------------------------------------------------
(* Commits.                                                                *)

\* Passive effects of the last commit run before the next one.
flushPassiveFirst ==
    /\ pc = "commitRoot"
    /\ passive
    /\ passive' = FALSE
    /\ Call("passive", "commitRoot")
    /\ UNCHANGED <<rootVars, hostVars, wip, treeVars, dataVars, frame, errors>>

\* What was finished was forgotten in the meantime.
nothingToCommit ==
    /\ pc = "commitRoot"
    /\ ~passive /\ finished = None
    /\ Return
    /\ UNCHANGED <<rootVars, hostVars, wip, passive, treeVars, dataVars, frame, errors>>

\* The finished tree becomes the current one; boundaries whose fallback it
\* shows listen for their data.
commitRootImpl ==
    /\ pc = "commitRoot"
    /\ ~passive /\ finished # None
    /\ callback' = NoCallback
    /\ root' = markRootFinishedAtTime([root EXCEPT !.nextKnownPendingLevel = NoWork],
                                      finished.time, FinishedLeaves)
    /\ finished' = None
    /\ wip' = NoRender
    /\ tree' = finished.tree
    /\ hidden' = (hidden \ finished.tree) \union finished.fallback
    /\ level' = [u \in Updates |-> IF u \in finished.tree \union finished.fallback
                                   THEN NoWork ELSE level[u]]
    /\ retries' = retries \union finished.fallback
    /\ pc' = "commit"
    /\ UNCHANGED <<timer, hostVars, passive, loaded, pings, back, frame, errors>>

\* The layout effects are done; the commit may leave passive effects behind.
endCommit ==
    /\ pc = "commit"
    /\ passive' \in BOOLEAN
    /\ ensureRootIsScheduled(root, tasks)
    /\ FlushThenReturn
    /\ UNCHANGED <<finished, timer, wip, treeVars, dataVars, frame, errors>>

\* The end of performSyncWorkOnRoot and of performConcurrentWorkOnRoot.
exitRoot ==
    /\ pc = "tail"
    /\ ensureRootIsScheduled(root, tasks)
    /\ pc' = IF flushing THEN "flush" ELSE "return"
    /\ UNCHANGED <<finished, timer, flushing, wip, passive, treeVars, dataVars, back, frame, errors>>

\* Mutant: the task never goes on.
returnToScheduler_ends ==
    /\ pc = "return"
    /\ frame' = NoFrame
    /\ pc' = "idle"
    /\ UNCHANGED <<rootVars, hostVars, wip, passive, treeVars, dataVars, back, errors>>

\* The task goes on if the root's callback is the one it began with.
returnToScheduler ==
    /\ pc = "return"
    /\ tasks' = IF callback.node = frame.node THEN tasks \union {frame.task} ELSE tasks
    /\ frame' = NoFrame
    /\ pc' = "idle"
    /\ UNCHANGED <<rootVars, queue, flushing, wip, passive, treeVars, dataVars, back, errors>>

\* The timeout of CommitLater.
commitTimeout ==
    /\ Free
    /\ timer
    /\ timer' = FALSE
    /\ Call("commitRoot", "idle")
    /\ UNCHANGED <<root, callback, finished, hostVars, wip, passive, treeVars, dataVars, frame, errors>>

-----------------------------------------------------------------------------
(* Data.                                                                   *)

\* The promise of u resolves; its listeners run later.
load(u) ==
    /\ Free
    /\ u \in Suspending \ loaded
    /\ loaded' = loaded \union {u}
    /\ UNCHANGED <<rootVars, hostVars, wip, passive, treeVars, pings, retries, control>>

\* The render at work restarts only if it would not commit anyway.
MayRestart == \/ wip.status = "delayed"
              \/ wip.status = "suspended" /\ ~wip.news

pingSuspendedRoot(u, t) ==
    /\ pc = "idle"
    /\ <<u, t>> \in pings /\ u \in loaded
    /\ pings' = pings \ {<<u, t>>}
    /\ \/ /\ wip.time = t /\ MayRestart
          /\ prepareFreshStack(t)
          /\ UNCHANGED <<root, callback, tasks, queue>>
       \/ /\ wip.time = t /\ wip.status # "delayed"
          /\ wip' = [wip EXCEPT !.pinged = TRUE]
          /\ UNCHANGED <<rootVars, tasks, queue>>
       \/ /\ wip.time # t
          /\ IF /\ isRootSuspendedAtTime(root, t)
                /\ root.lastPingedTime = NoWork \/ root.lastPingedTime >= t
             THEN ensureRootIsScheduled([root EXCEPT !.lastPingedTime = t], tasks)
             ELSE UNCHANGED <<root, callback, tasks, queue>>
          /\ UNCHANGED <<finished, timer, wip>>
    /\ UNCHANGED <<flushing, passive, treeVars, loaded, retries, control>>

\* The boundary that shows a fallback renders again, at a level of its own.
retryTimedOutBoundary(u, l) ==
    /\ pc = "idle"
    /\ u \in retries \intersect loaded
    /\ Idle < l /\ l < Sync
    /\ retries' = retries \ {u}
    /\ markUpdateTimeFromFiberToRoot(u, computeExpirationForFiber(l))
    /\ UNCHANGED <<finished, timer, flushing, passive, tree, hidden, loaded, pings, control>>

-----------------------------------------------------------------------------
\* What the thread does by itself once it was called.
Thread ==
    \/ endEvent \/ endPassive \/ endFlush \/ performSyncWorkOnRoot \/ begin
    \/ finishErrored \/ finishSuspended \/ finishDelayed \/ finishCompleted
    \/ flushPassiveFirst \/ nothingToCommit \/ commitRootImpl \/ endCommit
    \/ exitRoot \/ returnToScheduler
Unit == \E u \in Updates : renderUnit(u) \/ suspendUnit(u) \/ throwUnit(u)
RunTask == \E k \in tasks : performConcurrentWorkOnRoot(k)
HostTask == RunTask \/ flushTask \/ passiveTask \/ commitTimeout
Listener(u) == \/ \E t \in Idle .. Sync : pingSuspendedRoot(u, t)
               \/ \E l \in Levels : retryTimedOutBoundary(u, l)

Next == \/ \E u \in Updates, l \in Levels : scheduleUpdateOnFiber(u, l)
        \/ \E k \in tasks : \E c \in Levels \union {k.time} : taskTimedOut(k, c)
        \/ HostTask
        \/ Unit \/ complete \/ yield \/ Thread
        \/ \E u \in Updates : skipUnit(u) \/ load(u) \/ Listener(u)

Spec == Init /\ [][Next]_vars

\* The host runs tasks, timeouts and listeners while there are any, a render is
\* not interrupted at once for ever, and data comes in the end.
Fairness == /\ WF_vars(Thread) /\ SF_vars(Unit \/ complete)
            /\ SF_vars(HostTask)
            /\ SF_vars(\E u \in Suspending : load(u) \/ Listener(u))
FairSpec == Spec /\ Fairness

-----------------------------------------------------------------------------
Marks == NoWork .. Sync
TypeOK ==
    /\ root \in Roots(Marks) /\ RangeOK(root)
    /\ finished.time \in Marks /\ finished.tree \subseteq Updates
    /\ finished.fallback \subseteq Updates
    /\ wip.time \in Marks /\ wip.next \in Marks
    /\ wip.todo \subseteq Updates /\ wip.base \subseteq Updates
    /\ wip.included \subseteq Updates /\ wip.fallback \subseteq Updates
    /\ level \in [Updates -> Marks] /\ tree \subseteq Updates /\ hidden \subseteq Updates
    /\ \A p \in pings : p[2] \in Marks
    /\ \A k \in tasks \union {frame.task} : k.time \in Marks
    /\ frame.time \in Marks

Pending == {u \in Updates : level[u] # NoWork}

\* root.firstPendingTime is the most urgent level that an update waits at: the
\* marks that updates, pings, suspended renders and commits make on the root
\* agree with the tree, also in the middle of a render.
FirstPendingIsHighest == root.firstPendingTime = Remaining({})

\* root.callbackNode is never a handle of something that is gone: it is a task
\* the Scheduler still has, or stands for callbacks in the sync queue.  Strays
\* that were not cancelled may exist besides, and must not take its place.
CallbackIsAlive ==
    pc = "idle" /\ callback.node # Null =>
        IF callback.node = Fake THEN queue > 0 ELSE callback \in tasks

\* "Always call this before exiting commitRoot, to ensure that any additional
\* work on this root is scheduled": while an update waits there is a callback,
\* a commit that will be made later, or a ping that will be heeded.
AllWorkIsScheduled ==
    Free /\ Pending # {} =>
        \/ callback # NoCallback \/ queue > 0 \/ timer
        \/ \E p \in pings : isRootSuspendedAtTime(root, p[2])

\* A commit never takes back what an earlier one showed, however renders were
\* interrupted, restarted, delayed or overtaken: it is built on what it replaces.
NothingIsUnshown == [][tree \subseteq tree']_vars

\* Every update is shown in the end; one whose data has not come is shown, or
\* stands behind a fallback until it has.
EveryUpdateIsShown ==
    \A u \in Updates : Made(u) ~> (u \in tree \/ u \in hidden \ loaded)
=============================================================================
