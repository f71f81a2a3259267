# TLA+ specifications of React 16.13.1

These modules model the parts of the React monorepo that decide *when* work runs,
*which* updates a render contains, and *what* a render makes of them: the `scheduler`
package; of `react-reconciler` the scheduling, the bookkeeping of roots, the update
queues, the hooks of function components, the reconciliation of children and the
mutation phase of a commit; the copy of the tree that the DevTools keep; and the Flight
renderer with its stream and its client. The model is translated from the source; every
definition that stands for code is listed with its lines in `PROJECT.json` ("map").

## 1. The system

React is single threaded. All its concurrency is cooperative: code runs to
completion, and other code (browser events, timers, promises, other roots, user
callbacks that call back into React) runs between two such pieces. What is hard
is therefore not data races but *re-entrancy*, *stale reads across a yield*,
*cancel/re-schedule races*, *errors thrown half way* and *ordering*.

| Component | State it keeps | Operations | Talks to |
|---|---|---|---|
| Scheduler (`packages/scheduler/src/Scheduler.js`) | `taskQueue`, `timerQueue`, `currentTask`, `isPerformingWork`, `isHostCallbackScheduled`, `isHostTimeoutScheduled` | `scheduleCallback`, `cancelCallback`, `shouldYield`, pause/continue, `flushWork`/`workLoop`, `handleTimeout` | host config (message loop, timeout), user callbacks |
| Scheduler heap (`SchedulerMinHeap.js`) | an array | `push`, `peek`, `pop` | the scheduler |
| Scheduler hosts (`forks/SchedulerHostConfig.*.js`) | DOM: `isMessageLoopRunning`, `scheduledHostCallback`, `taskTimeoutID`, `deadline`; mock: one callback, one timeout, virtual time | `requestHostCallback`, `requestHostTimeout`, `cancelHostTimeout`, `performWorkUntilDeadline`, `unstable_flush*`, `unstable_advanceTime` | the scheduler |
| Sync queue (`SchedulerWithReactIntegration.js`) | `syncQueue`, `immediateQueueCallbackNode`, `isFlushingSyncQueue` | `scheduleSyncCallback`, `flushSyncCallbackQueue`, `cancelCallback` | the scheduler, the work loop |
| Fiber roots (`ReactFiberRoot.js`) | the pending / suspended / pinged / expired / next-known levels, `callbackNode` | `markRootUpdatedAtTime`, `markRootSuspendedAtTime`, `markRootExpiredAtTime`, `markRootFinishedAtTime` | the work loop |
| Work loop (`ReactFiberWorkLoop.js`) | `executionContext`, `workInProgressRoot`, `renderExpirationTime`, exit status, passive-effect root | `scheduleUpdateOnFiber`, `ensureRootIsScheduled`, `performConcurrentWorkOnRoot`, `performSyncWorkOnRoot`, `commitRoot`, `flushPassiveEffects`, `pingSuspendedRoot`, `retryTimedOutBoundary` | roots, scheduler, sync queue, fibers |
| Expiration times (`ReactFiberExpirationTime.js`) | none | `computeAsyncExpiration`, `computeInteractiveExpiration`, `inferPriorityFromExpirationTime` | the work loop |
| Update queues (`ReactUpdateQueue.js`) | `baseState`, `baseQueue`, `shared.pending`, `effects` | `enqueueUpdate`, `enqueueCapturedUpdate`, `processUpdateQueue`, `commitUpdateQueue` | begin/complete/commit phases |
| Hooks (`ReactFiberHooks.js`) | of each hook `memoizedState`, `baseState`, `baseQueue`; a queue with `pending` and `lastRenderedState` that both fibers share; the effects | `renderWithHooks`, `updateReducer`, `rerenderReducer`, `dispatchAction`, `updateEffectImpl`, `bailoutHooks`, `resetHooksAfterThrow`, the mounts and unmounts of effects | the work loop, the component |
| Child reconciliation (`ReactChildFiber.js`) | the children of a fiber, their `index`, `effectTag`s, the deletions | `reconcileSingleElement`, `reconcileSingleTextNode`, `reconcileChildrenArray` (the keyed diff), `placeChild`, `deleteChild` | begin work |
| Suspense (`ReactFiberThrow.js`, `ReactFiberSuspenseComponent.js`) | ping caches, retry caches, timeouts | `throwException`, ping, retry | the work loop |
| Context and stacks (`ReactFiberStack.js`, `ReactFiberNewContext.js`) | a cursor stack | push, pop, propagate | begin/complete/unwind |
| Begin / complete / commit work (`ReactFiber{Begin,Complete,Commit}Work.js`) | the fiber tree and its alternate, the effect list, host nodes | `beginWork` per tag, `updateSuspenseComponent`, `completeWork`, `commitPlacement`, `commitDeletion`, `hideOrUnhideAllChildren` | everything above, the host |
| Flight (`react-server/src/ReactFlightServer.js`, `react-client/src/ReactFlightClient.js`, the host configurations of their streams) | server: segments, `pingedSegments`, `pendingChunks`, completed rows; stream: a buffer; client: chunks | `pingSegment`, `performWork`, `retrySegment`, `flushCompletedChunks`, `startFlowing`; `processFullRow`, `reportGlobalError` | promises, the stream, the reader of the model |
| DevTools backend and store (`react-devtools-shared/src/backend/renderer.js`, `src/devtools/store.js`) | backend: ids of fibers, pending operations, filters; store: elements with parent, children, weight, folding | `handleCommitFiberRoot`, `mountFiberRecursively`, `updateFiberRecursively`, `flushPendingEvents`, `updateComponentFilters`; `onBridgeOperations`, `toggleIsCollapsed` | the commits of the reconciler, a bridge of messages, the tree view |
| DOM renderer, events, synthetic events, SSR (`react-dom`, `legacy-events`) | DOM, event plugins | rendering to a host | reconciler |
| `react`, `react-is`, `shared` | element objects, dispatcher slots | API surface | reconciler |
| `react-cache` | LRU list, records | read/preload | Suspense |
| `use-subscription`, `create-subscription` | subscribed value | subscribe, re-read | hooks/classes |
| Tracing (`Tracing.js`, `TracingSubscriptions.js`) | interaction sets, counts | trace, wrap | work loop (profiling builds) |
| DevTools interface, refresh, debug tools, native, ART, test renderers, ESLint plugin, Babel plugin, scripts, fixtures | own | own | public API |

### What makes each part correct

* **Scheduler**: no task or timer is ever forgotten, whatever throws, yields,
  cancels or pauses; a callback is called once per arming; order is by expiration,
  FIFO among equals; expired work is not left at a yield; exactly one message loop.
* **Heap**: `peek` is the least element after any sequence of pushes and pops.
* **Sync queue**: every callback pushed runs once and in order, even when one throws
  or pushes more, and the queue is never flushed re-entrantly.
* **Roots and work loop**: a root with pending work always has somebody who will
  render it (a scheduler task, a sync callback, a ping, a timeout, or a render or
  commit in progress); a commit never marks unfinished work as finished; a
  suspended level is retried after its ping.
* **Update queue**: whatever levels are rendered in whatever order, and however
  often a render is thrown away, the committed state is the one the updates give in
  insertion order; no update is lost and none is applied twice.
* **Hooks**: no dispatched action is forgotten over skipping, rebasing, eager states,
  bail-outs, dispatches of the component itself and renders that are thrown away; what
  is on screen was made from the committed state; of each effect exactly one instance
  lives, that of the committed state.
* **Children, begin and commit**: after a commit the host shows the elements, in order;
  a keyed child keeps its fiber as long as its parent asks for it; nothing is moved
  without need; what goes is unmounted once.
* **DevTools**: once the messages have arrived the store has the tree that is on screen,
  and the rows of its tree view are counted right through every folding.
* **Flight**: every row is written once, the stream is closed when and only when nothing
  is left to write, a client that is told the end has every row, and no reader waits
  for ever.
* **Expiration times**: buckets are monotone, batching never reverses priorities.

Feature flags are those of the open-source build at this commit:
`enableSchedulerDebugging`, `enableIsInputPending`, `deferPassiveEffectCleanup`,
`runAllPassiveEffectDestroysBeforeCreates` and
`disableSchedulerTimeoutBasedOnReactExpirationTime` off, `enableTrainModelFix` on.
(`enableSchedulerDebugging` is a constant of the model; the runs `dom` and `hosts` turn it on to have
pausing.)

## 2. How the code becomes a model

JavaScript runs to completion, so an action is the code between two points where other
code can run: the event loop, a callback of the user, a unit of work of a render, a
yield. A variable `pc` says who is on the stack. A call that can be made from several
places keeps its return address in `back`. Numbers of the code that grow without limit
(ids, times, calls) have a bound among the constants (`Max...`), and nothing in the
proofs depends on its value. Names are those of the code where TLA+ allows it.

A definition whose comment begins with "Mutant" is wrong on purpose and no action uses
it. It has the form of the definition behind it with a plausible mistake in it, and
documents which property would notice the mistake ("mutants" in `PROJECT.json`).

| Module | Models | How |
|---|---|---|
| `TaskQueues` | `taskQueue`, `timerQueue`, `advanceTimers` | a heap is the set of its tasks, `Peek` its least element by (`sortIndex`, id) |
| `PriorityQueue` | (abstract) one heap | insert, remove the first |
| `SchedulerMinHeap` | `SchedulerMinHeap.js` | the array; an iteration of `siftUp` or `siftDown` is a step. Implements `PriorityQueue`, which justifies `TaskQueues` |
| `TaskPool` | (abstract) what the scheduler promises | armed tasks; what runs next is due and expires first |
| `SchedulerCore` | `Scheduler.js` without a host | fields of the tasks by id; `pc` is idle, loop (`workLoop` at its head) or callback |
| `HostTimeouts` | `setTimeout`/`clearTimeout` of a host | the timeout that `taskTimeoutID` names, and the strays whose id was overwritten |
| `SchedulerDOM` | `SchedulerHostConfig.default.js` in a browser | `messages` posted and not delivered, `deadline` of the slice; extends `SchedulerCore` and `HostTimeouts` |
| `SchedulerNoDOM` | lines 28–68 of the same file: no `window`, no `MessageChannel` | outstanding `setTimeout` calls for flushes and repeated requests |
| `SchedulerMock` | `SchedulerHostConfig.mock.js` | one callback, one timeout, the four `unstable_flush...` functions, the log of yielded values |
| `SyncQueue` | `SchedulerWithReactIntegration.js` | the queue, the flush and its index; the scheduler is a set of live tasks |
| `UpdateLog` | (abstract) what an update queue promises | commits show updates in order, once, for good |
| `UpdateQueue` | `ReactUpdateQueue.js` with the clone, bail-out and commit that use it | list nodes with `next` pointers, because current and work-in-progress queues share them |
| `FiberRoot` | `ReactFiberRoot.js`, `getNextRootExpirationTimeToWorkOn` | functions on the record of the root's marks |
| `RootScheduling` | `ReactFiberWorkLoop.js` for one concurrent root | see below |
| `Strict` | nothing | evaluates an argument once; folds on sequences written with that |
| `ChildReconciler` | `ReactChildFiber.js` | from old fibers and new elements to new fibers and deletions; a fiber and its alternate are one record; the two loops over an array are folds |
| `BeginWork` | the begin phase of function, host, text, fragment and Suspense fibers | `beginWork`, a recursive operator from elements and fibers to fibers |
| `HostCommit` | the mutation phase of `ReactFiberCommitWork.js` | a fold over the effect list; `dom[p]` is the list of the children of a host node |
| `DevToolsBackend` | `backend/renderer.js` | what a commit, a change of filters, or the discovery of a page makes into a message |
| `DevToolsStore` | `devtools/store.js` | elements by id, with weights and folding; a loop that climbs to the root is the set of elements on its way |
| `DevToolsFrontend` | the store with the tree view: `Tree.js`, `Element.js`, `TreeContext.js` | receives messages, and the user folds and selects; `StoreSpec(messages)` is this alone, with any messages that fit |
| `FiberTree` | the page, the bridge and the frontend together | see below |
| `FunctionHooks` | `ReactFiberHooks.js`, with what the work loop and the commit phase do about one component | see below |
| `Flight` | `ReactFlightServer.js`, its streams, `ReactFlightClient.js` | see below |
| `MC...` | | values of the constants for TLC. `MCQueues` is three systems one beside the other (the heap, the sync queue, Flight), and `MCSchedulerHosts` two (the fallback and the mock host); the first state chooses one of them |
| `SchedulerCoreProofs`, `SchedulerDOMProofs`, `SchedulerNoDOMProofs`, `SchedulerHostsProofs`, `StructuresProofs`, `RootSchedulingProofs`, `FunctionHooksProofs`, `UpdateQueueProofs` | | theorems (section 5) |

**Scheduler.** `SchedulerCore` has one action per function of `Scheduler.js` and leaves
the host calls out; each host module conjoins the calls its fork makes. So
`unstable_scheduleCallback` of `SchedulerDOM` is `scheduleTask` or `scheduleTimer`
together with `requestHostCallback` or `requestHostTimeout` when the code calls them
(`NeedsHostCallback`, `SetsHostTimeout`). A callback is unknown code: it may schedule,
cancel, ask `shouldYield`, let time pass, return a continuation, return, or throw.

**Update queue.** An update appends its number to the state. That makes the state
tell which updates went into it and in which order, and is the hardest case: an
update that did not depend on the previous state would hide losses.

**Roots.** An update stands for a piece of the tree. `level[u]` is the expiration time
left on its fiber; a render visits, in any order and yielding anywhere, the updates at
or above its level; `Suspending` updates throw a promise until their data is `loaded`.
A suspended piece takes one of three ways in `suspendUnit`, according to what its
boundary shows now: already a fallback, nothing to lose (`renderDidSuspend`), or content
(`renderDidSuspendDelayIfPossible`). `tree` and `hidden` are what the current tree shows
and shows a fallback for. `finishConcurrentRender` is `finishErrored`,
`finishSuspended`, `finishDelayed` and `finishCompleted`. The times that decide there
(deadlines, the throttle of retries, `msUntilTimeout`) are not counted: a branch that
depends on the clock may go either way, so the model has the behaviours of every
timing. Tasks and sync callbacks that the code fails to cancel stay in `tasks` and
`queue` as strays, and run.

**Children, commits and the DevTools.** A render is the function `beginWork` on the tree
and the new elements: it is synchronous from the point of view of these components, and
one that is thrown away leaves nothing behind. It and its mutation phase are `Render`;
between that and `FinishCommit`, where the tree becomes current and the DevTools hear of
it, the properties can see what the commit did. A fiber has an id for life, like the id
the DevTools give it; ids that nothing refers to are used again (`FreeIds`), so that
runs need not be bounded in length. `Suspense` elements suspend or not, as the
application says for each tree; a suspended boundary keeps its children hidden and shows
its fallback, in the two forms the code gives it (`timedOut`). The backend is detached,
queueing (the frontend is not there yet) or live. Messages arrive later, in order. The
user folds and selects elements of the tree view meanwhile.

**Hooks.** One component, its parent, and the two fibers it has. A pass is one call of
the component; `renderWithHooks` is a first pass and, when the component dispatched to
itself, a second one. What follows a render is the work loop's: a commit, a discard, or
a throw, also in the second pass. An update marks the component, its alternate and the
parent as `markUpdateTimeFromFiberToRoot` does; times are copied by every clone, which
is where they can be lost. The effects have the state as their dependency, and `alive`
counts the instances of each that were created and not destroyed. The code has four
flaws here (section 6): the history variable `spoilt` says that a behaviour has met one,
and each property names the ones it has to leave out, so that it still says everything
about all other behaviours. No error boundary is modelled: a throw is a discard
that is tried again.

**Flight.** A row has an id; the model of a row refers to the rows of its components that
suspended or threw. `performWork` takes the pinged segments and attempts them one by one;
promises settle and the stream drains between two calls of it, and the client reads at
any time. The stream takes `Capacity` rows before
`writeChunk` says no. Scheduled work is queued as in Node; in the browser it runs at once,
which is one of these orders. The client reads whole rows, and may lose the connection.

## 3. Runs

"Violation" runs check one statement of the repository that the code does not meet;
section 6 tells the story of each.

| Run | Instance | States | Shows |
|---|---|---|---|
| `dom` | 2 tasks, clock 0–3, delays 0/1/2, two timeouts, a pause at any moment | 236,652 | safety, action properties, the refinement of `TaskPool`, and that every task is called and the message loop ends |
| `hosts` | fallback: 2 tasks, clock 0–2, one pause; mock: 2 tasks, callbacks that do not move the clock | 180,369 | the fallback neither doubles nor loses a flush and calls ready tasks; the marks of the scheduler agree with the mock host, and `unstable_flushAll` leaves nothing due |
| `nodom_delayed` | fallback, 2 tasks, no pause | violation | a delayed task may never be called there |
| `queues` | heap: 5 ids, 2 keys; sync queue: 5 callbacks; Flight: a stream that is full with one row, 4 rows, one more suspension | 145,128 | pops in order; order, once each, nobody stranded; every row once, the end is right and is reached |
| `updates` | 3 updates at 3 levels, 1 captured error, updates made inside updater functions | 111,805 | the committed states are those of the log where the code promises it, whatever renders are thrown away, and every update is shown |
| `updates_captured` | 3 updates at 3 levels, 1 captured error | violation | a second pass over an error boundary loses updates |
| `roots_work` | 2 updates, one of which waits for data, levels 4, 6 and 8 (`Sync`), 1 error | 412,971 | who will render next is always arranged; commits take nothing back; everything is shown |
| `roots_lost` | 3 updates, levels 4 and 6, loading delays | violation | a root can be left without a callback |
| `tree` | five applications (below), any tree after any other | 200,922 | the host shows the elements, state is kept, the DevTools show the same tree |
| `tree_filtered` | nested boundaries, with Suspense elements filtered out | violation | the store throws |
| `hooks` | 3 updates at 3 levels, 1 update of the parent, 1 discard | 256,546 | no update is forgotten, effects follow the state, the screen shows it |
| `hooks_lost` | 2 updates at 3 levels, 2 updates of the parent, no discard | violation | an update that is skipped while the component dispatches to itself is not rendered |

*Why these bounds are enough.* Two tasks make the interesting pairs of the
scheduler: one running while the other overtakes it, is cancelled, or is still a timer.
Instances with three tasks were checked as well (several million states each) and showed
nothing else; the proofs hold for any number. The clock
only has to separate "before", "at" and "after" a start and an expiration time. Five
ids fill three levels of the heap, with a node of one child and one of two. Five sync
callbacks allow a throw in the middle of a queue that is pushed to while it is flushed.
Four rows are a root with two rows and one below these; a stream that is full with one
row holds rows back at every write.
Three updates at three levels give "skipped, applied behind it, applied below it", the
smallest case where a rebase can go wrong; `MaxNodes` is large enough that no run ever
lacks a node (`CanAllocate` is part of its `TypeOK`, which was checked with these bounds). For roots, two updates at three levels
with a suspension make every mark of the root non-trivial: a suspended range, a next
known level, a pinged, an expired and a pending one. Three updates, at two
levels and without errors, are too many states for a run (7.4 million without delayed
commits, 13.8 million with them), and were checked once each way. `TypeOK`,
`FirstPendingIsHighest`, `CallbackIsAlive` and `NothingIsUnshown` held in both,
`AllWorkIsScheduled` fails in both. `EveryUpdateIsShown` falls with it when commits may be
delayed: the root of section 6, item 3, is left alone for good. Without delays that check
did not end, so that the property is known for two updates only.

The applications of `tree` are one for each mechanism. *reordered*: all lists of up to
three of a keyed host node, the same key with another type, a keyed component with a
host node and a text in it, a text, a hole; any list after any other, which has all the
ways of the diff (prefix, map, moves, tails, deletions). *nested*: one child or several,
arrays in fragments, host parents one below the other, host elements filtered.
These two render twice, since what a diff does depends on one old and one new list.
*suspending*: boundaries one in another, in every state, before and after
a node that moves, rendered without bound. *filtering*: such trees, and a boundary beside
a component, rendered twice, while the filters change at any time between no filter,
host elements and function components. *folded*: three trees of function components,
while the user folds, unfolds and selects.

`MaxInFlight` bounds the messages the store has not applied: two, so that a page renders
again before the frontend has seen the first tree; three for *filtering*, where filters
change between two commits none of which has been applied; one for *suspending*, whose
renders without bound leave no room for more (half a million states at two are not the
end of it).

`CHECK_DEADLOCK FALSE` stands where the system may really stop: all tasks done and the
clock, or the number of calls, at its bound; a page that has rendered what it may and a
user who does nothing. The runs of the update queue have no such state.

### The properties

* `TypeOK` of the module is in the runs where a proof does not cover it: in
  `RootScheduling` it says that the two ends of the suspended levels stay a range
  (`RangeOK`), which takes four operations and the bookkeeping of commits to keep. The
  others are theorems (section 5) or were checked while the modules were written.
* Scheduler: `MessageLoop` (flags and messages agree),
  `NoLostWork`, `NoLateTimer`, `QueuesPartitionLiveTasks`,
  `NothingExpiredAtYield`, the refinement
  `ImplementsTaskPool`, and the liveness properties `EveryTaskIsCalledUnlessPaused`,
  `LoopEnds`; `FallbackLosesNoWork` (`OneFlush` and `NoLostWork` of the fallback),
  `FallbackCallsReadyTasks`, `MockLosesNoWork` (`MarksAreTrue` and `NoLostWork` of the
  mock host), `FlushAllRunsAllDue`.
* Heap: `ImplementsPriorityQueue`.
* Sync queue: `StartedOnceInOrder`, `NobodyIsStranded`, `EveryCallbackRuns`.
* Flight: `RowsAreAccounted`, `ClientSeesModel`, `EveryResponseEnds`.
* Update queue: `AllUpdatesKept`, `RemainingWorkIsMarked`, `CallbacksWithTheirUpdate`,
  `ImplementsUpdateLog`, `EveryUpdateIsShown`.
* Roots: `FirstPendingIsHighest` (the marks agree with the tree, at every step), `CallbackIsAlive` (the
  callback node is never a handle of something gone), `AllWorkIsScheduled` (somebody
  will come), `NothingIsUnshown` (a commit is built on what it replaces),
  `EveryUpdateIsShown`.
* Tree: `HostShowsTree`, `OnlyMovesWhatMust`, `KeyedChildrenKeepTheirState`,
  `UnmountedOnce`; DevTools: `StoreMirrorsTree`, `RowsAreCounted`.
* Hooks: `NothingIsForgotten` (a component that no time marks shows all that was
  dispatched), `EffectsFollowState`, `ScreenShowsState`, `EveryUpdateIsShown`;
  `SkippedUpdatesAreMarked` is the one the code breaks.

## 4. Fairness

Fairness is stated only for what the host and the code do by themselves, never for the
program that uses them.

* *DOM and fallback hosts*: posted messages and timeouts are delivered, the code that
  runs goes on, the clock moves (weak). A callback ends (weak); one that is called again
  and again does not return a continuation forever (strong, on
  `CallbackReturns(FALSE)`): otherwise it keeps the thread with good right, since the
  scheduler has no preemption.
* *Sync queue*: the scheduler runs its tasks and callbacks end (weak).
* *Update queue*: the work loop comes back for a fiber that has work, again and again
  (strong on `createWorkInProgress`; between two attempts the render may be thrown
  away), a render that is not interrupted goes on (weak), and renders are thrown away
  finitely often: work that has expired is rendered synchronously, and nothing
  interrupts that.
* *Roots*: the thread goes on when it was called (weak). `Unit \/ complete` is strong
  because a concurrent render may yield before any unit; `shouldYield` does not return
  true forever before the first one. The host runs tasks, timeouts and passive effects,
  and each kind may be pre-empted by others in between (strong). Data comes and its
  listeners run (strong, since `Free` is not continuously true). Fairness on data is an
  assumption on the program: a promise that never resolves leaves its fallback on the
  screen, and a lower level may wait for it (section 6).
* *Hooks*: a root that has work is rendered, a tree that is finished is committed, and
  the flush of passive effects that the commit scheduled comes (weak). The renders that
  are thrown away are bounded, as those of the update queue are finite.
* *Flight*: promises settle, scheduled work runs, a stream that was full drains, the
  client reads (weak). That the connection is lost, or is not, is never assumed.
* *Tree*: no liveness is claimed.

## 5. Proofs

All theorems hold for every value of the constants that meets the named assumptions:
any number of tasks, any delays and timeouts (integers, so a timeout may be negative as
that of immediate priority is), any updates, any levels of which no two are adjacent.
The last assumption of `RootScheduling` (`\A l \in Levels : l - 1 \notin Levels`) comes
from the code: times are rounded to units of ten milliseconds, and
`computeExpirationForFiber` and `markRootUpdatedAtTime` subtract or add one to keep out
of a level.

**Scheduler on the DOM host** (`SchedulerDOMProofs`, on `SchedulerCoreProofs`).
`SchedulerCoreProofs` proves about the core alone, for any host that takes `CoreStep`s. Its invariant `CoreInv` strengthens `QueuesPartitionLiveTasks` with who is
on the stack (`StackInv`: the loop looks at the head of the heap, a callback that runs is
that of a queued task), with what the heaps are ordered by (`KeyInv`: start times in one,
expiration times in the other; without it the head need not be the task that expires
first), and with what has started (`DueInv`: at the loop head every live timer is in the
future of the loop's reading of the clock; without it a timer could be more urgent than
the head). The host adds `HostInv` (flags, messages and `pc` agree)
and `TimerInv`, the promise of `NoLateTimer` kept for the first timer also while that
one is cancelled, so that it still holds when timers are removed from in front of a
live one. Proved: `TypeCorrect`,
`MessageLoopCorrect`, `WorkIsNeverLost`, `TimersAreNotLate`, `QueuesArePartitioned`,
`KeysAreFrozen`, `StoppedTasksNeverRun`, `ExpiredWorkIsDone`, and the refinement
`SchedulerIsTaskPool`.

**Scheduler on the other hosts** (`SchedulerNoDOMProofs`, `SchedulerHostsProofs`, on the
same proofs about the core). Time passes in the core by `timePasses`, by as much as the
host says, so the three hosts share every lemma about tasks and queues.

*Fallback.* The invariant adds to `CoreInv` the types of the outstanding calls and
`MarkInv`: a host callback that is marked as scheduled is on its way as a flush or as a
request that repeats itself. Without `MarkInv`, `NoLostWork` is not inductive: a call of
`unstable_scheduleCallback` that finds the mark set asks for nothing. `OneFlush` needs to
know that `_callback` is registered as long as a flush is outstanding, through the path
where a callback throws and the flush is requested again. Proved: `TypeCorrect`, and in
the composition of the two hosts `FallbackKeepsWork`.

*Mock.* `unstable_flushAll` is complete because the clock stands still while a loop runs
that expects no yields, so "due now" and "due when the loop read the time" are the same
(`FlushInv`); `FlushAllIsComplete` needs no hypothesis. `MockKeepsWork` has one,
`~AdvanceInCallbacks`: with a clock that a callback moves, the host's `timeoutTime` is
passed inside a flush and the mark of the scheduler is wrong, as TLC finds at once (section 6).
Under it, `TimerInv` says that the timeout is set to the start time of the first timer
exactly, unless some task was stopped; so the timeout that the host forgets after it has
fired always finds its timer due, and the handler asks for the next.

**Heap** (`StructuresProofs`). The invariant is that at most the travelling node is
out of order, and that its parent and its children are in order with each other,
and that no task is in the array twice: without the second part a swap could break the
order elsewhere. That the root is the
least element is an argument by the smallest counterexample. Proved: `HeapOrderHolds`,
`HeapIsPriorityQueue`.

**Sync queue** (`StructuresProofs`). The queue is always the sequence of consecutive
numbers behind the callback that runs; what is left after a throw is a suffix of it.
Proved: `TypeCorrect`, `CallbacksStartInOrder`, `CallbacksAreNotStranded`,
`OneTaskAtMost`.

**Roots** (`RootSchedulingProofs`). First, each operation on the marks of a root keeps
them in range (`SuspendedOK`, `UpdatedOK`, `FinishedOK`...). Second, `ControlOK` says
where the thread may be, with which return addresses, inside and outside a flush of the
sync queue: the procedures re-enter each other (a commit flushes passive effects, these
flush the sync queue, and its callbacks render and commit), yet with at most four
return addresses. It is needed because a render takes its level from `frame.time` outside a flush
and from the root inside one: only with `ControlOK` is that level known to be one.
Third, `Data`: what is finished or being rendered was built on the tree that is current,
or is forgotten before it can be committed. Proved: `Typing` and `NothingIsEverUnshown`.

Two more invariants follow. `Alive` is behind `CallbackIsAlive`: the
callback node is null, the fake node with a sync callback queued or one of a flush
running, or a node of a task the Scheduler has or of the one that is running and will be
handed back if it is still the root's. It needs to know that a root has a callback only
while it wants one (`RootWantsCallback`), except where something on the stack is going to
ask again (`Settled`), and that a commit inside a flush really commits (`SyncCommits`),
for only then is the fake node cleared. A node for a new task exists because finitely
many are in use. `Agree` is behind `FirstPendingIsHighest`: the level that a render
has found for the time after it (`wip.next`) is never above the first pending level, so
what the commit computes from it is the most urgent level left. Proved:
`CallbackStaysAlive` and `FirstPendingIsAlwaysHighest`.

**Flight** (`StructuresProofs`), for any capacity, any number of rows and any pattern of
suspensions and errors. The invariant `FlightInv` adds to `RowsAreAccounted` who owns an
unfinished segment: the ids in use are those below `nextChunkId` (`IdsOK`); what is in
`pingedSegments` or `attempted` is a segment that was pinged, and is there once
(`PingsOK`); one call of `performWork` is scheduled while anything is pinged, and none
works after the end (`WorkOK`). With these, finishing a segment cannot make a second row
of it. That the stream is not closed too early is counting: the written rows are distinct
and finished, so while some segment is not finished there are fewer of them than ids, and
`pendingChunks` is not zero. `ClientInv` then says that what is in the stream, in the
rows that wait, and in the client's chunks is what the server made (`TrueRows`), and that
the rows written are those read and those in the stream (`ReadOK`); at the end the
stream is empty, so all were read. Proved: `RowsAccounted`, `ClientIsRight`, and
`WorkIsInOrder` (`PingsOK` and `WorkOK`, behind `EveryResponseEnds`).

**Update queue** (`UpdateQueueProofs`), for any expiration times, any number of updates,
errors and list nodes. The model keeps the nodes with their `next` pointers, and
`Walk` follows these. The proofs speak of sequences instead: `Ring(store, last, q)` says
that the circular list that ends with `last` is `q`, `Line` the same of the open list that
`processUpdateQueue` builds, and `ListIs` shows that walking reads the ring. Each change
of links has a lemma that says what becomes of a ring or a line (`RingAppend`, `RingJoin`,
`LineAppend`, `LineClose`), and a list none of whose links has changed stays what it is
(`RingFrame`, `LineFrame`). That a new node is in none of the lists is `NewIs`.

On the lists rests the account of the updates. Between two loops, base state, base queue
and new updates are, in this order, all updates that were made (`Account`); what has been
seen is the base state and some of the queued updates of which the queue has a Sync
copy (`Queued`). In the loop, the base state, the new base queue, the part of the
base queue that is still to come and the new updates are all updates (`Split`), and which
of them are seen depends on whether an update was skipped yet (`Working`). The copies
must be Sync: a copy with a lower time could be skipped by the next render, and what the
screen had shown would be taken back. The invariant `IInv` says all this of current and of
the work in progress at once, with the same new updates. It needs one thing more:
in the loop, an untouched list of current is the one that the loop is in, and nothing is
pending (`PhaseInv`). The loop links its copies beside that list and never into it,
which is why the list outlives the render when this is thrown away. `RemainingWorkIsMarked` has its exception for the Sync copies behind the first
update, and the exception is invariant only because the first one never is such a copy.
Proved: `UpdatesKept`, `WorkIsMarked`, `CallbacksFollow`, and the refinement
`ImplementsLog`. As with TLC, behaviours in which the list is `spoilt` are left out.

**Hooks** (`FunctionHooksProofs`), for any set of states, any functions on them as
actions, any props, any times, any number of updates and of renders that are thrown
away. `ComponentAssumption` says what a component may do to itself: it dispatches at
most one action in a pass, and none in the state that action results in, which is how
the model ends a render after two passes (the code goes on to 25 and then throws).

The loops of `updateReducer` and `rerenderReducer` are folds over lists of any length.
The library's induction theorems take an operator and cannot be used, so a fact about
every position of such a list is proved by a set: the positions where it is false are
natural numbers, each of them has a smaller one in the set, and a set of that kind is
empty (`NoSmallest`, from the well-foundedness of `<`). The central lemma of that kind is
`ProcessUpdates`: as long as nothing is skipped the state is what all updates so far
come to, and from the first one that is skipped the base queue leads from the base state
to what all of them come to (`LoopKeeps`); an eager state that was right stays right
although rebasing moves its update.

The invariant has one part for each property and two that they rest on. `TypeOK` and
`Shape` say which fibers, finished trees and passes there are. `InstancesInv`: the one
instance that is alive is the one that both the committed fiber and a finished tree
would destroy; without the finished tree a commit could destroy the wrong one.
`EffectsInv`: an effect whose instance is not that of the state has yet to run.
`ScreenInv`: a finished tree that bailed out has the state and the props of the committed
one. `CurrentInv` and `AlternateInv` are the account of the updates for both fibers. The
account of the finished tree is needed because a commit puts it in the place of the
other, and that of the committed fiber has to survive what a render does to it on the
way: `lastRenderedState` already belongs to the finished tree, and a bail-out may have
cleared the time of the committed fiber. The eager states are part of it (`EagerOK`): an
update that `dispatchAction` computed ahead must come to the same state when it is replayed
behind others, which is true only because nothing else waited. Proved: `TypeCorrect`,
`NothingForgotten`, `EffectsFollow`, `ScreenShows`. As with TLC, behaviours that have met
one of the four flaws (`spoilt`) are outside the first two.

**DevTools store** (`StructuresProofs`), for elements in any tree or forest, any number of
them, any messages, and any folding. `StoreSpec(messages)` is the frontend without a page:
a message of the set arrives whenever it fits (`Fits`: a reordering names the children
that are there, which the store checks only in part, `store.js:930`), or the user folds
or selects. That the backend's messages fit is model-checked, by `StoreMirrorsTree`.

Weights are kept by adding to what is above an element, so the proof needs a tree without
cycles in which the way up ends. `Weighted` says so with a rank: there is a function on
the elements that is smaller for a parent than for its children. Facts about the way up
(`LineageIs`, `OpenUpIs`, `ShutUp`) are proved as those of the hooks are, by a smallest
rank at which they fail. The rows in an element are then defined without recursion, as the
number of elements that have it on the open part of their way up (`RowsIn`), and the
invariant says that the weight is this number. Each operation has a lemma that says how
these sets change (`AddElementCounts`, `RemoveElementCounts`, `ReorderChildrenCounts`,
`Collapses`, `OpenedIs`); opening everything above an element (`ExpandedIs`) is a fold over its way up, which
keeps the invariant at each stage. `WeighedIs` leads back from the number to the sum over
the children which `RowsAreCounted` states, and from the sum over the roots to the number
of rows in sight. Proved: `RowsCountedInSight`, whose hypothesis is that the keyboard
collapses nothing that is out of sight, and `RowsCounted`, which has that as the constant
`FoldsHidden` as the runs do. Without it the code is wrong (section 6), and it is in the
lemma `Collapses` that the proof needs it.

**Child lists** (`StructuresProofs`), for any number of old children and elements, with any
types, keys and contents. These are theorems about what `reconcileChildrenArray` returns,
not about a specification. What they assume of the old children (`AreChildren`) is that
they have increasing indexes and different ids and keys, and of the array (`AreElements`)
that its keys are different, as React asks; a render that does not track effects has no old
children. `Diffed` is the invariant of both loops: every old child is still to be used,
kept or to be deleted, and in one of these only (`Accounted`); every element done but null
has a child (`Covered`); a child is an old one exactly if type and key agree (`Matched`);
nothing has been moved in vain (`Moved`). The first loop needs `Ahead` too: what is left is
in its old order and not before the next element, so the old child it looks at is the one
at this index, if there is one. `Takes` says what taking one element does, and
`TakenAccount`, `TakenCover`, `TakenMatch` and `TakenMoves` that it keeps each part; both
loops take elements in this sense (`InStepIs`, `ByKeyIs`), and climb along their folds
(`FirstLoop`, `SecondLoop`).

Proved: `ChildrenAreMatched`, which compares the two loops with a definition that has none:
a child is the old child with its element's key and type, or its place and type without a
key. `ChildrenAreKeptOrDeleted`: nobody is lost, kept twice, deleted twice, or kept and
deleted. `ChildrenAreMovedAsNeeded`: those that stay are in their old order, and one that
is moved has been overtaken by one that stays. `ChildrenAreChildrenAgain`: the result,
with ids for the new ones, is again as the theorems assume the old children to be.
`SingleChildIsKeptOrDeleted` is the same for a single element. `OnlyMovesWhatMust`,
`KeyedChildrenKeepTheirState` and `UnmountedOnce` say what follows for trees, Suspense
boundaries and host nodes, on the instances that TLC checks.

**Only model-checked**: every liveness property (fairness and ENABLED are out of the
prover's reach); `TypeOK` of the update queue, which also says that the bound on nodes was
never met; what a whole tree comes to, from the begin phase through the effects to the host
nodes, and that the DevTools show the same tree (trees are walked by RECURSIVE operators,
which the prover cannot use); `AllWorkIsScheduled`, which is false for three updates; of the hooks, that
every update is shown in the end (`EveryUpdateIsShown`).

## 6. What the checks found

**Disagreements** (`findings`). The first five each have a run that fails; the last two are
shown by a change to a run that passes, as said there:

1. *Delayed tasks on the fallback host* (`nodom_delayed`,
   `SchedulerHostConfig.default.js:60`). `requestHostTimeout` there is
   `setTimeout(cb, ms)`, which calls `handleTimeout` without the time. All comparisons
   with `undefined` are false, no timer fires, and the next timeout is for `NaN`
   milliseconds, at once and forever.
2. *Updates lost behind an error boundary* (`updates_captured`,
   `ReactUpdateQueue.js:461`). When a boundary is processed a second time in a render,
   its queue holds only what the first pass left, and that list is given to current. If
   the render is thrown away, what the first pass applied is gone.
3. *A root left alone* (`roots_lost`, `ReactFiberWorkLoop.js:1989`). A commit forgets
   `nextKnownPendingLevel` before it asks what to do next. If the first pending level is
   marked as suspended, the levels below it are not found, the callback is cleared, and
   the updates wait until something else updates the root. The range mark that makes
   this possible is set again by `markUpdateTimeFromFiberToRoot` (579) after the data
   came.

4. *Filtered boundaries* (`tree_filtered`, `renderer.js:1554`). When a boundary shows or
   showed its fallback, the backend mounts and updates its children with the boundary as
   their parent, also if a filter leaves the boundary out of the tree. The store throws.
5. *An update that is skipped and forgotten* (`hooks_lost`, `ReactFiberHooks.js:1363`). A
   dispatch of the component to itself writes the render's time over the one that
   `updateReducer` left for the updates it skipped.
6. Three more of the same file, which `spoilt` marks and the `hooks` run reaches:
   `bailoutHooks` clears the time of the current fiber (497); a render that is thrown
   away leaves its state in `lastRenderedState`, and eager states are compared with that
   (852); a hook keeps the effect of an earlier pass as the one to compare with (979).
   Taking a flaw out of the exclusion of its property makes that run fail.
7. *Rows of an element that is folded out of sight* (`store.js:605`): the keyboard may fold
   the selected element inside a collapsed one (`Tree.js:130-143` does not ask), and its
   rows are then taken off twice. The comment at 603 says such a fold needs no special case.
   `ArrowLeft` has a guard the code has not, which keeps to elements in sight, so that
   `RowsAreCounted` says something about all other behaviours. With `FoldsHidden = TRUE`
   in `MCFiberTree_tree.cfg` the guard is gone and `RowsAreCounted` fails.

**Observations**: behaviour that no statement of the repository contradicts, or that the
properties are worded around.

* Timeouts set when `isHostTimeoutScheduled` is false overwrite `taskTimeoutID`
  (`Scheduler.js:121, 216`) and can no longer be cleared. They accumulate; a stray one
  only finds nothing to do. The models keep them (`strays`).
* A task that is cancelled inside its own callback is armed again by the continuation the
  callback returns (192 against 416). `StoppedNeverRuns` allows exactly that.
* The mock host clears its timeout after it called the handler (`mock:206`) and so
  forgets one the handler asked for; moving the clock inside a callback makes the
  scheduler's marks false. The run keeps to callbacks that do not.
* A paused scheduler with tasks keeps the message loop of the DOM host busy.
* A captured error goes first, not last, of the queue of its boundary
  (`ReactUpdateQueue.js:313` against 307), and into the list that current shares (314
  against 305). Updates made by updater functions come out of order after a discarded
  render (571). `AllUpdatesKept` is therefore stated for lists that no such thing has
  touched (`list`).
* The callback of a rebased update is called twice (517; `ReactBaseClasses.js:40-42`
  promises it once it is complete). `CallbacksWithTheirUpdate` says which commit calls it
  first.
* With `busyDelayMs` or `busyMinDurationMs` a complete tree that waits to commit marks
  its level as suspended (1016–1040). A more urgent render cancels the timeout, and then
  nobody comes back for the level. `roots_work` has `LoadingDelays` off for that reason.
* A stray callback of the sync queue renders and commits nothing, and its commit clears
  `nextKnownPendingLevel`; a lower update then waits for data it has nothing to do with.
* Several tasks of one root may be alive (strays are not cancelled at 637–646 and
  650–657, and a commit clears `callbackNode`), although 629–630 says "There's only one
  task per root". `CallbackIsAlive` is the part of it that matters.

## 7. Plan

Done, in this order: scheduler core and DOM host; heap; fallback and mock hosts; sync
queue; update queue; roots; the proofs of the scheduler, the heap, the sync queue and
the roots; children, begin and commit, with the DevTools that follow them; hooks with
their effects; Flight and its proofs; the proofs of the other two hosts, of the hooks, of
the update queue, of the DevTools store and of the child lists.

Next, most important first:

1. `Suspense` boundaries: which boundary captures, ping and retry caches, nested
   fallbacks; it refines `suspendUnit` and the listeners of `RootScheduling`, and joins
   them with the boundaries of `BeginWork`.
2. Effects of several components: the order of unmounts and mounts over a subtree, errors
   thrown by an effect, the layout phase.
3. Class components: instances over renders that are thrown away, `ReactUpdateQueue`
   beside lifecycles, error boundaries.
4. `FiberStack` with `NewContext`: pushes and pops through complete, unwind and an
   interrupted render leave the stack as it was; propagation reaches every consumer.
5. `ExpirationTime`: buckets and inferred priorities, with the widths of the numbers.
6. `Tracing`: the counts of wrapped callbacks; `ReactCache`: the LRU list and records;
   `Subscription`: values that change between render, commit and subscription.

Proofs to come: the promises of the modules above.

## 8. What is not modelled

Inside the modelled parts: errors that no boundary captures; several roots and the order
among them; `act()`; hydration; discrete events that flush passive effects and sync work
early; legacy and blocking mode; several updates behind one boundary; the ambient
priority level (`runWithPriority`, `next`, `wrapCallback`); `reset` of the mock host;
profiling. In the model of the roots, what happens inside a unit of work is left open:
which fibers are visited, in which order, is `todo` of a render.

Of the tree: portals, iterators as children (they follow the array's algorithm),
`SuspenseList`, hydration, class and context components, the properties of host nodes,
the layout phase, renders that are thrown away half way. Of the DevTools: inspection,
profiling, owners, searches, the selection kept over a reload. Of the hooks: refs,
memos, callbacks, imperative handles, deferred values and transitions, context, reducers
that change between renders, more than one hook of a kind. Of Flight: the JSON of a row
and its escapes, rows cut into pieces, a request to write more that comes from inside a
write (the server ignores it), thenables that call back at once, a stream that its
reader cancels.

Components listed as `not_modelled` in `PROJECT.json` carry the reason: planned (above),
or host I/O, pure output, development-time tools, generated or experimental code.
