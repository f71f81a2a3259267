---------------------------- MODULE SchedulerCore ----------------------------
(***************************************************************************)
(* Scheduler.js of packages/scheduler: the queues of tasks and the work    *)
(* loop, without a host.  The host forks (SchedulerDOM, SchedulerNoDOM,    *)
(* SchedulerMock) extend this module: each of their actions is one of the  *)
(* actions below together with the host calls the code makes in it, which  *)
(* the predicates Needs... and Sets... say.                                *)
(*                                                                         *)
(* JavaScript runs to completion, so an action is the code between two     *)
(* points where other code can run.  `pc` says who is on the stack:        *)
(*    "idle"      no scheduler frame; the event loop picks what is next    *)
(*    "loop"      workLoop at its loop head                                *)
(*    "callback"  the callback of currentTask, called by workLoop          *)
(* Time may pass in all of them.  A definition whose comment says Mutant   *)
(* is wrong on purpose and no action uses it: it shows that a property of  *)
(* the runs can fail.                                                      *)
(***************************************************************************)
EXTENDS TaskQueues, FiniteSets

CONSTANTS
    MaxTasks,       \* bound: calls of scheduleCallback in a behaviour
    MaxTime,        \* bound: the last value of the clock
    MaxPauses,      \* bound: calls of pauseExecution in a behaviour
    Delays,         \* options.delay of the callers; 0 is no delay
    Timeouts,       \* timeoutForPriorityLevel, or options.timeout, scaled
    enableSchedulerDebugging  \* SchedulerFeatureFlags: is pausing compiled in?

ASSUME BoundsAssumption == MaxTasks \in Nat /\ MaxTime \in Nat /\ MaxPauses \in Nat
ASSUME InputsAssumption == Delays \subseteq Nat /\ Timeouts \subseteq Int
ASSUME FlagAssumption   == enableSchedulerDebugging \in BOOLEAN

TaskId == 1..MaxTasks
Time   == 0..MaxTime

VARIABLES
    pc,
    now,                      \* getCurrentTime()
    nextId,                   \* taskIdCounter
    startTime, expirationTime, sortIndex,    \* fields of the tasks, by id
    hasCallback,              \* the tasks whose callback field is not null
    taskQueue, timerQueue,    \* the two heaps
    currentTask, isPerformingWork, isSchedulerPaused,
    isHostCallbackScheduled, isHostTimeoutScheduled,
    currentTime,              \* the local of workLoop
    (* history, read by the properties and the bounds only *)
    pauses,                   \* calls of pauseExecution so far
    stopped                   \* tasks passed to cancelCallback, or whose callback threw

tasks    == <<nextId, startTime, expirationTime>>
queues   == <<sortIndex, taskQueue, timerQueue>>
work     == <<currentTask, isPerformingWork, currentTime>>
flags    == <<isHostCallbackScheduled, isHostTimeoutScheduled>>
pausing  == <<isSchedulerPaused, pauses>>
coreVars == <<pc, now, tasks, hasCallback, queues, work, flags, pausing, stopped>>

CoreInit ==
    /\ pc = "idle"
    /\ now = 0
    /\ nextId = 1
    /\ startTime = [t \in TaskId |-> 0]
    /\ expirationTime = [t \in TaskId |-> 0]
    /\ sortIndex = [t \in TaskId |-> -1]
    /\ hasCallback = {}
    /\ taskQueue = {} /\ timerQueue = {}
    /\ currentTask = NoTask /\ isPerformingWork = FALSE /\ currentTime = 0
    /\ isSchedulerPaused = FALSE /\ pauses = 0
    /\ isHostCallbackScheduled = FALSE /\ isHostTimeoutScheduled = FALSE
    /\ stopped = {}

-----------------------------------------------------------------------------
(* Both queues, after advanceTimers(time) on a task queue tq *)

\* Mutant: a timer keeps its start time as its key in the task queue.
advanceTimers_keepsKey(time, live, tq) ==
    /\ timerQueue' = timerQueue \ Popped(timerQueue, live, startTime, sortIndex, time)
    /\ taskQueue' = tq \cup Fired(timerQueue, live, startTime, sortIndex, time)
    /\ UNCHANGED sortIndex

\* Mutant: a timer gets its new key before it is known to have fired.
advanceTimers_keyFirst(time, live, tq) ==
    /\ timerQueue' = timerQueue \ Popped(timerQueue, live, startTime, sortIndex, time)
    /\ taskQueue' = tq \cup Fired(timerQueue, live, startTime, sortIndex, time)
    /\ sortIndex' = [t \in TaskId |-> IF t \in timerQueue THEN expirationTime[t]
                                                          ELSE sortIndex[t]]

advanceTimers(time, live, tq) ==
    LET fired == Fired(timerQueue, live, startTime, sortIndex, time)
    IN  /\ timerQueue' = timerQueue
              \ Popped(timerQueue, live, startTime, sortIndex, time)
        /\ sortIndex' = [t \in TaskId |-> IF t \in fired THEN expirationTime[t]
                                                         ELSE sortIndex[t]]
        /\ taskQueue' = tq \cup fired

Head       == Peek(taskQueue, sortIndex)
FirstTimer == Peek(timerQueue, sortIndex)
NewHead    == Peek(taskQueue', sortIndex')
NewTimer   == Peek(timerQueue', sortIndex')

-----------------------------------------------------------------------------
(* Calls of the program: from an event handler, or from the callback that  *)
(* is running.                                                             *)

ClientRuns == pc \in {"idle", "callback"}

\* Must a caller with new work call requestHostCallback?
NeedsHostCallback == ~isHostCallbackScheduled /\ ~isPerformingWork

\* Mutant: the id counter is not advanced.
NewTask_sameId(start, timeout, sort) ==
    /\ UNCHANGED nextId
    /\ startTime' = [startTime EXCEPT ![nextId] = start]
    /\ expirationTime' = [expirationTime EXCEPT ![nextId] = start + timeout]
    /\ sortIndex' = [sortIndex EXCEPT ![nextId] = sort]
    /\ hasCallback' = hasCallback \cup {nextId}

NewTask(start, timeout, sort) ==
    /\ nextId' = nextId + 1
    /\ startTime' = [startTime EXCEPT ![nextId] = start]
    /\ expirationTime' = [expirationTime EXCEPT ![nextId] = start + timeout]
    /\ sortIndex' = [sortIndex EXCEPT ![nextId] = sort]
    /\ hasCallback' = hasCallback \cup {nextId}

\* With a delay: a timer.  If all tasks are delayed and it is the earliest, the
\* host is to wake up for it, instead of for what it was to wake up for before.
SetsHostTimeout == taskQueue = {} /\ nextId = NewTimer

scheduleTimer(delay, timeout) ==
    /\ ClientRuns
    /\ nextId <= MaxTasks
    /\ delay > 0
    /\ now + delay <= MaxTime
    /\ NewTask(now + delay, timeout, now + delay)
    /\ timerQueue' = timerQueue \cup {nextId}
    /\ isHostTimeoutScheduled' = (isHostTimeoutScheduled \/ SetsHostTimeout)
    /\ UNCHANGED <<pc, now, taskQueue, isHostCallbackScheduled, work, pausing, stopped>>

\* Without one: a task, and the host is called back if need be.
scheduleTask(timeout) ==
    /\ ClientRuns
    /\ nextId <= MaxTasks
    /\ NewTask(now, timeout, now + timeout)
    /\ taskQueue' = taskQueue \cup {nextId}
    /\ isHostCallbackScheduled' = (isHostCallbackScheduled \/ NeedsHostCallback)
    /\ UNCHANGED <<pc, now, timerQueue, isHostTimeoutScheduled, work, pausing, stopped>>

cancelCallback(t) ==
    /\ ClientRuns
    /\ t < nextId
    /\ hasCallback' = hasCallback \ {t}
    /\ stopped' = stopped \cup {t}
    /\ UNCHANGED <<pc, now, tasks, queues, work, flags, pausing>>

\* Runs advanceTimers, wherever it is called from.
shouldYield ==
    /\ ClientRuns
    /\ advanceTimers(now, hasCallback, taskQueue)
    /\ UNCHANGED <<pc, now, tasks, hasCallback, work, flags, pausing, stopped>>

pauseExecution ==
    /\ ClientRuns
    /\ pauses < MaxPauses
    /\ pauses' = pauses + 1
    /\ isSchedulerPaused' = TRUE
    /\ UNCHANGED <<pc, now, tasks, hasCallback, queues, work, flags, stopped>>

\* A program continues only what it has paused.
continueExecution ==
    /\ ClientRuns
    /\ isSchedulerPaused
    /\ isSchedulerPaused' = FALSE
    /\ isHostCallbackScheduled' = (isHostCallbackScheduled \/ NeedsHostCallback)
    /\ UNCHANGED <<pc, now, tasks, hasCallback, queues, work,
                   isHostTimeoutScheduled, pauses, stopped>>

-----------------------------------------------------------------------------
(* flushWork and workLoop *)

\* flushWork, up to the first loop head of workLoop.  The host cancels the
\* outstanding timeout if isHostTimeoutScheduled.
enterFlushWork ==
    /\ isHostCallbackScheduled' = FALSE
    /\ isHostTimeoutScheduled' = FALSE
    /\ isPerformingWork' = TRUE
    /\ currentTime' = now
    /\ advanceTimers(now, hasCallback, taskQueue)
    /\ currentTask' = NewHead
    /\ pc' = "loop"
    /\ UNCHANGED <<now, tasks, hasCallback, pausing, stopped>>

Paused == enableSchedulerDebugging /\ isSchedulerPaused

\* Does the loop stop in front of currentTask?  outOfTime is what the host
\* answers: !hasTimeRemaining || shouldYieldToHost().
MustYield(outOfTime) ==
    \/ Paused
    \/ expirationTime[currentTask] > currentTime /\ outOfTime

AtTask == pc = "loop" /\ currentTask # NoTask

\* The finally block of flushWork.
leaveFlushWork ==
    /\ currentTask' = NoTask
    /\ isPerformingWork' = FALSE
    /\ pc' = "idle"
    /\ UNCHANGED <<now, tasks, hasCallback, queues, currentTime, flags, pausing>>

\* Break out of the loop: flushWork returns true.
yieldWork(outOfTime) ==
    /\ AtTask
    /\ MustYield(outOfTime)
    /\ leaveFlushWork
    /\ UNCHANGED stopped

\* Mutant: leaves the callback in the task while it runs.
runTask_keepsCallback(outOfTime) ==
    /\ AtTask
    /\ ~MustYield(outOfTime)
    /\ currentTask \in hasCallback
    /\ pc' = "callback"
    /\ UNCHANGED <<now, tasks, hasCallback, queues, work, flags, pausing, stopped>>

runTask(outOfTime) ==
    /\ AtTask
    /\ ~MustYield(outOfTime)
    /\ currentTask \in hasCallback
    /\ hasCallback' = hasCallback \ {currentTask}
    /\ pc' = "callback"
    /\ UNCHANGED <<now, tasks, queues, work, flags, pausing, stopped>>

\* Mutant: skips a cancelled task without popping it.
dropTask_keeps(outOfTime) ==
    /\ AtTask
    /\ ~MustYield(outOfTime)
    /\ currentTask \notin hasCallback
    /\ UNCHANGED coreVars

dropTask(outOfTime) ==
    /\ AtTask
    /\ ~MustYield(outOfTime)
    /\ currentTask \notin hasCallback
    /\ taskQueue' = taskQueue \ {Head}
    /\ currentTask' = Peek(taskQueue', sortIndex)
    /\ UNCHANGED <<pc, now, tasks, hasCallback, sortIndex, timerQueue,
                   isPerformingWork, currentTime, flags, pausing, stopped>>

\* No task is left: flushWork returns false, after it has set a host timeout
\* for FirstTimer, if there is one.
drained ==
    /\ pc = "loop"
    /\ currentTask = NoTask
    /\ leaveFlushWork
    /\ UNCHANGED stopped

\* Mutant: pops whatever is first, a task scheduled by the callback included.
AfterCallback_popsHead(continues) == IF continues THEN taskQueue ELSE taskQueue \ {Head}

\* A callback that is done is popped only if it is still first: the callback
\* may have scheduled something more urgent.
AfterCallback(continues) ==
    IF ~continues /\ currentTask = Head THEN taskQueue \ {currentTask} ELSE taskQueue

\* The callback returned: with a continuation, which becomes the task's
\* callback, or without.
callbackReturns(continues) ==
    /\ pc = "callback"
    /\ currentTime' = now
    /\ hasCallback' = IF continues THEN hasCallback \cup {currentTask}
                      ELSE hasCallback
    /\ advanceTimers(now, hasCallback, AfterCallback(continues))
    /\ currentTask' = NewHead
    /\ pc' = "loop"
    /\ UNCHANGED <<now, tasks, isPerformingWork, flags, pausing, stopped>>

\* It threw, through workLoop and flushWork into the host.  The task stays
\* queued, without its callback.
callbackThrows ==
    /\ pc = "callback"
    /\ leaveFlushWork
    /\ stopped' = stopped \cup {currentTask}

-----------------------------------------------------------------------------
(* handleTimeout(time), called by the host, which may move the clock in the *)
(* same step.                                                              *)

handleTimeout(time) ==
    /\ advanceTimers(time, hasCallback, taskQueue)
    /\ isHostTimeoutScheduled' = FALSE
    /\ isHostCallbackScheduled' = (isHostCallbackScheduled \/ NewHead # NoTask)
    /\ UNCHANGED <<pc, tasks, hasCallback, work, pausing, stopped>>

\* What handleTimeout asks of the host.
TimeoutNeedsCallback == ~isHostCallbackScheduled /\ NewHead # NoTask
TimeoutSetsTimeout   == ~isHostCallbackScheduled /\ NewHead = NoTask /\ NewTimer # NoTask

-----------------------------------------------------------------------------
tick ==
    /\ now < MaxTime
    /\ now' = now + 1
    /\ UNCHANGED <<pc, tasks, hasCallback, queues, work, flags, pausing, stopped>>

-----------------------------------------------------------------------------
(* Properties of the scheduler on every host *)

\* Every variable stays in its domain.
CoreTypeOK ==
    /\ pc \in {"idle", "loop", "callback"}
    /\ now \in Time /\ currentTime \in Time
    /\ nextId \in 1..(MaxTasks + 1)
    /\ startTime \in [TaskId -> Time]
    /\ expirationTime \in [TaskId -> Int]
    /\ sortIndex \in [TaskId -> Int]
    /\ hasCallback \subseteq 1..(nextId - 1)
    /\ taskQueue \subseteq 1..(nextId - 1)
    /\ timerQueue \subseteq 1..(nextId - 1)
    /\ currentTask \in 1..(nextId - 1) \cup {NoTask}
    /\ isPerformingWork \in BOOLEAN
    /\ isSchedulerPaused \in BOOLEAN
    /\ isHostCallbackScheduled \in BOOLEAN
    /\ isHostTimeoutScheduled \in BOOLEAN
    /\ pauses \in 0..MaxPauses
    /\ stopped \subseteq 1..(nextId - 1)

\* No task is queued twice, and every live task is in a queue or is running.
QueuesPartitionLiveTasks ==
    /\ taskQueue \cap timerQueue = {}
    /\ hasCallback \subseteq taskQueue \cup timerQueue

\* A task that threw, or was cancelled, is never called again, although it may
\* stay queued and move between the queues: nothing gives it a callback but
\* the continuation that its own call in progress returns.
RevivesOnlyByContinuation ==
    \A t \in stopped' \cap hasCallback' :
       \/ t \in stopped \cap hasCallback
       \/ pc = "callback" /\ pc' = "loop" /\ t = currentTask

StoppedNeverRuns == [][RevivesOnlyByContinuation]_coreVars

\* The key of a task never changes while the task is in a heap: a changed key
\* would break the heap order, and with it peek.
KeepsKeys ==
    \A t \in TaskId :
       \/ t \in taskQueue /\ t \in taskQueue'
       \/ t \in timerQueue /\ t \in timerQueue'
       => sortIndex'[t] = sortIndex[t]

KeysFrozen == [][KeepsKeys]_coreVars

\* The scheduler gives the thread back in mid-queue only when no live task has
\* expired, as of the time it last read: expired work is done even past the
\* deadline of the slice.
YieldsOnlyUnexpired ==
    pc = "loop" /\ pc' = "idle" /\ ~Paused =>
        \A t \in hasCallback : startTime[t] <= currentTime
                                   => expirationTime[t] > currentTime

NothingExpiredAtYield == [][YieldsOnlyUnexpired]_coreVars

\* The scheduler implements the pool of tasks it stands for.
Pool == INSTANCE TaskPool WITH
    armed   <- hasCallback,
    running <- IF pc = "callback" THEN currentTask ELSE NoTask,
    clock   <- currentTime

ImplementsTaskPool == Pool!PoolSpec
=============================================================================
