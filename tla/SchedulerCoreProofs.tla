------------------------- MODULE SchedulerCoreProofs -------------------------
(***************************************************************************)
(* What holds of Scheduler.js on every host, for every number of tasks,    *)
(* every set of delays and timeouts and every clock bound.                 *)
(***************************************************************************)
EXTENDS SchedulerCore, FiniteSetTheorems, TLAPS

-----------------------------------------------------------------------------
(* The head of a queue *)

\* The order of the tasks is a strict total order.
LEMMA BeforeIsOrder ==
    ASSUME NEW sort, NEW x \in Int, NEW y \in Int, NEW z \in Int,
           sort[x] \in Int, sort[y] \in Int, sort[z] \in Int
    PROVE  /\ ~Before(sort, x, x)
           /\ Before(sort, x, y) \/ Before(sort, y, x) \/ x = y
           /\ Before(sort, x, y) => ~Before(sort, y, x)
           /\ Before(sort, x, y) /\ Before(sort, y, z) => Before(sort, x, z)
BY DEF Before

\* Every non-empty queue has a first task, and peek returns it.  The tasks up
\* to t are a subset of the queue; the queue is finite, so one of these
\* subsets is minimal, and nothing comes before its last task.
LEMMA PeekIsLeast ==
    ASSUME NEW ids, ids \subseteq Int, NEW sort \in [ids -> Int],
           NEW queue, queue \subseteq ids, IsFiniteSet(queue), queue # {}
    PROVE  /\ Peek(queue, sort) \in queue
           /\ \A t \in queue \ {Peek(queue, sort)} : Before(sort, Peek(queue, sort), t)
<1> DEFINE UpTo(t) == {u \in queue : u = t \/ Before(sort, u, t)}
           Prefixes == {UpTo(t) : t \in queue}
<1>1. \A x, y, z \in queue :
          /\ ~Before(sort, x, x)
          /\ Before(sort, x, y) \/ Before(sort, y, x) \/ x = y
          /\ Before(sort, x, y) /\ Before(sort, y, z) => Before(sort, x, z)
  <2> TAKE x, y, z \in queue
  <2>1. /\ x \in Int /\ y \in Int /\ z \in Int
        /\ sort[x] \in Int /\ sort[y] \in Int /\ sort[z] \in Int
    OBVIOUS
  <2> QED
    BY <2>1, BeforeIsOrder
<1>2. IsFiniteSet(queue)
  OBVIOUS
<1>3. IsWellFoundedOn(StrictSubsetOrdering(queue), SUBSET queue)
  BY <1>2, FS_StrictSubsetOrderingWellFounded, FS_FiniteSubsetsOfFinite
<1>4. Prefixes \subseteq SUBSET queue /\ Prefixes # {}
  OBVIOUS
<1>5. PICK p \in Prefixes : \A q \in Prefixes : ~ (<<q, p>> \in StrictSubsetOrdering(queue))
  <2> HIDE DEF Prefixes
  <2> QED BY <1>3, <1>4, WFMin
<1>6. PICK first \in queue : p = UpTo(first)
  BY <1>5
<1>7. ASSUME NEW u \in queue, u # first, Before(sort, u, first)
      PROVE  FALSE
  <2>1. UpTo(u) \subseteq UpTo(first) /\ first \notin UpTo(u) /\ first \in UpTo(first)
    BY <1>1, <1>7
  <2>2. <<UpTo(u), p>> \in StrictSubsetOrdering(queue)
    BY <2>1, <1>6 DEF StrictSubsetOrdering
  <2> QED
    BY <2>2, <1>5
<1>8. \A t \in queue \ {first} : Before(sort, first, t)
  BY <1>1, <1>7
<1>9. \E x \in queue : \A t \in queue \ {x} : Before(sort, x, t)
  BY <1>6, <1>8
<1> QED
  BY <1>9 DEF Peek

\* A queue of tasks of the scheduler is finite: peek returns its first task.
LEMMA PeekIsFirst ==
    ASSUME NEW queue, queue \subseteq TaskId, queue # {},
           NEW sort \in [TaskId -> Int]
    PROVE  /\ Peek(queue, sort) \in queue
           /\ \A t \in queue \ {Peek(queue, sort)} : Before(sort, Peek(queue, sort), t)
<1>1. IsFiniteSet(queue)
  <2>1. IsFiniteSet(1..MaxTasks)
    BY FS_Interval, BoundsAssumption
  <2> QED
    BY <2>1, FS_Subset DEF TaskId
<1>2. TaskId \subseteq Int
  BY DEF TaskId
<1> QED
  BY <1>1, <1>2, PeekIsLeast

\* Only one task comes before all others, so peek returns it: taking away others,
\* or adding one that is not first, keeps the first.
LEMMA FirstIsUnique ==
    ASSUME NEW timers, timers \subseteq TaskId, NEW sort \in [TaskId -> Int],
           NEW t \in timers, \A u \in timers \ {t} : Before(sort, t, u)
    PROVE  Peek(timers, sort) = t
<1>1. /\ Peek(timers, sort) \in timers
      /\ \A u \in timers \ {Peek(timers, sort)} : Before(sort, Peek(timers, sort), u)
  BY PeekIsFirst
<1>2. \A u \in timers : u \in Int /\ sort[u] \in Int
  BY DEF TaskId
<1> QED
  BY <1>1, <1>2 DEF Before

\* peek returns a member of the queue, and null exactly when there is none.
LEMMA PeekType ==
    ASSUME NEW queue, queue \subseteq TaskId, NEW sort \in [TaskId -> Int]
    PROVE  /\ Peek(queue, sort) \in queue \cup {NoTask}
           /\ Peek(queue, sort) = NoTask <=> queue = {}
<1>1. NoTask \notin TaskId
  BY BoundsAssumption DEF NoTask, TaskId
<1>2. CASE queue = {}
  BY <1>2 DEF Peek
<1>3. CASE queue # {}
  BY <1>1, <1>3, PeekIsFirst
<1> QED
  BY <1>2, <1>3

-----------------------------------------------------------------------------
(* The inductive invariant of the core *)

\* The reading of the clock that workLoop keeps is not in the future.
ClockInv == currentTime <= now

\* Who is on the stack: at the loop head currentTask is what peek returns; in a
\* callback it is queued, its callback nulled.
StackInv ==
    /\ isPerformingWork <=> pc # "idle"
    /\ pc = "idle" => currentTask = NoTask
    /\ pc = "loop" => currentTask = Head
    /\ pc = "callback" => currentTask \in taskQueue \ hasCallback

\* The key of a task is the one its queue is ordered by.
KeyInv ==
    /\ \A t \in taskQueue : sortIndex[t] = expirationTime[t]
    /\ \A t \in timerQueue : sortIndex[t] = startTime[t]

\* The task queue holds tasks that have started; at the loop head it holds all
\* of them, as of currentTime.
DueInv ==
    /\ \A t \in taskQueue : startTime[t] <= now
    /\ pc = "loop" => /\ \A t \in taskQueue : startTime[t] <= currentTime
                      /\ \A t \in timerQueue \cap hasCallback : startTime[t] > currentTime

CoreInv ==
    /\ CoreTypeOK
    /\ ClockInv
    /\ StackInv
    /\ KeyInv
    /\ DueInv
    /\ QueuesPartitionLiveTasks

\* The host moves the clock.
timePasses ==
    /\ now' \in now..MaxTime
    /\ UNCHANGED <<pc, tasks, hasCallback, queues, work, flags, pausing, stopped>>

\* Every step a host takes is one of these.
CoreStep ==
    \/ \E delay \in Delays, timeout \in Timeouts : scheduleTimer(delay, timeout)
    \/ \E timeout \in Timeouts : scheduleTask(timeout)
    \/ \E t \in TaskId : cancelCallback(t)
    \/ shouldYield
    \/ pauseExecution
    \/ continueExecution
    \/ pc = "idle" /\ enterFlushWork
    \/ \E outOfTime \in BOOLEAN :
           yieldWork(outOfTime) \/ runTask(outOfTime) \/ dropTask(outOfTime)
    \/ drained
    \/ \E continues \in BOOLEAN : callbackReturns(continues)
    \/ callbackThrows
    \/ \E time \in Int : /\ now' \in now..MaxTime /\ time <= now'
                         /\ ClientRuns /\ handleTimeout(time)
    \/ timePasses
    \/ UNCHANGED coreVars

LEMMA QueuedIds ==
    ASSUME CoreTypeOK
    PROVE  1..(nextId - 1) \subseteq TaskId
BY BoundsAssumption DEF CoreTypeOK, TaskId

\* advanceTimers moves to the task queue the live timers that are due, drops
\* cancelled ones, and leaves no live timer behind that is due.
LEMMA AdvanceTimers ==
    ASSUME CoreTypeOK, KeyInv, QueuesPartitionLiveTasks, NEW time \in Int,
           NEW tq, tq \subseteq taskQueue,
           advanceTimers(time, hasCallback, tq)
    PROVE  /\ taskQueue' \subseteq tq \cup (timerQueue \cap hasCallback)
           /\ tq \subseteq taskQueue'
           /\ timerQueue' \subseteq timerQueue
           /\ taskQueue' \cap timerQueue' = {}
           /\ timerQueue \cap hasCallback \subseteq taskQueue' \cup timerQueue'
           /\ \A t \in taskQueue' \ tq : startTime[t] <= time
           /\ \A t \in timerQueue' \cap hasCallback : startTime[t] > time
           /\ \A t \in taskQueue' : sortIndex'[t] = expirationTime[t]
           /\ \A t \in timerQueue' : sortIndex'[t] = startTime[t]
           /\ \A t \in TaskId : t \notin timerQueue \/ t \notin taskQueue'
                                    => sortIndex'[t] = sortIndex[t]
           /\ sortIndex' \in [TaskId -> Int]
<1> DEFINE blockers == Blockers(timerQueue, hasCallback, startTime, time)
           popped   == Popped(timerQueue, hasCallback, startTime, sortIndex, time)
           fired    == Fired(timerQueue, hasCallback, startTime, sortIndex, time)
<1>1. /\ \A t \in timerQueue \cup taskQueue :
              /\ t \in TaskId /\ t \in Int
              /\ startTime[t] \in Int /\ sortIndex[t] \in Int /\ expirationTime[t] \in Int
      /\ \A t \in timerQueue : sortIndex[t] = startTime[t]
      /\ taskQueue \cap timerQueue = {}
  <2>1. timerQueue \cup taskQueue \subseteq TaskId
    BY QueuedIds DEF CoreTypeOK
  <2>2. TaskId \subseteq Int
    BY DEF TaskId
  <2>3. \A t \in TaskId : startTime[t] \in Int
    <3>1. Time \subseteq Int
      BY DEF Time
    <3> QED
      BY <3>1 DEF CoreTypeOK
  <2>4. \A t \in TaskId : sortIndex[t] \in Int /\ expirationTime[t] \in Int
    BY DEF CoreTypeOK
  <2> QED
    BY <2>1, <2>2, <2>3, <2>4 DEF KeyInv, QueuesPartitionLiveTasks
<1>2. popped \subseteq timerQueue /\ fired = popped \cap hasCallback
  BY DEF Popped, Fired
<1>3. \A t \in fired : startTime[t] <= time
  <2> SUFFICES ASSUME NEW t \in fired, startTime[t] > time PROVE FALSE
    BY <1>1, <1>2
  <2>1. t \in blockers
    BY <1>2 DEF Blockers
  <2>2. Before(sortIndex, t, t)
    BY <1>2, <2>1 DEF Popped
  <2> QED
    BY <1>1, <1>2, <2>2 DEF Before
<1>4. \A t \in timerQueue \ popped : startTime[t] > time
  <2> SUFFICES ASSUME NEW t \in timerQueue, t \notin popped PROVE startTime[t] > time
    OBVIOUS
  <2>1. PICK b \in blockers : ~Before(sortIndex, t, b)
    BY DEF Popped
  <2>2. b \in timerQueue /\ startTime[b] > time
    BY DEF Blockers
  <2> QED
    BY <1>1, <2>1, <2>2 DEF Before
<1>5. /\ timerQueue' = timerQueue \ popped /\ taskQueue' = tq \cup fired
      /\ sortIndex' = [t \in TaskId |-> IF t \in fired THEN expirationTime[t]
                                                       ELSE sortIndex[t]]
  BY DEF advanceTimers
<1> HIDE DEF blockers, popped, fired
<1>6. sortIndex' \in [TaskId -> Int]
  BY <1>5 DEF CoreTypeOK
<1>7. /\ taskQueue' \subseteq tq \cup (timerQueue \cap hasCallback)
      /\ tq \subseteq taskQueue'
      /\ timerQueue' \subseteq timerQueue
      /\ taskQueue' \cap timerQueue' = {}
      /\ timerQueue \cap hasCallback \subseteq taskQueue' \cup timerQueue'
  BY <1>1, <1>2, <1>5
<1>8. /\ \A t \in taskQueue' \ tq : startTime[t] <= time
      /\ \A t \in timerQueue' \cap hasCallback : startTime[t] > time
  BY <1>3, <1>4, <1>5
<1>9. \A t \in TaskId : t \notin timerQueue \/ t \notin taskQueue'
                            => sortIndex'[t] = sortIndex[t]
  BY <1>2, <1>5
<1>10. \A t \in taskQueue' : sortIndex'[t] = expirationTime[t]
  BY <1>1, <1>2, <1>5 DEF KeyInv
<1>11. \A t \in timerQueue' : sortIndex'[t] = startTime[t]
  BY <1>1, <1>2, <1>5
<1> QED
  BY <1>6, <1>7, <1>8, <1>9, <1>10, <1>11

-----------------------------------------------------------------------------
(* The invariant is inductive *)

LEMMA CoreInitInv == CoreInit => CoreInv
<1> SUFFICES ASSUME CoreInit PROVE CoreInv
  OBVIOUS
<1>1. 0 \in Time /\ 0 \in 0..MaxPauses /\ 1 \in 1..(MaxTasks + 1)
  BY BoundsAssumption DEF Time
<1>2. CoreTypeOK
  <2>1. /\ startTime \in [TaskId -> Time]
        /\ expirationTime \in [TaskId -> Int]
        /\ sortIndex \in [TaskId -> Int]
    BY <1>1 DEF CoreInit
  <2>2. /\ hasCallback = {} /\ taskQueue = {} /\ timerQueue = {} /\ stopped = {}
        /\ currentTask = NoTask
        /\ now \in Time /\ currentTime \in Time
        /\ nextId \in 1..(MaxTasks + 1) /\ pauses \in 0..MaxPauses
    BY <1>1 DEF CoreInit
  <2> QED
    BY <2>1, <2>2 DEF CoreInit, CoreTypeOK
<1>3. ClockInv /\ StackInv /\ KeyInv /\ DueInv /\ QueuesPartitionLiveTasks
  BY DEF CoreInit, ClockInv, StackInv, KeyInv, DueInv, QueuesPartitionLiveTasks
<1> QED
  BY <1>2, <1>3 DEF CoreInv

\* What a new task adds to the tables of the tasks.
LEMMA NewTaskType ==
    ASSUME CoreTypeOK, nextId <= MaxTasks,
           NEW start \in Time, NEW timeout \in Int, NEW sort \in Int,
           NewTask(start, timeout, sort)
    PROVE  /\ nextId \in TaskId
           /\ nextId' \in 1..(MaxTasks + 1)
           /\ 1..(nextId' - 1) = 1..(nextId - 1) \cup {nextId}
           /\ nextId \notin 1..(nextId - 1)
           /\ startTime' \in [TaskId -> Time]
           /\ expirationTime' \in [TaskId -> Int]
           /\ sortIndex' \in [TaskId -> Int]
           /\ startTime'[nextId] = start
           /\ expirationTime'[nextId] = start + timeout
           /\ sortIndex'[nextId] = sort
           /\ \A t \in TaskId \ {nextId} :
                 /\ startTime'[t] = startTime[t]
                 /\ expirationTime'[t] = expirationTime[t]
                 /\ sortIndex'[t] = sortIndex[t]
<1>1. nextId \in TaskId /\ nextId' \in 1..(MaxTasks + 1)
  BY BoundsAssumption DEF CoreTypeOK, TaskId, NewTask
<1>2. 1..(nextId' - 1) = 1..(nextId - 1) \cup {nextId} /\ nextId \notin 1..(nextId - 1)
  BY <1>1, BoundsAssumption DEF CoreTypeOK, TaskId, NewTask
<1>3. start + timeout \in Int
  BY BoundsAssumption DEF Time
<1> QED
  BY <1>1, <1>2, <1>3 DEF CoreTypeOK, NewTask

\* A step that calls advanceTimers keeps the types of what it writes.
LEMMA AdvanceTimersType ==
    ASSUME CoreInv, NEW time \in Int, NEW tq, tq \subseteq taskQueue,
           advanceTimers(time, hasCallback, tq), UNCHANGED nextId
    PROVE  /\ sortIndex' \in [TaskId -> Int]
           /\ taskQueue' \subseteq 1..(nextId' - 1)
           /\ timerQueue' \subseteq 1..(nextId' - 1)
           /\ NewHead \in taskQueue' \cup {NoTask}
           /\ NewHead \in 1..(nextId' - 1) \cup {NoTask}
<1>1. /\ sortIndex' \in [TaskId -> Int]
      /\ taskQueue' \subseteq tq \cup timerQueue
      /\ timerQueue' \subseteq timerQueue
  BY AdvanceTimers DEF CoreInv
<1>2. taskQueue \cup timerQueue \subseteq 1..(nextId' - 1)
  BY DEF CoreInv, CoreTypeOK
<1>3. taskQueue' \subseteq 1..(nextId' - 1) /\ timerQueue' \subseteq 1..(nextId' - 1)
  BY <1>1, <1>2
<1>4. taskQueue' \subseteq TaskId
  BY <1>3, QueuedIds DEF CoreInv
<1>5. NewHead \in taskQueue' \cup {NoTask}
  BY <1>1, <1>4, PeekType DEF NewHead
<1> QED
  BY <1>1, <1>3, <1>5

\* The type invariant is inductive.
LEMMA TypeStep == CoreInv /\ CoreStep => CoreTypeOK'
<1> SUFFICES ASSUME CoreInv, CoreStep PROVE CoreTypeOK'
  OBVIOUS
<1> USE DEF tasks, queues, work, flags, pausing
<1>0. CoreTypeOK
  BY DEF CoreInv
<1>1. ASSUME NEW delay \in Delays, NEW timeout \in Timeouts, scheduleTimer(delay, timeout)
      PROVE  CoreTypeOK'
  <2>1. now + delay \in Time /\ now + delay \in Int /\ timeout \in Int /\ nextId <= MaxTasks
    BY <1>0, <1>1, BoundsAssumption, InputsAssumption DEF CoreTypeOK, Time, scheduleTimer
  <2>2. NewTask(now + delay, timeout, now + delay)
    BY <1>1 DEF scheduleTimer
  <2>3. /\ nextId' \in 1..(MaxTasks + 1)
        /\ 1..(nextId' - 1) = 1..(nextId - 1) \cup {nextId}
        /\ startTime' \in [TaskId -> Time]
        /\ expirationTime' \in [TaskId -> Int]
        /\ sortIndex' \in [TaskId -> Int]
    BY <1>0, <2>1, <2>2, NewTaskType
  <2>4. isHostTimeoutScheduled' \in BOOLEAN
    BY <1>0, <1>1 DEF CoreTypeOK, scheduleTimer, SetsHostTimeout
  <2>5. hasCallback' = hasCallback \cup {nextId}
    BY <2>2 DEF NewTask
  <2> QED
    BY <1>0, <1>1, <2>3, <2>4, <2>5 DEF CoreTypeOK, scheduleTimer
<1>2. ASSUME NEW timeout \in Timeouts, scheduleTask(timeout)
      PROVE  CoreTypeOK'
  <2>1. now \in Time /\ now + timeout \in Int /\ timeout \in Int /\ nextId <= MaxTasks
    BY <1>0, <1>2, BoundsAssumption, InputsAssumption DEF CoreTypeOK, Time, scheduleTask
  <2>2. NewTask(now, timeout, now + timeout)
    BY <1>2 DEF scheduleTask
  <2>3. /\ nextId' \in 1..(MaxTasks + 1)
        /\ 1..(nextId' - 1) = 1..(nextId - 1) \cup {nextId}
        /\ startTime' \in [TaskId -> Time]
        /\ expirationTime' \in [TaskId -> Int]
        /\ sortIndex' \in [TaskId -> Int]
    BY <1>0, <2>1, <2>2, NewTaskType
  <2>4. isHostCallbackScheduled' \in BOOLEAN
    BY <1>0, <1>2 DEF CoreTypeOK, scheduleTask, NeedsHostCallback
  <2>5. hasCallback' = hasCallback \cup {nextId}
    BY <2>2 DEF NewTask
  <2> QED
    BY <1>0, <1>2, <2>3, <2>4, <2>5 DEF CoreTypeOK, scheduleTask
<1>3. ASSUME NEW t \in TaskId, cancelCallback(t)
      PROVE  CoreTypeOK'
  <2>1. t \in 1..(nextId - 1)
    BY <1>0, <1>3, BoundsAssumption DEF CoreTypeOK, cancelCallback, TaskId
  <2> QED
    BY <1>0, <1>3, <2>1 DEF CoreTypeOK, cancelCallback
<1>4. CASE shouldYield
  <2>1. now \in Int /\ advanceTimers(now, hasCallback, taskQueue) /\ UNCHANGED nextId
    BY <1>0, <1>4 DEF CoreTypeOK, Time, shouldYield
  <2>2. /\ sortIndex' \in [TaskId -> Int]
        /\ taskQueue' \subseteq 1..(nextId' - 1)
        /\ timerQueue' \subseteq 1..(nextId' - 1)
    BY <2>1, AdvanceTimersType
  <2> QED
    BY <1>0, <1>4, <2>2 DEF CoreTypeOK, shouldYield
<1>5. CASE pauseExecution
  <2>1. pauses' \in 0..MaxPauses
    BY <1>0, <1>5, BoundsAssumption DEF CoreTypeOK, pauseExecution
  <2> QED
    BY <1>0, <1>5, <2>1 DEF CoreTypeOK, pauseExecution
<1>6. CASE continueExecution
  BY <1>0, <1>6 DEF CoreTypeOK, continueExecution, NeedsHostCallback
<1>7. CASE enterFlushWork
  <2>1. now \in Int /\ advanceTimers(now, hasCallback, taskQueue) /\ UNCHANGED nextId
    BY <1>0, <1>7 DEF CoreTypeOK, Time, enterFlushWork
  <2>2. /\ sortIndex' \in [TaskId -> Int]
        /\ taskQueue' \subseteq 1..(nextId' - 1)
        /\ timerQueue' \subseteq 1..(nextId' - 1)
        /\ NewHead \in 1..(nextId' - 1) \cup {NoTask}
    BY <2>1, AdvanceTimersType
  <2> QED
    BY <1>0, <1>7, <2>2 DEF CoreTypeOK, enterFlushWork
<1>8. CASE leaveFlushWork /\ (UNCHANGED stopped \/ callbackThrows)
  <2>1. stopped' \subseteq 1..(nextId - 1)
    BY <1>0, <1>8 DEF CoreInv, CoreTypeOK, StackInv, callbackThrows
  <2> QED
    BY <1>0, <1>8, <2>1 DEF CoreTypeOK, leaveFlushWork
<1>9. ASSUME NEW outOfTime \in BOOLEAN, runTask(outOfTime)
      PROVE  CoreTypeOK'
  BY <1>0, <1>9 DEF CoreTypeOK, runTask
<1>10. ASSUME NEW outOfTime \in BOOLEAN, dropTask(outOfTime)
       PROVE  CoreTypeOK'
  <2>1. taskQueue' \subseteq 1..(nextId - 1) /\ sortIndex' \in [TaskId -> Int]
    BY <1>0, <1>10 DEF CoreTypeOK, dropTask
  <2>2. currentTask' \in taskQueue' \cup {NoTask}
    BY <1>0, <1>10, <2>1, PeekType, QueuedIds DEF CoreTypeOK, dropTask
  <2> QED
    BY <1>0, <1>10, <2>1, <2>2 DEF CoreTypeOK, dropTask
<1>11. ASSUME NEW continues \in BOOLEAN, callbackReturns(continues)
       PROVE  CoreTypeOK'
  <2>1. /\ now \in Int /\ AfterCallback(continues) \subseteq taskQueue
        /\ advanceTimers(now, hasCallback, AfterCallback(continues)) /\ UNCHANGED nextId
    BY <1>0, <1>11 DEF CoreTypeOK, Time, callbackReturns, AfterCallback
  <2>2. /\ sortIndex' \in [TaskId -> Int]
        /\ taskQueue' \subseteq 1..(nextId' - 1)
        /\ timerQueue' \subseteq 1..(nextId' - 1)
        /\ NewHead \in 1..(nextId' - 1) \cup {NoTask}
    BY <2>1, AdvanceTimersType
  <2>3. currentTask \in 1..(nextId' - 1)
    BY <1>11, <2>1 DEF CoreInv, CoreTypeOK, StackInv, callbackReturns
  <2> QED
    BY <1>0, <1>11, <2>2, <2>3 DEF CoreTypeOK, callbackReturns
<1>12. ASSUME NEW time \in Int, now' \in now..MaxTime, handleTimeout(time)
       PROVE  CoreTypeOK'
  <2>3. now' \in Time
    BY <1>0, <1>12, BoundsAssumption DEF CoreTypeOK, Time
  <2>1. advanceTimers(time, hasCallback, taskQueue) /\ UNCHANGED nextId
    BY <1>12 DEF handleTimeout
  <2>2. /\ sortIndex' \in [TaskId -> Int]
        /\ taskQueue' \subseteq 1..(nextId' - 1)
        /\ timerQueue' \subseteq 1..(nextId' - 1)
    BY <2>1, AdvanceTimersType
  <2> QED
    BY <1>0, <1>12, <2>2, <2>3 DEF CoreTypeOK, handleTimeout
<1>13. CASE timePasses
  <2>1. now' \in Time
    BY <1>0, <1>13, BoundsAssumption DEF CoreTypeOK, Time, timePasses
  <2> QED
    BY <1>0, <1>13, <2>1 DEF CoreTypeOK, timePasses
<1>14. CASE UNCHANGED coreVars
  BY <1>0, <1>14 DEF CoreTypeOK, coreVars
<1> QED
  BY <1>1, <1>2, <1>3, <1>4, <1>5, <1>6, <1>7, <1>8, <1>9, <1>10, <1>11, <1>12, <1>13, <1>14
  DEF CoreStep, yieldWork, drained, callbackThrows, AtTask

\* What advanceTimers does for the rest of the invariant, when the loop goes on
\* with the new head.
LEMMA AdvanceTimersInv ==
    ASSUME CoreInv, CoreTypeOK', NEW time \in Int, time <= now', now <= now',
           NEW tq, tq \subseteq taskQueue,
           advanceTimers(time, hasCallback, tq),
           UNCHANGED <<startTime, expirationTime>>
    PROVE  /\ KeyInv'
           /\ \A t \in taskQueue' : startTime'[t] <= now'
           /\ taskQueue' \cap timerQueue' = {}
           /\ hasCallback \ (taskQueue \ tq) \subseteq taskQueue' \cup timerQueue'
           /\ \A t \in timerQueue' \cap hasCallback : startTime'[t] > time
           /\ tq \subseteq taskQueue'
<1>1. /\ taskQueue' \subseteq tq \cup (timerQueue \cap hasCallback)
      /\ tq \subseteq taskQueue'
      /\ taskQueue' \cap timerQueue' = {}
      /\ timerQueue \cap hasCallback \subseteq taskQueue' \cup timerQueue'
      /\ \A t \in taskQueue' \ tq : startTime[t] <= time
      /\ \A t \in timerQueue' \cap hasCallback : startTime[t] > time
      /\ \A t \in taskQueue' : sortIndex'[t] = expirationTime[t]
      /\ \A t \in timerQueue' : sortIndex'[t] = startTime[t]
  BY AdvanceTimers DEF CoreInv
<1>2. KeyInv'
  BY <1>1 DEF KeyInv
<1>3. \A t \in taskQueue' : startTime'[t] <= now'
  <2> SUFFICES ASSUME NEW t \in taskQueue' PROVE startTime[t] <= now'
    BY <1>1
  <2>1. startTime[t] \in Int /\ now \in Int /\ now' \in Int
    <3>1. t \in TaskId
      BY <1>1, QueuedIds DEF CoreInv, CoreTypeOK
    <3> QED
      BY <3>1 DEF CoreInv, CoreTypeOK, Time
  <2>2. CASE t \in tq
    BY <2>1, <2>2 DEF CoreInv, DueInv
  <2>3. CASE t \notin tq
    BY <1>1, <2>1, <2>3
  <2> QED
    BY <2>2, <2>3
<1>4. hasCallback \ (taskQueue \ tq) \subseteq taskQueue' \cup timerQueue'
  BY <1>1 DEF CoreInv, QueuesPartitionLiveTasks
<1> QED
  BY <1>1, <1>2, <1>3, <1>4

\* The rest of the invariant is inductive.
LEMMA CoreInvStep == CoreInv /\ CoreStep => CoreInv'
<1> SUFFICES ASSUME CoreInv, CoreStep PROVE CoreInv'
  OBVIOUS
<1> USE DEF tasks, queues, work, flags, pausing
<1>0. CoreTypeOK' /\ CoreTypeOK
  BY TypeStep DEF CoreInv
<1>t. now \in Int /\ currentTime \in Int /\ now' \in Int
  BY <1>0 DEF CoreTypeOK, Time
<1>1. ASSUME NEW start \in Time, NEW timeout \in Int, NEW sort \in Int, nextId <= MaxTasks,
             NewTask(start, timeout, sort), ClientRuns,
             \/ /\ timerQueue' = timerQueue \cup {nextId} /\ UNCHANGED taskQueue
                /\ sort = start
             \/ /\ taskQueue' = taskQueue \cup {nextId} /\ UNCHANGED timerQueue
                /\ sort = start + timeout /\ start = now,
             UNCHANGED <<pc, now, work>>
      PROVE  CoreInv'
  <2>1. /\ nextId \notin taskQueue \cup timerQueue \cup hasCallback
        /\ taskQueue \cup timerQueue \subseteq TaskId
        /\ hasCallback' = hasCallback \cup {nextId}
    <3>1. nextId \notin 1..(nextId - 1)
      BY <1>0, <1>1, NewTaskType
    <3> QED
      BY <1>0, <1>1, <3>1, QueuedIds DEF CoreTypeOK, NewTask
  <2>2. /\ nextId \in TaskId
        /\ startTime'[nextId] = start
        /\ expirationTime'[nextId] = start + timeout
        /\ sortIndex'[nextId] = sort
        /\ \A t \in TaskId \ {nextId} :
              /\ startTime'[t] = startTime[t]
              /\ expirationTime'[t] = expirationTime[t]
              /\ sortIndex'[t] = sortIndex[t]
    BY <1>0, <1>1, NewTaskType
  <2>3. ClockInv'
    BY <1>1 DEF CoreInv, ClockInv
  <2>4. StackInv'
    BY <1>1, <2>1 DEF CoreInv, StackInv, ClientRuns
  <2>5. KeyInv'
    BY <1>1, <2>1, <2>2 DEF CoreInv, KeyInv
  <2>6. DueInv'
    <3>1. pc' # "loop"
      BY <1>1 DEF ClientRuns
    <3>2. \A t \in taskQueue : startTime'[t] <= now'
      BY <1>1, <2>1, <2>2 DEF CoreInv, DueInv
    <3>3. now <= now
      BY <1>t
    <3> QED
      BY <1>1, <2>2, <3>1, <3>2, <3>3 DEF DueInv
  <2>7. QueuesPartitionLiveTasks'
    BY <1>1, <2>1 DEF CoreInv, QueuesPartitionLiveTasks
  <2> QED
    BY <1>0, <2>3, <2>4, <2>5, <2>6, <2>7 DEF CoreInv
<1>2. ASSUME NEW delay \in Delays, NEW timeout \in Timeouts, scheduleTimer(delay, timeout)
      PROVE  CoreInv'
  <2>1. now + delay \in Time /\ now + delay \in Int /\ timeout \in Int
    BY <1>0, <1>2, BoundsAssumption, InputsAssumption DEF CoreTypeOK, Time, scheduleTimer
  <2> QED
    BY <1>1, <1>2, <2>1 DEF scheduleTimer
<1>3. ASSUME NEW timeout \in Timeouts, scheduleTask(timeout)
      PROVE  CoreInv'
  <2>1. now \in Time /\ now + timeout \in Int /\ timeout \in Int
    BY <1>0, <1>3, BoundsAssumption, InputsAssumption DEF CoreTypeOK, Time, scheduleTask
  <2> QED
    BY <1>1, <1>3, <2>1 DEF scheduleTask
<1>4. ASSUME NEW t \in TaskId, cancelCallback(t)
      PROVE  CoreInv'
  <2>1. ClockInv' /\ StackInv' /\ KeyInv' /\ DueInv'
    BY <1>4 DEF CoreInv, ClockInv, StackInv, KeyInv, DueInv, cancelCallback, ClientRuns
  <2>2. QueuesPartitionLiveTasks'
    BY <1>4 DEF CoreInv, QueuesPartitionLiveTasks, cancelCallback
  <2> QED
    BY <1>0, <2>1, <2>2 DEF CoreInv
<1>5. ASSUME NEW time \in Int, time <= now', now <= now', ClientRuns,
             advanceTimers(time, hasCallback, taskQueue),
             UNCHANGED <<pc, tasks, hasCallback, work>>
      PROVE  CoreInv'
  <2>1. /\ KeyInv' /\ taskQueue' \cap timerQueue' = {}
        /\ \A t \in taskQueue' : startTime'[t] <= now'
        /\ hasCallback \subseteq taskQueue' \cup timerQueue'
        /\ taskQueue \subseteq taskQueue'
    BY <1>0, <1>5, AdvanceTimersInv
  <2>2. ClockInv'
    BY <1>5, <1>t DEF CoreInv, ClockInv
  <2>3. StackInv' /\ DueInv' /\ QueuesPartitionLiveTasks'
    BY <1>5, <2>1 DEF CoreInv, StackInv, DueInv, QueuesPartitionLiveTasks, ClientRuns
  <2> QED
    BY <1>0, <2>1, <2>2, <2>3 DEF CoreInv
<1>6. CASE shouldYield
  <2>1. now <= now
    BY <1>t
  <2> QED
    BY <1>5, <1>6, <1>t, <2>1 DEF shouldYield
<1>7. CASE pauseExecution \/ continueExecution
  BY <1>0, <1>7 DEF CoreInv, ClockInv, StackInv, KeyInv, DueInv, QueuesPartitionLiveTasks,
                    pauseExecution, continueExecution, Head
<1>8. ASSUME NEW tq, tq \subseteq taskQueue, advanceTimers(now, hasCallback, tq),
             hasCallback \ (taskQueue \ tq) = hasCallback,
             hasCallback' \subseteq hasCallback \cup tq,
             currentTask' = NewHead, pc' = "loop", isPerformingWork', currentTime' = now,
             UNCHANGED <<now, tasks>>
      PROVE  CoreInv'
  <2>1. now <= now
    BY <1>t
  <2>2. /\ KeyInv' /\ taskQueue' \cap timerQueue' = {}
        /\ \A t \in taskQueue' : startTime'[t] <= now
        /\ hasCallback \subseteq taskQueue' \cup timerQueue'
        /\ tq \subseteq taskQueue'
        /\ \A t \in timerQueue' \cap hasCallback : startTime'[t] > now
    BY <1>0, <1>8, <1>t, <2>1, AdvanceTimersInv
  <2>3. ClockInv'
    BY <1>8, <2>1 DEF ClockInv
  <2>4. StackInv'
    BY <1>8 DEF StackInv, NewHead, Head
  <2>5. DueInv'
    BY <1>8, <2>2 DEF DueInv
  <2>6. QueuesPartitionLiveTasks'
    BY <1>8, <2>2 DEF QueuesPartitionLiveTasks
  <2> QED
    BY <1>0, <2>2, <2>3, <2>4, <2>5, <2>6 DEF CoreInv
<1>9. CASE enterFlushWork
  BY <1>8, <1>9 DEF enterFlushWork
<1>10. ASSUME NEW continues \in BOOLEAN, callbackReturns(continues)
       PROVE  CoreInv'
  <2>1. /\ currentTask \in taskQueue \ hasCallback /\ isPerformingWork
        /\ AfterCallback(continues) \subseteq taskQueue
        /\ taskQueue \ AfterCallback(continues) \subseteq {currentTask}
        /\ continues => currentTask \in AfterCallback(continues)
    BY <1>10 DEF CoreInv, StackInv, callbackReturns, AfterCallback
  <2> QED
    BY <1>8, <1>10, <2>1 DEF callbackReturns
<1>11. CASE leaveFlushWork
  BY <1>0, <1>11 DEF CoreInv, ClockInv, StackInv, KeyInv, DueInv, QueuesPartitionLiveTasks,
                     leaveFlushWork
<1>12. ASSUME NEW outOfTime \in BOOLEAN, runTask(outOfTime)
       PROVE  CoreInv'
  <2>1. currentTask \in taskQueue
    <3>1. currentTask = Head /\ currentTask # NoTask
      BY <1>12 DEF CoreInv, StackInv, runTask, AtTask
    <3>2. taskQueue \subseteq TaskId /\ sortIndex \in [TaskId -> Int]
      BY <1>0, QueuedIds DEF CoreTypeOK
    <3> QED
      BY <3>1, <3>2, PeekType DEF Head
  <2>2. ClockInv' /\ StackInv' /\ KeyInv' /\ DueInv' /\ QueuesPartitionLiveTasks'
    BY <1>12, <2>1 DEF CoreInv, ClockInv, StackInv, KeyInv, DueInv, QueuesPartitionLiveTasks,
                       runTask, AtTask
  <2> QED
    BY <1>0, <2>2 DEF CoreInv
<1>13. ASSUME NEW outOfTime \in BOOLEAN, dropTask(outOfTime)
       PROVE  CoreInv'
  <2>1. pc = "loop" /\ currentTask = Head /\ currentTask \notin hasCallback
    BY <1>13 DEF CoreInv, StackInv, dropTask, AtTask
  <2>2. ClockInv' /\ KeyInv' /\ DueInv' /\ QueuesPartitionLiveTasks'
    BY <1>13, <2>1 DEF CoreInv, ClockInv, KeyInv, DueInv, QueuesPartitionLiveTasks, dropTask
  <2>3. StackInv'
    BY <1>13, <2>1 DEF CoreInv, StackInv, dropTask, Head
  <2> QED
    BY <1>0, <2>2, <2>3 DEF CoreInv
<1>14. ASSUME NEW time \in Int, now' \in now..MaxTime, time <= now', ClientRuns,
              handleTimeout(time)
       PROVE  CoreInv'
  <2>1. now <= now'
    BY <1>14, <1>t
  <2> QED
    BY <1>5, <1>14, <2>1 DEF handleTimeout
<1>15. CASE timePasses
  <2>1. ClockInv'
    BY <1>15, <1>t DEF CoreInv, ClockInv, timePasses
  <2>2. StackInv' /\ KeyInv' /\ QueuesPartitionLiveTasks'
    BY <1>15 DEF CoreInv, StackInv, KeyInv, QueuesPartitionLiveTasks, timePasses, Head
  <2>3. \A t \in taskQueue' : startTime'[t] <= now'
    <3> SUFFICES ASSUME NEW t \in taskQueue PROVE startTime[t] <= now'
      BY <1>15 DEF timePasses
    <3>1. startTime[t] <= now /\ startTime[t] \in Int
      BY <1>0, QueuedIds DEF CoreInv, DueInv, CoreTypeOK, Time
    <3>2. now <= now'
      BY <1>15, <1>t DEF timePasses
    <3> QED
      BY <1>t, <3>1, <3>2
  <2>4. DueInv'
    BY <1>15, <2>3 DEF CoreInv, DueInv, timePasses
  <2> QED
    BY <1>0, <2>1, <2>2, <2>4 DEF CoreInv
<1>16. CASE UNCHANGED coreVars
  BY <1>0, <1>16 DEF CoreInv, ClockInv, StackInv, KeyInv, DueInv, QueuesPartitionLiveTasks,
                     coreVars, Head
<1> QED
  BY <1>2, <1>3, <1>4, <1>6, <1>7, <1>9, <1>10, <1>11, <1>12, <1>13, <1>14, <1>15, <1>16
  DEF CoreStep, yieldWork, drained, callbackThrows

-----------------------------------------------------------------------------
(* What a step may not do *)

\* A step from and to states of the invariant changes no key in a heap.
LEMMA KeysStep == CoreInv /\ CoreStep => KeepsKeys
<1> SUFFICES ASSUME CoreInv, CoreStep, NEW t \in TaskId,
                    \/ t \in taskQueue /\ t \in taskQueue'
                    \/ t \in timerQueue /\ t \in timerQueue'
             PROVE  sortIndex'[t] = sortIndex[t]
  BY DEF KeepsKeys
<1> USE DEF queues, coreVars
<1>1. t # nextId
  <2>1. nextId \notin 1..(nextId - 1)
    BY BoundsAssumption DEF CoreInv, CoreTypeOK
  <2> QED
    BY <2>1 DEF CoreInv, CoreTypeOK
<1>2. ASSUME NEW start, NEW timeout, NEW sort, NewTask(start, timeout, sort)
      PROVE  sortIndex'[t] = sortIndex[t]
  BY <1>1, <1>2 DEF NewTask, CoreInv, CoreTypeOK
<1>3. ASSUME NEW time \in Int, NEW tq, tq \subseteq taskQueue,
             advanceTimers(time, hasCallback, tq)
      PROVE  sortIndex'[t] = sortIndex[t]
  <2>1. taskQueue \cap timerQueue = {} /\ taskQueue' \cap timerQueue' = {}
    BY <1>3, AdvanceTimers DEF CoreInv, QueuesPartitionLiveTasks
  <2> QED
    BY <1>3, <2>1, AdvanceTimers DEF CoreInv
<1>4. now \in Int
  BY DEF CoreInv, CoreTypeOK, Time
<1>5. \A continues \in BOOLEAN : AfterCallback(continues) \subseteq taskQueue
  BY DEF AfterCallback
<1>6. CASE UNCHANGED sortIndex
  BY <1>6
<1> QED
  BY <1>2, <1>3, <1>4, <1>5, <1>6
  DEF CoreStep, scheduleTimer, scheduleTask, cancelCallback, shouldYield, pauseExecution,
      continueExecution, enterFlushWork, yieldWork, runTask, dropTask, drained,
      callbackReturns, callbackThrows, leaveFlushWork, handleTimeout, timePasses

\* A stopped task gets a callback only from its own call.
LEMMA StoppedStep == CoreInv /\ CoreStep => RevivesOnlyByContinuation
<1> SUFFICES ASSUME CoreInv, CoreStep, NEW t \in stopped' \cap hasCallback'
             PROVE  \/ t \in stopped \cap hasCallback
                    \/ pc = "callback" /\ pc' = "loop" /\ t = currentTask
  BY DEF RevivesOnlyByContinuation
<1>1. nextId \notin stopped
  <2>1. nextId \notin 1..(nextId - 1)
    BY BoundsAssumption DEF CoreInv, CoreTypeOK
  <2> QED
    BY <2>1 DEF CoreInv, CoreTypeOK
<1>2. CASE hasCallback' \subseteq hasCallback \cup {nextId} /\ UNCHANGED stopped
  BY <1>1, <1>2
<1>3. CASE \E u \in TaskId : cancelCallback(u)
  BY <1>3 DEF cancelCallback
<1>4. CASE callbackThrows
  BY <1>4 DEF callbackThrows, leaveFlushWork, CoreInv, StackInv
<1>5. CASE \E continues \in BOOLEAN : callbackReturns(continues)
  BY <1>5 DEF callbackReturns
<1> QED
  BY <1>2, <1>3, <1>4, <1>5
  DEF CoreStep, scheduleTimer, scheduleTask, NewTask, shouldYield, pauseExecution,
      continueExecution, enterFlushWork, yieldWork, runTask, dropTask, drained,
      leaveFlushWork, handleTimeout, timePasses, coreVars

\* At the loop head every live task that has started, as of currentTime, is in
\* the task queue and expires no earlier than the head of it.
LEMMA HeadExpiresFirst ==
    ASSUME CoreInv, pc = "loop", NEW t \in hasCallback, startTime[t] <= currentTime
    PROVE  /\ currentTask # NoTask
           /\ currentTask \in taskQueue
           /\ t = currentTask \/ Before(expirationTime, currentTask, t)
<1>1. taskQueue \subseteq TaskId /\ sortIndex \in [TaskId -> Int]
  BY QueuedIds DEF CoreInv, CoreTypeOK
<1>2. t \in taskQueue
  <2>1. startTime[t] \in Int /\ currentTime \in Int
    BY QueuedIds DEF CoreInv, CoreTypeOK, Time
  <2>2. ~(startTime[t] > currentTime)
    BY <2>1
  <2> QED
    BY <2>2 DEF CoreInv, DueInv, QueuesPartitionLiveTasks
<1>3. currentTask = Peek(taskQueue, sortIndex)
  BY DEF CoreInv, StackInv, Head
<1>4. /\ currentTask \in taskQueue
      /\ t = currentTask \/ Before(sortIndex, currentTask, t)
  BY <1>1, <1>2, <1>3, PeekIsFirst
<1>5. currentTask # NoTask
  BY <1>1, <1>2, <1>3, PeekType
<1> QED
  BY <1>2, <1>4, <1>5 DEF Before, CoreInv, KeyInv

\* workLoop breaks or ends only when no live task that has started has expired.
LEMMA YieldStep == CoreInv /\ CoreStep => YieldsOnlyUnexpired
<1> SUFFICES ASSUME CoreInv, CoreStep, pc = "loop", pc' = "idle", ~Paused,
                    NEW t \in hasCallback, startTime[t] <= currentTime
             PROVE  expirationTime[t] > currentTime
  BY DEF YieldsOnlyUnexpired
<1>1. /\ currentTask # NoTask /\ currentTask \in taskQueue
      /\ t = currentTask \/ Before(expirationTime, currentTask, t)
  BY HeadExpiresFirst
<1>2. PICK outOfTime \in BOOLEAN : yieldWork(outOfTime)
  BY <1>1 DEF CoreStep, coreVars, ClientRuns, scheduleTimer, scheduleTask, cancelCallback,
     shouldYield, pauseExecution, continueExecution, runTask, dropTask, drained,
     callbackReturns, callbackThrows, handleTimeout, timePasses
<1>3. expirationTime[currentTask] > currentTime
  BY <1>2 DEF yieldWork, MustYield
<1>4. expirationTime[t] \in Int /\ expirationTime[currentTask] \in Int /\ currentTime \in Int
  BY <1>1, QueuedIds DEF CoreInv, CoreTypeOK, Time
<1> QED
  BY <1>1, <1>3, <1>4 DEF Before

-----------------------------------------------------------------------------
(* The scheduler implements the pool of tasks *)

LEMMA PoolInitStep == CoreInit => Pool!PoolInit
BY DEF CoreInit, Pool!PoolInit, NoTask

LEMMA PoolStep == CoreInv /\ CoreStep => [Pool!PoolNext]_(Pool!poolVars)
<1> SUFFICES ASSUME CoreInv, CoreStep PROVE [Pool!PoolNext]_(Pool!poolVars)
  OBVIOUS
<1> USE DEF tasks, work, Pool!poolVars
<1>1. ASSUME NEW start, NEW timeout, NEW sort, NewTask(start, timeout, sort),
             nextId <= MaxTasks, UNCHANGED <<pc, work>>
      PROVE  Pool!PoolSchedule
  BY <1>1 DEF NewTask, Pool!PoolSchedule, CoreInv, CoreTypeOK, TaskId
<1>2. ASSUME NEW t \in TaskId, cancelCallback(t)
      PROVE  Pool!PoolCancel(t)
  BY <1>2 DEF cancelCallback, Pool!PoolCancel
<1>3. CASE UNCHANGED <<tasks, hasCallback, currentTime>> /\ pc # "callback" /\ pc' # "callback"
  BY <1>3
<1>4. CASE UNCHANGED <<tasks, hasCallback, work, pc>>
  BY <1>4
<1>5. CASE pc = "idle" /\ enterFlushWork
  <2>1. currentTime' = currentTime \/ currentTime' > currentTime
    BY <1>5 DEF enterFlushWork, CoreInv, CoreTypeOK, ClockInv, Time
  <2>2. CASE currentTime' = currentTime
    BY <1>3, <1>5, <2>2 DEF enterFlushWork
  <2>3. CASE currentTime' > currentTime
    BY <1>5, <2>3 DEF enterFlushWork, Pool!PoolReadClock, Pool!PoolNext, NoTask
  <2> QED
    BY <2>1, <2>2, <2>3
<1>6. ASSUME NEW outOfTime \in BOOLEAN, runTask(outOfTime)
      PROVE  currentTask \in TaskId /\ Pool!PoolStart(currentTask)
  <2>1. pc = "loop" /\ currentTask \in hasCallback
    BY <1>6 DEF runTask, AtTask
  <2>2. currentTask \in taskQueue /\ startTime[currentTask] <= currentTime
    <3>1. currentTask \in taskQueue
      <4>1. currentTask = Head /\ currentTask # NoTask
        BY <1>6 DEF CoreInv, StackInv, runTask, AtTask
      <4>2. taskQueue \subseteq TaskId /\ sortIndex \in [TaskId -> Int]
        BY QueuedIds DEF CoreInv, CoreTypeOK
      <4> QED
        BY <4>1, <4>2, PeekType DEF Head
    <3> QED
      BY <2>1, <3>1 DEF CoreInv, DueInv
  <2>3. currentTask \in TaskId
    BY <2>2, QueuedIds DEF CoreInv, CoreTypeOK
  <2>4. \A u \in hasCallback : startTime[u] <= currentTime =>
            u = currentTask \/ Before(expirationTime, currentTask, u)
    BY <2>1, HeadExpiresFirst
  <2> QED
    BY <1>6, <2>1, <2>2, <2>3, <2>4
    DEF runTask, Pool!PoolStart, Pool!Due, Pool!ExpiresFirst, Before, NoTask
<1>7. CASE callbackThrows \/ \E continues \in BOOLEAN : callbackReturns(continues)
  <2>1. currentTask # 0
    BY <1>7, QueuedIds DEF callbackReturns, callbackThrows, CoreInv, StackInv, CoreTypeOK, TaskId
  <2>2. currentTime' >= currentTime
    BY <1>7 DEF callbackReturns, callbackThrows, leaveFlushWork, CoreInv, CoreTypeOK,
                ClockInv, Time
  <2>3. pc = "callback" /\ pc' # "callback" /\ UNCHANGED tasks
        /\ hasCallback' \in {hasCallback, hasCallback \cup {currentTask}}
    BY <1>7 DEF callbackReturns, callbackThrows, leaveFlushWork
  <2> QED
    BY <2>1, <2>2, <2>3 DEF Pool!PoolEnd, Pool!PoolNext, NoTask
<1>8. CASE UNCHANGED coreVars
  BY <1>8 DEF coreVars
<1>9. \A delay, timeout : scheduleTimer(delay, timeout) => Pool!PoolSchedule
  BY <1>1 DEF scheduleTimer
<1>10. \A timeout : scheduleTask(timeout) => Pool!PoolSchedule
  BY <1>1 DEF scheduleTask
<1>11. CASE \/ shouldYield \/ pauseExecution \/ continueExecution \/ timePasses
            \/ \E time \in Int : handleTimeout(time)
  BY <1>4, <1>11
  DEF shouldYield, pauseExecution, continueExecution, timePasses, handleTimeout
<1>12. CASE drained \/ \E outOfTime \in BOOLEAN : yieldWork(outOfTime) \/ dropTask(outOfTime)
  BY <1>3, <1>12 DEF drained, yieldWork, dropTask, AtTask, leaveFlushWork
<1> QED
  BY <1>2, <1>5, <1>6, <1>7, <1>8, <1>9, <1>10, <1>11, <1>12
  DEF CoreStep, Pool!PoolNext, TaskId

-----------------------------------------------------------------------------
(* What the proofs about a host need of the core *)

\* The first timer of a queue is a timer, whose start time is a time.
LEMMA FirstTimerType ==
    ASSUME NEW timers, timers \subseteq TaskId, NEW sort \in [TaskId -> Int],
           NEW start \in [TaskId -> Time], timers # {}
    PROVE  /\ Peek(timers, sort) \in timers
           /\ Peek(timers, sort) # NoTask
           /\ start[Peek(timers, sort)] \in Time
BY PeekType, PeekIsFirst

\* Where a step of the core starts, and what it leaves behind.
LEMMA AfterCoreStep ==
    ASSUME CoreInv, CoreStep
    PROVE  /\ CoreInv'
           /\ now \in Nat /\ currentTime \in Nat /\ now - currentTime \in Time
           /\ taskQueue \subseteq TaskId /\ timerQueue \subseteq TaskId
           /\ sortIndex \in [TaskId -> Int] /\ startTime \in [TaskId -> Time]
           /\ taskQueue' \subseteq TaskId /\ timerQueue' \subseteq TaskId
           /\ sortIndex' \in [TaskId -> Int] /\ startTime' \in [TaskId -> Time]
<1>1. CoreInv'
  BY CoreInvStep
<1>2. /\ taskQueue \subseteq TaskId /\ timerQueue \subseteq TaskId
      /\ sortIndex \in [TaskId -> Int] /\ startTime \in [TaskId -> Time]
  BY QueuedIds DEF CoreInv, CoreTypeOK
<1>3. 1..(nextId' - 1) \subseteq TaskId
  <2>1. nextId' \in 1..(MaxTasks + 1)
    BY <1>1 DEF CoreInv, CoreTypeOK
  <2>2. \A n \in 1..(MaxTasks + 1) : 1..(n - 1) \subseteq TaskId
    BY BoundsAssumption DEF TaskId
  <2> QED
    BY <2>1, <2>2
<1>4. /\ taskQueue' \subseteq TaskId /\ timerQueue' \subseteq TaskId
      /\ sortIndex' \in [TaskId -> Int] /\ startTime' \in [TaskId -> Time]
  BY <1>1, <1>3 DEF CoreInv, CoreTypeOK
<1>5. now \in Nat /\ currentTime \in Nat /\ now - currentTime \in Time
  BY BoundsAssumption DEF CoreInv, CoreTypeOK, ClockInv, Time
<1> QED
  BY <1>1, <1>2, <1>4, <1>5
=============================================================================
