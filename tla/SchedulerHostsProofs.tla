------------------------- MODULE SchedulerHostsProofs -------------------------
(***************************************************************************)
(* Proofs about the two hosts of module MCSchedulerHosts, for every number *)
(* of tasks, every set of delays and timeouts and every clock bound.  What *)
(* holds on the fallback host is taken from SchedulerNoDOMProofs; the mock *)
(* host is proved about here.                                              *)
(***************************************************************************)
EXTENDS MCSchedulerHosts, SchedulerCoreProofs

-----------------------------------------------------------------------------
(* The core of the scheduler, on the mock host *)

LEMMA MockStepIsCoreStep == CoreTypeOK /\ [Next]_vars => CoreStep
<1> SUFFICES ASSUME CoreTypeOK, [Next]_vars PROVE CoreStep
  OBVIOUS
<1> USE DEF coreVars
<1>1. ASSUME NEW delay \in Delays, NEW ms \in Timeouts, unstable_scheduleCallback(delay, ms)
      PROVE  CoreStep
  BY <1>1 DEF CoreStep, unstable_scheduleCallback
<1>2. ASSUME NEW t \in TaskId, unstable_cancelCallback(t)
      PROVE  CoreStep
  BY <1>2 DEF CoreStep, unstable_cancelCallback
<1>3. CASE unstable_shouldYield \/ unstable_yieldValue \/ unstable_clearYields \/ requestPaint
  BY <1>3 DEF CoreStep, unstable_shouldYield, unstable_yieldValue, unstable_clearYields,
     requestPaint
<1>4. ASSUME NEW ms \in 1..MaxTime, unstable_advanceTime(ms)
      PROVE  CoreStep
  <2>1. now' \in now..MaxTime /\ now' \in Int /\ now' <= now' /\ ClientRuns
    BY <1>4, BoundsAssumption DEF CoreTypeOK, Time, unstable_advanceTime, ClientRuns
  <2>2. CASE scheduledTimeout /\ timeoutTime <= now'
    <3>1. handleTimeout(now')
      BY <1>4, <2>2 DEF unstable_advanceTime, fireTimeout
    <3> QED
      BY <2>1, <3>1 DEF CoreStep
  <2>3. CASE ~(scheduledTimeout /\ timeoutTime <= now')
    <3>1. UNCHANGED <<pc, tasks, hasCallback, queues, work, flags, pausing, stopped>>
      BY <1>4, <2>3 DEF unstable_advanceTime
    <3> QED
      BY <2>1, <3>1 DEF CoreStep, timePasses
  <2> QED
    BY <2>2, <2>3
<1>5. CASE Flush
  BY <1>5 DEF CoreStep, Flush, unstable_flushNumberOfYields, unstable_flushUntilNextPaint,
     unstable_flushExpired, unstable_flushAllWithoutAsserting, startFlush
<1>6. CASE WorkLoop
  <2>1. OutOfTime \in BOOLEAN
    BY DEF OutOfTime, shouldYieldToHost
  <2> QED
    BY <1>6, <2>1 DEF CoreStep, WorkLoop, Yield, RunTask, DropTask, Drained
<1>7. CASE Callback
  BY <1>7 DEF CoreStep, Callback, CallbackReturns, CallbackThrows
<1>8. CASE UNCHANGED vars
  BY <1>8 DEF CoreStep, vars
<1> QED
  BY <1>1, <1>2, <1>3, <1>4, <1>5, <1>6, <1>7, <1>8 DEF Next, Client

LEMMA AfterMockStep ==
    ASSUME CoreInv, [Next]_vars
    PROVE  /\ CoreInv'
           /\ now \in Nat /\ currentTime \in Nat /\ now - currentTime \in Time
           /\ taskQueue \subseteq TaskId /\ timerQueue \subseteq TaskId
           /\ sortIndex \in [TaskId -> Int] /\ startTime \in [TaskId -> Time]
           /\ taskQueue' \subseteq TaskId /\ timerQueue' \subseteq TaskId
           /\ sortIndex' \in [TaskId -> Int] /\ startTime' \in [TaskId -> Time]
BY MockStepIsCoreStep, AfterCoreStep DEF CoreInv

-----------------------------------------------------------------------------
(* The flush functions of the mock host *)

\* At the head of the loop the time that workLoop read is the time, because
\* only the program moves the clock; and unstable_flushAll expects no yields.
FlushInv ==
    /\ pc = "loop" => currentTime = now
    /\ flushing = "all" => expectedNumberOfYields = -1

LEMMA FlushInit == Init => FlushInv
BY DEF Init, CoreInit, FlushInv

LEMMA FlushStep == CoreInv /\ FlushInv /\ [Next]_vars => FlushInv'
<1> SUFFICES ASSUME CoreInv, FlushInv, [Next]_vars PROVE FlushInv'
  OBVIOUS
<1> USE DEF FlushInv, host, flush, work
<1>1. CASE \E delay \in Delays, ms \in Timeouts : unstable_scheduleCallback(delay, ms)
  BY <1>1 DEF unstable_scheduleCallback, scheduleTimer, scheduleTask
<1>2. CASE \E t \in TaskId : unstable_cancelCallback(t)
  BY <1>2 DEF unstable_cancelCallback, cancelCallback
<1>3. CASE unstable_shouldYield \/ unstable_yieldValue \/ unstable_clearYields \/ requestPaint
  BY <1>3 DEF unstable_shouldYield, shouldYield, unstable_yieldValue, unstable_clearYields,
     requestPaint, coreVars
<1>4. CASE \E ms \in 1..MaxTime : unstable_advanceTime(ms)
  <2>1. pc # "loop" /\ UNCHANGED <<pc, flushing, expectedNumberOfYields>>
    BY <1>4 DEF unstable_advanceTime, fireTimeout, handleTimeout
  <2> QED
    BY <2>1
<1>5. CASE Flush
  <2>1. PICK kind, count : startFlush(kind, count) /\ (kind = "all" => count = -1)
    BY <1>5 DEF Flush, unstable_flushNumberOfYields, unstable_flushUntilNextPaint,
       unstable_flushExpired, unstable_flushAllWithoutAsserting
  <2> QED
    BY <2>1 DEF startFlush, enterFlushWork
<1>6. CASE Yield \/ Drained \/ CallbackThrows
  <2>1. pc' = "idle" /\ flushing' = "none"
    BY <1>6 DEF Yield, Drained, CallbackThrows, yieldWork, drained, callbackThrows,
       leaveFlushWork, endFlush
  <2> QED
    BY <2>1
<1>7. CASE RunTask \/ DropTask
  BY <1>7 DEF RunTask, runTask, DropTask, dropTask, AtTask
<1>8. CASE \E continues \in BOOLEAN : CallbackReturns(continues)
  BY <1>8 DEF CallbackReturns, callbackReturns
<1>9. CASE UNCHANGED vars
  BY <1>9 DEF vars, coreVars
<1> QED
  BY <1>1, <1>2, <1>3, <1>4, <1>5, <1>6, <1>7, <1>8, <1>9
  DEF Next, Client, WorkLoop, Callback

\* unstable_flushAll stops at nothing: with pausing compiled out the loop ends
\* in front of a task for want of time only.
LEMMA FlushAllStep ==
    ASSUME CoreInv, FlushInv, [Next]_vars, flushing = "all", pc = "loop", pc' = "idle",
           NEW t \in hasCallback
    PROVE  startTime[t] > now
<1>1. ~Yield
  <2>1. ~OutOfTime
    BY DEF OutOfTime, shouldYieldToHost, FlushInv
  <2>2. ~MustYield(OutOfTime)
    BY <2>1, MockAssumption DEF MustYield, Paused
  <2> QED
    BY <2>2 DEF Yield, yieldWork
<1>2. Drained
  BY <1>1 DEF Next, vars, coreVars, Client, ClientRuns, unstable_scheduleCallback, scheduleTimer,
     scheduleTask, unstable_cancelCallback, cancelCallback, unstable_shouldYield, shouldYield,
     unstable_yieldValue, unstable_clearYields, requestPaint, unstable_advanceTime, Flush,
     unstable_flushNumberOfYields, unstable_flushUntilNextPaint, unstable_flushExpired,
     unstable_flushAllWithoutAsserting, startFlush, WorkLoop, RunTask, runTask, DropTask,
     dropTask, Callback, CallbackReturns, callbackReturns, CallbackThrows, callbackThrows
<1>3. taskQueue = {}
  <2>1. Head = NoTask
    BY <1>2 DEF CoreInv, StackInv, Drained, drained
  <2> QED
    BY <2>1, AfterMockStep, PeekType DEF Head
<1>4. t \in timerQueue
  BY <1>3 DEF CoreInv, QueuesPartitionLiveTasks
<1> QED
  BY <1>4 DEF CoreInv, DueInv, FlushInv

-----------------------------------------------------------------------------
(* The marks of the scheduler, and work that is not lost, while callbacks  *)
(* do not move the clock                                                   *)

\* While scheduler code runs the flush is still registered, and the scheduler
\* does not believe that another one is on its way.
RunningInv == pc # "idle" => scheduledCallback /\ ~isHostCallbackScheduled

\* As long as no task is stopped, the timeout of the host is due no later than
\* the first timer, so that it finds that timer due when it fires.
TimerInv ==
    stopped = {} =>
        /\ timerQueue \subseteq hasCallback
        /\ pc = "idle" /\ scheduledTimeout /\ taskQueue = {} /\ timerQueue # {}
               => startTime[FirstTimer] <= timeoutTime

HostTypeOK ==
    /\ scheduledCallback \in BOOLEAN
    /\ scheduledTimeout \in BOOLEAN
    /\ timeoutTime \in Time \cup {NoTimeout}

MockInv == CoreInv /\ FlushInv /\ HostTypeOK /\ RunningInv /\ MarksAreTrue /\ TimerInv /\ NoLostWork

LEMMA MockInit == Init => MockInv
<1> SUFFICES ASSUME Init PROVE MockInv
  OBVIOUS
<1>1. CoreInv /\ FlushInv
  BY CoreInitInv, FlushInit DEF Init
<1> QED
  BY <1>1 DEF Init, CoreInit, MockInv, HostTypeOK, RunningInv, MarksAreTrue, TimerInv, NoLostWork

\* The timeout for the first timer is set to its start time exactly.
LEMMA MockDrainedTimeout ==
    ASSUME MockInv, [Next]_vars, Drained, timerQueue # {}
    PROVE  /\ scheduledTimeout'
           /\ timeoutTime' = startTime[FirstTimer]
           /\ timeoutTime' \in Time
<1>1. FirstTimer # NoTask /\ startTime[FirstTimer] \in Time
  BY AfterMockStep, FirstTimerType DEF FirstTimer, MockInv
<1>2. now = currentTime /\ now \in Nat
  BY AfterMockStep DEF MockInv, FlushInv, Drained, drained
<1>3. now + startTime[FirstTimer] - currentTime = startTime[FirstTimer]
  BY <1>1, <1>2, BoundsAssumption DEF Time
<1> QED
  BY <1>1, <1>3 DEF Drained, requestHostTimeout

LEMMA HostTypeStep == MockInv /\ [Next]_vars => HostTypeOK'
<1> SUFFICES ASSUME MockInv, [Next]_vars PROVE HostTypeOK'
  OBVIOUS
<1> USE DEF host, timeout
<1>0. HostTypeOK
  BY DEF MockInv
<1>1. CASE UNCHANGED timeout /\ (UNCHANGED scheduledCallback \/ requestHostCallback \/ clearCallback)
  BY <1>0, <1>1 DEF HostTypeOK, requestHostCallback, clearCallback
<1>2. CASE \E delay \in Delays, ms \in Timeouts : unstable_scheduleCallback(delay, ms)
  <2>1. PICK delay \in Delays, ms \in Timeouts : unstable_scheduleCallback(delay, ms)
    BY <1>2
  <2>2. CASE scheduleTimer(delay, ms)
    <3>1. now + delay \in Time
      BY <2>2, AfterMockStep, InputsAssumption, BoundsAssumption DEF scheduleTimer, Time, MockInv
    <3>2. CASE SetsHostTimeout
      <4>1. requestHostTimeout(now + delay) /\ UNCHANGED scheduledCallback
        BY <2>1, <2>2, <3>2 DEF unstable_scheduleCallback, scheduleTimer, scheduleTask
      <4> QED
        BY <1>0, <3>1, <4>1 DEF requestHostTimeout, HostTypeOK
    <3> QED
      BY <1>1, <2>1, <2>2, <3>2 DEF unstable_scheduleCallback, scheduleTimer, scheduleTask
  <2> QED
    BY <1>1, <2>1, <2>2 DEF unstable_scheduleCallback
<1>3. CASE \E ms \in 1..MaxTime : unstable_advanceTime(ms)
  <2>1. CASE fireTimeout
    BY <1>0, <2>1 DEF fireTimeout, cancelHostTimeout, requestHostCallback, HostTypeOK
  <2> QED
    BY <1>1, <1>3, <2>1 DEF unstable_advanceTime
<1>4. CASE Flush
  <2>1. PICK kind, count : startFlush(kind, count)
    BY <1>4 DEF Flush, unstable_flushNumberOfYields, unstable_flushUntilNextPaint,
       unstable_flushExpired, unstable_flushAllWithoutAsserting
  <2> QED
    BY <1>0, <2>1 DEF startFlush, cancelHostTimeout, HostTypeOK
<1>5. CASE Drained
  <2>1. CASE timerQueue = {}
    <3>1. FirstTimer = NoTask
      BY <2>1 DEF FirstTimer, Peek
    <3> QED
      BY <1>1, <1>5, <3>1 DEF Drained
  <2> QED
    BY <1>5, <2>1, MockDrainedTimeout DEF Drained, clearCallback, HostTypeOK
<1> QED
  BY <1>1, <1>2, <1>3, <1>4, <1>5
  DEF Next, Client, unstable_cancelCallback, unstable_shouldYield, unstable_yieldValue,
      unstable_clearYields, requestPaint, WorkLoop, Yield, RunTask, DropTask, Callback,
      CallbackReturns, CallbackThrows, vars

LEMMA MarksStep ==
    ASSUME ~AdvanceInCallbacks, MockInv, [Next]_vars
    PROVE  RunningInv' /\ MarksAreTrue'
<1> USE DEF RunningInv, MarksAreTrue, host, timeout, flags, work
<1>0. HostTypeOK /\ RunningInv /\ MarksAreTrue /\ (isPerformingWork <=> pc # "idle")
  BY DEF MockInv, CoreInv, StackInv
<1>1. CASE UNCHANGED <<pc, scheduledCallback, isHostCallbackScheduled, timeout,
                       isHostTimeoutScheduled>>
  BY <1>0, <1>1
<1>2. ASSUME NEW delay \in Delays, NEW ms \in Timeouts, unstable_scheduleCallback(delay, ms)
      PROVE  RunningInv' /\ MarksAreTrue'
  <2>1. CASE scheduleTimer(delay, ms)
    <3>1. UNCHANGED <<pc, scheduledCallback, isHostCallbackScheduled>>
      BY <1>2, <2>1 DEF unstable_scheduleCallback, scheduleTimer, scheduleTask
    <3>2. isHostTimeoutScheduled' => scheduledTimeout'
      BY <1>0, <1>2, <2>1
      DEF unstable_scheduleCallback, scheduleTimer, scheduleTask, requestHostTimeout
    <3> QED
      BY <1>0, <3>1, <3>2
  <2>2. CASE delay = 0 /\ scheduleTask(ms)
    <3>1. /\ UNCHANGED <<pc, timeout, isHostTimeoutScheduled>>
          /\ isHostCallbackScheduled' = (isHostCallbackScheduled \/ NeedsHostCallback)
          /\ IF NeedsHostCallback THEN requestHostCallback ELSE UNCHANGED scheduledCallback
      BY <1>2, <2>2 DEF unstable_scheduleCallback, scheduleTimer, scheduleTask
    <3>2. CASE NeedsHostCallback
      BY <1>0, <3>1, <3>2 DEF NeedsHostCallback, requestHostCallback
    <3>3. CASE ~NeedsHostCallback
      BY <1>0, <3>1, <3>3
    <3> QED
      BY <3>2, <3>3
  <2> QED
    BY <1>2, <2>1, <2>2 DEF unstable_scheduleCallback
<1>3. ASSUME NEW ms \in 1..MaxTime, unstable_advanceTime(ms)
      PROVE  RunningInv' /\ MarksAreTrue'
  <2>1. pc = "idle" /\ UNCHANGED pc
    BY <1>3 DEF unstable_advanceTime, fireTimeout, handleTimeout
  <2>2. CASE fireTimeout
    BY <1>0, <2>1, <2>2
    DEF fireTimeout, handleTimeout, TimeoutNeedsCallback, requestHostCallback
  <2>3. CASE ~fireTimeout
    BY <1>1, <1>3, <2>3 DEF unstable_advanceTime
  <2> QED
    BY <2>2, <2>3
<1>4. CASE Flush
  <2>1. PICK kind, count : startFlush(kind, count)
    BY <1>4 DEF Flush, unstable_flushNumberOfYields, unstable_flushUntilNextPaint,
       unstable_flushExpired, unstable_flushAllWithoutAsserting
  <2> QED
    BY <1>0, <2>1 DEF startFlush, enterFlushWork
<1>5. CASE Yield \/ CallbackThrows
  BY <1>0, <1>5 DEF Yield, CallbackThrows, yieldWork, callbackThrows, leaveFlushWork
<1>6. CASE Drained
  <2>1. pc # "idle" /\ pc' = "idle" /\ UNCHANGED flags
    BY <1>6 DEF Drained, drained, leaveFlushWork
  <2>2. scheduledTimeout => scheduledTimeout'
    BY <1>6 DEF Drained, requestHostTimeout
  <2> QED
    BY <1>0, <2>1, <2>2
<1>7. CASE RunTask \/ DropTask \/ \E continues \in BOOLEAN : CallbackReturns(continues)
  BY <1>0, <1>7 DEF RunTask, runTask, DropTask, dropTask, AtTask, CallbackReturns, callbackReturns
<1>8. CASE \/ \E t \in TaskId : unstable_cancelCallback(t)
           \/ unstable_shouldYield \/ unstable_yieldValue \/ unstable_clearYields \/ requestPaint
  BY <1>1, <1>8 DEF unstable_cancelCallback, cancelCallback, unstable_shouldYield, shouldYield,
     unstable_yieldValue, unstable_clearYields, requestPaint, coreVars
<1>9. CASE UNCHANGED vars
  BY <1>1, <1>9 DEF vars, coreVars
<1> QED
  BY <1>2, <1>3, <1>4, <1>5, <1>6, <1>7, <1>8, <1>9 DEF Next, Client, WorkLoop, Callback

\* A timer that is not first leaves the first one where it is.
LEMMA FirstTimerStays ==
    ASSUME CoreInv, [Next]_vars, NEW delay \in Delays, NEW ms \in Timeouts,
           scheduleTimer(delay, ms), NewTimer # nextId
    PROVE  timerQueue # {} /\ NewTimer = FirstTimer /\ startTime'[NewTimer] = startTime[FirstTimer]
<1>1. timerQueue' = timerQueue \cup {nextId}
  BY DEF scheduleTimer
<1>2. nextId \notin timerQueue
  <2>1. nextId \notin 1..(nextId - 1)
    BY BoundsAssumption DEF CoreInv, CoreTypeOK
  <2> QED
    BY <2>1 DEF CoreInv, CoreTypeOK
<1>3. /\ NewTimer \in timerQueue'
      /\ \A t \in timerQueue' \ {NewTimer} : Before(sortIndex', NewTimer, t)
  <2>1. timerQueue' # {}
    BY <1>1
  <2> QED
    BY <2>1, AfterMockStep, PeekIsFirst DEF NewTimer
<1>4. \A t \in timerQueue : sortIndex'[t] = sortIndex[t] /\ startTime'[t] = startTime[t]
  BY <1>2, AfterMockStep DEF scheduleTimer, NewTask
<1>5. \A t \in timerQueue \ {NewTimer} : Before(sortIndex, NewTimer, t)
  BY <1>1, <1>3, <1>4 DEF Before
<1> QED
  BY <1>1, <1>3, <1>4, <1>5, AfterMockStep, FirstIsUnique DEF FirstTimer

\* advanceTimers, with no task stopped: it moves timers to the task queue, or
\* it moves none.
LEMMA LiveTimersMove ==
    ASSUME CoreInv, timerQueue \subseteq hasCallback, NEW time, NEW tq,
           advanceTimers(time, hasCallback, tq), taskQueue' = {}
    PROVE  UNCHANGED <<timerQueue, sortIndex>>
<1>1. Popped(timerQueue, hasCallback, startTime, sortIndex, time) = {}
  BY DEF advanceTimers, Fired, Popped
<1>2. Fired(timerQueue, hasCallback, startTime, sortIndex, time) = {}
  BY <1>1 DEF Fired
<1>3. timerQueue' = timerQueue
  BY <1>1 DEF advanceTimers
<1>4. sortIndex' = [t \in TaskId |-> sortIndex[t]]
  BY <1>2 DEF advanceTimers
<1> QED
  BY <1>3, <1>4 DEF CoreInv, CoreTypeOK

LEMMA TimerStep ==
    ASSUME ~AdvanceInCallbacks, MockInv, [Next]_vars
    PROVE  TimerInv'
<1> SUFFICES ASSUME stopped' = {}
             PROVE  /\ timerQueue' \subseteq hasCallback'
                    /\ pc' = "idle" /\ scheduledTimeout' /\ taskQueue' = {} /\ timerQueue' # {}
                           => startTime'[NewTimer] <= timeoutTime'
  BY DEF TimerInv, FirstTimer, NewTimer
<1> USE DEF host, timeout, tasks, queues, work
<1>0. TimerInv /\ CoreInv /\ HostTypeOK
  BY DEF MockInv
<1>1. CASE UNCHANGED <<pc, timeout, hasCallback, queues, startTime, stopped>>
  BY <1>0, <1>1 DEF TimerInv, FirstTimer, NewTimer
<1>2. ASSUME NEW delay \in Delays, NEW ms \in Timeouts, unstable_scheduleCallback(delay, ms)
      PROVE  /\ timerQueue' \subseteq hasCallback'
             /\ pc' = "idle" /\ scheduledTimeout' /\ taskQueue' = {} /\ timerQueue' # {}
                    => startTime'[NewTimer] <= timeoutTime'
  <2>1. CASE scheduleTimer(delay, ms)
    <3>1. timerQueue' \subseteq hasCallback'
      BY <1>0, <2>1 DEF TimerInv, scheduleTimer, NewTask
    <3>2. ASSUME pc' = "idle", scheduledTimeout', taskQueue' = {}, timerQueue' # {}
          PROVE  startTime'[NewTimer] <= timeoutTime'
      <4>1. CASE SetsHostTimeout
        <5>1. startTime'[NewTimer] = now + delay
          BY <1>0, <2>1, <4>1, AfterMockStep
          DEF SetsHostTimeout, scheduleTimer, NewTask, CoreInv, CoreTypeOK, TaskId
        <5>2. timeoutTime' = now + delay
          BY <1>2, <2>1, <4>1
          DEF unstable_scheduleCallback, scheduleTimer, scheduleTask, requestHostTimeout
        <5>3. now + delay \in Nat
          BY <1>0, AfterMockStep, InputsAssumption
        <5> QED
          BY <5>1, <5>2, <5>3
      <4>2. CASE ~SetsHostTimeout
        <5>1. UNCHANGED <<pc, timeout, taskQueue, stopped>>
          BY <1>2, <2>1, <4>2 DEF unstable_scheduleCallback, scheduleTimer, scheduleTask
        <5>2. NewTimer # nextId
          BY <3>2, <4>2, <5>1 DEF SetsHostTimeout
        <5>3. timerQueue # {} /\ startTime'[NewTimer] = startTime[FirstTimer]
          BY <1>0, <2>1, <5>2, FirstTimerStays
        <5> QED
          BY <1>0, <3>2, <5>1, <5>3 DEF TimerInv
      <4> QED
        BY <4>1, <4>2
    <3> QED
      BY <3>1, <3>2
  <2>2. CASE delay = 0 /\ scheduleTask(ms)
    <3>1. taskQueue' # {}
      BY <2>2 DEF scheduleTask
    <3>2. timerQueue' \subseteq hasCallback'
      BY <1>0, <2>2 DEF TimerInv, scheduleTask, NewTask
    <3> QED
      BY <3>1, <3>2
  <2> QED
    BY <1>2, <2>1, <2>2 DEF unstable_scheduleCallback
<1>3. CASE \E t \in TaskId : unstable_cancelCallback(t)
  BY <1>3 DEF unstable_cancelCallback, cancelCallback
<1>4. CASE unstable_shouldYield
  <2>1. /\ advanceTimers(now, hasCallback, taskQueue)
        /\ UNCHANGED <<pc, timeout, startTime, stopped, hasCallback>>
    BY <1>4 DEF unstable_shouldYield, shouldYield
  <2>2. timerQueue' \subseteq timerQueue /\ taskQueue \subseteq taskQueue'
    BY <2>1 DEF advanceTimers
  <2>3. timerQueue \subseteq hasCallback
    BY <1>0, <2>1 DEF TimerInv
  <2>4. taskQueue' = {} => NewTimer = FirstTimer /\ UNCHANGED timerQueue
    BY <1>0, <2>1, <2>3, LiveTimersMove DEF NewTimer, FirstTimer
  <2> QED
    BY <1>0, <2>1, <2>2, <2>3, <2>4 DEF TimerInv
<1>5. CASE unstable_yieldValue \/ unstable_clearYields \/ requestPaint
  BY <1>1, <1>5 DEF unstable_yieldValue, unstable_clearYields, requestPaint, coreVars
<1>6. ASSUME NEW ms \in 1..MaxTime, unstable_advanceTime(ms)
      PROVE  /\ timerQueue' \subseteq hasCallback'
             /\ pc' = "idle" /\ scheduledTimeout' /\ taskQueue' = {} /\ timerQueue' # {}
                    => startTime'[NewTimer] <= timeoutTime'
  <2>1. CASE fireTimeout
    <3>1. ~scheduledTimeout' /\ timerQueue' \subseteq timerQueue /\ UNCHANGED <<hasCallback, stopped>>
      BY <2>1 DEF fireTimeout, cancelHostTimeout, handleTimeout, advanceTimers
    <3> QED
      BY <1>0, <3>1 DEF TimerInv
  <2> QED
    BY <1>1, <1>6, <2>1 DEF unstable_advanceTime
<1>7. ASSUME pc' # "idle", UNCHANGED stopped,
             timerQueue' \subseteq timerQueue, timerQueue \subseteq hasCallback => timerQueue' \subseteq hasCallback'
      PROVE  /\ timerQueue' \subseteq hasCallback'
             /\ pc' = "idle" /\ scheduledTimeout' /\ taskQueue' = {} /\ timerQueue' # {}
                    => startTime'[NewTimer] <= timeoutTime'
  BY <1>0, <1>7 DEF TimerInv
<1>8. CASE Flush
  <2>1. PICK kind, count : startFlush(kind, count)
    BY <1>8 DEF Flush, unstable_flushNumberOfYields, unstable_flushUntilNextPaint,
       unstable_flushExpired, unstable_flushAllWithoutAsserting
  <2> QED
    BY <1>7, <2>1 DEF startFlush, enterFlushWork, advanceTimers
<1>9. CASE Yield
  <2>1. taskQueue # {}
    <3>1. Head # NoTask
      BY <1>0, <1>9 DEF Yield, yieldWork, AtTask, CoreInv, StackInv
    <3> QED
      BY <3>1 DEF Head, Peek
  <2>2. UNCHANGED <<taskQueue, timerQueue, hasCallback, stopped>>
    BY <1>9 DEF Yield, yieldWork, leaveFlushWork
  <2> QED
    BY <1>0, <2>1, <2>2 DEF TimerInv
<1>10. CASE Drained
  <2>1. UNCHANGED <<timerQueue, hasCallback, startTime, stopped>> /\ NewTimer = FirstTimer
    BY <1>10 DEF Drained, drained, leaveFlushWork, NewTimer, FirstTimer
  <2>2. timerQueue # {} => startTime[FirstTimer] <= timeoutTime'
    BY <1>10, MockDrainedTimeout, BoundsAssumption DEF Time
  <2> QED
    BY <1>0, <2>1, <2>2 DEF TimerInv
<1>11. CASE CallbackThrows
  BY <1>11 DEF CallbackThrows, callbackThrows
<1>12. CASE RunTask \/ DropTask
  <2>1. CASE RunTask
    <3>1. currentTask \notin timerQueue
      <4>1. Head # NoTask /\ currentTask = Head
        BY <1>0, <2>1 DEF RunTask, runTask, AtTask, CoreInv, StackInv
      <4>2. Head \in taskQueue
        BY <1>0, <4>1, AfterMockStep, PeekType DEF Head
      <4> QED
        BY <1>0, <4>1, <4>2 DEF CoreInv, QueuesPartitionLiveTasks
    <3> QED
      BY <1>7, <2>1, <3>1 DEF RunTask, runTask
  <2>2. CASE DropTask
    BY <1>7, <2>2 DEF DropTask, dropTask, AtTask
  <2> QED
    BY <1>12, <2>1, <2>2
<1>13. CASE \E continues \in BOOLEAN : CallbackReturns(continues)
  <2>1. /\ pc' # "idle" /\ UNCHANGED stopped
        /\ timerQueue' \subseteq timerQueue /\ hasCallback \subseteq hasCallback'
    BY <1>13 DEF CallbackReturns, callbackReturns, advanceTimers
  <2> QED
    BY <1>7, <2>1
<1>14. CASE UNCHANGED vars
  BY <1>1, <1>14 DEF vars, coreVars
<1> QED
  BY <1>2, <1>3, <1>4, <1>5, <1>6, <1>8, <1>9, <1>10, <1>11, <1>12, <1>13, <1>14
  DEF Next, Client, WorkLoop, Callback

\* One step never strands a queued task.  The timeout that is forgotten after
\* it fired is none that anybody still needs: it found its timer due.
LEMMA MockWorkStep ==
    ASSUME ~AdvanceInCallbacks, MockInv, [Next]_vars
    PROVE  NoLostWork'
<1> SUFFICES ASSUME pc' = "idle", stopped' = {}, taskQueue' \cup timerQueue' # {}
             PROVE  scheduledCallback' \/ scheduledTimeout'
  BY DEF NoLostWork
<1> USE DEF host, timeout, tasks, queues, work, flags
<1>0. /\ TimerInv /\ CoreInv /\ HostTypeOK /\ RunningInv /\ MarksAreTrue /\ NoLostWork
      /\ isPerformingWork <=> pc # "idle"
  BY DEF MockInv, CoreInv, StackInv
<1>1. CASE /\ UNCHANGED <<pc, stopped, timeout, scheduledCallback>>
           /\ taskQueue \cup timerQueue # {}
  BY <1>0, <1>1 DEF NoLostWork
<1>2. ASSUME NEW delay \in Delays, NEW ms \in Timeouts, unstable_scheduleCallback(delay, ms)
      PROVE  scheduledCallback' \/ scheduledTimeout'
  <2>1. CASE scheduleTimer(delay, ms)
    <3>1. CASE SetsHostTimeout
      BY <1>2, <2>1, <3>1
      DEF unstable_scheduleCallback, scheduleTimer, scheduleTask, requestHostTimeout
    <3>2. CASE ~SetsHostTimeout
      <4>1. UNCHANGED <<timeout, scheduledCallback, pc, stopped, taskQueue>>
        BY <1>2, <2>1, <3>2 DEF unstable_scheduleCallback, scheduleTimer, scheduleTask
      <4>2. taskQueue \cup timerQueue # {}
        BY <1>0, <2>1, <3>2, <4>1, FirstTimerStays DEF SetsHostTimeout
      <4> QED
        BY <1>1, <4>1, <4>2
    <3> QED
      BY <3>1, <3>2
  <2>2. CASE delay = 0 /\ scheduleTask(ms)
    <3>1. IF NeedsHostCallback THEN requestHostCallback ELSE UNCHANGED scheduledCallback
      BY <1>2, <2>2 DEF unstable_scheduleCallback, scheduleTimer, scheduleTask
    <3>2. pc = "idle"
      BY <2>2 DEF scheduleTask
    <3> QED
      BY <1>0, <3>1, <3>2 DEF NeedsHostCallback, requestHostCallback, MarksAreTrue
  <2> QED
    BY <1>2, <2>1, <2>2 DEF unstable_scheduleCallback
<1>3. CASE \E t \in TaskId : unstable_cancelCallback(t)
  BY <1>3 DEF unstable_cancelCallback, cancelCallback
<1>4. CASE unstable_shouldYield
  <2>1. taskQueue' \subseteq taskQueue \cup timerQueue /\ timerQueue' \subseteq timerQueue
    BY <1>4 DEF unstable_shouldYield, shouldYield, advanceTimers, Popped, Fired
  <2> QED
    BY <1>1, <1>4, <2>1 DEF unstable_shouldYield, shouldYield
<1>5. CASE unstable_yieldValue \/ unstable_clearYields \/ requestPaint
  BY <1>1, <1>5 DEF unstable_yieldValue, unstable_clearYields, requestPaint, coreVars
<1>6. ASSUME NEW ms \in 1..MaxTime, unstable_advanceTime(ms)
      PROVE  scheduledCallback' \/ scheduledTimeout'
  <2>1. CASE scheduledTimeout /\ timeoutTime <= now'
    <3>1. /\ handleTimeout(now') /\ pc = "idle" /\ UNCHANGED <<startTime, stopped, hasCallback>>
          /\ IF TimeoutNeedsCallback THEN requestHostCallback ELSE UNCHANGED scheduledCallback
      BY <1>6, <2>1 DEF unstable_advanceTime, fireTimeout, handleTimeout
    <3>2. advanceTimers(now', hasCallback, taskQueue) /\ timerQueue \subseteq hasCallback
      BY <1>0, <3>1 DEF TimerInv, handleTimeout
    <3>3. taskQueue' # {}
      <4> SUFFICES ASSUME taskQueue' = {} PROVE FALSE
        OBVIOUS
      <4>1. UNCHANGED timerQueue /\ taskQueue = {} /\ timerQueue # {}
        <5>1. UNCHANGED timerQueue
          BY <1>0, <3>2, LiveTimersMove
        <5>2. taskQueue = {}
          BY <3>2 DEF advanceTimers
        <5> QED
          BY <5>1, <5>2
      <4>2. FirstTimer \in timerQueue /\ startTime[FirstTimer] \in Nat
        <5>1. FirstTimer \in timerQueue /\ startTime[FirstTimer] \in Time
          BY <1>0, <4>1, AfterMockStep, FirstTimerType DEF FirstTimer
        <5> QED
          BY <5>1, BoundsAssumption DEF Time
      <4>3. startTime[FirstTimer] <= timeoutTime
        BY <1>0, <2>1, <3>1, <4>1 DEF TimerInv
      <4>4. now' \in Nat /\ timeoutTime \in Int
        BY <1>0, <1>6, AfterMockStep DEF unstable_advanceTime, HostTypeOK, Time, NoTimeout
      <4>5. ~(startTime[FirstTimer] > now')
        BY <2>1, <4>2, <4>3, <4>4
      <4>6. \A t \in timerQueue' \cap hasCallback : startTime[t] > now'
        BY <1>0, <3>2, <4>4, AdvanceTimers DEF CoreInv
      <4> QED
        BY <3>2, <4>1, <4>2, <4>5, <4>6
    <3>4. NewHead # NoTask
      BY <1>0, <3>3, AfterMockStep, PeekType DEF NewHead
    <3> QED
      BY <1>0, <3>1, <3>4 DEF TimeoutNeedsCallback, requestHostCallback, MarksAreTrue
  <2>2. CASE ~(scheduledTimeout /\ timeoutTime <= now')
    BY <1>1, <1>6, <2>2 DEF unstable_advanceTime
  <2> QED
    BY <2>1, <2>2
<1>7. CASE Yield
  BY <1>0, <1>7 DEF Yield, yieldWork, AtTask, RunningInv
<1>8. CASE CallbackThrows
  BY <1>8 DEF CallbackThrows, callbackThrows
<1>9. CASE Drained
  <2>1. taskQueue = {}
    <3>1. Head = NoTask
      BY <1>0, <1>9 DEF CoreInv, StackInv, Drained, drained
    <3> QED
      BY <1>0, <3>1, AfterMockStep, PeekType DEF Head
  <2>2. timerQueue # {}
    BY <1>9, <2>1 DEF Drained, drained, leaveFlushWork
  <2> QED
    BY <1>9, <2>2, MockDrainedTimeout
<1>10. CASE \/ Flush \/ RunTask \/ DropTask
            \/ \E continues \in BOOLEAN : CallbackReturns(continues)
  BY <1>10 DEF Flush, unstable_flushNumberOfYields, unstable_flushUntilNextPaint,
     unstable_flushExpired, unstable_flushAllWithoutAsserting, startFlush, enterFlushWork,
     RunTask, runTask, DropTask, dropTask, AtTask, CallbackReturns, callbackReturns
<1>11. CASE UNCHANGED vars
  BY <1>1, <1>11 DEF vars, coreVars
<1> QED
  BY <1>2, <1>3, <1>4, <1>5, <1>6, <1>7, <1>8, <1>9, <1>10, <1>11
  DEF Next, Client, WorkLoop, Callback

LEMMA MockInvStep ==
    ASSUME ~AdvanceInCallbacks, MockInv, [Next]_vars
    PROVE  MockInv'
<1>1. CoreInv'
  BY AfterMockStep DEF MockInv
<1>2. FlushInv'
  BY FlushStep DEF MockInv
<1> QED
  BY <1>1, <1>2, HostTypeStep, MarksStep, TimerStep, MockWorkStep DEF MockInv

-----------------------------------------------------------------------------
(* The fallback host: the definitions that MCSchedulerHosts has of it are  *)
(* those that SchedulerNoDOMProofs is about.                               *)

FP == INSTANCE SchedulerNoDOMProofs
    WITH MaxTasks <- FallbackTasks, MaxPauses <- FallbackPauses,
         enableSchedulerDebugging <- TRUE

LEMMA SameTypes ==
    /\ Fallback!TaskId = FP!TaskId /\ Fallback!Time = FP!Time
    /\ Fallback!NoTask = FP!NoTask /\ Fallback!NoTimeout = FP!NoTimeout
BY DEF Fallback!TaskId, FP!TaskId, Fallback!Time, FP!Time, Fallback!NoTask, FP!NoTask,
   Fallback!NoTimeout, FP!NoTimeout

LEMMA SamePeek ==
    \A queue, sort : Fallback!Peek(queue, sort) = FP!Peek(queue, sort)
BY DEF Fallback!Peek, FP!Peek, Fallback!Before, FP!Before, Fallback!NoTask, FP!NoTask

LEMMA SameHeads ==
    /\ Fallback!Head = FP!Head /\ Fallback!NewHead = FP!NewHead
    /\ Fallback!FirstTimer = FP!FirstTimer /\ Fallback!NewTimer = FP!NewTimer
BY SamePeek DEF Fallback!Head, FP!Head, Fallback!NewHead, FP!NewHead, Fallback!FirstTimer,
   FP!FirstTimer, Fallback!NewTimer, FP!NewTimer

LEMMA SamePopped ==
    \A queue, live, start, sort, time :
        Fallback!Popped(queue, live, start, sort, time) = FP!Popped(queue, live, start, sort, time)
BY DEF Fallback!Popped, FP!Popped, Fallback!Blockers, FP!Blockers, Fallback!Before, FP!Before

LEMMA SameAdvanceTimers ==
    \A time, live, tq : Fallback!advanceTimers(time, live, tq) <=> FP!advanceTimers(time, live, tq)
BY SamePopped, SameTypes DEF Fallback!advanceTimers, FP!advanceTimers, Fallback!Fired, FP!Fired

LEMMA SameTimeouts ==
    /\ \A due, named, others :
           Fallback!setTimeout(due, named, others) <=> FP!setTimeout(due, named, others)
    /\ \A due : Fallback!replaceHostTimeout(due) <=> FP!replaceHostTimeout(due)
    /\ Fallback!cancelHostTimeout <=> FP!cancelHostTimeout
BY DEF Fallback!setTimeout, FP!setTimeout, Fallback!replaceHostTimeout, FP!replaceHostTimeout,
   Fallback!cancelHostTimeout, FP!cancelHostTimeout, Fallback!Capped, FP!Capped,
   Fallback!Overwritten, FP!Overwritten, Fallback!NoTimeout, FP!NoTimeout

LEMMA SameRequest ==
    \A others : Fallback!requestHostCallback(others) <=> FP!requestHostCallback(others)
BY DEF Fallback!requestHostCallback, FP!requestHostCallback

LEMMA SameInit ==
    Fallback!Init <=> FP!Init
BY SameTypes DEF Fallback!Init, FP!Init, Fallback!CoreInit, FP!CoreInit, Fallback!TimeoutsInit,
   FP!TimeoutsInit

LEMMA SameScheduleTimer ==
    \A delay, ms : Fallback!scheduleTimer(delay, ms) <=> FP!scheduleTimer(delay, ms)
BY SameHeads DEF Fallback!scheduleTimer, FP!scheduleTimer, Fallback!ClientRuns, FP!ClientRuns,
   Fallback!NewTask, FP!NewTask, Fallback!SetsHostTimeout, FP!SetsHostTimeout, Fallback!work,
   FP!work, Fallback!pausing, FP!pausing

LEMMA SameScheduleTask ==
    \A ms : Fallback!scheduleTask(ms) <=> FP!scheduleTask(ms)
BY DEF Fallback!scheduleTask, FP!scheduleTask, Fallback!ClientRuns, FP!ClientRuns,
   Fallback!NewTask, FP!NewTask, Fallback!NeedsHostCallback, FP!NeedsHostCallback,
   Fallback!work, FP!work, Fallback!pausing, FP!pausing

LEMMA SameClient ==
    Fallback!Client <=> FP!Client
BY SameTypes, SameHeads, SameAdvanceTimers, SameTimeouts, SameRequest, SameScheduleTimer,
   SameScheduleTask DEF Fallback!Client, FP!Client, Fallback!unstable_scheduleCallback,
   FP!unstable_scheduleCallback, Fallback!unstable_cancelCallback, FP!unstable_cancelCallback,
   Fallback!unstable_shouldYield, FP!unstable_shouldYield, Fallback!unstable_pauseExecution,
   FP!unstable_pauseExecution, Fallback!unstable_continueExecution,
   FP!unstable_continueExecution, Fallback!cancelCallback, FP!cancelCallback,
   Fallback!shouldYield, FP!shouldYield, Fallback!pauseExecution, FP!pauseExecution,
   Fallback!continueExecution, FP!continueExecution, Fallback!ClientRuns, FP!ClientRuns,
   Fallback!NeedsHostCallback, FP!NeedsHostCallback, Fallback!SetsHostTimeout,
   FP!SetsHostTimeout, Fallback!tasks, FP!tasks, Fallback!queues, FP!queues, Fallback!work,
   FP!work, Fallback!flags, FP!flags, Fallback!pausing, FP!pausing, Fallback!timeouts,
   FP!timeouts, Fallback!host, FP!host

LEMMA SameFlushCallback ==
    Fallback!_flushCallback <=> FP!_flushCallback
BY SameHeads, SameAdvanceTimers, SameTimeouts DEF Fallback!_flushCallback, FP!_flushCallback,
   Fallback!enterFlushWork, FP!enterFlushWork, Fallback!tasks, FP!tasks, Fallback!pausing,
   FP!pausing, Fallback!timeouts, FP!timeouts

LEMMA SameWorkLoop ==
    Fallback!WorkLoop <=> FP!WorkLoop
BY SameTypes, SameHeads, SamePeek, SameTimeouts DEF Fallback!WorkLoop, FP!WorkLoop,
   Fallback!Yield, FP!Yield, Fallback!RunTask, FP!RunTask, Fallback!DropTask, FP!DropTask,
   Fallback!Drained, FP!Drained, Fallback!yieldWork, FP!yieldWork, Fallback!runTask,
   FP!runTask, Fallback!dropTask, FP!dropTask, Fallback!drained, FP!drained, Fallback!AtTask,
   FP!AtTask, Fallback!MustYield, FP!MustYield, Fallback!Paused, FP!Paused,
   Fallback!leaveFlushWork, FP!leaveFlushWork, Fallback!clearCallback, FP!clearCallback,
   Fallback!tasks, FP!tasks, Fallback!queues, FP!queues, Fallback!work, FP!work,
   Fallback!flags, FP!flags, Fallback!pausing, FP!pausing, Fallback!timeouts, FP!timeouts,
   Fallback!host, FP!host

LEMMA SameCallback ==
    Fallback!Callback <=> FP!Callback
BY SameTypes, SameHeads, SameAdvanceTimers DEF Fallback!Callback, FP!Callback,
   Fallback!CallbackReturns, FP!CallbackReturns, Fallback!CallbackThrows, FP!CallbackThrows,
   Fallback!callbackReturns, FP!callbackReturns, Fallback!callbackThrows, FP!callbackThrows,
   Fallback!AfterCallback, FP!AfterCallback, Fallback!leaveFlushWork, FP!leaveFlushWork,
   Fallback!retryFlush, FP!retryFlush, Fallback!tasks, FP!tasks, Fallback!queues, FP!queues,
   Fallback!work, FP!work, Fallback!flags, FP!flags, Fallback!pausing, FP!pausing,
   Fallback!timeouts, FP!timeouts, Fallback!host, FP!host

LEMMA SameRequestAgain ==
    Fallback!RequestAgain <=> FP!RequestAgain
BY SameRequest DEF Fallback!RequestAgain, FP!RequestAgain, Fallback!coreVars, FP!coreVars,
   Fallback!tasks, FP!tasks, Fallback!queues, FP!queues, Fallback!work, FP!work,
   Fallback!flags, FP!flags, Fallback!pausing, FP!pausing, Fallback!timeouts, FP!timeouts,
   Fallback!host, FP!host

LEMMA SameTimeout ==
    Fallback!Timeout <=> FP!Timeout
BY SameTypes, SameHeads, SameAdvanceTimers, SameTimeouts, SameRequest DEF Fallback!Timeout,
   FP!Timeout, Fallback!TaskTimeoutFires, FP!TaskTimeoutFires, Fallback!StrayTimeoutFires,
   FP!StrayTimeoutFires, Fallback!timeoutFires, FP!timeoutFires, Fallback!handleTimeout,
   FP!handleTimeout, Fallback!TimeoutArgument, FP!TimeoutArgument, Fallback!NoTime, FP!NoTime,
   Fallback!TimeoutNeedsCallback, FP!TimeoutNeedsCallback, Fallback!TimeoutSetsTimeout,
   FP!TimeoutSetsTimeout, Fallback!tasks, FP!tasks, Fallback!queues, FP!queues, Fallback!work,
   FP!work, Fallback!flags, FP!flags, Fallback!pausing, FP!pausing, Fallback!timeouts,
   FP!timeouts, Fallback!host, FP!host

LEMMA SameTick ==
    Fallback!Tick <=> FP!Tick
BY DEF Fallback!Tick, FP!Tick, Fallback!tick, FP!tick, Fallback!tasks, FP!tasks,
   Fallback!queues, FP!queues, Fallback!work, FP!work, Fallback!flags, FP!flags,
   Fallback!pausing, FP!pausing, Fallback!timeouts, FP!timeouts, Fallback!host, FP!host

LEMMA FallbackInit == Fallback!Init => FP!IInv
BY SameInit, FP!InitInv, BoundsAssumption, InputsAssumption, FallbackAssumption

LEMMA FallbackStep ==
    ASSUME FP!IInv,
           \/ Fallback!Client \/ Fallback!_flushCallback \/ Fallback!WorkLoop \/ Fallback!Callback
           \/ Fallback!RequestAgain \/ Fallback!Timeout \/ Fallback!Tick
           \/ UNCHANGED <<coreVars, fallbackHost>>
    PROVE  FP!IInv'
<1>1. [FP!Next]_(FP!vars)
  <2>1. CASE UNCHANGED <<coreVars, fallbackHost>>
    BY <2>1 DEF coreVars, tasks, queues, work, flags, pausing, fallbackHost,
       FP!vars, FP!coreVars, FP!tasks, FP!queues, FP!work, FP!flags, FP!pausing, FP!timeouts,
       FP!host
  <2> QED
    BY <2>1, SameClient, SameFlushCallback, SameWorkLoop, SameCallback, SameRequestAgain,
       SameTimeout, SameTick DEF FP!Next
<1> QED
  BY <1>1, FP!StepInv, BoundsAssumption, InputsAssumption, FallbackAssumption

-----------------------------------------------------------------------------
(* The theorems about the two hosts *)

ForkInv ==
    /\ fork \in {"mock", "fallback"}
    /\ fork = "mock" => /\ CoreInv /\ FlushInv
                        /\ ~AdvanceInCallbacks => MockInv
    /\ fork = "fallback" => FP!IInv /\ flushing = "none"

LEMMA ForkInitInv == ForkInit => ForkInv
BY CoreInitInv, FlushInit, MockInit, FallbackInit DEF ForkInit, ForkInv, Init, NoMock

LEMMA ForkStepInv == ForkInv /\ [ForkNext]_allVars => ForkInv'
<1> SUFFICES ASSUME ForkInv, [ForkNext]_allVars PROVE ForkInv'
  OBVIOUS
<1>1. CASE fork = "mock"
  <2>1. [Next]_vars /\ UNCHANGED fork
    BY <1>1 DEF ForkNext, MockStep, OnFallback, FallbackClient, FallbackFlush, FallbackWork,
       FallbackCallback, FallbackRequest, FallbackTimeout, FallbackTick, allVars
  <2>2. CoreInv' /\ FlushInv'
    BY <1>1, <2>1, AfterMockStep, FlushStep DEF ForkInv
  <2>3. ~AdvanceInCallbacks => MockInv'
    BY <1>1, <2>1, MockInvStep DEF ForkInv
  <2> QED
    BY <1>1, <2>1, <2>2, <2>3 DEF ForkInv
<1>2. CASE fork = "fallback"
  <2>1. CASE UNCHANGED allVars
    <3>1. UNCHANGED <<coreVars, fallbackHost>> /\ UNCHANGED <<fork, flushing>>
      BY <2>1 DEF allVars, vars, host, flush
    <3> QED
      BY <1>2, <3>1, FallbackStep DEF ForkInv
  <2>2. CASE ForkNext
    <3>1. OnFallback
      BY <1>2, <2>2 DEF ForkNext, MockStep, FallbackClient, FallbackFlush, FallbackWork,
         FallbackCallback, FallbackRequest, FallbackTimeout, FallbackTick
    <3>2. UNCHANGED <<fork, flushing>>
      BY <3>1 DEF OnFallback, host, flush
    <3>3. FP!IInv'
      BY <1>2, <2>2, FallbackStep DEF ForkInv, ForkNext, MockStep, FallbackClient, FallbackFlush,
         FallbackWork, FallbackCallback, FallbackRequest, FallbackTimeout, FallbackTick
    <3> QED
      BY <1>2, <3>2, <3>3 DEF ForkInv
  <2> QED
    BY <2>1, <2>2
<1> QED
  BY <1>1, <1>2 DEF ForkInv

THEOREM ForkInductive == ForkSpec => []ForkInv
BY ForkInitInv, ForkStepInv, PTL DEF ForkSpec

\* Where there is no window, one flush at most is outstanding or running, and
\* whenever a queue holds a task, and the program has not paused the scheduler,
\* a flush, a request or a timeout of the host is outstanding.
THEOREM FallbackKeepsWork == ForkSpec => []FallbackLosesNoWork
<1>1. ForkInv => FallbackLosesNoWork
  <2> SUFFICES ASSUME FP!OneFlush, FP!NoLostWork
               PROVE  Fallback!OneFlush /\ Fallback!NoLostWork
    BY DEF ForkInv, FallbackLosesNoWork, FP!IInv
  <2>1. Fallback!OneFlush
    BY DEF Fallback!OneFlush, FP!OneFlush
  <2>2. Fallback!NoLostWork
    BY SameTypes DEF Fallback!NoLostWork, FP!NoLostWork, Fallback!Paused, FP!Paused,
       Fallback!Outstanding, FP!Outstanding
  <2> QED
    BY <2>1, <2>2
<1> QED
  BY <1>1, ForkInductive, PTL

\* On the mock host, when callbacks do not move the clock: what the scheduler
\* believes of the host is true, and no task that is queued is left behind
\* unless one is cancelled or throws.
THEOREM MockKeepsWork == ~AdvanceInCallbacks => (ForkSpec => []MockLosesNoWork)
<1> SUFFICES ASSUME ~AdvanceInCallbacks PROVE ForkSpec => []MockLosesNoWork
  OBVIOUS
<1>1. ForkInv => MockLosesNoWork
  BY DEF ForkInv, MockLosesNoWork, MockInv
<1> QED
  BY <1>1, ForkInductive, PTL

\* unstable_flushAll leaves no live task behind that is due, whatever the
\* callbacks do, the clock moved by them included.
THEOREM FlushAllIsComplete == ForkSpec => FlushAllRunsAllDue
<1>1. ForkInv /\ [ForkNext]_allVars =>
        [flushing = "all" /\ pc = "loop" /\ pc' = "idle" =>
             \A t \in hasCallback : startTime[t] > now]_vars
  <2> SUFFICES ASSUME ForkInv, [ForkNext]_allVars, flushing = "all", pc = "loop", pc' = "idle",
                      NEW t \in hasCallback
               PROVE  startTime[t] > now
    OBVIOUS
  <2>1. fork = "mock"
    BY DEF ForkInv
  <2>2. [Next]_vars
    BY <2>1 DEF ForkNext, MockStep, OnFallback, FallbackClient, FallbackFlush, FallbackWork,
       FallbackCallback, FallbackRequest, FallbackTimeout, FallbackTick, allVars
  <2> QED
    BY <2>1, <2>2, FlushAllStep DEF ForkInv
<1> QED
  BY <1>1, ForkInductive, PTL DEF ForkSpec, FlushAllRunsAllDue
=============================================================================
