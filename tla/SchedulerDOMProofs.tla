-------------------------- MODULE SchedulerDOMProofs --------------------------
(***************************************************************************)
(* Proofs about the scheduler in a browser (module SchedulerDOM), for      *)
(* every number of tasks, every set of delays and timeouts, every slice    *)
(* and clock bound.  Every step of SchedulerDOM is a step of the core, so  *)
(* what SchedulerCoreProofs shows of the queues and the work loop carries  *)
(* over; the message loop and the timeouts are proved about here.          *)
(***************************************************************************)
EXTENDS SchedulerDOM, SchedulerCoreProofs

-----------------------------------------------------------------------------
(* The core of the scheduler *)

LEMMA StepIsCoreStep == CoreTypeOK /\ [Next]_vars => CoreStep
<1> SUFFICES ASSUME CoreTypeOK, [Next]_vars PROVE CoreStep
  OBVIOUS
<1>1. now \in Int /\ now <= now /\ now \in now..MaxTime
  BY BoundsAssumption DEF CoreTypeOK, Time
<1>2. CASE Client
  BY <1>2 DEF Client, CoreStep, unstable_scheduleCallback, unstable_cancelCallback,
     unstable_shouldYield, unstable_pauseExecution, unstable_continueExecution
<1>3. CASE performWorkUntilDeadline
  BY <1>3 DEF CoreStep, performWorkUntilDeadline
<1>4. CASE WorkLoop
  <2>1. shouldYieldToHost \in BOOLEAN
    BY DEF shouldYieldToHost
  <2> QED
    BY <1>4, <2>1 DEF CoreStep, WorkLoop, YieldToHost, RunTask, DropTask, Drained
<1>5. CASE Callback
  BY <1>5 DEF CoreStep, Callback, CallbackReturns, CallbackThrows
<1>6. CASE Timeout
  BY <1>1, <1>6 DEF CoreStep, Timeout, TaskTimeoutFires, StrayTimeoutFires, timeoutFires,
     ClientRuns
<1>7. CASE Tick
  <2>1. now' \in now..MaxTime
    BY <1>7, BoundsAssumption DEF Tick, tick, CoreTypeOK, Time
  <2> QED
    BY <1>7, <2>1 DEF CoreStep, Tick, tick, timePasses
<1>8. CASE UNCHANGED vars
  BY <1>8 DEF CoreStep, vars
<1> QED
  BY <1>2, <1>3, <1>4, <1>5, <1>6, <1>7, <1>8 DEF Next

THEOREM CoreInductive == Spec => []CoreInv
<1>1. Init => CoreInv
  BY CoreInitInv DEF Init
<1>2. CoreInv /\ [Next]_vars => CoreInv'
  BY StepIsCoreStep, CoreInvStep DEF CoreInv
<1> QED
  BY <1>1, <1>2, PTL DEF Spec

\* No task is queued twice, and no live task is in neither queue.
THEOREM QueuesArePartitioned == Spec => []QueuesPartitionLiveTasks
<1>1. CoreInv => QueuesPartitionLiveTasks
  BY DEF CoreInv
<1> QED
  BY <1>1, CoreInductive, PTL

\* A queued task keeps its key: the heap order of the code is never broken.
THEOREM KeysAreFrozen == Spec => KeysFrozen
<1>1. CoreInv /\ [Next]_vars => [KeepsKeys]_coreVars
  BY StepIsCoreStep, KeysStep DEF CoreInv
<1> QED
  BY <1>1, CoreInductive, PTL DEF Spec, KeysFrozen

\* Once cancelled, or thrown out of, a task is not called again.
THEOREM StoppedTasksNeverRun == Spec => StoppedNeverRuns
<1>1. CoreInv /\ [Next]_vars => [RevivesOnlyByContinuation]_coreVars
  BY StepIsCoreStep, StoppedStep DEF CoreInv
<1> QED
  BY <1>1, CoreInductive, PTL DEF Spec, StoppedNeverRuns

\* The work loop yields only when nothing has expired.
THEOREM ExpiredWorkIsDone == Spec => NothingExpiredAtYield
<1>1. CoreInv /\ [Next]_vars => [YieldsOnlyUnexpired]_coreVars
  BY StepIsCoreStep, YieldStep DEF CoreInv
<1> QED
  BY <1>1, CoreInductive, PTL DEF Spec, NothingExpiredAtYield

\* Whatever the order of calls, yields, timers and messages, callbacks are
\* called one at a time, each once per scheduling or continuation, the one that
\* expires first first: the scheduler implements TaskPool.
THEOREM SchedulerIsTaskPool == Spec => ImplementsTaskPool
<1>1. Init => Pool!PoolInit
  BY PoolInitStep DEF Init
<1>2. CoreInv /\ [Next]_vars => [Pool!PoolNext]_(Pool!poolVars)
  BY StepIsCoreStep, PoolStep DEF CoreInv
<1> QED
  BY <1>1, <1>2, CoreInductive, PTL DEF Spec, ImplementsTaskPool, Pool!PoolSpec

-----------------------------------------------------------------------------
(* The variables of the host *)

HostTypeOK ==
    /\ TimeoutsTypeOK
    /\ isMessageLoopRunning \in BOOLEAN
    /\ scheduledHostCallback \in BOOLEAN
    /\ messages \in Nat
    /\ deadline \in Nat
    /\ lag \in Time

\* The timeouts of the host stay in their domain when one is set.
LEMMA TimeoutType ==
    ASSUME NEW named \in Time \cup {NoTimeout}, NEW others \in [Time -> Nat],
           NEW due \in Nat, setTimeout(due, named, others)
    PROVE  /\ TimeoutsTypeOK'
           /\ taskTimeout' \in Time
           /\ taskTimeout' <= due
<1>1. Capped(due) \in Time /\ Capped(due) <= due
  BY BoundsAssumption DEF Capped, Time
<1>2. Overwritten(named, others) \in [Time -> Nat]
  BY DEF Overwritten
<1> QED
  BY <1>1, <1>2 DEF setTimeout, TimeoutsTypeOK

\* What a step leaves behind, for the leaves below.
LEMMA AfterStep ==
    ASSUME CoreInv, [Next]_vars
    PROVE  /\ CoreInv'
           /\ now \in Nat /\ currentTime \in Nat /\ now - currentTime \in Time
           /\ taskQueue \subseteq TaskId /\ timerQueue \subseteq TaskId
           /\ sortIndex \in [TaskId -> Int] /\ startTime \in [TaskId -> Time]
           /\ taskQueue' \subseteq TaskId /\ timerQueue' \subseteq TaskId
           /\ sortIndex' \in [TaskId -> Int] /\ startTime' \in [TaskId -> Time]
BY StepIsCoreStep, AfterCoreStep DEF CoreInv

LEMMA HostTypeInit == Init => HostTypeOK
<1> SUFFICES ASSUME Init PROVE HostTypeOK
  OBVIOUS
<1>1. 0 \in Time
  BY BoundsAssumption DEF Time
<1>2. strays \in [Time -> Nat]
  BY DEF Init, TimeoutsInit
<1> QED
  BY <1>1, <1>2 DEF Init, TimeoutsInit, HostTypeOK, TimeoutsTypeOK

LEMMA HostTypeStep == CoreInv /\ HostTypeOK /\ [Next]_vars => HostTypeOK'
<1> SUFFICES ASSUME CoreInv, HostTypeOK, [Next]_vars PROVE HostTypeOK'
  OBVIOUS
<1> USE DEF timeouts, loop
<1>0. TimeoutsTypeOK /\ taskTimeout \in Time \cup {NoTimeout} /\ strays \in [Time -> Nat]
      /\ messages \in Nat
  BY DEF HostTypeOK, TimeoutsTypeOK
<1>1. CASE UNCHANGED <<timeouts, loop, deadline, lag>>
  BY <1>1 DEF HostTypeOK, TimeoutsTypeOK
<1>2. requestHostCallback =>
          /\ isMessageLoopRunning' \in BOOLEAN /\ scheduledHostCallback' \in BOOLEAN
          /\ messages' \in Nat
  BY <1>0 DEF requestHostCallback
<1>3. postMessage => messages' \in Nat
  BY <1>0 DEF postMessage
<1>4. ASSUME NEW delay \in Delays, NEW timeout \in Timeouts,
             unstable_scheduleCallback(delay, timeout)
      PROVE  HostTypeOK'
  <2>1. CASE scheduleTimer(delay, timeout)
    <3>1. now + delay \in Nat
      BY AfterStep, InputsAssumption
    <3>2. TimeoutsTypeOK'
      <4>1. CASE UNCHANGED timeouts
        BY <4>1 DEF HostTypeOK, TimeoutsTypeOK
      <4>2. CASE replaceHostTimeout(now + delay)
        BY <1>0, <3>1, <4>2, BoundsAssumption
        DEF replaceHostTimeout, TimeoutsTypeOK, Capped, Time
      <4>3. CASE setTimeout(now + delay, taskTimeout, strays)
        BY <1>0, <3>1, <4>3, TimeoutType
      <4> QED
        BY <1>4, <2>1, <4>1, <4>2, <4>3 DEF unstable_scheduleCallback, scheduleTask, scheduleTimer
    <3> QED
      BY <1>4, <2>1, <3>2 DEF HostTypeOK, unstable_scheduleCallback, scheduleTimer
  <2>2. CASE delay = 0 /\ scheduleTask(timeout)
    BY <1>2, <1>4, <2>2 DEF HostTypeOK, TimeoutsTypeOK, unstable_scheduleCallback, scheduleTimer
  <2> QED
    BY <1>4, <2>1, <2>2 DEF unstable_scheduleCallback
<1>5. CASE unstable_continueExecution
  BY <1>2, <1>5 DEF unstable_continueExecution, HostTypeOK, TimeoutsTypeOK
<1>6. CASE performWorkUntilDeadline
  <2>1. deadline' \in Nat /\ messages' \in Nat
    BY <1>0, <1>6, AfterStep, SliceAssumption DEF performWorkUntilDeadline
  <2>2. TimeoutsTypeOK'
    BY <1>0, <1>6 DEF performWorkUntilDeadline, cancelHostTimeout, TimeoutsTypeOK
  <2> QED
    BY <1>6, <2>1, <2>2 DEF HostTypeOK, performWorkUntilDeadline
<1>7. CASE YieldToHost \/ CallbackThrows
  BY <1>3, <1>7 DEF YieldToHost, CallbackThrows, postMessage, HostTypeOK, TimeoutsTypeOK
<1>8. CASE Drained
  <2>1. TimeoutsTypeOK' /\ lag' \in Time
    <3>1. CASE FirstTimer = NoTask
      BY <1>0, <1>8, <3>1 DEF Drained, HostTypeOK, TimeoutsTypeOK
    <3>2. CASE FirstTimer # NoTask
      <4>1. startTime[FirstTimer] \in Time
        BY <3>2, AfterStep, PeekType DEF FirstTimer
      <4>2. now + startTime[FirstTimer] - currentTime \in Nat
        BY <4>1, AfterStep, BoundsAssumption DEF Time
      <4>3. TimeoutsTypeOK'
        BY <1>0, <1>8, <3>2, <4>2, TimeoutType DEF Drained
      <4>4. lag' \in Time
        BY <1>8, <3>2, AfterStep DEF Drained, HostTypeOK
      <4> QED
        BY <4>3, <4>4
    <3> QED
      BY <3>1, <3>2
  <2> QED
    BY <1>8, <2>1 DEF Drained, endMessageLoop, HostTypeOK
<1>9. ASSUME NEW named \in Time \cup {NoTimeout}, NEW others \in [Time -> Nat],
             timeoutFires(named, others)
      PROVE  HostTypeOK'
  <2>1. TimeoutsTypeOK'
    <3>1. CASE TimeoutSetsTimeout
      <4>1. startTime[NewTimer] \in Time
        <5>1. NewTimer \in timerQueue' \cup {NoTask} /\ NewTimer # NoTask
          BY <3>1, AfterStep, PeekType DEF TimeoutSetsTimeout, NewTimer
        <5> QED
          BY <5>1, AfterStep
      <4> QED
        BY <1>9, <3>1, <4>1, TimeoutType, BoundsAssumption DEF timeoutFires, Time
    <3>2. CASE ~TimeoutSetsTimeout
      BY <1>9, <3>2 DEF timeoutFires, TimeoutsTypeOK
    <3> QED
      BY <3>1, <3>2
  <2> QED
    BY <1>2, <1>9, <2>1 DEF timeoutFires, HostTypeOK
<1>10. CASE Timeout
  <2>1. CASE TaskTimeoutFires
    BY <1>0, <1>9, <2>1 DEF TaskTimeoutFires
  <2>2. ASSUME NEW due \in Time, StrayTimeoutFires(due)
        PROVE  HostTypeOK'
    <3>1. [strays EXCEPT ![due] = @ - 1] \in [Time -> Nat]
      BY <1>0, <2>2 DEF StrayTimeoutFires
    <3> QED
      BY <1>0, <1>9, <2>2, <3>1 DEF StrayTimeoutFires
  <2> QED
    BY <1>10, <2>1, <2>2 DEF Timeout
<1> QED
  BY <1>1, <1>4, <1>5, <1>6, <1>7, <1>8, <1>10
  DEF Next, Client, unstable_cancelCallback, unstable_shouldYield, unstable_pauseExecution,
      WorkLoop, RunTask, DropTask, Callback, CallbackReturns, Tick, vars

-----------------------------------------------------------------------------
(* The message loop, and work that is not lost *)

\* What makes MessageLoop inductive: a host callback that is marked as
\* scheduled has its message in flight, and a host timeout that is marked as
\* scheduled can be cleared.
HostInv ==
    /\ MessageLoop
    /\ isHostCallbackScheduled => messages = 1
    /\ isHostTimeoutScheduled => taskTimeout # NoTimeout

\* What makes NoLateTimer inductive: the promise is kept for the first timer,
\* also while that one is cancelled, so that it still holds when timers are
\* removed from in front of a live one.
TimerInv ==
    pc = "idle" /\ messages = 0 /\ taskQueue = {} /\ timerQueue # {} =>
        \E due \in Outstanding : due <= startTime[FirstTimer] + lag

IInv == CoreInv /\ HostTypeOK /\ HostInv /\ NoLostWork /\ TimerInv

LEMMA HostInit == Init => HostInv /\ NoLostWork /\ TimerInv
BY DEF Init, CoreInit, TimeoutsInit, HostInv, MessageLoop, NoLostWork, TimerInv

\* A message event that ends with timers left sets a timeout for the first one
\* that is late by no more than the age of the clock reading.
LEMMA DrainedTimeout ==
    ASSUME IInv, [Next]_vars, Drained, timerQueue # {}
    PROVE  /\ taskTimeout' \in Time
           /\ taskTimeout' <= startTime[FirstTimer] + lag'
<1>1. FirstTimer \in timerQueue /\ FirstTimer # NoTask /\ startTime[FirstTimer] \in Time
  BY AfterStep, FirstTimerType DEF IInv, FirstTimer
<1>2. /\ now \in Nat /\ currentTime \in Nat /\ now - currentTime \in Time
      /\ lag \in Time /\ Time \subseteq Nat
  BY AfterStep, BoundsAssumption DEF IInv, HostTypeOK, Time
<1>3. now + startTime[FirstTimer] - currentTime \in Nat
  <2>1. now - currentTime \in Nat /\ startTime[FirstTimer] \in Nat
    BY <1>1, <1>2
  <2> QED
    BY <1>2, <2>1
<1>4. /\ taskTimeout' \in Time
      /\ taskTimeout' <= now + startTime[FirstTimer] - currentTime
  BY <1>1, <1>3, TimeoutType DEF IInv, HostTypeOK, TimeoutsTypeOK, Drained
<1>5. lag' \in Nat /\ lag' >= now - currentTime
  BY <1>1, <1>2 DEF Drained
<1>6. taskTimeout' \in Nat /\ startTime[FirstTimer] \in Nat
  BY <1>1, <1>2, <1>4
<1> QED
  BY <1>2, <1>4, <1>5, <1>6

\* A timeout that fires and finds only timers sets one for the first of them.
LEMMA TimeoutSetsNext ==
    ASSUME IInv, [Next]_vars,
           NEW named \in Time \cup {NoTimeout}, NEW others \in [Time -> Nat],
           timeoutFires(named, others), messages' = 0, timerQueue' # {}
    PROVE  /\ taskTimeout' \in Time
           /\ taskTimeout' <= startTime'[NewTimer]
<1>1. ~TimeoutNeedsCallback
  BY DEF timeoutFires, requestHostCallback, IInv, HostInv, MessageLoop, HostTypeOK
<1>2. ~isHostCallbackScheduled
  BY DEF timeoutFires, requestHostCallback, IInv, HostInv, HostTypeOK, loop, TimeoutNeedsCallback
<1>3. NewTimer # NoTask /\ startTime'[NewTimer] \in Time /\ UNCHANGED startTime
  BY AfterStep, FirstTimerType DEF IInv, NewTimer, timeoutFires, handleTimeout, tasks
<1>4. setTimeout(startTime[NewTimer], named, others)
  BY <1>1, <1>2, <1>3 DEF timeoutFires, TimeoutNeedsCallback, TimeoutSetsTimeout
<1>5. startTime[NewTimer] \in Nat
  BY <1>3, BoundsAssumption DEF Time
<1> QED
  BY <1>3, <1>4, <1>5, TimeoutType

\* The timeouts that fire are well-formed.
LEMMA TimeoutCases ==
    ASSUME HostTypeOK, Timeout
    PROVE  \E named \in Time \cup {NoTimeout}, others \in [Time -> Nat] :
               timeoutFires(named, others)
<1>1. CASE TaskTimeoutFires
  BY <1>1 DEF TaskTimeoutFires, HostTypeOK, TimeoutsTypeOK
<1>2. ASSUME NEW due \in Time, StrayTimeoutFires(due)
      PROVE  \E named \in Time \cup {NoTimeout}, others \in [Time -> Nat] :
                 timeoutFires(named, others)
  <2>1. [strays EXCEPT ![due] = @ - 1] \in [Time -> Nat]
    BY <1>2 DEF HostTypeOK, TimeoutsTypeOK, StrayTimeoutFires
  <2> QED
    BY <1>2, <2>1 DEF HostTypeOK, TimeoutsTypeOK, StrayTimeoutFires
<1> QED
  BY <1>1, <1>2 DEF Timeout

\* A timer that is set for as the first one is outstanding in time.
LEMMA ScheduledTimeout ==
    ASSUME IInv, [Next]_vars, NEW delay \in Delays, NEW timeout \in Timeouts,
           unstable_scheduleCallback(delay, timeout), scheduleTimer(delay, timeout),
           SetsHostTimeout
    PROVE  taskTimeout' \in Time /\ taskTimeout' <= now + delay
<1>1. now + delay \in Nat
  BY AfterStep, InputsAssumption DEF IInv
<1>2. CASE replaceHostTimeout(now + delay)
  BY <1>1, <1>2, BoundsAssumption DEF replaceHostTimeout, Capped, Time
<1>3. CASE setTimeout(now + delay, taskTimeout, strays)
  BY <1>1, <1>3, TimeoutType DEF IInv, HostTypeOK, TimeoutsTypeOK
<1> QED
  BY <1>2, <1>3 DEF unstable_scheduleCallback, scheduleTask, scheduleTimer

\* One step keeps the flags of the message loop consistent with what is in
\* flight.
LEMMA HostStep == IInv /\ [Next]_vars => HostInv'
<1> SUFFICES ASSUME IInv, [Next]_vars PROVE HostInv'
  OBVIOUS
<1> USE DEF HostInv, MessageLoop, loop, timeouts, tasks, queues, work, flags, pausing
<1>0. /\ messages \in Nat /\ NoTimeout \notin Time
      /\ HostInv /\ StackInv
  BY DEF IInv, CoreInv, HostTypeOK, Time, NoTimeout
<1>r. requestHostCallback /\ pc = "idle" => messages' = 1 /\ isMessageLoopRunning'
  BY <1>0 DEF requestHostCallback, IInv, HostTypeOK
<1>a. ASSUME isHostCallbackScheduled' => isHostCallbackScheduled \/ NeedsHostCallback,
             IF NeedsHostCallback THEN requestHostCallback ELSE UNCHANGED loop,
             ClientRuns, UNCHANGED <<pc, timeouts, isHostTimeoutScheduled>>
      PROVE  HostInv'
  <2>1. CASE NeedsHostCallback
    <3>1. pc = "idle"
      BY <1>0, <2>1 DEF NeedsHostCallback, StackInv
    <3> QED
      BY <1>0, <1>a, <1>r, <2>1, <3>1 DEF requestHostCallback
  <2>2. CASE ~NeedsHostCallback
    BY <1>0, <1>a, <2>2
  <2> QED
    BY <2>1, <2>2
<1>1. ASSUME NEW delay \in Delays, NEW timeout \in Timeouts,
             unstable_scheduleCallback(delay, timeout)
      PROVE  HostInv'
  <2>1. CASE scheduleTimer(delay, timeout)
    <3>1. isHostTimeoutScheduled' => taskTimeout' # NoTimeout
      <4>1. CASE SetsHostTimeout
        BY <1>0, <1>1, <2>1, <4>1, ScheduledTimeout
      <4>2. CASE ~SetsHostTimeout
        BY <1>0, <1>1, <2>1, <4>2
        DEF unstable_scheduleCallback, scheduleTimer, scheduleTask
      <4> QED
        BY <4>1, <4>2
    <3> QED
      BY <1>0, <1>1, <2>1, <3>1 DEF unstable_scheduleCallback, scheduleTimer
  <2>2. CASE delay = 0 /\ scheduleTask(timeout)
    <3>1. /\ IF NeedsHostCallback THEN requestHostCallback ELSE UNCHANGED loop
          /\ UNCHANGED timeouts
      BY <1>1, <2>2 DEF unstable_scheduleCallback, scheduleTimer
    <3>2. /\ isHostCallbackScheduled' => isHostCallbackScheduled \/ NeedsHostCallback
          /\ ClientRuns /\ UNCHANGED <<pc, isHostTimeoutScheduled>>
      BY <2>2 DEF scheduleTask
    <3> QED
      BY <1>a, <3>1, <3>2
  <2> QED
    BY <1>1, <2>1, <2>2 DEF unstable_scheduleCallback
<1>2. ASSUME NEW t \in TaskId, unstable_cancelCallback(t)
      PROVE  HostInv'
  BY <1>0, <1>2 DEF unstable_cancelCallback, cancelCallback
<1>3. CASE unstable_shouldYield \/ unstable_pauseExecution
  BY <1>0, <1>3 DEF unstable_shouldYield, shouldYield, unstable_pauseExecution, pauseExecution
<1>4. CASE unstable_continueExecution
  BY <1>a, <1>4 DEF unstable_continueExecution, continueExecution
<1>5. CASE performWorkUntilDeadline
  BY <1>0, <1>5 DEF performWorkUntilDeadline, enterFlushWork
<1>6. CASE YieldToHost \/ CallbackThrows
  <2>1. pc # "idle" /\ pc' = "idle" /\ postMessage /\ UNCHANGED <<timeouts, flags>>
    BY <1>6 DEF YieldToHost, yieldWork, AtTask, CallbackThrows, callbackThrows, leaveFlushWork
  <2>2. messages = 0
    BY <1>0, <2>1
  <2> QED
    BY <1>0, <2>1, <2>2 DEF postMessage
<1>7. CASE RunTask \/ DropTask
  BY <1>0, <1>7 DEF RunTask, runTask, DropTask, dropTask, AtTask
<1>8. CASE Drained
  <2>1. taskTimeout # NoTimeout => taskTimeout' # NoTimeout
    <3>1. CASE timerQueue = {}
      <4>1. FirstTimer = NoTask
        BY <3>1 DEF FirstTimer, Peek
      <4> QED
        BY <1>8, <4>1 DEF Drained
    <3>2. CASE timerQueue # {}
      BY <1>0, <1>8, <3>2, DrainedTimeout
    <3> QED
      BY <3>1, <3>2
  <2> QED
    BY <1>0, <1>8, <2>1 DEF Drained, drained, leaveFlushWork, endMessageLoop
<1>9. ASSUME NEW continues \in BOOLEAN, CallbackReturns(continues)
      PROVE  HostInv'
  BY <1>0, <1>9 DEF CallbackReturns, callbackReturns
<1>10. CASE Timeout
  <2>1. PICK named \in Time \cup {NoTimeout}, others \in [Time -> Nat] :
            timeoutFires(named, others)
    BY <1>10, TimeoutCases DEF IInv
  <2>2. /\ pc = "idle" /\ UNCHANGED pc /\ ~isHostTimeoutScheduled'
        /\ isHostCallbackScheduled' => isHostCallbackScheduled \/ TimeoutNeedsCallback
        /\ IF TimeoutNeedsCallback THEN requestHostCallback ELSE UNCHANGED loop
    BY <2>1 DEF timeoutFires, handleTimeout, TimeoutNeedsCallback
  <2>3. CASE TimeoutNeedsCallback
    BY <1>0, <1>r, <2>2, <2>3 DEF requestHostCallback
  <2>4. CASE ~TimeoutNeedsCallback
    BY <1>0, <2>2, <2>4
  <2> QED
    BY <2>3, <2>4
<1>11. CASE Tick \/ UNCHANGED vars
  BY <1>0, <1>11 DEF Tick, tick, vars, coreVars
<1> QED
  BY <1>1, <1>2, <1>3, <1>4, <1>5, <1>6, <1>7, <1>8, <1>9, <1>10, <1>11
  DEF Next, Client, WorkLoop, Callback

\* One step never strands a queued task.
LEMMA WorkStep == IInv /\ [Next]_vars => NoLostWork'
<1> SUFFICES ASSUME IInv, [Next]_vars PROVE NoLostWork'
  OBVIOUS
<1>a. messages' \in Nat
  BY HostTypeStep DEF IInv, HostTypeOK
<1> SUFFICES ASSUME pc' = "idle", messages' = 0, taskQueue' \cup timerQueue' # {}
             PROVE  Outstanding' # {}
  BY <1>a DEF NoLostWork
<1> USE DEF loop, tasks, queues, work, flags, pausing
<1>0. /\ messages \in Nat
      /\ HostInv /\ StackInv /\ NoLostWork
  BY DEF IInv, CoreInv, HostTypeOK
<1>1. CASE /\ pc = "idle" /\ messages = 0 /\ taskQueue \cup timerQueue # {}
           /\ UNCHANGED timeouts
  BY <1>0, <1>1 DEF NoLostWork, timeouts, Outstanding
<1>2. CASE taskTimeout' \in Time
  BY <1>2 DEF Outstanding
<1>r. requestHostCallback /\ pc = "idle" => messages' = 1
  BY <1>0 DEF requestHostCallback, IInv, HostTypeOK, HostInv, MessageLoop
<1>3. ASSUME IF NeedsHostCallback THEN requestHostCallback ELSE UNCHANGED loop,
             UNCHANGED pc
      PROVE  ~NeedsHostCallback /\ UNCHANGED loop
  BY <1>0, <1>3, <1>r DEF NeedsHostCallback, StackInv
<1>4. ASSUME NEW delay \in Delays, NEW timeout \in Timeouts,
             unstable_scheduleCallback(delay, timeout)
      PROVE  Outstanding' # {}
  <2>1. CASE scheduleTimer(delay, timeout)
    <3>1. pc = "idle" /\ messages = 0
      BY <1>4, <2>1 DEF unstable_scheduleCallback, scheduleTimer, scheduleTask
    <3>2. CASE SetsHostTimeout
      BY <1>2, <1>4, <2>1, <3>2, ScheduledTimeout
    <3>3. CASE ~SetsHostTimeout
      <4>1. UNCHANGED timeouts
        BY <1>4, <2>1, <3>3 DEF unstable_scheduleCallback, scheduleTimer, scheduleTask
      <4>2. taskQueue \cup timerQueue # {}
        <5> SUFFICES ASSUME taskQueue = {}, timerQueue = {} PROVE FALSE
          OBVIOUS
        <5>1. timerQueue' = {nextId}
          BY <2>1 DEF scheduleTimer
        <5>2. NewTimer = nextId
          BY <5>1, AfterStep, FirstTimerType DEF NewTimer, IInv
        <5> QED
          BY <3>3, <5>2 DEF SetsHostTimeout
      <4> QED
        BY <1>1, <3>1, <4>1, <4>2
    <3> QED
      BY <3>2, <3>3
  <2>2. CASE delay = 0 /\ scheduleTask(timeout)
    <3>1. ~NeedsHostCallback
      BY <1>3, <1>4, <2>2 DEF unstable_scheduleCallback, scheduleTimer, scheduleTask
    <3>2. UNCHANGED pc /\ messages = 0
      BY <1>3, <1>4, <2>2 DEF unstable_scheduleCallback, scheduleTimer, scheduleTask
    <3> QED
      BY <1>0, <3>1, <3>2 DEF NeedsHostCallback, HostInv, StackInv
  <2> QED
    BY <1>4, <2>1, <2>2 DEF unstable_scheduleCallback
<1>5. ASSUME NEW t \in TaskId, unstable_cancelCallback(t)
      PROVE  Outstanding' # {}
  BY <1>1, <1>5 DEF unstable_cancelCallback, cancelCallback, timeouts
<1>6. CASE unstable_shouldYield
  <2>1. taskQueue' \subseteq taskQueue \cup timerQueue /\ timerQueue' \subseteq timerQueue
    BY <1>6 DEF unstable_shouldYield, shouldYield, advanceTimers, Popped, Fired
  <2> QED
    BY <1>1, <1>6, <2>1 DEF unstable_shouldYield, shouldYield, timeouts
<1>7. CASE unstable_pauseExecution
  BY <1>1, <1>7 DEF unstable_pauseExecution, pauseExecution, timeouts
<1>8. CASE unstable_continueExecution
  <2>1. UNCHANGED pc /\ UNCHANGED loop
    BY <1>3, <1>8 DEF unstable_continueExecution, continueExecution
  <2> QED
    BY <1>1, <1>8, <2>1 DEF unstable_continueExecution, continueExecution, timeouts
<1>9. CASE performWorkUntilDeadline
  BY <1>9 DEF performWorkUntilDeadline, enterFlushWork
<1>10. CASE YieldToHost \/ CallbackThrows
  BY <1>0, <1>10 DEF YieldToHost, CallbackThrows, postMessage
<1>11. CASE RunTask \/ DropTask
  BY <1>11 DEF RunTask, runTask, DropTask, dropTask, AtTask
<1>12. CASE Drained
  <2>1. taskQueue = {}
    <3>1. Head = NoTask
      BY <1>12 DEF IInv, CoreInv, StackInv, Drained, drained
    <3> QED
      BY <3>1, AfterStep, PeekType DEF IInv, Head
  <2>2. timerQueue # {}
    BY <1>12, <2>1 DEF Drained, drained, leaveFlushWork
  <2> QED
    BY <1>2, <1>12, <2>2, DrainedTimeout
<1>13. ASSUME NEW continues \in BOOLEAN, CallbackReturns(continues)
       PROVE  Outstanding' # {}
  BY <1>13 DEF CallbackReturns, callbackReturns
<1>14. CASE Timeout
  <2>1. PICK named \in Time \cup {NoTimeout}, others \in [Time -> Nat] :
            timeoutFires(named, others)
    BY <1>14, TimeoutCases DEF IInv
  <2>2. ~isHostCallbackScheduled /\ NewHead = NoTask
    <3>1. pc = "idle" /\ ~TimeoutNeedsCallback /\ UNCHANGED loop
      BY <1>r, <2>1 DEF timeoutFires
    <3> QED
      BY <1>0, <3>1 DEF TimeoutNeedsCallback, HostInv
  <2>3. taskQueue' = {}
    BY <2>2, AfterStep, PeekType DEF IInv, NewHead
  <2> QED
    BY <1>2, <2>1, <2>3, TimeoutSetsNext
<1>15. CASE Tick \/ UNCHANGED vars
  BY <1>1, <1>15 DEF Tick, tick, vars, coreVars, timeouts
<1> QED
  BY <1>4, <1>5, <1>6, <1>7, <1>8, <1>9, <1>10, <1>11, <1>12, <1>13, <1>14, <1>15
  DEF Next, Client, WorkLoop, Callback

\* One step leaves no first timer without a timeout that is early enough.
LEMMA TimerStep == IInv /\ [Next]_vars => TimerInv'
<1> SUFFICES ASSUME IInv, [Next]_vars PROVE TimerInv'
  OBVIOUS
<1>a. messages' \in Nat /\ lag' \in Nat
  BY HostTypeStep, BoundsAssumption DEF IInv, HostTypeOK, Time
<1> SUFFICES ASSUME pc' = "idle", messages' = 0, taskQueue' = {}, timerQueue' # {}
             PROVE  \E due \in Outstanding' : due <= startTime'[NewTimer] + lag'
  BY <1>a DEF TimerInv, NewTimer, FirstTimer
<1> USE DEF loop, tasks, queues, work, flags, pausing
<1>0. /\ messages \in Nat /\ lag \in Nat /\ Time \subseteq Nat
      /\ HostInv /\ StackInv /\ TimerInv
  BY BoundsAssumption DEF IInv, CoreInv, HostTypeOK, Time
<1>1. /\ NewTimer \in timerQueue' /\ NewTimer \in TaskId /\ startTime'[NewTimer] \in Nat
      /\ \A t \in timerQueue' \ {NewTimer} : Before(sortIndex', NewTimer, t)
  BY <1>0, AfterStep, FirstTimerType, PeekIsFirst DEF IInv, NewTimer
<1>2. CASE taskTimeout' \in Time /\ taskTimeout' <= startTime'[NewTimer]
  <2>1. taskTimeout' <= startTime'[NewTimer] + lag'
    BY <1>0, <1>1, <1>2, <1>a
  <2> QED
    BY <1>2, <2>1 DEF Outstanding
<1>3. CASE /\ pc = "idle" /\ messages = 0 /\ taskQueue = {}
           /\ UNCHANGED <<timeouts, startTime, lag>>
           /\ timerQueue' \subseteq timerQueue
  <2>1. FirstTimer \in timerQueue /\ NewTimer \in timerQueue
    BY <1>1, <1>3, AfterStep, FirstTimerType DEF IInv, FirstTimer
  <2>2. /\ startTime[FirstTimer] \in Nat /\ startTime[NewTimer] \in Nat
        /\ startTime[FirstTimer] <= startTime[NewTimer]
    <3>1. NewTimer = FirstTimer \/ Before(sortIndex, FirstTimer, NewTimer)
      BY <2>1, AfterStep, PeekIsFirst DEF IInv, FirstTimer
    <3>2. sortIndex[FirstTimer] = startTime[FirstTimer]
          /\ sortIndex[NewTimer] = startTime[NewTimer]
      BY <2>1 DEF IInv, CoreInv, KeyInv
    <3>3. startTime[FirstTimer] \in Nat /\ startTime[NewTimer] \in Nat
      BY <1>0, <2>1, AfterStep DEF IInv
    <3> QED
      BY <3>1, <3>2, <3>3 DEF Before
  <2>3. PICK due \in Outstanding : due <= startTime[FirstTimer] + lag
    BY <1>0, <1>3, <2>1 DEF TimerInv
  <2>4. due \in Nat /\ due \in Outstanding'
    BY <1>0, <1>3 DEF Outstanding, timeouts
  <2>5. due <= startTime'[NewTimer] + lag'
    BY <1>0, <1>3, <2>2, <2>3, <2>4
  <2> QED
    BY <2>4, <2>5
<1>r. requestHostCallback /\ pc = "idle" => messages' = 1
  BY <1>0 DEF requestHostCallback, IInv, HostTypeOK, HostInv, MessageLoop
<1>4. ASSUME NEW delay \in Delays, NEW timeout \in Timeouts,
             unstable_scheduleCallback(delay, timeout)
      PROVE  \E due \in Outstanding' : due <= startTime'[NewTimer] + lag'
  <2>1. scheduleTimer(delay, timeout)
    BY <1>4 DEF unstable_scheduleCallback, scheduleTask
  <2>2. /\ pc = "idle" /\ messages = 0 /\ taskQueue = {} /\ UNCHANGED lag
        /\ timerQueue' = timerQueue \cup {nextId}
    BY <1>4, <2>1 DEF unstable_scheduleCallback, scheduleTimer, scheduleTask
  <2>3. CASE SetsHostTimeout
    <3>1. startTime'[NewTimer] = now + delay
      BY <2>1, <2>3, AfterStep
      DEF SetsHostTimeout, scheduleTimer, NewTask, IInv, CoreInv, CoreTypeOK, TaskId
    <3> QED
      BY <1>2, <1>4, <2>1, <2>3, <3>1, ScheduledTimeout
  <2>4. CASE ~SetsHostTimeout
    <3>1. NewTimer \in timerQueue /\ NewTimer # nextId /\ UNCHANGED timeouts
      BY <1>1, <1>4, <2>1, <2>2, <2>4
      DEF SetsHostTimeout, unstable_scheduleCallback, scheduleTask, scheduleTimer
    <3>2. nextId \notin timerQueue
      <4>1. nextId \notin 1..(nextId - 1)
        BY BoundsAssumption DEF IInv, CoreInv, CoreTypeOK
      <4> QED
        BY <4>1 DEF IInv, CoreInv, CoreTypeOK
    <3>3. \A t \in timerQueue : sortIndex'[t] = sortIndex[t] /\ startTime'[t] = startTime[t]
      BY <2>1, <3>2, AfterStep DEF IInv, scheduleTimer, NewTask
    <3>4. NewTimer = FirstTimer
      <4>1. \A t \in timerQueue \ {NewTimer} : Before(sortIndex, NewTimer, t)
        BY <1>1, <2>2, <3>1, <3>3 DEF Before
      <4> QED
        BY <3>1, <4>1, AfterStep, FirstIsUnique DEF IInv, FirstTimer
    <3>5. \E due \in Outstanding : due <= startTime[FirstTimer] + lag
      BY <1>0, <2>2, <3>1 DEF TimerInv
    <3>6. Outstanding' = Outstanding /\ startTime'[NewTimer] = startTime[FirstTimer]
          /\ UNCHANGED lag
      BY <2>2, <3>1, <3>3, <3>4 DEF Outstanding, timeouts
    <3> QED
      BY <3>5, <3>6
  <2> QED
    BY <2>3, <2>4
<1>5. ASSUME NEW t \in TaskId, unstable_cancelCallback(t)
      PROVE  \E due \in Outstanding' : due <= startTime'[NewTimer] + lag'
  BY <1>3, <1>5 DEF unstable_cancelCallback, cancelCallback
<1>6. CASE unstable_shouldYield
  <2>1. taskQueue \subseteq taskQueue' /\ timerQueue' \subseteq timerQueue
    BY <1>6 DEF unstable_shouldYield, shouldYield, advanceTimers
  <2> QED
    BY <1>3, <1>6, <2>1 DEF unstable_shouldYield, shouldYield
<1>7. CASE unstable_pauseExecution
  BY <1>3, <1>7 DEF unstable_pauseExecution, pauseExecution
<1>8. CASE unstable_continueExecution
  <2>1. UNCHANGED pc /\ UNCHANGED loop
    BY <1>0, <1>8, <1>r
    DEF unstable_continueExecution, continueExecution, NeedsHostCallback, StackInv
  <2> QED
    BY <1>3, <1>8, <2>1 DEF unstable_continueExecution, continueExecution
<1>9. CASE performWorkUntilDeadline
  BY <1>9 DEF performWorkUntilDeadline, enterFlushWork
<1>10. CASE YieldToHost \/ CallbackThrows
  BY <1>0, <1>10 DEF YieldToHost, CallbackThrows, postMessage
<1>11. CASE RunTask \/ DropTask
  BY <1>11 DEF RunTask, runTask, DropTask, dropTask, AtTask
<1>12. CASE Drained
  <2>1. /\ timerQueue # {} /\ NewTimer = FirstTimer /\ UNCHANGED startTime
    BY <1>12 DEF Drained, drained, leaveFlushWork, NewTimer, FirstTimer
  <2> QED
    BY <1>12, <2>1, DrainedTimeout DEF Outstanding
<1>13. ASSUME NEW continues \in BOOLEAN, CallbackReturns(continues)
       PROVE  \E due \in Outstanding' : due <= startTime'[NewTimer] + lag'
  BY <1>13 DEF CallbackReturns, callbackReturns
<1>14. CASE Timeout
  <2>1. PICK named \in Time \cup {NoTimeout}, others \in [Time -> Nat] :
            timeoutFires(named, others)
    BY <1>14, TimeoutCases DEF IInv
  <2> QED
    BY <1>2, <2>1, TimeoutSetsNext
<1>15. CASE Tick \/ UNCHANGED vars
  BY <1>3, <1>15 DEF Tick, tick, vars, coreVars
<1> QED
  BY <1>4, <1>5, <1>6, <1>7, <1>8, <1>9, <1>10, <1>11, <1>12, <1>13, <1>14, <1>15
  DEF Next, Client, WorkLoop, Callback

-----------------------------------------------------------------------------
(* The theorems about the host *)

THEOREM Inductive == Spec => []IInv
<1>1. Init => CoreInv
  BY CoreInitInv DEF Init
<1>2. Init => IInv
  BY <1>1, HostTypeInit, HostInit DEF IInv
<1>3. CoreInv /\ [Next]_vars => CoreInv'
  BY StepIsCoreStep, CoreInvStep DEF CoreInv
<1>4. IInv /\ [Next]_vars => IInv'
  BY <1>3, HostTypeStep, HostStep, WorkStep, TimerStep DEF IInv
<1> QED
  BY <1>2, <1>4, PTL DEF Spec

\* Type correctness of the scheduler in a browser.
THEOREM TypeCorrect == Spec => []TypeOK
<1>1. IInv => TypeOK
  BY DEF IInv, CoreInv, HostTypeOK, TypeOK
<1> QED
  BY <1>1, Inductive, PTL

\* One message loop at most, and never one that the flag only imagines.
THEOREM MessageLoopCorrect == Spec => []MessageLoop
<1>1. IInv => MessageLoop
  BY DEF IInv, HostInv
<1> QED
  BY <1>1, Inductive, PTL

\* As long as either queue holds a task, somebody is going to look at it.
THEOREM WorkIsNeverLost == Spec => []NoLostWork
<1>1. IInv => NoLostWork
  BY DEF IInv
<1> QED
  BY <1>1, Inductive, PTL

\* Whatever is cancelled, added in front, or fired early, a live timer is woken
\* up for no later than its start time plus the age of the clock reading.
THEOREM TimersAreNotLate == Spec => []NoLateTimer
<1>1. IInv => NoLateTimer
  <2> SUFFICES ASSUME IInv, pc = "idle", messages = 0, taskQueue = {},
                      NEW t \in timerQueue \cap hasCallback
               PROVE  \E due \in Outstanding : due <= startTime[t] + lag
    BY DEF NoLateTimer
  <2>1. /\ timerQueue \subseteq TaskId /\ sortIndex \in [TaskId -> Int]
        /\ startTime \in [TaskId -> Time] /\ Time \subseteq Nat /\ lag \in Nat
    BY QueuedIds, BoundsAssumption DEF IInv, CoreInv, CoreTypeOK, HostTypeOK, Time
  <2>2. FirstTimer \in timerQueue /\ (t = FirstTimer \/ Before(sortIndex, FirstTimer, t))
    BY <2>1, PeekIsFirst DEF FirstTimer
  <2>3. startTime[FirstTimer] \in Nat /\ startTime[t] \in Nat
    BY <2>1, <2>2
  <2>4. sortIndex[FirstTimer] = startTime[FirstTimer] /\ sortIndex[t] = startTime[t]
    BY <2>2 DEF IInv, CoreInv, KeyInv
  <2>5. startTime[FirstTimer] <= startTime[t]
    BY <2>2, <2>3, <2>4 DEF Before
  <2>6. PICK due \in Outstanding : due <= startTime[FirstTimer] + lag
    BY <2>2 DEF IInv, TimerInv
  <2>7. due \in Nat
    BY <2>1 DEF Outstanding
  <2> QED
    BY <2>1, <2>3, <2>5, <2>6, <2>7
<1> QED
  BY <1>1, Inductive, PTL
=============================================================================
