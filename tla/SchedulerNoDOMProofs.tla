------------------------- MODULE SchedulerNoDOMProofs -------------------------
(***************************************************************************)
(* Proofs about the scheduler on the fallback host (module SchedulerNoDOM) *)
(* for every number of tasks and pauses, every set of delays and timeouts  *)
(* and every clock bound.  Every step is one of the core, so what          *)
(* SchedulerCoreProofs shows of the queues and the work loop carries over; *)
(* the flushes, requests and timeouts of the host are proved about here.   *)
(***************************************************************************)
EXTENDS SchedulerNoDOM, SchedulerCoreProofs

-----------------------------------------------------------------------------
(* The core of the scheduler *)

LEMMA StepIsCoreStep == CoreTypeOK /\ [Next]_vars => CoreStep
<1> SUFFICES ASSUME CoreTypeOK, [Next]_vars PROVE CoreStep
  OBVIOUS
<1>1. now \in Int /\ now \in now..MaxTime /\ NoTime \in Int /\ NoTime <= now
  BY BoundsAssumption DEF CoreTypeOK, Time, NoTime
<1>2. CASE Client
  BY <1>2 DEF Client, CoreStep, unstable_scheduleCallback, unstable_cancelCallback,
     unstable_shouldYield, unstable_pauseExecution, unstable_continueExecution
<1>3. CASE _flushCallback
  BY <1>3 DEF CoreStep, _flushCallback
<1>4. CASE WorkLoop
  BY <1>4 DEF CoreStep, WorkLoop, Yield, RunTask, DropTask, Drained
<1>5. CASE Callback
  BY <1>5 DEF CoreStep, Callback, CallbackReturns, CallbackThrows
<1>6. CASE Timeout
  BY <1>1, <1>6 DEF CoreStep, Timeout, TaskTimeoutFires, StrayTimeoutFires, timeoutFires,
     TimeoutArgument, ClientRuns
<1>7. CASE Tick
  <2>1. now' \in now..MaxTime
    BY <1>7, BoundsAssumption DEF Tick, tick, CoreTypeOK, Time
  <2> QED
    BY <1>7, <2>1 DEF CoreStep, Tick, tick, timePasses
<1>8. CASE RequestAgain \/ UNCHANGED vars
  BY <1>8 DEF CoreStep, RequestAgain, vars
<1> QED
  BY <1>2, <1>3, <1>4, <1>5, <1>6, <1>7, <1>8 DEF Next

LEMMA AfterStep ==
    ASSUME CoreInv, [Next]_vars
    PROVE  /\ CoreInv'
           /\ now \in Nat /\ currentTime \in Nat /\ now - currentTime \in Time
           /\ taskQueue \subseteq TaskId /\ timerQueue \subseteq TaskId
           /\ sortIndex \in [TaskId -> Int] /\ startTime \in [TaskId -> Time]
           /\ taskQueue' \subseteq TaskId /\ timerQueue' \subseteq TaskId
           /\ sortIndex' \in [TaskId -> Int] /\ startTime' \in [TaskId -> Time]
BY StepIsCoreStep, AfterCoreStep DEF CoreInv

-----------------------------------------------------------------------------
(* The variables of the host *)

HostTypeOK ==
    /\ TimeoutsTypeOK
    /\ _callback \in BOOLEAN
    /\ flushes \in Nat
    /\ requests \in Nat

\* A timeout that is set stays in its domain, and is outstanding.
LEMMA TimeoutType ==
    ASSUME NEW named \in Time \cup {NoTimeout}, NEW others \in [Time -> Nat],
           NEW due \in Nat, setTimeout(due, named, others)
    PROVE  /\ TimeoutsTypeOK'
           /\ Outstanding' # {}
<1>1. Capped(due) \in Time
  BY BoundsAssumption DEF Capped, Time
<1>2. Overwritten(named, others) \in [Time -> Nat]
  BY DEF Overwritten
<1> QED
  BY <1>1, <1>2 DEF setTimeout, TimeoutsTypeOK, Outstanding

\* The timeouts that fire are well-formed.
LEMMA TimeoutCases ==
    ASSUME HostTypeOK, Timeout
    PROVE  \E named \in Time \cup {NoTimeout}, others \in [Time -> Nat] :
               timeoutFires(named, others)
<1>1. CASE TaskTimeoutFires
  BY <1>1 DEF TaskTimeoutFires, HostTypeOK, TimeoutsTypeOK
<1>2. ASSUME NEW due \in Time, StrayTimeoutFires(due)
      PROVE  \E named \in Time \cup {NoTimeout}, others \in [Time -> Nat] :
                 timeoutFires(named, others)
  <2>1. [strays EXCEPT ![due] = @ - 1] \in [Time -> Nat]
    BY <1>2 DEF HostTypeOK, TimeoutsTypeOK, StrayTimeoutFires
  <2> QED
    BY <1>2, <2>1 DEF HostTypeOK, TimeoutsTypeOK, StrayTimeoutFires
<1> QED
  BY <1>1, <1>2 DEF Timeout

\* What a request does, whichever branch it takes.
LEMMA RequestType ==
    ASSUME HostTypeOK, NEW others \in Nat, requestHostCallback(others)
    PROVE  /\ _callback' = TRUE /\ flushes' \in Nat /\ requests' \in Nat
           /\ flushes' + requests' > 0
           /\ requests' >= others /\ flushes' >= flushes
           /\ ~_callback => flushes' = flushes + 1
           /\ _callback => UNCHANGED flushes
BY DEF requestHostCallback, HostTypeOK

\* The timeout for the first timer, set when the task queue runs empty.
LEMMA DrainedTimeout ==
    ASSUME CoreInv, HostTypeOK, [Next]_vars, Drained, timerQueue # {}
    PROVE  TimeoutsTypeOK' /\ Outstanding' # {}
<1>1. FirstTimer # NoTask /\ startTime[FirstTimer] \in Time
  BY AfterStep, FirstTimerType DEF FirstTimer
<1>2. now + startTime[FirstTimer] - currentTime \in Nat
  <2>1. now - currentTime \in Nat /\ startTime[FirstTimer] \in Nat /\ now \in Nat
        /\ currentTime \in Nat
    BY <1>1, AfterStep, BoundsAssumption DEF Time
  <2> QED
    BY <2>1
<1> QED
  BY <1>1, <1>2, TimeoutType DEF HostTypeOK, TimeoutsTypeOK, Drained

\* The timeout that unstable_scheduleCallback sets for a timer that is first.
LEMMA ScheduledTimeout ==
    ASSUME CoreInv, HostTypeOK, [Next]_vars, NEW delay \in Delays, NEW timeout \in Timeouts,
           unstable_scheduleCallback(delay, timeout), scheduleTimer(delay, timeout),
           SetsHostTimeout
    PROVE  TimeoutsTypeOK' /\ Outstanding' # {}
<1>1. now + delay \in Nat
  BY AfterStep, InputsAssumption
<1>2. CASE replaceHostTimeout(now + delay)
  BY <1>1, <1>2, BoundsAssumption
  DEF replaceHostTimeout, Capped, Time, Outstanding, HostTypeOK, TimeoutsTypeOK
<1>3. CASE setTimeout(now + delay, taskTimeout, strays)
  BY <1>1, <1>3, TimeoutType DEF HostTypeOK, TimeoutsTypeOK
<1> QED
  BY <1>2, <1>3 DEF unstable_scheduleCallback, scheduleTask, scheduleTimer

LEMMA HostTypeInit == Init => HostTypeOK
<1> SUFFICES ASSUME Init PROVE HostTypeOK
  OBVIOUS
<1>1. strays \in [Time -> Nat]
  BY DEF Init, TimeoutsInit
<1> QED
  BY <1>1 DEF Init, TimeoutsInit, HostTypeOK, TimeoutsTypeOK

LEMMA HostTypeStep == CoreInv /\ HostTypeOK /\ [Next]_vars => HostTypeOK'
<1> SUFFICES ASSUME CoreInv, HostTypeOK, [Next]_vars PROVE HostTypeOK'
  OBVIOUS
<1> USE DEF timeouts, host
<1>0. TimeoutsTypeOK /\ taskTimeout \in Time \cup {NoTimeout} /\ strays \in [Time -> Nat]
      /\ flushes \in Nat /\ requests \in Nat /\ _callback \in BOOLEAN
  BY DEF HostTypeOK, TimeoutsTypeOK
<1>1. CASE UNCHANGED <<timeouts, host>>
  BY <1>1 DEF HostTypeOK, TimeoutsTypeOK
<1>2. requestHostCallback(requests) =>
          _callback' \in BOOLEAN /\ flushes' \in Nat /\ requests' \in Nat
  BY <1>0, RequestType
<1>3. UNCHANGED timeouts => TimeoutsTypeOK'
  BY <1>0 DEF TimeoutsTypeOK
<1>4. ASSUME NEW delay \in Delays, NEW timeout \in Timeouts,
             unstable_scheduleCallback(delay, timeout)
      PROVE  HostTypeOK'
  <2>1. CASE scheduleTimer(delay, timeout)
    <3>1. TimeoutsTypeOK'
      BY <1>3, <1>4, <2>1, ScheduledTimeout
      DEF unstable_scheduleCallback, scheduleTask, scheduleTimer
    <3> QED
      BY <1>0, <1>4, <2>1, <3>1 DEF HostTypeOK, unstable_scheduleCallback, scheduleTimer
  <2>2. CASE delay = 0 /\ scheduleTask(timeout)
    BY <1>0, <1>2, <1>3, <1>4, <2>2 DEF HostTypeOK, unstable_scheduleCallback, scheduleTimer
  <2> QED
    BY <1>4, <2>1, <2>2 DEF unstable_scheduleCallback
<1>5. CASE unstable_continueExecution
  BY <1>0, <1>2, <1>3, <1>5 DEF unstable_continueExecution, HostTypeOK
<1>6. CASE _flushCallback
  <2>1. flushes' \in Nat /\ UNCHANGED <<_callback, requests>>
    BY <1>0, <1>6 DEF _flushCallback
  <2>2. TimeoutsTypeOK'
    BY <1>0, <1>6 DEF _flushCallback, cancelHostTimeout, TimeoutsTypeOK
  <2> QED
    BY <1>0, <2>1, <2>2 DEF HostTypeOK
<1>7. CASE Yield \/ CallbackThrows
  <2>1. /\ flushes' = flushes \/ flushes' = flushes + 1
        /\ _callback' = FALSE \/ UNCHANGED _callback
        /\ UNCHANGED timeouts /\ UNCHANGED requests
    BY <1>7 DEF Yield, CallbackThrows, clearCallback, retryFlush
  <2>2. flushes' \in Nat
    BY <1>0, <2>1
  <2>3. _callback' \in BOOLEAN
    BY <1>0, <2>1
  <2> QED
    BY <1>0, <1>3, <2>1, <2>2, <2>3 DEF HostTypeOK
<1>8. CASE Drained
  <2>1. TimeoutsTypeOK'
    <3>1. CASE timerQueue = {}
      <4>1. FirstTimer = NoTask
        BY <3>1 DEF FirstTimer, Peek
      <4> QED
        BY <1>3, <1>8, <4>1 DEF Drained
    <3> QED
      BY <1>8, <3>1, DrainedTimeout
  <2> QED
    BY <1>0, <1>8, <2>1 DEF Drained, clearCallback, HostTypeOK
<1>9. CASE RequestAgain
  <2>1. requests - 1 \in Nat /\ requestHostCallback(requests - 1) /\ UNCHANGED timeouts
    BY <1>0, <1>9 DEF RequestAgain
  <2> QED
    BY <1>3, <2>1, RequestType DEF HostTypeOK
<1>10. CASE Timeout
  <2>1. PICK named \in Time \cup {NoTimeout}, others \in [Time -> Nat] :
            timeoutFires(named, others)
    BY <1>10, TimeoutCases
  <2>2. TimeoutsTypeOK'
    BY <2>1, AfterStep, TimeoutType DEF timeoutFires, TimeoutsTypeOK
  <2> QED
    BY <1>0, <1>2, <2>1, <2>2 DEF timeoutFires, HostTypeOK
<1> QED
  BY <1>1, <1>4, <1>5, <1>6, <1>7, <1>8, <1>9, <1>10
  DEF Next, Client, unstable_cancelCallback, unstable_shouldYield, unstable_pauseExecution,
      WorkLoop, RunTask, DropTask, Callback, CallbackReturns, Tick, vars

-----------------------------------------------------------------------------
(* Flushes and requests, and work that is not lost *)

\* What NoLostWork needs while scheduler code runs: a host callback is never
\* marked as scheduled that is not on its way.
MarkInv == isHostCallbackScheduled => flushes + requests > 0

IInv == CoreInv /\ HostTypeOK /\ OneFlush /\ MarkInv /\ NoLostWork

LEMMA HostInit == Init => OneFlush /\ MarkInv /\ NoLostWork
BY DEF Init, CoreInit, TimeoutsInit, OneFlush, MarkInv, NoLostWork

\* One step keeps at most one flush outstanding or running.
LEMMA FlushStep == IInv /\ [Next]_vars => OneFlush'
<1> SUFFICES ASSUME IInv, [Next]_vars PROVE OneFlush'
  OBVIOUS
<1> USE DEF host
<1>0. /\ OneFlush /\ HostTypeOK /\ flushes \in Nat /\ requests \in Nat /\ _callback \in BOOLEAN
      /\ isPerformingWork <=> pc # "idle"
  BY DEF IInv, HostTypeOK, CoreInv, StackInv
<1>1. CASE UNCHANGED <<pc, host>>
  BY <1>0, <1>1 DEF OneFlush
<1>2. ASSUME NEW others \in Nat, requestHostCallback(others), pc = "idle", UNCHANGED pc
      PROVE  OneFlush'
  <2>1. /\ _callback' = TRUE
        /\ ~_callback => flushes' = flushes + 1
        /\ _callback => UNCHANGED flushes
    BY <1>0, <1>2, RequestType
  <2>2. flushes = 0 \/ flushes = 1
    BY <1>0 DEF OneFlush
  <2>3. flushes' = 1
    BY <1>0, <1>2, <2>1, <2>2 DEF OneFlush
  <2> QED
    BY <1>2, <2>1, <2>3 DEF OneFlush
<1>3. CASE /\ IF NeedsHostCallback THEN requestHostCallback(requests) ELSE UNCHANGED host
           /\ UNCHANGED pc
  BY <1>0, <1>1, <1>2, <1>3 DEF NeedsHostCallback
<1>4. ASSUME NEW delay \in Delays, NEW timeout \in Timeouts,
             unstable_scheduleCallback(delay, timeout)
      PROVE  OneFlush'
  BY <1>1, <1>3, <1>4 DEF unstable_scheduleCallback, scheduleTimer, scheduleTask
<1>5. CASE unstable_continueExecution
  BY <1>3, <1>5 DEF unstable_continueExecution, continueExecution, work
<1>6. CASE _flushCallback
  BY <1>0, <1>6 DEF _flushCallback, enterFlushWork, OneFlush
<1>7. CASE Yield \/ Drained
  <2>1. pc # "idle" /\ pc' = "idle" /\ clearCallback
    BY <1>7 DEF Yield, Drained, yieldWork, drained, AtTask, leaveFlushWork
  <2> QED
    BY <1>0, <2>1 DEF clearCallback, OneFlush
<1>8. CASE CallbackThrows
  <2>1. pc # "idle" /\ pc' = "idle" /\ retryFlush
    BY <1>8 DEF CallbackThrows, callbackThrows, leaveFlushWork
  <2> QED
    BY <1>0, <2>1 DEF retryFlush, OneFlush
<1>9. CASE RunTask \/ DropTask \/ \E continues \in BOOLEAN : CallbackReturns(continues)
  <2>1. pc # "idle" /\ pc' # "idle" /\ UNCHANGED host
    BY <1>9 DEF RunTask, runTask, DropTask, dropTask, AtTask, CallbackReturns, callbackReturns
  <2> QED
    BY <1>0, <2>1 DEF OneFlush
<1>10. CASE RequestAgain
  BY <1>0, <1>2, <1>10 DEF RequestAgain, coreVars
<1>11. CASE Timeout
  <2>1. PICK named \in Time \cup {NoTimeout}, others \in [Time -> Nat] :
            timeoutFires(named, others)
    BY <1>0, <1>11, TimeoutCases
  <2> QED
    BY <1>0, <1>1, <1>2, <2>1 DEF timeoutFires, handleTimeout
<1>12. CASE Tick \/ UNCHANGED vars
  BY <1>1, <1>12 DEF Tick, tick, vars, coreVars
<1>13. ASSUME NEW t \in TaskId, unstable_cancelCallback(t)
       PROVE  OneFlush'
  BY <1>1, <1>13 DEF unstable_cancelCallback, cancelCallback
<1>14. CASE unstable_shouldYield \/ unstable_pauseExecution
  BY <1>1, <1>14 DEF unstable_shouldYield, shouldYield, unstable_pauseExecution, pauseExecution
<1> QED
  BY <1>4, <1>5, <1>6, <1>7, <1>8, <1>9, <1>10, <1>11, <1>12, <1>13, <1>14
  DEF Next, Client, WorkLoop, Callback

\* One step marks a host callback as scheduled only when one is on its way, and
\* takes the mark away when that one arrives.
LEMMA MarkStep == IInv /\ [Next]_vars => MarkInv'
<1> SUFFICES ASSUME IInv, [Next]_vars PROVE MarkInv'
  OBVIOUS
<1> USE DEF host, flags
<1>0. MarkInv /\ HostTypeOK /\ flushes \in Nat /\ requests \in Nat
  BY DEF IInv, HostTypeOK
<1>1. CASE UNCHANGED <<isHostCallbackScheduled, host>>
  BY <1>0, <1>1 DEF MarkInv
<1>2. CASE requestHostCallback(requests)
  BY <1>0, <1>2, RequestType DEF MarkInv
<1>3. ASSUME NEW delay \in Delays, NEW timeout \in Timeouts,
             unstable_scheduleCallback(delay, timeout)
      PROVE  MarkInv'
  BY <1>1, <1>2, <1>3 DEF unstable_scheduleCallback, scheduleTimer, scheduleTask,
     NeedsHostCallback, MarkInv, IInv
<1>4. CASE unstable_continueExecution
  BY <1>1, <1>2, <1>4, <1>0 DEF unstable_continueExecution, continueExecution, MarkInv
<1>5. CASE _flushCallback
  BY <1>5 DEF _flushCallback, enterFlushWork, MarkInv
<1>6. CASE WorkLoop \/ Callback
  <2>1. CASE Yield \/ Drained \/ CallbackThrows
    <3>1. UNCHANGED <<isHostCallbackScheduled, requests>>
      BY <2>1 DEF Yield, Drained, CallbackThrows, yieldWork, drained, callbackThrows,
         leaveFlushWork, clearCallback, retryFlush
    <3>2. flushes' = flushes \/ flushes' = flushes + 1
      BY <2>1 DEF Yield, Drained, CallbackThrows, clearCallback, retryFlush
    <3>3. flushes + requests > 0 => flushes' + requests' > 0
      BY <1>0, <3>1, <3>2
    <3> QED
      BY <1>0, <3>1, <3>3 DEF MarkInv
  <2>2. CASE RunTask \/ DropTask \/ \E continues \in BOOLEAN : CallbackReturns(continues)
    BY <1>1, <2>2 DEF RunTask, runTask, DropTask, dropTask, CallbackReturns, callbackReturns
  <2> QED
    BY <1>6, <2>1, <2>2 DEF WorkLoop, Callback
<1>7. CASE RequestAgain
  <2>1. requests - 1 \in Nat /\ requestHostCallback(requests - 1)
    BY <1>0, <1>7 DEF RequestAgain
  <2> QED
    BY <1>0, <2>1, RequestType DEF MarkInv
<1>8. CASE Timeout
  <2>1. PICK named \in Time \cup {NoTimeout}, others \in [Time -> Nat] :
            timeoutFires(named, others)
    BY <1>0, <1>8, TimeoutCases
  <2>2. CASE TimeoutNeedsCallback
    BY <1>2, <2>1, <2>2 DEF timeoutFires
  <2>3. CASE ~TimeoutNeedsCallback
    BY <1>0, <2>1, <2>3 DEF timeoutFires, handleTimeout, TimeoutNeedsCallback, MarkInv
  <2> QED
    BY <2>2, <2>3
<1>9. CASE Tick \/ UNCHANGED vars
  BY <1>1, <1>9 DEF Tick, tick, vars, coreVars
<1>10. ASSUME NEW t \in TaskId, unstable_cancelCallback(t)
       PROVE  MarkInv'
  BY <1>1, <1>10 DEF unstable_cancelCallback, cancelCallback
<1>11. CASE unstable_shouldYield \/ unstable_pauseExecution
  BY <1>1, <1>11 DEF unstable_shouldYield, shouldYield, unstable_pauseExecution, pauseExecution
<1> QED
  BY <1>3, <1>4, <1>5, <1>6, <1>7, <1>8, <1>9, <1>10, <1>11 DEF Next, Client

\* One step never strands a queued task.
LEMMA WorkStep == IInv /\ [Next]_vars => NoLostWork'
<1> SUFFICES ASSUME IInv, [Next]_vars PROVE NoLostWork'
  OBVIOUS
<1>0. /\ CoreInv /\ HostTypeOK /\ MarkInv /\ NoLostWork /\ flushes \in Nat /\ requests \in Nat
      /\ isPerformingWork <=> pc # "idle"
  BY DEF IInv, HostTypeOK, CoreInv, StackInv
<1> SUFFICES ASSUME pc' = "idle", taskQueue' \cup timerQueue' # {}, ~Paused',
                    ~(flushes' + requests' > 0)
             PROVE  Outstanding' # {}
  BY MarkStep DEF NoLostWork, MarkInv
<1> USE DEF host, tasks, queues, work, flags, pausing
<1>r. ASSUME NEW others \in Nat PROVE ~requestHostCallback(others)
  BY <1>0, RequestType
<1>1. CASE /\ pc = "idle" /\ taskQueue \cup timerQueue # {} /\ ~Paused
           /\ UNCHANGED <<timeouts, host>>
  BY <1>0, <1>1 DEF NoLostWork, timeouts, Outstanding
<1>2. CASE UNCHANGED host /\ isHostCallbackScheduled
  BY <1>0, <1>2 DEF MarkInv
<1>3. ASSUME IF NeedsHostCallback THEN requestHostCallback(requests) ELSE UNCHANGED host,
             UNCHANGED pc
      PROVE  UNCHANGED host /\ isHostCallbackScheduled
  BY <1>0, <1>3, <1>r DEF NeedsHostCallback
<1>4. ASSUME NEW delay \in Delays, NEW timeout \in Timeouts,
             unstable_scheduleCallback(delay, timeout)
      PROVE  Outstanding' # {}
  <2>1. CASE scheduleTimer(delay, timeout)
    <3>1. CASE SetsHostTimeout
      BY <1>0, <1>4, <2>1, <3>1, ScheduledTimeout
    <3>2. CASE ~SetsHostTimeout
      <4>1. UNCHANGED <<timeouts, host, pc, isSchedulerPaused>>
        BY <1>4, <2>1, <3>2 DEF unstable_scheduleCallback, scheduleTimer, scheduleTask
      <4>2. taskQueue \cup timerQueue # {}
        <5> SUFFICES ASSUME taskQueue = {}, timerQueue = {} PROVE FALSE
          OBVIOUS
        <5>1. timerQueue' = {nextId}
          BY <2>1 DEF scheduleTimer
        <5>2. NewTimer = nextId
          <6>1. timerQueue' \subseteq TaskId /\ sortIndex' \in [TaskId -> Int]
            BY <1>0, AfterStep
          <6>2. NewTimer \in timerQueue'
            BY <5>1, <6>1, PeekIsFirst DEF NewTimer
          <6> QED
            BY <5>1, <6>2
        <5> QED
          BY <3>2, <5>2 DEF SetsHostTimeout
      <4> QED
        BY <1>1, <4>1, <4>2 DEF Paused
    <3> QED
      BY <3>1, <3>2
  <2>2. CASE delay = 0 /\ scheduleTask(timeout)
    BY <1>2, <1>3, <1>4, <2>2 DEF unstable_scheduleCallback, scheduleTimer, scheduleTask
  <2> QED
    BY <1>4, <2>1, <2>2 DEF unstable_scheduleCallback
<1>5. ASSUME NEW t \in TaskId, unstable_cancelCallback(t)
      PROVE  Outstanding' # {}
  BY <1>1, <1>5 DEF unstable_cancelCallback, cancelCallback, Paused
<1>6. CASE unstable_shouldYield
  <2>1. taskQueue' \subseteq taskQueue \cup timerQueue /\ timerQueue' \subseteq timerQueue
    BY <1>6 DEF unstable_shouldYield, shouldYield, advanceTimers, Popped, Fired
  <2> QED
    BY <1>1, <1>6, <2>1 DEF unstable_shouldYield, shouldYield, Paused
<1>7. CASE unstable_pauseExecution
  BY <1>1, <1>7 DEF unstable_pauseExecution, pauseExecution, Paused
<1>8. CASE unstable_continueExecution
  BY <1>2, <1>3, <1>8 DEF unstable_continueExecution, continueExecution
<1>9. CASE _flushCallback
  BY <1>9 DEF _flushCallback, enterFlushWork
<1>10. CASE Yield
  \* The fallback never runs out of time: the loop stops early for a pause only.
  BY <1>10 DEF Yield, yieldWork, MustYield, leaveFlushWork, Paused
<1>11. CASE CallbackThrows
  BY <1>0, <1>11 DEF CallbackThrows, retryFlush
<1>12. CASE RunTask \/ DropTask
  BY <1>12 DEF RunTask, runTask, DropTask, dropTask, AtTask
<1>13. CASE Drained
  <2>1. taskQueue = {}
    <3>1. Head = NoTask
      BY <1>0, <1>13 DEF CoreInv, StackInv, Drained, drained
    <3> QED
      BY <1>0, <3>1, AfterStep, PeekType DEF Head
  <2>2. timerQueue # {}
    BY <1>13, <2>1 DEF Drained, drained, leaveFlushWork
  <2> QED
    BY <1>0, <1>13, <2>2, DrainedTimeout
<1>14. ASSUME NEW continues \in BOOLEAN, CallbackReturns(continues)
       PROVE  Outstanding' # {}
  BY <1>14 DEF CallbackReturns, callbackReturns
<1>15. CASE RequestAgain
  BY <1>0, <1>15, <1>r DEF RequestAgain
<1>16. CASE Timeout
  <2>1. PICK named \in Time \cup {NoTimeout}, others \in [Time -> Nat] :
            timeoutFires(named, others)
    BY <1>0, <1>16, TimeoutCases
  <2>2. ~TimeoutNeedsCallback /\ UNCHANGED host
    BY <1>0, <1>r, <2>1 DEF timeoutFires
  <2>3. ~isHostCallbackScheduled /\ NewHead = NoTask
    BY <1>0, <2>2 DEF TimeoutNeedsCallback, MarkInv
  <2>4. timerQueue' # {}
    BY <1>0, <2>3, AfterStep, PeekType DEF NewHead
  <2>5. TimeoutSetsTimeout
    BY <1>0, <2>3, <2>4, AfterStep, FirstTimerType DEF TimeoutSetsTimeout, NewTimer
  <2> QED
    BY <1>0, <2>1, <2>5, AfterStep, TimeoutType DEF timeoutFires
<1>17. CASE Tick \/ UNCHANGED vars
  BY <1>1, <1>17 DEF Tick, tick, vars, coreVars, Paused
<1> QED
  BY <1>4, <1>5, <1>6, <1>7, <1>8, <1>9, <1>10, <1>11, <1>12, <1>13, <1>14, <1>15, <1>16, <1>17
  DEF Next, Client, WorkLoop, Callback

-----------------------------------------------------------------------------
(* The theorems about the host *)

LEMMA InitInv == Init => IInv
<1>1. Init => CoreInv
  BY CoreInitInv DEF Init
<1> QED
  BY <1>1, HostTypeInit, HostInit DEF IInv

LEMMA StepInv == IInv /\ [Next]_vars => IInv'
<1>1. CoreInv /\ [Next]_vars => CoreInv'
  BY StepIsCoreStep, CoreInvStep DEF CoreInv
<1> QED
  BY <1>1, HostTypeStep, FlushStep, MarkStep, WorkStep DEF IInv

THEOREM Inductive == Spec => []IInv
BY InitInv, StepInv, PTL DEF Spec

\* Type correctness of the scheduler on the fallback host.
THEOREM TypeCorrect == Spec => []TypeOK
<1>1. IInv => TypeOK
  BY DEF IInv, CoreInv, HostTypeOK, TypeOK
<1> QED
  BY <1>1, Inductive, PTL
=============================================================================
