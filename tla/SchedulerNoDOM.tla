--------------------------- MODULE SchedulerNoDOM ---------------------------
(***************************************************************************)
(* The scheduler on the fallback of forks/SchedulerHostConfig.default.js   *)
(* for environments without window or MessageChannel (lines 28-68): every  *)
(* wake-up is a setTimeout.  shouldYieldToHost is false, so a flush ends   *)
(* only when the task queue is empty, the scheduler is paused, or a        *)
(* callback throws.                                                        *)
(***************************************************************************)
EXTENDS HostTimeouts

VARIABLES
    _callback,        \* is it flushWork (TRUE) or null (FALSE)?
    flushes,          \* outstanding setTimeout(_flushCallback, 0)
    requests          \* outstanding setTimeout(requestHostCallback, 0, cb)

host == <<_callback, flushes, requests>>
vars == <<coreVars, timeouts, host>>

Init ==
    /\ CoreInit
    /\ TimeoutsInit
    /\ _callback = FALSE /\ flushes = 0 /\ requests = 0

-----------------------------------------------------------------------------
\* Mutant: no protection against re-entrancy.
requestHostCallback_always(others) ==
    _callback' = TRUE /\ flushes' = flushes + 1 /\ requests' = others

\* A request that comes while a callback is registered tries again later.
\* `others` are the earlier requests that are still to try again.
requestHostCallback(others) ==
    IF _callback THEN UNCHANGED <<_callback, flushes>> /\ requests' = others + 1
    ELSE _callback' = TRUE /\ flushes' = flushes + 1 /\ requests' = others

-----------------------------------------------------------------------------
(* Calls of the program *)

unstable_scheduleCallback(delay, timeout) ==
    \/ /\ scheduleTimer(delay, timeout)
       /\ IF ~SetsHostTimeout THEN UNCHANGED timeouts
          ELSE IF isHostTimeoutScheduled THEN replaceHostTimeout(now + delay)
          ELSE setTimeout(now + delay, taskTimeout, strays)
       /\ UNCHANGED host
    \/ /\ delay = 0
       /\ scheduleTask(timeout)
       /\ IF NeedsHostCallback THEN requestHostCallback(requests) ELSE UNCHANGED host
       /\ UNCHANGED timeouts

unstable_cancelCallback(t) == cancelCallback(t) /\ UNCHANGED <<timeouts, host>>

unstable_shouldYield == shouldYield /\ UNCHANGED <<timeouts, host>>

unstable_pauseExecution == pauseExecution /\ UNCHANGED <<timeouts, host>>

unstable_continueExecution ==
    /\ continueExecution
    /\ IF NeedsHostCallback THEN requestHostCallback(requests) ELSE UNCHANGED host
    /\ UNCHANGED timeouts

-----------------------------------------------------------------------------
(* _flushCallback.  _callback is never null in it (OneFlush), so the branch *)
(* that finds it null is not a case.                                        *)

_flushCallback ==
    /\ pc = "idle"
    /\ flushes > 0
    /\ flushes' = flushes - 1
    /\ enterFlushWork
    /\ IF isHostTimeoutScheduled THEN cancelHostTimeout ELSE UNCHANGED timeouts
    /\ UNCHANGED <<_callback, requests>>

\* flushWork returned: its result is not looked at.
clearCallback == _callback' = FALSE /\ UNCHANGED <<flushes, requests>>

\* Mutant: after a callback threw, nothing flushes the rest.
retryFlush_not == UNCHANGED host

\* It threw: the rest is flushed by a timeout of its own.
retryFlush == flushes' = flushes + 1 /\ UNCHANGED <<_callback, requests>>

Yield == yieldWork(FALSE) /\ clearCallback /\ UNCHANGED timeouts

RunTask == runTask(FALSE) /\ UNCHANGED <<timeouts, host>>

DropTask == dropTask(FALSE) /\ UNCHANGED <<timeouts, host>>

Drained ==
    /\ drained
    /\ IF FirstTimer = NoTask THEN UNCHANGED timeouts
       ELSE setTimeout(now + startTime[FirstTimer] - currentTime, taskTimeout, strays)
    /\ clearCallback

CallbackReturns(continues) == callbackReturns(continues) /\ UNCHANGED <<timeouts, host>>

CallbackThrows == callbackThrows /\ retryFlush /\ UNCHANGED timeouts

RequestAgain ==
    /\ pc = "idle"
    /\ requests > 0
    /\ requestHostCallback(requests - 1)
    /\ UNCHANGED <<coreVars, timeouts>>

-----------------------------------------------------------------------------
(* setTimeout(cb, ms) calls handleTimeout without its argument, which every *)
(* start time then compares false with: time is NoTime, before all others,  *)
(* and the timeout for the first timer is set in NaN milliseconds: at once. *)

NoTime == -1

TimeoutArgument == NoTime

timeoutFires(named, others) ==
    /\ pc = "idle"
    /\ handleTimeout(TimeoutArgument) /\ UNCHANGED now
    /\ IF TimeoutNeedsCallback THEN requestHostCallback(requests) ELSE UNCHANGED host
    /\ IF TimeoutSetsTimeout THEN setTimeout(now, named, others)
       ELSE taskTimeout' = named /\ strays' = others

TaskTimeoutFires == taskTimeout \in 0..now /\ timeoutFires(NoTimeout, strays)

StrayTimeoutFires(due) ==
    /\ due <= now
    /\ strays[due] > 0
    /\ timeoutFires(taskTimeout, [strays EXCEPT ![due] = @ - 1])

Tick == tick /\ UNCHANGED <<timeouts, host>>

-----------------------------------------------------------------------------
Client ==
    \/ \E delay \in Delays, timeout \in Timeouts :
           unstable_scheduleCallback(delay, timeout)
    \/ \E t \in TaskId : unstable_cancelCallback(t)
    \/ unstable_shouldYield
    \/ unstable_pauseExecution
    \/ unstable_continueExecution

WorkLoop == Yield \/ RunTask \/ DropTask \/ Drained

Callback == CallbackThrows \/ \E continues \in BOOLEAN : CallbackReturns(continues)

Timeout == TaskTimeoutFires \/ \E due \in Time : StrayTimeoutFires(due)

Next ==
    Client \/ _flushCallback \/ WorkLoop \/ Callback \/ RequestAgain \/ Timeout \/ Tick

\* As for SchedulerDOM: every timeout of the host is delivered at last, and a
\* callback that is called again and again ends without a continuation at last.
Fairness ==
    /\ WF_vars(_flushCallback)
    /\ WF_vars(WorkLoop)
    /\ WF_vars(Callback)
    /\ SF_vars(CallbackReturns(FALSE))
    /\ WF_vars(RequestAgain)
    /\ WF_vars(Timeout)
    /\ WF_vars(Tick)

Spec     == Init /\ [][Next]_vars
FairSpec == Spec /\ Fairness

-----------------------------------------------------------------------------
\* Every variable stays in its domain.
TypeOK ==
    /\ CoreTypeOK
    /\ TimeoutsTypeOK
    /\ _callback \in BOOLEAN
    /\ flushes \in Nat
    /\ requests \in Nat

\* One flush at most is outstanding or running, and flushWork is registered
\* exactly then: a second one would re-enter flushWork's tasks, a registered
\* callback without a flush would make every later request try again for ever.
OneFlush ==
    /\ flushes <= 1
    /\ flushes = 1 => pc = "idle"
    /\ _callback <=> flushes = 1 \/ pc # "idle"

\* Work is never forgotten: with anything in either queue, and the scheduler not
\* paused by the program, the host owes the scheduler a flush, a request that
\* tries again, or a timeout; and a host callback that is marked as scheduled,
\* which keeps others from being requested, is on its way.
NoLostWork ==
    pc = "idle" =>
        /\ taskQueue \cup timerQueue # {} =>
               Paused \/ flushes + requests > 0 \/ Outstanding # {}
        /\ isHostCallbackScheduled => flushes + requests > 0

\* Every callback that is ready is called or cancelled at last, behind throwing
\* callbacks, requests that have to try again and timeouts, unless the program
\* pauses the scheduler.
EveryReadyTaskIsCalled ==
    \A t \in TaskId :
        t \in hasCallback \cap taskQueue ~> t \notin hasCallback \/ isSchedulerPaused

\* The same for every callback that is scheduled, delayed ones included.
EveryTaskIsCalled ==
    \A t \in TaskId : t \in hasCallback ~> t \notin hasCallback
=============================================================================
