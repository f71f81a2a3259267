---------------------------- MODULE SchedulerMock ----------------------------
(***************************************************************************)
(* The scheduler on forks/SchedulerHostConfig.mock.js, the host that tests *)
(* of React run on: the test moves the clock and asks for the flushes.     *)
(* A flush function loops while flushWork returns true and didStop is not  *)
(* set; with pausing compiled out flushWork returns true only after        *)
(* shouldYieldToHost set didStop, so the loop is taken once.               *)
(***************************************************************************)
EXTENDS SchedulerCore

CONSTANTS
    MaxYields,            \* bound: values on the log of yielded values
    AdvanceInCallbacks    \* does a callback move the clock, too?

ASSUME MockAssumption ==
    MaxYields \in Nat /\ AdvanceInCallbacks \in BOOLEAN /\ ~enableSchedulerDebugging

VARIABLES
    scheduledCallback,    \* is it flushWork (TRUE) or null (FALSE)?
    scheduledTimeout,     \* is it handleTimeout (TRUE) or null (FALSE)?
    timeoutTime,
    flushing,             \* the flush function on the stack, or "none"
    yielded,              \* length of yieldedValues
    expectedNumberOfYields,
    needsPaint

timeout  == <<scheduledTimeout, timeoutTime>>
flush    == <<flushing, expectedNumberOfYields>>
log      == <<yielded, needsPaint>>
host     == <<scheduledCallback, timeout, flush, log>>
vars     == <<coreVars, host>>

NoTimeout == -1

Init ==
    /\ CoreInit
    /\ scheduledCallback = FALSE
    /\ scheduledTimeout = FALSE /\ timeoutTime = NoTimeout
    /\ flushing = "none" /\ expectedNumberOfYields = -1
    /\ yielded = 0 /\ needsPaint = FALSE

-----------------------------------------------------------------------------
\* Mutant: the timeout does not reach the host.
requestHostTimeout_not(due) == UNCHANGED <<scheduledTimeout, timeoutTime>>

requestHostTimeout(due) == scheduledTimeout' = TRUE /\ timeoutTime' = due

cancelHostTimeout == scheduledTimeout' = FALSE /\ timeoutTime' = NoTimeout

shouldYieldToHost ==
    \/ expectedNumberOfYields # -1 /\ yielded > 0 /\ yielded >= expectedNumberOfYields
    \/ flushing = "untilNextPaint" /\ needsPaint

\* Mutant: flushAll has no time remaining either.
OutOfTime_flushAll == flushing \in {"expired", "all"} \/ shouldYieldToHost

\* What the work loop asks: !hasTimeRemaining || shouldYieldToHost().
OutOfTime == flushing = "expired" \/ shouldYieldToHost

-----------------------------------------------------------------------------
(* Calls of the program *)

\* Mutant: a task that is scheduled does not reach the host.
requestHostCallback_not == UNCHANGED scheduledCallback

requestHostCallback == scheduledCallback' = TRUE

unstable_scheduleCallback(delay, ms) ==
    \/ /\ scheduleTimer(delay, ms)
       /\ IF SetsHostTimeout THEN requestHostTimeout(now + delay) ELSE UNCHANGED timeout
       /\ UNCHANGED <<scheduledCallback, flush, log>>
    \/ /\ delay = 0
       /\ scheduleTask(ms)
       /\ IF NeedsHostCallback THEN requestHostCallback ELSE UNCHANGED scheduledCallback
       /\ UNCHANGED <<timeout, flush, log>>

unstable_cancelCallback(t) == cancelCallback(t) /\ UNCHANGED host

unstable_shouldYield == shouldYield /\ UNCHANGED host

unstable_yieldValue ==
    /\ ClientRuns
    /\ yielded < MaxYields
    /\ yielded' = yielded + 1
    /\ UNCHANGED <<coreVars, scheduledCallback, timeout, flush, needsPaint>>

unstable_clearYields ==
    /\ ClientRuns
    /\ yielded > 0
    /\ yielded' = 0
    /\ UNCHANGED <<coreVars, scheduledCallback, timeout, flush, needsPaint>>

requestPaint ==
    /\ ClientRuns
    /\ needsPaint' = TRUE
    /\ UNCHANGED <<coreVars, scheduledCallback, timeout, flush, yielded>>

-----------------------------------------------------------------------------
(* The flush functions: unstable_flushNumberOfYields(count),               *)
(* unstable_flushUntilNextPaint, unstable_flushExpired and                 *)
(* unstable_flushAllWithoutAsserting.                                      *)

startFlush(kind, count) ==
    /\ pc = "idle"
    /\ scheduledCallback
    /\ flushing' = kind
    /\ expectedNumberOfYields' = count
    /\ needsPaint' = (needsPaint /\ kind # "untilNextPaint")
    /\ enterFlushWork
    /\ IF isHostTimeoutScheduled THEN cancelHostTimeout ELSE UNCHANGED timeout
    /\ UNCHANGED <<scheduledCallback, yielded>>

unstable_flushNumberOfYields(count) == startFlush("numberOfYields", count)
unstable_flushUntilNextPaint        == startFlush("untilNextPaint", -1)
unstable_flushExpired               == startFlush("expired", -1)
unstable_flushAllWithoutAsserting   == startFlush("all", -1)

endFlush == flushing' = "none" /\ expectedNumberOfYields' = -1

\* More work is left: the callback stays scheduled.
Yield ==
    /\ yieldWork(OutOfTime)
    /\ endFlush
    /\ UNCHANGED <<scheduledCallback, timeout, log>>

RunTask == runTask(OutOfTime) /\ UNCHANGED host

DropTask == dropTask(OutOfTime) /\ UNCHANGED host

clearCallback == scheduledCallback' = FALSE

Drained ==
    /\ drained
    /\ IF FirstTimer = NoTask THEN UNCHANGED timeout
       ELSE requestHostTimeout(now + startTime[FirstTimer] - currentTime)
    /\ clearCallback
    /\ endFlush
    /\ UNCHANGED log

CallbackReturns(continues) == callbackReturns(continues) /\ UNCHANGED host

CallbackThrows ==
    /\ callbackThrows
    /\ endFlush
    /\ UNCHANGED <<scheduledCallback, timeout, log>>

-----------------------------------------------------------------------------
\* The timeout is forgotten after handleTimeout was called, and with it the
\* one that handleTimeout may just have requested.
fireTimeout ==
    /\ handleTimeout(now')
    /\ IF TimeoutNeedsCallback THEN requestHostCallback ELSE UNCHANGED scheduledCallback
    /\ cancelHostTimeout
    /\ UNCHANGED <<flush, log>>

unstable_advanceTime(ms) ==
    /\ pc = "idle" \/ (pc = "callback" /\ AdvanceInCallbacks)
    /\ now + ms <= MaxTime
    /\ now' = now + ms
    /\ IF scheduledTimeout /\ timeoutTime <= now' THEN fireTimeout
       ELSE UNCHANGED <<pc, tasks, hasCallback, queues, work, flags, pausing, stopped, host>>

-----------------------------------------------------------------------------
Client ==
    \/ \E delay \in Delays, ms \in Timeouts : unstable_scheduleCallback(delay, ms)
    \/ \E t \in TaskId : unstable_cancelCallback(t)
    \/ unstable_shouldYield
    \/ unstable_yieldValue
    \/ unstable_clearYields
    \/ requestPaint
    \/ \E ms \in 1..MaxTime : unstable_advanceTime(ms)

Flush ==
    \/ \E count \in 0..MaxYields : unstable_flushNumberOfYields(count)
    \/ unstable_flushUntilNextPaint
    \/ unstable_flushExpired
    \/ unstable_flushAllWithoutAsserting

WorkLoop == Yield \/ RunTask \/ DropTask \/ Drained

Callback == CallbackThrows \/ \E continues \in BOOLEAN : CallbackReturns(continues)

Next == Client \/ Flush \/ WorkLoop \/ Callback

Spec == Init /\ [][Next]_vars

-----------------------------------------------------------------------------
\* Every variable stays in its domain.
TypeOK ==
    /\ CoreTypeOK
    /\ scheduledCallback \in BOOLEAN
    /\ scheduledTimeout \in BOOLEAN
    /\ timeoutTime \in Time \cup {NoTimeout}
    /\ flushing \in {"none", "numberOfYields", "untilNextPaint", "expired", "all"}
    /\ yielded \in 0..MaxYields
    /\ expectedNumberOfYields \in -1..MaxYields
    /\ needsPaint \in BOOLEAN

\* The scheduler's belief about the host is right: a callback marked as
\* scheduled is there to be flushed (a wrong mark keeps every later task from
\* requesting one), and a timeout marked as scheduled can still fire.
MarksAreTrue ==
    /\ isHostCallbackScheduled => scheduledCallback
    /\ isHostTimeoutScheduled => scheduledTimeout

\* Work is never forgotten, as long as no task is cancelled and none throws.
NoLostWork ==
    pc = "idle" /\ stopped = {} /\ taskQueue \cup timerQueue # {}
        => scheduledCallback \/ scheduledTimeout

\* unstable_flushAll leaves no live task behind that is due, whatever the
\* callbacks scheduled, cancelled or continued with.
FlushAllRunsAllDue ==
    [][flushing = "all" /\ pc = "loop" /\ pc' = "idle" =>
         \A t \in hasCallback : startTime[t] > now]_vars
=============================================================================
