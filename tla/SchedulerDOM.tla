---------------------------- MODULE SchedulerDOM ----------------------------
(***************************************************************************)
(* The scheduler on forks/SchedulerHostConfig.default.js in a browser: a   *)
(* message channel gives flushWork slices of the thread, setTimeout wakes  *)
(* it up for timers.                                                       *)
(***************************************************************************)
EXTENDS HostTimeouts

CONSTANT YieldInterval       \* yieldInterval: the slice of one message event

ASSUME SliceAssumption == YieldInterval \in Nat

VARIABLES
    isMessageLoopRunning,
    scheduledHostCallback,    \* is it flushWork (TRUE) or null (FALSE)?
    messages,                 \* message events posted and not yet delivered
    deadline,
    lag                       \* history: worst age of the clock reading from
                              \* which a timeout was computed

loop == <<isMessageLoopRunning, scheduledHostCallback, messages>>
vars == <<coreVars, timeouts, loop, deadline, lag>>

Init ==
    /\ CoreInit
    /\ TimeoutsInit
    /\ isMessageLoopRunning = FALSE /\ scheduledHostCallback = FALSE
    /\ messages = 0 /\ deadline = 0 /\ lag = 0

-----------------------------------------------------------------------------
(* The message loop *)

\* Mutant: posts a message without looking at isMessageLoopRunning.
requestHostCallback_always ==
    /\ scheduledHostCallback' = TRUE
    /\ isMessageLoopRunning' = TRUE
    /\ messages' = messages + 1

requestHostCallback ==
    /\ scheduledHostCallback' = TRUE
    /\ isMessageLoopRunning' = TRUE
    /\ messages' = IF isMessageLoopRunning THEN messages ELSE messages + 1

\* Mutant: the end of a message event forgets the next message.
postMessage_not == UNCHANGED loop

\* The end of a message event that leaves work behind, or throws.
postMessage ==
    /\ messages' = messages + 1
    /\ UNCHANGED <<isMessageLoopRunning, scheduledHostCallback>>

\* The end of one that leaves none.
endMessageLoop ==
    /\ isMessageLoopRunning' = FALSE
    /\ scheduledHostCallback' = FALSE
    /\ UNCHANGED messages

shouldYieldToHost == now >= deadline

-----------------------------------------------------------------------------
(* Calls of the program *)

unstable_scheduleCallback(delay, timeout) ==
    \/ /\ scheduleTimer(delay, timeout)
       /\ IF ~SetsHostTimeout THEN UNCHANGED timeouts
          ELSE IF isHostTimeoutScheduled THEN replaceHostTimeout(now + delay)
          ELSE setTimeout(now + delay, taskTimeout, strays)
       /\ UNCHANGED <<loop, deadline, lag>>
    \/ /\ delay = 0
       /\ scheduleTask(timeout)
       /\ IF NeedsHostCallback THEN requestHostCallback ELSE UNCHANGED loop
       /\ UNCHANGED <<timeouts, deadline, lag>>

unstable_cancelCallback(t) ==
    cancelCallback(t) /\ UNCHANGED <<timeouts, loop, deadline, lag>>

unstable_shouldYield == shouldYield /\ UNCHANGED <<timeouts, loop, deadline, lag>>

unstable_pauseExecution == pauseExecution /\ UNCHANGED <<timeouts, loop, deadline, lag>>

unstable_continueExecution ==
    /\ continueExecution
    /\ IF NeedsHostCallback THEN requestHostCallback ELSE UNCHANGED loop
    /\ UNCHANGED <<timeouts, deadline, lag>>

-----------------------------------------------------------------------------
(* The message event.  scheduledHostCallback is never null in it (MessageLoop *)
(* is a theorem), so the branch that finds it null is not a case.             *)

performWorkUntilDeadline ==
    /\ pc = "idle"
    /\ messages > 0
    /\ messages' = messages - 1
    /\ deadline' = now + YieldInterval
    /\ enterFlushWork
    /\ IF isHostTimeoutScheduled THEN cancelHostTimeout ELSE UNCHANGED timeouts
    /\ UNCHANGED <<isMessageLoopRunning, scheduledHostCallback, lag>>

YieldToHost ==
    yieldWork(shouldYieldToHost) /\ postMessage /\ UNCHANGED <<timeouts, deadline, lag>>

RunTask == runTask(shouldYieldToHost) /\ UNCHANGED <<timeouts, loop, deadline, lag>>

DropTask == dropTask(shouldYieldToHost) /\ UNCHANGED <<timeouts, loop, deadline, lag>>

Drained ==
    /\ drained
    /\ IF FirstTimer = NoTask THEN UNCHANGED <<timeouts, lag>>
       ELSE /\ setTimeout(now + startTime[FirstTimer] - currentTime, taskTimeout, strays)
            /\ lag' = IF now - currentTime > lag THEN now - currentTime ELSE lag
    /\ endMessageLoop
    /\ UNCHANGED deadline

CallbackReturns(continues) ==
    callbackReturns(continues) /\ UNCHANGED <<timeouts, loop, deadline, lag>>

CallbackThrows == callbackThrows /\ postMessage /\ UNCHANGED <<timeouts, deadline, lag>>

-----------------------------------------------------------------------------
(* A timeout fires.  `named` is what taskTimeoutID still names then, `others` *)
(* are the other timeouts left.                                               *)

timeoutFires(named, others) ==
    /\ pc = "idle"
    /\ handleTimeout(now) /\ UNCHANGED now
    /\ IF TimeoutNeedsCallback THEN requestHostCallback ELSE UNCHANGED loop
    /\ IF TimeoutSetsTimeout THEN setTimeout(startTime[NewTimer], named, others)
       ELSE taskTimeout' = named /\ strays' = others
    /\ UNCHANGED <<deadline, lag>>

TaskTimeoutFires ==
    /\ taskTimeout \in 0..now
    /\ timeoutFires(NoTimeout, strays)

StrayTimeoutFires(due) ==
    /\ due <= now
    /\ strays[due] > 0
    /\ timeoutFires(taskTimeout, [strays EXCEPT ![due] = @ - 1])

Tick == tick /\ UNCHANGED <<timeouts, loop, deadline, lag>>

-----------------------------------------------------------------------------
Client ==
    \/ \E delay \in Delays, timeout \in Timeouts :
           unstable_scheduleCallback(delay, timeout)
    \/ \E t \in TaskId : unstable_cancelCallback(t)
    \/ unstable_shouldYield
    \/ unstable_pauseExecution
    \/ unstable_continueExecution

WorkLoop == YieldToHost \/ RunTask \/ DropTask \/ Drained

Callback == CallbackThrows \/ \E continues \in BOOLEAN : CallbackReturns(continues)

Timeout == TaskTimeoutFires \/ \E due \in Time : StrayTimeoutFires(due)

Next == Client \/ performWorkUntilDeadline \/ WorkLoop \/ Callback \/ Timeout \/ Tick

(***************************************************************************)
(* Fairness.  The host delivers its messages and timeouts, JavaScript runs *)
(* on, the clock moves; a user callback ends (weak), and one that is       *)
(* called again and again ends without a continuation at last (strong): a  *)
(* callback that always continues may keep every later task from running.  *)
(***************************************************************************)
Fairness ==
    /\ WF_vars(performWorkUntilDeadline)
    /\ WF_vars(WorkLoop)
    /\ WF_vars(Callback)
    /\ SF_vars(CallbackReturns(FALSE))
    /\ WF_vars(Timeout)
    /\ WF_vars(Tick)

Spec     == Init /\ [][Next]_vars
FairSpec == Spec /\ Fairness

-----------------------------------------------------------------------------
(* Properties *)

\* Every variable stays in its domain.
TypeOK ==
    /\ CoreTypeOK
    /\ TimeoutsTypeOK
    /\ isMessageLoopRunning \in BOOLEAN
    /\ scheduledHostCallback \in BOOLEAN
    /\ messages \in Nat
    /\ deadline \in Nat
    /\ lag \in Time

\* There is one message loop at most, and never a dead one that the flag says
\* is running: isMessageLoopRunning is set exactly while one message event is
\* in flight or being handled, and flushWork is registered exactly then.  A
\* flag left set stops the scheduler for good; one reset too early starts a
\* second loop.
MessageLoop ==
    /\ isMessageLoopRunning <=> messages = 1 \/ pc # "idle"
    /\ messages = 1 => pc = "idle"
    /\ scheduledHostCallback <=> isMessageLoopRunning
    /\ messages <= 1

\* Work is never forgotten: when the scheduler gives up the thread with
\* anything in either queue, the host owes it a message or a timeout.
NoLostWork ==
    pc = "idle" /\ taskQueue \cup timerQueue # {} => messages > 0 \/ Outstanding # {}

\* A delayed task is not late by more than the age of the clock reading its
\* timeout was computed from: when only timers are left, a timeout is
\* outstanding that is due no later than each live timer, whatever the order
\* in which timers were added, cancelled and fired.
NoLateTimer ==
    pc = "idle" /\ messages = 0 /\ taskQueue = {} =>
        \A t \in timerQueue \cap hasCallback :
            \E due \in Outstanding : due <= startTime[t] + lag

\* Every callback that is scheduled is called or cancelled at last, behind any
\* number of yields, throwing callbacks and timers, unless the program pauses the
\* scheduler: pausing and continuing, at any moment, loses no task.
EveryTaskIsCalledUnlessPaused ==
    \A t \in TaskId : t \in hasCallback ~> t \notin hasCallback \/ isSchedulerPaused

\* The message loop does not keep the thread busy for ever: it ends once the
\* work is done.  (While the scheduler is paused and has tasks, it does not.)
LoopEnds == isMessageLoopRunning ~> ~isMessageLoopRunning \/ isSchedulerPaused
=============================================================================
