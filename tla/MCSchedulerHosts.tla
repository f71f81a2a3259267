-------------------------- MODULE MCSchedulerHosts --------------------------
(***************************************************************************)
(* The scheduler on the two hosts that are not a browser's: the mock host  *)
(* that React is tested with, and the fallback on setTimeout that the DOM  *)
(* fork takes where there is no window or no MessageChannel.  A behaviour  *)
(* is one of SchedulerMock or one of SchedulerNoDOM, `fork` says which:    *)
(* Scheduler.js is the same, compiled without and with pausing.            *)
(***************************************************************************)
EXTENDS SchedulerMock

CONSTANTS FallbackTasks, FallbackPauses  \* bounds of the fallback host

ASSUME FallbackAssumption == FallbackTasks \in Nat /\ FallbackPauses \in Nat

VARIABLES
    fork,                                                  \* "mock", "fallback"
    taskTimeout, strays, _callback, flushes, requests      \* of the fallback

SomeDelays == {0, 1, 2}

SomeTimeouts == {-1, 2}

Fallback == INSTANCE SchedulerNoDOM
    WITH MaxTasks <- FallbackTasks, MaxPauses <- FallbackPauses,
         enableSchedulerDebugging <- TRUE

fallbackHost == <<taskTimeout, strays, _callback, flushes, requests>>
allVars      == <<vars, fork, fallbackHost>>

\* The variables of the host that is not there, at rest.
NoFallback ==
    taskTimeout = -1 /\ strays = 0 /\ _callback = FALSE /\ flushes = 0 /\ requests = 0

NoMock ==
    /\ scheduledCallback = FALSE /\ scheduledTimeout = FALSE
    /\ timeoutTime = NoTimeout /\ flushing = "none" /\ expectedNumberOfYields = -1
    /\ yielded = 0 /\ needsPaint = FALSE

ForkInit ==
    \/ fork = "mock" /\ Init /\ NoFallback
    \/ fork = "fallback" /\ Fallback!Init /\ NoMock

MockStep == fork = "mock" /\ Next /\ UNCHANGED <<fork, fallbackHost>>

OnFallback       == fork = "fallback" /\ UNCHANGED <<fork, host>>
FallbackClient   == OnFallback /\ Fallback!Client
FallbackFlush    == OnFallback /\ Fallback!_flushCallback
FallbackWork     == OnFallback /\ Fallback!WorkLoop
FallbackCallback == OnFallback /\ Fallback!Callback
FallbackReturns  == OnFallback /\ Fallback!CallbackReturns(FALSE)
FallbackRequest  == OnFallback /\ Fallback!RequestAgain
FallbackTimeout  == OnFallback /\ Fallback!Timeout
FallbackTick     == OnFallback /\ Fallback!Tick

ForkNext ==
    \/ MockStep
    \/ FallbackClient \/ FallbackFlush \/ FallbackWork \/ FallbackCallback
    \/ FallbackRequest \/ FallbackTimeout \/ FallbackTick

\* SchedulerNoDOM's fairness; the mock host promises nothing.
ForkSpec ==
    /\ ForkInit /\ [][ForkNext]_allVars
    /\ WF_allVars(FallbackFlush)
    /\ WF_allVars(FallbackWork)
    /\ WF_allVars(FallbackCallback)
    /\ SF_allVars(FallbackReturns)
    /\ WF_allVars(FallbackRequest)
    /\ WF_allVars(FallbackTimeout)
    /\ WF_allVars(FallbackTick)

-----------------------------------------------------------------------------
\* The mock host and the scheduler agree about what is scheduled, and work is
\* never forgotten as long as no task is cancelled and none throws
\* (SchedulerMock).
MockLosesNoWork == fork = "mock" => MarksAreTrue /\ NoLostWork

\* One flush at most is outstanding or running on the fallback host, which
\* registers flushWork exactly then, and work is never forgotten
\* (SchedulerNoDOM).
FallbackLosesNoWork == fork = "fallback" => Fallback!OneFlush /\ Fallback!NoLostWork

\* Every callback that is ready is called or cancelled at last on the fallback
\* host, behind throwing callbacks and requests that have to try again, unless
\* the program pauses the scheduler.
FallbackCallsReadyTasks ==
    \A t \in 1..FallbackTasks :
        fork = "fallback" /\ t \in hasCallback \cap taskQueue
            ~> t \notin hasCallback \/ isSchedulerPaused
=============================================================================
