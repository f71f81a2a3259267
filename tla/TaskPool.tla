------------------------------ MODULE TaskPool ------------------------------
(***************************************************************************)
(* What packages/scheduler promises its callers, without queues, message   *)
(* loop or timeouts.  A scheduled callback is armed.  One callback runs at *)
(* a time, and the next to run is, among the armed ones that are due at    *)
(* the scheduler's reading of the clock, the one that expires first.       *)
(* Running disarms it; it is armed again only by the continuation it       *)
(* returns.  Module SchedulerCore implements this.                         *)
(***************************************************************************)
EXTENDS Integers

CONSTANT MaxTasks

VARIABLES
    nextId,
    startTime, expirationTime,    \* by task id
    armed,                        \* the tasks that are to be called
    running,                      \* the task being called, or 0
    clock                         \* the scheduler's last reading of the time

poolVars == <<nextId, startTime, expirationTime, armed, running, clock>>

PoolInit == nextId = 1 /\ armed = {} /\ running = 0 /\ clock = 0

PoolSchedule ==
    /\ nextId <= MaxTasks
    /\ nextId' = nextId + 1
    /\ armed' = armed \cup {nextId}
    /\ \A t \in (1..MaxTasks) \ {nextId} :
          /\ startTime'[t] = startTime[t]
          /\ expirationTime'[t] = expirationTime[t]
    /\ UNCHANGED <<running, clock>>

PoolCancel(t) ==
    /\ armed' = armed \ {t}
    /\ UNCHANGED <<nextId, startTime, expirationTime, running, clock>>

Due == {t \in armed : startTime[t] <= clock}

ExpiresFirst(t) ==
    \A u \in Due \ {t} : \/ expirationTime[t] < expirationTime[u]
                         \/ expirationTime[t] = expirationTime[u] /\ t < u

PoolStart(t) ==
    /\ running = 0
    /\ t \in Due
    /\ ExpiresFirst(t)
    /\ armed' = armed \ {t}
    /\ running' = t
    /\ UNCHANGED <<nextId, startTime, expirationTime, clock>>

\* The callback returns, with a continuation or without, or throws.
PoolEnd ==
    /\ running # 0
    /\ running' = 0
    /\ armed' \in {armed, armed \cup {running}}
    /\ clock' >= clock
    /\ UNCHANGED <<nextId, startTime, expirationTime>>

PoolReadClock ==
    /\ running = 0
    /\ clock' > clock
    /\ UNCHANGED <<nextId, startTime, expirationTime, armed, running>>

PoolNext ==
    \/ PoolSchedule
    \/ \E t \in 1..MaxTasks : PoolCancel(t) \/ PoolStart(t)
    \/ PoolEnd
    \/ PoolReadClock

PoolSpec == PoolInit /\ [][PoolNext]_poolVars
=============================================================================
