----------------------------- MODULE TaskQueues -----------------------------
(***************************************************************************)
(* The two queues of the scheduler package, taskQueue and timerQueue of    *)
(* Scheduler.js, as sets of task ids.  Each is a binary heap ordered by    *)
(* (sortIndex, id); what the scheduler observes of a heap is its first     *)
(* element, so a heap is a set here and peek is the least element of it.   *)
(* Module SchedulerMinHeap checks that the array heap of                   *)
(* SchedulerMinHeap.js delivers that element; the abstraction also needs   *)
(* keys that do not change while a task is queued (KeysFrozen).            *)
(***************************************************************************)
EXTENDS Integers

\* No task: null in the code (task ids start at 1).
NoTask == 0

\* Mutant: the last of two equal tasks goes first.
Before_lifo(sortIndex, s, t) ==
    \/ sortIndex[s] < sortIndex[t]
    \/ sortIndex[s] = sortIndex[t] /\ s > t

\* compare of SchedulerMinHeap.js: the sort index first, then the task id.
Before(sortIndex, s, t) ==
    \/ sortIndex[s] < sortIndex[t]
    \/ sortIndex[s] = sortIndex[t] /\ s < t

\* peek: the first task of a queue, or null.
Peek(queue, sortIndex) ==
    IF queue = {} THEN NoTask
    ELSE CHOOSE s \in queue : \A t \in queue \ {s} : Before(sortIndex, s, t)

(***************************************************************************)
(* advanceTimers pops timers until the first one is live (its callback has *)
(* not been nulled) and still in the future.  The timers it pops are those *)
(* that no such blocker precedes.                                          *)
(***************************************************************************)
Blockers(timers, live, startTime, time) ==
    {b \in timers : b \in live /\ startTime[b] > time}

Popped(timers, live, startTime, sortIndex, time) ==
    {s \in timers : \A b \in Blockers(timers, live, startTime, time) :
                       Before(sortIndex, s, b)}

\* The popped timers that fired; the others were cancelled and are dropped.
Fired(timers, live, startTime, sortIndex, time) ==
    Popped(timers, live, startTime, sortIndex, time) \cap live
=============================================================================
