------------------------------ MODULE SyncQueue ------------------------------
(***************************************************************************)
(* The queue of synchronous callbacks of SchedulerWithReactIntegration.js. *)
(* Callbacks are numbered in the order they are pushed.  The scheduler is  *)
(* external here: a set of live tasks, each of which it runs at last, when *)
(* no other code runs (TaskPool says what it promises).                    *)
(***************************************************************************)
EXTENDS Naturals, Sequences, FiniteSets

CONSTANTS
    Null,              \* null, for the queue
    MaxCallbacks       \* bound: callbacks pushed

ASSUME NullAssumption == Null \notin Seq(Nat)
ASSUME MaxAssumption  == MaxCallbacks \in Nat

VARIABLES
    syncQueue,                     \* a sequence of callbacks, or Null
    isFlushingSyncQueue,
    index,                         \* the callback that runs, while the queue is flushed
    immediateQueueCallbackNode,    \* a task, or NoNode
    implTasks,                     \* live tasks that call flushSyncCallbackQueueImpl
    retryTasks,                    \* live tasks that call flushSyncCallbackQueue
    nextTask,                      \* the next task of the scheduler
    pushed, ran                    \* callbacks pushed, and started, so far

vars == <<syncQueue, isFlushingSyncQueue, index, immediateQueueCallbackNode,
          implTasks, retryTasks, nextTask, pushed, ran>>

NoNode == 0

Init ==
    /\ syncQueue = Null /\ isFlushingSyncQueue = FALSE /\ index = 0
    /\ immediateQueueCallbackNode = NoNode
    /\ implTasks = {} /\ retryTasks = {} /\ nextTask = 1
    /\ pushed = 0 /\ ran = 0

-----------------------------------------------------------------------------
\* Mutant: relies on a task that was scheduled before.
scheduleImpl_not == UNCHANGED <<implTasks, nextTask, immediateQueueCallbackNode>>

\* The scheduler is asked to flush the queue in the next tick.
scheduleImpl ==
    /\ implTasks' = implTasks \cup {nextTask}
    /\ immediateQueueCallbackNode' = nextTask
    /\ nextTask' = nextTask + 1

\* Called from anywhere, also by a callback that runs.
scheduleSyncCallback ==
    /\ pushed < MaxCallbacks
    /\ pushed' = pushed + 1
    /\ IF syncQueue = Null
       THEN /\ syncQueue' = <<pushed + 1>>
            /\ scheduleImpl
       ELSE /\ syncQueue' = Append(syncQueue, pushed + 1)
            /\ UNCHANGED <<implTasks, nextTask, immediateQueueCallbackNode>>
    /\ UNCHANGED <<isFlushingSyncQueue, index, retryTasks, ran>>

\* The loop comes to callback i, or to its end.
RunFrom(i) ==
    IF i <= Len(syncQueue)
    THEN /\ isFlushingSyncQueue' = TRUE /\ index' = i /\ ran' = ran + 1
         /\ UNCHANGED syncQueue
    ELSE /\ isFlushingSyncQueue' = FALSE /\ index' = 0 /\ syncQueue' = Null
         /\ UNCHANGED ran

flushSyncCallbackQueueImpl ==
    IF ~isFlushingSyncQueue /\ syncQueue # Null THEN RunFrom(1)
    ELSE UNCHANGED <<syncQueue, isFlushingSyncQueue, index, ran>>

\* Mutant: forgets the task without cancelling it.
cancelNode_not == immediateQueueCallbackNode' = NoNode /\ UNCHANGED implTasks

cancelNode ==
    /\ implTasks' = implTasks \ {immediateQueueCallbackNode}
    /\ immediateQueueCallbackNode' = NoNode

\* Called from anywhere, also by a callback that runs.
flushSyncCallbackQueue ==
    /\ cancelNode
    /\ flushSyncCallbackQueueImpl
    /\ UNCHANGED <<retryTasks, nextTask, pushed>>

\* The scheduler runs a task; nothing else is on the stack.
runImplTask ==
    /\ ~isFlushingSyncQueue
    /\ \E task \in implTasks : implTasks' = implTasks \ {task}
    /\ flushSyncCallbackQueueImpl
    /\ UNCHANGED <<immediateQueueCallbackNode, retryTasks, nextTask, pushed>>

runRetryTask ==
    /\ ~isFlushingSyncQueue
    /\ \E task \in retryTasks : retryTasks' = retryTasks \ {task}
    /\ cancelNode
    /\ flushSyncCallbackQueueImpl
    /\ UNCHANGED <<nextTask, pushed>>

\* The callback returns null and the loop goes on.  (One that returns another
\* callback goes on itself, which changes nothing here.)
callbackReturns ==
    /\ isFlushingSyncQueue
    /\ RunFrom(index + 1)
    /\ UNCHANGED <<immediateQueueCallbackNode, implTasks, retryTasks, nextTask, pushed>>

\* Mutants: the callback that has thrown stays on the queue;
\* nobody comes back for the rest; the task gets a number that is used again.
Remaining_withThrown == SubSeq(syncQueue, index, Len(syncQueue))
scheduleRetry_not == UNCHANGED <<retryTasks, nextTask>>
scheduleRetry_sameTask == retryTasks' = retryTasks \cup {nextTask} /\ UNCHANGED nextTask

\* The remaining callbacks stay on the queue,
Remaining == SubSeq(syncQueue, index + 1, Len(syncQueue))

\* and the flush is resumed in the next tick.
scheduleRetry ==
    /\ retryTasks' = retryTasks \cup {nextTask}
    /\ nextTask' = nextTask + 1

callbackThrows ==
    /\ isFlushingSyncQueue
    /\ syncQueue' = Remaining
    /\ scheduleRetry
    /\ isFlushingSyncQueue' = FALSE /\ index' = 0
    /\ UNCHANGED <<immediateQueueCallbackNode, implTasks, pushed, ran>>

RunTask == runImplTask \/ runRetryTask
CallbackEnds == callbackReturns \/ callbackThrows

Next == scheduleSyncCallback \/ flushSyncCallbackQueue \/ RunTask \/ CallbackEnds

Spec == Init /\ [][Next]_vars

\* The scheduler runs its tasks, and no callback runs forever.
FairSpec == Spec /\ WF_vars(RunTask) /\ WF_vars(CallbackEnds)

-----------------------------------------------------------------------------
\* Every variable stays in its domain.
TypeOK ==
    /\ syncQueue = Null \/ syncQueue \in Seq(Nat)
    /\ isFlushingSyncQueue \in BOOLEAN
    /\ index \in Nat
    /\ immediateQueueCallbackNode \in Nat
    /\ implTasks \subseteq 1..(nextTask - 1) /\ retryTasks \subseteq 1..(nextTask - 1)
    /\ nextTask \in Nat \ {0}
    /\ pushed \in Nat /\ ran \in Nat

\* The callbacks that were pushed and have not started yet, whatever has thrown
\* and whoever has pushed while the queue was flushed, are those behind the
\* callback that runs, in the order they were pushed: callbacks start in that
\* order and each starts once.
StartedOnceInOrder ==
    /\ syncQueue = Null => ran = pushed /\ ~isFlushingSyncQueue
    /\ syncQueue # Null =>
          /\ ran + Len(syncQueue) - index = pushed
          /\ index <= Len(syncQueue)
          /\ \A j \in 1..Len(syncQueue) : syncQueue[j] = ran + j - index
    /\ isFlushingSyncQueue <=> index # 0

\* Whenever callbacks wait in the queue, somebody is going to run them: the
\* flush that is under way, or a live task of the scheduler; and the task that
\* the next explicit flush cancels is not needed after it.
NobodyIsStranded ==
    syncQueue # Null => isFlushingSyncQueue \/ implTasks # {} \/ retryTasks # {}

\* There is never more than one task that flushes the queue for the first time,
\* and it can be cancelled.
OneImmediateTask == implTasks \subseteq {immediateQueueCallbackNode}

\* Every callback is run at last.
EveryCallbackRuns == \A k \in 1..MaxCallbacks : (pushed >= k) ~> (ran >= k)
=============================================================================
