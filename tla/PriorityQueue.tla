---------------------------- MODULE PriorityQueue ----------------------------
(***************************************************************************)
(* One queue of tasks as the scheduler uses it: a set of task ids, out of  *)
(* which the first in the order of the keys is taken.                      *)
(***************************************************************************)
EXTENDS TaskQueues

CONSTANTS Ids, Keys

VARIABLES queue, sortIndex, returned

queueVars == <<queue, sortIndex, returned>>

QueueInit == queue = {} /\ returned = NoTask

\* A task is pushed with a key of its own; no key of a queued task changes.
Insert(t, key) ==
    /\ t \notin queue
    /\ queue' = queue \cup {t}
    /\ sortIndex'[t] = key
    /\ \A u \in queue : sortIndex'[u] = sortIndex[u]
    /\ UNCHANGED returned

RemoveFirst ==
    /\ queue # {}
    /\ returned' = Peek(queue, sortIndex)
    /\ queue' = queue \ {returned'}
    /\ UNCHANGED sortIndex

QueueNext == RemoveFirst \/ \E t \in Ids, key \in Keys : Insert(t, key)

QueueSpec == QueueInit /\ [][QueueNext]_queueVars
=============================================================================
