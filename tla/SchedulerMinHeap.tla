-------------------------- MODULE SchedulerMinHeap --------------------------
(***************************************************************************)
(* SchedulerMinHeap.js: the array heap under taskQueue and timerQueue.     *)
(* The heap holds task ids; the key of a task is sortIndex[t].  The array  *)
(* of the code starts at 0, the sequence here at 1: the parent of i is     *)
(* i \div 2, its children are 2i and 2i + 1.  An iteration of siftUp or    *)
(* siftDown is a step, so that what holds in the middle can be stated.     *)
(***************************************************************************)
EXTENDS TaskQueues, Sequences, Functions

CONSTANTS
    Ids,        \* the tasks that may be pushed
    Keys        \* the values of sortIndex

ASSUME IdsAssumption  == Ids \subseteq Nat \ {NoTask}
ASSUME KeysAssumption == Keys \subseteq Int

VARIABLES
    heap, sortIndex,
    pc,            \* "idle", or the function that is running
    position,      \* where siftUp or siftDown has brought its node
    returned       \* what pop returned last

heapVars == <<heap, sortIndex, pc, position, returned>>

HeapInit ==
    /\ heap = <<>>
    /\ sortIndex \in [Ids -> Keys]
    /\ pc = "idle" /\ position = 1
    /\ returned = NoTask

\* compare(a, b) < 0
Less(a, b) == Before(sortIndex, a, b)

push(t, key) ==
    /\ pc = "idle"
    /\ t \notin Range(heap)
    /\ heap' = Append(heap, t)
    /\ sortIndex' = [sortIndex EXCEPT ![t] = key]
    /\ position' = Len(heap')
    /\ pc' = "siftUp"
    /\ UNCHANGED returned

\* The node at position changes places with the one at other.
Swap(other) ==
    /\ heap' = [heap EXCEPT ![position] = heap[other], ![other] = heap[position]]
    /\ position' = other
    /\ UNCHANGED <<sortIndex, pc, returned>>

Stop == pc' = "idle" /\ UNCHANGED <<heap, sortIndex, position, returned>>

\* Mutant: moves up one level at most.
siftUp_once ==
    /\ pc = "siftUp"
    /\ IF position > 1 /\ Less(heap[position], heap[position \div 2])
       THEN /\ heap' = [heap EXCEPT ![position] = heap[position \div 2],
                                    ![position \div 2] = heap[position]]
            /\ pc' = "idle"
            /\ UNCHANGED <<sortIndex, position, returned>>
       ELSE Stop

siftUp ==
    /\ pc = "siftUp"
    /\ IF position > 1 /\ Less(heap[position], heap[position \div 2])
       THEN Swap(position \div 2)
       ELSE Stop

\* Mutant: drops the last node of the array.
pop_losesLast ==
    /\ pc = "idle"
    /\ heap # <<>>
    /\ returned' = heap[1]
    /\ heap' = SubSeq(heap, 1, Len(heap) - 1)
    /\ pc' = "siftDown" /\ position' = 1
    /\ UNCHANGED sortIndex

\* Mutant: sifts down also when nothing is left.
pop_siftsNothing ==
    /\ pc = "idle"
    /\ heap # <<>>
    /\ returned' = heap[1]
    /\ heap' = [i \in 1..(Len(heap) - 1) |-> IF i = 1 THEN heap[Len(heap)] ELSE heap[i]]
    /\ pc' = "siftDown" /\ position' = 1
    /\ UNCHANGED sortIndex

\* The last node takes the place of the first.
pop ==
    /\ pc = "idle"
    /\ heap # <<>>
    /\ returned' = heap[1]
    /\ IF Len(heap) = 1 THEN heap' = <<>> /\ UNCHANGED <<pc, position>>
       ELSE /\ heap' = [i \in 1..(Len(heap) - 1) |-> IF i = 1 THEN heap[Len(heap)] ELSE heap[i]]
            /\ pc' = "siftDown" /\ position' = 1
    /\ UNCHANGED sortIndex

Smaller(child) == child <= Len(heap) /\ Less(heap[child], heap[position])

siftDown ==
    /\ pc = "siftDown"
    /\ LET left  == 2 * position
           right == left + 1
       IN  \/ /\ Smaller(left)
              /\ Swap(IF right <= Len(heap) /\ Less(heap[right], heap[left]) THEN right
                                                                            ELSE left)
           \/ ~Smaller(left) /\ Smaller(right) /\ Swap(right)
           \/ ~Smaller(left) /\ ~Smaller(right) /\ Stop

HeapNext == (\E t \in Ids, key \in Keys : push(t, key)) \/ siftUp \/ pop \/ siftDown

HeapSpec == HeapInit /\ [][HeapNext]_heapVars

-----------------------------------------------------------------------------
\* Every variable stays in its domain.
HeapTypeOK ==
    /\ heap \in Seq(Ids)
    /\ sortIndex \in [Ids -> Keys]
    /\ pc \in {"idle", "siftUp", "siftDown"}
    /\ position \in Nat \ {0}
    /\ pc # "idle" => position <= Len(heap)
    /\ returned \in Ids \cup {NoTask}

InOrder(i, j) == Less(heap[i], heap[j])

\* At rest every node comes before its children; while a node is on its way,
\* every node but that one does, up or down, and the children of that one come
\* behind its parent.
HeapOrder ==
    /\ \A i \in 1..Len(heap), j \in 1..Len(heap) :
          i = j \div 2 => \/ InOrder(i, j)
                          \/ pc = "siftUp" /\ j = position
                          \/ pc = "siftDown" /\ i = position
    /\ \A j \in 1..Len(heap) :
          pc # "idle" /\ position > 1 /\ position = j \div 2
              => InOrder(position \div 2, j)

\* The array behaves as the set of tasks that the model of the scheduler takes
\* a queue for: pop returns the first task of all, whatever was pushed and
\* popped before, and no task is lost or duplicated on its way.
Queue == INSTANCE PriorityQueue WITH queue <- Range(heap)

ImplementsPriorityQueue == Queue!QueueSpec
=============================================================================
