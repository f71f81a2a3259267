-------------------------- MODULE StructuresProofs --------------------------
(***************************************************************************)
(* Proofs about five data structures, each for any size: the array heap of *)
(* SchedulerMinHeap.js, the queue of synchronous callbacks and the rows of *)
(* a Flight response (run together by MCQueues), the store of the          *)
(* developer tools with the weights of its elements (DevToolsFrontend) and *)
(* the lists of children (ChildReconciler), both parts of FiberTree.       *)
(***************************************************************************)
EXTENDS SchedulerMinHeap, SyncQueue, Flight, DevToolsFrontend, ChildReconciler,
        SequenceTheorems, FiniteSetTheorems, WellFoundedInduction, TLAPS

\* A set of numbers that has none without a smaller one is empty: induction
\* without an operator.
LEMMA NoSmallest ==
    ASSUME NEW S \in SUBSET Nat,
           \A n \in S : \E m \in S : m < n
    PROVE  S = {}
<1> SUFFICES ASSUME S # {} PROVE FALSE
    OBVIOUS
<1>1. PICK x \in S : \A y \in S : ~ (<<y, x>> \in OpToRel(<, Nat))
    <2> HIDE DEF IsWellFoundedOn
    <2> QED BY NatLessThanWellFounded, WFMin, Zenon
<1>2. PICK y \in S : y < x
    OBVIOUS
<1> QED
    BY <1>1, <1>2 DEF OpToRel

-----------------------------------------------------------------------------
(* SchedulerMinHeap.js, for heaps of every size and any keys: the array is a *)
(* priority queue, which is what the model of the scheduler takes it for.  *)

\* The order of the nodes is a strict total order.
LEMMA BeforeIsOrder ==
    ASSUME NEW sort, NEW x \in Int, NEW y \in Int, NEW z \in Int,
           sort[x] \in Int, sort[y] \in Int, sort[z] \in Int
    PROVE  /\ ~Before(sort, x, x)
           /\ Before(sort, x, y) \/ Before(sort, y, x) \/ x = y
           /\ Before(sort, x, y) => ~Before(sort, y, x)
           /\ Before(sort, x, y) /\ Before(sort, y, z) => Before(sort, x, z)
BY DEF Before

\* Arithmetic of the tree: the parent of 2i and of 2i + 1 is i.
LEMMA Tree ==
    ASSUME NEW j \in Nat \ {0}
    PROVE  /\ j \div 2 \in Nat /\ j \div 2 < j
           /\ j > 1 => j \div 2 >= 1
           /\ j = 2 * (j \div 2) \/ j = 2 * (j \div 2) + 1
           /\ (2 * j) \div 2 = j /\ (2 * j + 1) \div 2 = j
OBVIOUS

LEMMA TypeInit == HeapInit => HeapTypeOK /\ HeapOrder
BY DEF HeapInit, HeapTypeOK, HeapOrder

LEMMA TypeStep == HeapTypeOK /\ [HeapNext]_heapVars => HeapTypeOK'
<1> SUFFICES ASSUME HeapTypeOK, [HeapNext]_heapVars PROVE HeapTypeOK'
  OBVIOUS
<1> USE DEF HeapTypeOK
<1>1. ASSUME NEW t \in Ids, NEW key \in Keys, push(t, key)
      PROVE  HeapTypeOK'
  BY <1>1 DEF push
<1>2. ASSUME NEW other \in 1..Len(heap), Swap(other), position <= Len(heap)
      PROVE  HeapTypeOK'
  BY <1>2 DEF Swap
<1>3. CASE Stop
  BY <1>3 DEF Stop
<1>4. CASE siftUp
  <2>1. position > 1 => position \div 2 \in 1..Len(heap)
    BY <1>4, Tree DEF siftUp
  <2> QED
    BY <1>2, <1>3, <1>4, <2>1 DEF siftUp
<1>5. CASE pop
  <2>1. CASE Len(heap) = 1
    BY <1>5, <2>1 DEF pop
  <2>2. CASE Len(heap) # 1
    <3>1. Len(heap) - 1 \in Nat \ {0}
      BY <1>5, <2>2 DEF pop
    <3>2. heap' \in [1..(Len(heap) - 1) -> Ids]
      BY <1>5, <2>2, <3>1 DEF pop
    <3>3. heap' \in Seq(Ids) /\ Len(heap') = Len(heap) - 1
      BY <3>1, <3>2
    <3> QED
      BY <1>5, <2>2, <3>1, <3>3 DEF pop
  <2> QED
    BY <2>1, <2>2
<1>6. CASE siftDown
  BY <1>2, <1>3, <1>6 DEF siftDown, Smaller
<1>7. CASE UNCHANGED heapVars
  BY <1>7 DEF heapVars
<1> QED
  BY <1>1, <1>4, <1>5, <1>6, <1>7 DEF HeapNext

-----------------------------------------------------------------------------
\* No task is in the array twice.
NodesDiffer == \A i, j \in 1..Len(heap) : heap[i] = heap[j] => i = j

HeapInv == HeapTypeOK /\ HeapOrder /\ NodesDiffer

\* Exchanging two nodes changes nothing about what is in the array.
LEMMA SwapKeepsRange ==
    ASSUME HeapTypeOK, NEW other \in 1..Len(heap), Swap(other), position <= Len(heap)
    PROVE  /\ Range(heap') = Range(heap)
           /\ Len(heap') = Len(heap)
           /\ NodesDiffer => NodesDiffer'
BY DEF HeapTypeOK, Swap, Range, NodesDiffer

\* A task is queued when it is pushed, and not before.
LEMMA PushRange ==
    ASSUME HeapTypeOK, NEW t \in Ids, NEW key \in Keys, push(t, key)
    PROVE  /\ Range(heap') = Range(heap) \cup {t}
           /\ NodesDiffer => NodesDiffer'
<1>1. /\ heap \in Seq(Ids) /\ heap' = Append(heap, t) /\ t \notin Range(heap)
      /\ \A i \in 1..Len(heap) : heap[i] # t
  BY DEF HeapTypeOK, push, Range
<1>2. /\ Len(heap') = Len(heap) + 1 /\ heap'[Len(heap) + 1] = t
      /\ \A i \in 1..Len(heap) : heap'[i] = heap[i]
  BY <1>1
<1>3. Range(heap') = Range(heap) \cup {t}
  BY <1>1, <1>2 DEF Range
<1>4. NodesDiffer => NodesDiffer'
  BY <1>1, <1>2 DEF NodesDiffer
<1> QED
  BY <1>3, <1>4

\* pop takes out the first node and only that one.
LEMMA PopRange ==
    ASSUME HeapTypeOK, NodesDiffer, pop
    PROVE  /\ Range(heap') = Range(heap) \ {heap[1]}
           /\ NodesDiffer'
<1>1. CASE Len(heap) = 1
  BY <1>1 DEF HeapTypeOK, pop, Range, NodesDiffer
<1>2. CASE Len(heap) # 1
  BY <1>2 DEF HeapTypeOK, pop, Range, NodesDiffer
<1> QED
  BY <1>1, <1>2

-----------------------------------------------------------------------------
(* The heap order *)

\* The nodes of the array are totally ordered.
LEMMA NodeOrder ==
    ASSUME HeapInv, NEW i \in 1..Len(heap), NEW j \in 1..Len(heap), NEW k \in 1..Len(heap)
    PROVE  /\ InOrder(i, j) \/ InOrder(j, i) \/ i = j
           /\ InOrder(i, j) /\ InOrder(j, k) => InOrder(i, k)
<1>1. /\ heap[i] \in Int /\ heap[j] \in Int /\ heap[k] \in Int
      /\ sortIndex[heap[i]] \in Int /\ sortIndex[heap[j]] \in Int /\ sortIndex[heap[k]] \in Int
      /\ heap[i] = heap[j] => i = j
  <2>1. heap[i] \in Ids /\ heap[j] \in Ids /\ heap[k] \in Ids
    BY DEF HeapInv, HeapTypeOK
  <2>2. /\ sortIndex[heap[i]] \in Keys /\ sortIndex[heap[j]] \in Keys
        /\ sortIndex[heap[k]] \in Keys
    BY <2>1 DEF HeapInv, HeapTypeOK
  <2>3. heap[i] = heap[j] => i = j
    BY DEF HeapInv, NodesDiffer
  <2>4. Ids \subseteq Int
    BY IdsAssumption
  <2>5. Keys \subseteq Int
    BY KeysAssumption
  <2>6. heap[i] \in Int /\ heap[j] \in Int /\ heap[k] \in Int
    BY <2>1, <2>4
  <2>7. /\ sortIndex[heap[i]] \in Int /\ sortIndex[heap[j]] \in Int
        /\ sortIndex[heap[k]] \in Int
    BY <2>2, <2>5
  <2> QED
    BY <2>3, <2>6, <2>7
<1> QED
  BY <1>1, BeforeIsOrder DEF InOrder, Less

\* After an exchange, two nodes are in order as they were where they came from.
LEMMA SwapOrder ==
    ASSUME HeapTypeOK, NEW other \in 1..Len(heap), Swap(other), position <= Len(heap),
           NEW i \in 1..Len(heap), NEW j \in 1..Len(heap)
    PROVE  InOrder(i, j)' <=>
             InOrder(IF i = position THEN other ELSE IF i = other THEN position ELSE i,
                     IF j = position THEN other ELSE IF j = other THEN position ELSE j)
<1>1. \A k \in 1..Len(heap) :
          heap'[k] = heap[IF k = position THEN other ELSE IF k = other THEN position ELSE k]
  BY DEF HeapTypeOK, Swap
<1> QED
  BY <1>1 DEF InOrder, Less, Swap

LEMMA PushOrder ==
    ASSUME HeapInv, NEW t \in Ids, NEW key \in Keys, push(t, key)
    PROVE  HeapOrder'
<1>1. /\ Len(heap') = Len(heap) + 1 /\ position' = Len(heap) + 1 /\ pc' = "siftUp"
      /\ Len(heap) \in Nat
  BY DEF HeapInv, HeapTypeOK, push
<1>2. \A i, j \in 1..Len(heap) : InOrder(i, j)' <=> InOrder(i, j)
  BY DEF HeapInv, HeapTypeOK, push, InOrder, Less, Before, Range
<1>3. ASSUME NEW i \in 1..Len(heap'), NEW j \in 1..Len(heap'), i = j \div 2, j # position'
      PROVE  InOrder(i, j)'
  <2>1. i \in 1..Len(heap) /\ j \in 1..Len(heap)
    BY <1>1, <1>3, Tree
  <2> QED
    BY <1>2, <1>3, <2>1 DEF HeapInv, HeapOrder, push
<1>4. \A j \in 1..Len(heap') : position' # j \div 2
  BY <1>1, Tree
<1> QED
  BY <1>1, <1>3, <1>4 DEF HeapOrder

LEMMA PopOrder ==
    ASSUME HeapInv, pop
    PROVE  HeapOrder'
<1>1. CASE Len(heap) = 1
  BY <1>1 DEF HeapInv, HeapTypeOK, pop, HeapOrder
<1>2. CASE Len(heap) # 1
  <2>1. /\ Len(heap') = Len(heap) - 1 /\ Len(heap) \in Nat /\ Len(heap) > 1
        /\ position' = 1 /\ pc' = "siftDown" /\ UNCHANGED sortIndex /\ pc = "idle"
    <3>0. heap \in Seq(Ids) /\ heap # <<>>
      BY DEF HeapInv, HeapTypeOK, pop
    <3>1. Len(heap) \in Nat /\ Len(heap) > 1 /\ Len(heap) - 1 \in Nat
      <4>1. Len(heap) \in Nat /\ Len(heap) # 0
        BY <3>0
      <4>2. \A n \in Nat : n # 0 /\ n # 1 => n > 1 /\ n - 1 \in Nat
        OBVIOUS
      <4> QED
        BY <1>2, <4>1, <4>2
    <3>2. heap' \in [1..(Len(heap) - 1) -> Ids]
      BY <1>2, <3>1 DEF HeapInv, HeapTypeOK, pop
    <3>3. Len(heap') = Len(heap) - 1
      BY <3>1, <3>2
    <3> QED
      BY <1>2, <3>1, <3>3 DEF pop
  <2>2. \A i \in 2..Len(heap') : heap'[i] = heap[i]
    BY <1>2 DEF HeapInv, HeapTypeOK, pop
  <2>3. ASSUME NEW i \in 1..Len(heap'), NEW j \in 1..Len(heap'), i = j \div 2, i # position'
        PROVE  InOrder(i, j)'
    <3>1. i \in 2..Len(heap') /\ j \in 2..Len(heap')
      BY <2>1, <2>3, Tree
    <3>2. InOrder(i, j)
      BY <2>1, <2>3 DEF HeapInv, HeapOrder
    <3> QED
      BY <2>1, <2>2, <3>1, <3>2 DEF InOrder, Less
  <2> QED
    BY <2>1, <2>3 DEF HeapOrder
<1> QED
  BY <1>1, <1>2

LEMMA StopOrder ==
    ASSUME HeapInv, pc # "idle", Stop,
           \A i, j \in 1..Len(heap) : i = j \div 2 => InOrder(i, j)
    PROVE  HeapOrder'
BY DEF Stop, HeapOrder, InOrder, Less

\* The node on its way up changes places with its parent.
LEMMA UpOrder ==
    ASSUME HeapInv, pc = "siftUp", NEW parent \in 1..Len(heap), parent = position \div 2,
           InOrder(position, parent), Swap(parent)
    PROVE  HeapOrder'
<1>1. /\ position \in 1..Len(heap) /\ parent # position /\ position > 1
      /\ Len(heap') = Len(heap) /\ position' = parent /\ pc' = "siftUp"
      /\ Len(heap) \in Nat
  <2>1. Len(heap) \in Nat /\ position \in 1..Len(heap)
    BY DEF HeapInv, HeapTypeOK
  <2>2. parent # position /\ position > 1
    BY <2>1, Tree
  <2> QED
    BY <2>1, <2>2, SwapKeepsRange DEF HeapInv, Swap
<1>2. \A i, j \in 1..Len(heap) : i = j \div 2 /\ j # position => InOrder(i, j)
  BY DEF HeapInv, HeapOrder
<1>3. \A j \in 1..Len(heap) : position = j \div 2 => InOrder(parent, j)
  BY DEF HeapInv, HeapOrder
<1>4. ASSUME NEW i \in 1..Len(heap), NEW j \in 1..Len(heap), i = j \div 2, j # parent
      PROVE  InOrder(i, j)'
  <2>1. i # j
    BY <1>4, Tree
  <2>2. CASE j = position
    BY <1>1, <1>4, <2>2, SwapOrder DEF HeapInv
  <2>3. CASE i = position
    BY <1>1, <1>3, <1>4, <2>1, <2>3, SwapOrder DEF HeapInv
  <2>4. CASE i = parent /\ j # position
    <3>1. InOrder(position, parent) /\ InOrder(parent, j)
      BY <1>2, <1>4, <2>4
    <3>2. InOrder(position, j)
      BY <1>1, <3>1, NodeOrder
    <3> QED
      BY <1>1, <1>4, <2>4, <3>2, SwapOrder DEF HeapInv
  <2>5. CASE j # position /\ i # position /\ i # parent
    BY <1>1, <1>2, <1>4, <2>5, SwapOrder DEF HeapInv
  <2> QED
    BY <2>2, <2>3, <2>4, <2>5
<1>5. ASSUME NEW j \in 1..Len(heap), parent > 1, parent = j \div 2,
             NEW above \in 1..Len(heap), above = parent \div 2
      PROVE  InOrder(above, j)'
  <2>1. above # parent /\ above # position /\ j # parent
    BY <1>1, <1>5, Tree
  <2>2. InOrder(above, parent)
    BY <1>1, <1>2, <1>5
  <2>3. CASE j = position
    BY <1>1, <2>1, <2>2, <2>3, SwapOrder DEF HeapInv
  <2>4. CASE j # position
    <3>1. InOrder(above, j)
      BY <1>1, <1>2, <1>5, <2>2, <2>4, NodeOrder
    <3> QED
      BY <1>1, <2>1, <2>4, <3>1, SwapOrder DEF HeapInv
  <2> QED
    BY <2>3, <2>4
<1>6. parent > 1 => parent \div 2 \in 1..Len(heap)
  BY <1>1, Tree
<1> QED
  BY <1>1, <1>4, <1>5, <1>6 DEF HeapOrder

\* The node on its way down changes places with the first of its children.
LEMMA DownOrder ==
    ASSUME HeapInv, pc = "siftDown", NEW child \in 1..Len(heap), child \div 2 = position,
           InOrder(child, position), Swap(child),
           \A j \in 1..Len(heap) : j \div 2 = position /\ j # child => InOrder(child, j)
    PROVE  HeapOrder'
<1>1. /\ position \in 1..Len(heap) /\ child # position /\ child > 1
      /\ Len(heap') = Len(heap) /\ position' = child /\ pc' = "siftDown"
      /\ Len(heap) \in Nat
  BY Tree, SwapKeepsRange DEF HeapInv, HeapTypeOK, Swap
<1>2. \A i, j \in 1..Len(heap) : i = j \div 2 /\ i # position => InOrder(i, j)
  BY DEF HeapInv, HeapOrder
<1>3. position > 1 => InOrder(position \div 2, child)
  BY DEF HeapInv, HeapOrder
<1>4. ASSUME NEW i \in 1..Len(heap), NEW j \in 1..Len(heap), i = j \div 2, i # child
      PROVE  InOrder(i, j)'
  <2>1. i # j
    BY <1>4, Tree
  <2>2. CASE j = position
    BY <1>1, <1>3, <1>4, <2>1, <2>2, SwapOrder DEF HeapInv
  <2>3. CASE i = position /\ j = child
    BY <1>1, <2>3, SwapOrder DEF HeapInv
  <2>4. CASE i = position /\ j # child
    BY <1>1, <1>4, <2>1, <2>4, SwapOrder DEF HeapInv
  <2>5. CASE j # position /\ i # position
    <3>1. j # child
      BY <1>4, <2>5
    <3> QED
      BY <1>1, <1>2, <1>4, <2>5, <3>1, SwapOrder DEF HeapInv
  <2> QED
    BY <2>2, <2>3, <2>4, <2>5
<1>5. ASSUME NEW j \in 1..Len(heap), child = j \div 2
      PROVE  InOrder(child \div 2, j)'
  <2>1. j # child /\ j # position
    BY <1>1, <1>5, Tree
  <2>2. InOrder(child, j)
    BY <1>1, <1>2, <1>5
  <2> QED
    BY <1>1, <2>1, <2>2, SwapOrder DEF HeapInv
<1> QED
  BY <1>1, <1>4, <1>5 DEF HeapOrder

-----------------------------------------------------------------------------
(* The heap is a priority queue *)

LEMMA HeapInvStep == HeapInv /\ [HeapNext]_heapVars => HeapInv'
<1> SUFFICES ASSUME HeapInv, [HeapNext]_heapVars PROVE HeapOrder' /\ NodesDiffer'
  BY TypeStep DEF HeapInv
<1>1. ASSUME NEW t \in Ids, NEW key \in Keys, push(t, key)
      PROVE  HeapOrder' /\ NodesDiffer'
  BY <1>1, PushOrder, PushRange DEF HeapInv
<1>2. CASE siftUp
  <2>1. /\ position \in 1..Len(heap) /\ Len(heap) \in Nat
        /\ position > 1 => position \div 2 \in 1..Len(heap) /\ position \div 2 # position
    BY <1>2, Tree DEF HeapInv, HeapTypeOK, siftUp
  <2>2. CASE position > 1 /\ InOrder(position, position \div 2)
    BY <1>2, <2>1, <2>2, UpOrder, SwapKeepsRange DEF HeapInv, siftUp, InOrder
  <2>3. CASE ~(position > 1 /\ InOrder(position, position \div 2))
    <3>1. Stop
      BY <1>2, <2>3 DEF siftUp, InOrder
    <3>2. ASSUME NEW i \in 1..Len(heap), NEW j \in 1..Len(heap), i = j \div 2
          PROVE  InOrder(i, j)
      <4>1. CASE j = position
        <5>1. j > 1 /\ i # j
          BY <3>2, Tree
        <5> QED
          BY <2>3, <3>2, <4>1, <5>1, NodeOrder
      <4>2. CASE j # position
        BY <1>2, <3>2, <4>2 DEF HeapInv, HeapOrder, siftUp
      <4> QED
        BY <4>1, <4>2
    <3> QED
      BY <1>2, <3>1, <3>2, StopOrder DEF HeapInv, NodesDiffer, Stop, siftUp
  <2> QED
    BY <2>2, <2>3
<1>3. CASE pop
  BY <1>3, PopOrder, PopRange DEF HeapInv
<1>4. CASE siftDown
  <2> DEFINE left == 2 * position
             right == 2 * position + 1
  <2>1. /\ position \in 1..Len(heap) /\ Len(heap) \in Nat
        /\ left \div 2 = position /\ right \div 2 = position
        /\ left \in Nat /\ right \in Nat /\ left >= 1 /\ right >= 1
        /\ left # right /\ left # position /\ right # position
        /\ \A j \in 1..Len(heap) : j \div 2 = position => j = left \/ j = right
    BY <1>4, Tree DEF HeapInv, HeapTypeOK, siftDown
  <2>2. /\ Smaller(left) <=> left \in 1..Len(heap) /\ InOrder(left, position)
        /\ Smaller(right) <=> right \in 1..Len(heap) /\ InOrder(right, position)
        /\ right \in 1..Len(heap) <=> right <= Len(heap)
    BY <2>1 DEF Smaller, InOrder
  <2>3. /\ Smaller(left)
              => Swap(IF right <= Len(heap) /\ InOrder(right, left) THEN right ELSE left)
        /\ ~Smaller(left) /\ Smaller(right) => Swap(right)
        /\ ~Smaller(left) /\ ~Smaller(right) => Stop
    BY <1>4 DEF siftDown, InOrder
  <2> HIDE DEF left, right
  <2>4. ASSUME NEW child \in 1..Len(heap), child \div 2 = position,
               InOrder(child, position), Swap(child),
               \A j \in 1..Len(heap) : j \div 2 = position /\ j # child => InOrder(child, j)
        PROVE  HeapOrder' /\ NodesDiffer'
    BY <1>4, <2>1, <2>4, DownOrder, SwapKeepsRange DEF HeapInv, siftDown
  <2>5. CASE Smaller(left) /\ right \in 1..Len(heap) /\ InOrder(right, left)
    <3>1. InOrder(right, position)
      BY <2>1, <2>2, <2>5, NodeOrder
    <3> QED
      BY <2>1, <2>2, <2>3, <2>4, <2>5, <3>1
  <2>6. CASE Smaller(left) /\ ~(right \in 1..Len(heap) /\ InOrder(right, left))
    <3>1. right \in 1..Len(heap) => InOrder(left, right)
      BY <2>1, <2>2, <2>6, NodeOrder
    <3> QED
      BY <2>1, <2>2, <2>3, <2>4, <2>6, <3>1
  <2>7. CASE ~Smaller(left) /\ Smaller(right)
    <3>1. left \in 1..Len(heap) => InOrder(right, left)
      <4>1. left \in 1..Len(heap) => InOrder(position, left)
        BY <2>1, <2>2, <2>7, NodeOrder
      <4> QED
        BY <2>1, <2>2, <2>7, <4>1, NodeOrder
    <3> QED
      BY <2>1, <2>2, <2>3, <2>4, <2>7, <3>1
  <2>8. CASE ~Smaller(left) /\ ~Smaller(right)
    <3>1. ASSUME NEW i \in 1..Len(heap), NEW j \in 1..Len(heap), i = j \div 2
          PROVE  InOrder(i, j)
      <4>1. CASE i = position
        BY <2>1, <2>2, <2>8, <3>1, <4>1, NodeOrder
      <4>2. CASE i # position
        BY <1>4, <3>1, <4>2 DEF HeapInv, HeapOrder, siftDown
      <4> QED
        BY <4>1, <4>2
    <3> QED
      BY <1>4, <2>3, <2>8, <3>1, StopOrder DEF HeapInv, NodesDiffer, Stop, siftDown
  <2> QED
    BY <2>5, <2>6, <2>7, <2>8
<1>5. CASE UNCHANGED heapVars
  BY <1>5 DEF heapVars, HeapInv, HeapOrder, InOrder, Less, NodesDiffer
<1> QED
  BY <1>1, <1>2, <1>3, <1>4, <1>5 DEF HeapNext

\* At rest the first node of the array is the first of all: a node that is not
\* behind it has a parent that is not, either, and there is no smallest such node.
LEMMA FirstIsPeek ==
    ASSUME HeapInv, pc = "idle", heap # <<>>
    PROVE  heap[1] = Peek(Range(heap), sortIndex)
<1>1. /\ Len(heap) \in Nat /\ 1 \in 1..Len(heap)
      /\ heap \in [1..Len(heap) -> Ids] /\ heap[1] \in Range(heap)
      /\ Ids \subseteq Int /\ sortIndex \in [Ids -> Int]
  <2>1. Ids \subseteq Int
    BY IdsAssumption
  <2>2. sortIndex \in [Ids -> Keys]
    BY DEF HeapInv, HeapTypeOK
  <2>3. sortIndex \in [Ids -> Int]
    BY <2>2, KeysAssumption
  <2> QED
    BY <2>1, <2>3 DEF HeapInv, HeapTypeOK, Range
<1> DEFINE Ahead == {k \in 1..Len(heap) : k # 1 /\ ~InOrder(1, k)}
<1>2. ASSUME NEW k \in Ahead PROVE \E m \in Ahead : m < k
  <2>1. k \in Nat \ {0} /\ k > 1
    BY <1>1
  <2>2. k \div 2 \in 1..Len(heap) /\ k \div 2 < k
    BY <1>1, <2>1, Tree
  <2>3. InOrder(k \div 2, k)
    BY <2>2 DEF HeapInv, HeapOrder
  <2>4. k \div 2 # 1 /\ ~InOrder(1, k \div 2)
    BY <1>1, <2>2, <2>3, NodeOrder
  <2> QED
    BY <2>2, <2>4
<1>3. Ahead = {}
  <2>1. Ahead \in SUBSET Nat /\ \A k \in Ahead : \E m \in Ahead : m < k
    BY <1>1, <1>2
  <2> HIDE DEF Ahead
  <2> QED BY <2>1, NoSmallest
<1>4. \A t \in Range(heap) \ {heap[1]} : Before(sortIndex, heap[1], t)
  <2> SUFFICES ASSUME NEW k \in 1..Len(heap), heap[k] # heap[1]
               PROVE  Before(sortIndex, heap[1], heap[k])
    BY <1>1 DEF Range
  <2> QED
    BY <1>3 DEF InOrder, Less
<1> DEFINE first == Peek(Range(heap), sortIndex)
<1>5. first \in Range(heap) /\ \A t \in Range(heap) \ {first} : Before(sortIndex, first, t)
  BY <1>1, <1>4 DEF Peek
<1> HIDE DEF first
<1>6. ASSUME first # heap[1] PROVE FALSE
  <2>1. Before(sortIndex, heap[1], first) /\ Before(sortIndex, first, heap[1])
    BY <1>1, <1>4, <1>5, <1>6
  <2>2. first \in Int /\ heap[1] \in Int /\ sortIndex[first] \in Int /\ sortIndex[heap[1]] \in Int
    BY <1>1, <1>5 DEF Range
  <2> QED BY <2>1, <2>2, BeforeIsOrder
<1> QED
  BY <1>6 DEF first

THEOREM HeapInductive == HeapSpec => []HeapInv
<1>1. HeapInit => HeapInv
  BY TypeInit DEF HeapInv, HeapInit, NodesDiffer
<1> QED
  BY <1>1, HeapInvStep, PTL DEF HeapSpec

\* The heap order holds at rest, and while a node is on its way up or down.
THEOREM HeapOrderHolds == HeapSpec => []HeapOrder
<1>1. HeapInv => HeapOrder
  BY DEF HeapInv
<1> QED
  BY <1>1, HeapInductive, PTL

\* The array heap implements the queue of tasks of the scheduler.
THEOREM HeapIsPriorityQueue == HeapSpec => ImplementsPriorityQueue
<1> USE DEF Queue!queueVars
<1>1. HeapInit => Queue!QueueInit
  <2>1. HeapInit => Range(heap) = {}
    BY DEF HeapInit, Range
  <2> QED
    BY <2>1 DEF HeapInit, Queue!QueueInit, NoTask, Queue!NoTask
<1>2. HeapInv /\ [HeapNext]_heapVars => [Queue!QueueNext]_(Queue!queueVars)
  <2> SUFFICES ASSUME HeapInv, [HeapNext]_heapVars PROVE [Queue!QueueNext]_(Queue!queueVars)
    OBVIOUS
  <2>1. ASSUME NEW t \in Ids, NEW key \in Keys, push(t, key)
        PROVE  Queue!Insert(t, key)
    <3>1. \A u \in Range(heap) : u \in Ids /\ u # t
      BY <2>1 DEF push, Range, HeapInv, HeapTypeOK
    <3> QED
      BY <2>1, <3>1, PushRange DEF Queue!Insert, push, HeapInv, HeapTypeOK
  <2>2. CASE siftUp
    <3>1. position > 1 => position \div 2 \in 1..Len(heap)
      BY <2>2, Tree DEF HeapInv, HeapTypeOK, siftUp
    <3> QED
      BY <2>2, <3>1, SwapKeepsRange DEF HeapInv, HeapTypeOK, siftUp, Swap, Stop
  <2>3. CASE pop
    <3>1. heap[1] = Peek(Range(heap), sortIndex)
      BY <2>3, FirstIsPeek DEF pop
    <3>2. heap[1] \in Range(heap)
      BY <2>3 DEF pop, Range, HeapInv, HeapTypeOK
    <3>3. returned' = heap[1] /\ UNCHANGED sortIndex
      BY <2>3 DEF pop
    <3>4. Range(heap') = Range(heap) \ {heap[1]}
      BY <2>3, PopRange DEF HeapInv
    <3>5. Queue!RemoveFirst
      BY <3>1, <3>2, <3>3, <3>4 DEF Queue!RemoveFirst, Peek, Queue!Peek, Before, Queue!Before,
                                          NoTask, Queue!NoTask
    <3> QED
      BY <3>5 DEF Queue!QueueNext
  <2>4. CASE siftDown
    <3>1. \A child \in Nat : Smaller(child) /\ child >= 1 => child \in 1..Len(heap)
      BY DEF Smaller, HeapInv, HeapTypeOK
    <3>2. Stop \/ \E child \in 1..Len(heap) : Swap(child)
      BY <2>4, <3>1 DEF siftDown, Smaller, HeapInv, HeapTypeOK
    <3> QED
      BY <2>4, <3>2, SwapKeepsRange DEF HeapInv, HeapTypeOK, siftDown, Swap, Stop
  <2>5. CASE UNCHANGED heapVars
    BY <2>5 DEF heapVars
  <2> QED
    BY <2>1, <2>2, <2>3, <2>4, <2>5 DEF HeapNext, Queue!QueueNext
<1> QED
  BY <1>1, <1>2, HeapInductive, PTL DEF HeapSpec, ImplementsPriorityQueue, Queue!QueueSpec

-----------------------------------------------------------------------------
(* The queue of synchronous callbacks, for any number of callbacks.        *)

\* While nothing waits, or the queue is being flushed, no task is left that
\* would flush it for the first time: OneImmediateTask needs it, because a new
\* queue brings a new task.
NoIdleTask == (syncQueue = Null \/ isFlushingSyncQueue) => implTasks = {}

SyncInv == TypeOK /\ StartedOnceInOrder /\ NobodyIsStranded /\ OneImmediateTask /\ NoIdleTask

\* The loop goes on with callback i: it is the next one that has not started,
\* or there is none.
LEMMA RunFromStep ==
    ASSUME TypeOK, StartedOnceInOrder, syncQueue # Null,
           NEW i \in Nat, i = index + 1, RunFrom(i), UNCHANGED pushed
    PROVE  /\ StartedOnceInOrder'
           /\ syncQueue' = Null \/ syncQueue' \in Seq(Nat)
           /\ isFlushingSyncQueue' \in BOOLEAN /\ index' \in Nat /\ ran' \in Nat
           /\ syncQueue' # Null => isFlushingSyncQueue'
<1>1. syncQueue \in Seq(Nat) /\ Len(syncQueue) \in Nat /\ index \in Nat /\ ran \in Nat
  BY DEF TypeOK
<1>2. CASE i <= Len(syncQueue)
  <2>1. /\ isFlushingSyncQueue' = TRUE /\ index' = i /\ ran' = ran + 1
        /\ syncQueue' = syncQueue
    BY <1>2 DEF RunFrom
  <2>2. /\ ran' + Len(syncQueue') - index' = pushed' /\ index' <= Len(syncQueue')
        /\ index' # 0
    BY <1>1, <1>2, <2>1 DEF StartedOnceInOrder
  <2>3. \A j \in 1..Len(syncQueue') : syncQueue'[j] = ran' + j - index'
    BY <1>1, <2>1 DEF StartedOnceInOrder
  <2> QED
    BY <1>1, <2>1, <2>2, <2>3 DEF StartedOnceInOrder
<1>3. CASE ~(i <= Len(syncQueue))
  <2>1. /\ isFlushingSyncQueue' = FALSE /\ index' = 0 /\ syncQueue' = Null /\ ran' = ran
    BY <1>3 DEF RunFrom
  <2>2. ran = pushed
    BY <1>1, <1>3 DEF StartedOnceInOrder
  <2> QED
    BY <1>1, <2>1, <2>2 DEF StartedOnceInOrder
<1> QED
  BY <1>2, <1>3

\* A flush, by whomever it is called.
LEMMA ImplStep ==
    ASSUME TypeOK, StartedOnceInOrder, flushSyncCallbackQueueImpl, UNCHANGED pushed
    PROVE  /\ StartedOnceInOrder'
           /\ syncQueue' = Null \/ syncQueue' \in Seq(Nat)
           /\ isFlushingSyncQueue' \in BOOLEAN /\ index' \in Nat /\ ran' \in Nat
           /\ syncQueue' # Null => isFlushingSyncQueue'
<1>1. CASE ~isFlushingSyncQueue /\ syncQueue # Null
  <2>1. index = 0
    BY <1>1 DEF StartedOnceInOrder
  <2> QED
    BY <1>1, <2>1, RunFromStep DEF flushSyncCallbackQueueImpl
<1>2. CASE ~(~isFlushingSyncQueue /\ syncQueue # Null)
  <2>1. UNCHANGED <<syncQueue, isFlushingSyncQueue, index, ran>>
    BY <1>2 DEF flushSyncCallbackQueueImpl
  <2> QED
    BY <1>2, <2>1 DEF StartedOnceInOrder, TypeOK
<1> QED
  BY <1>1, <1>2

LEMMA SyncFlushStep ==
    ASSUME SyncInv, flushSyncCallbackQueueImpl, UNCHANGED <<pushed, nextTask>>,
           implTasks' = {}, retryTasks' \subseteq retryTasks,
           immediateQueueCallbackNode' \in Nat
    PROVE  SyncInv'
<1>1. /\ StartedOnceInOrder'
      /\ syncQueue' = Null \/ syncQueue' \in Seq(Nat)
      /\ isFlushingSyncQueue' \in BOOLEAN /\ index' \in Nat /\ ran' \in Nat
      /\ syncQueue' # Null => isFlushingSyncQueue'
  BY ImplStep DEF SyncInv
<1>2. TypeOK'
  BY <1>1 DEF SyncInv, TypeOK
<1> QED
  BY <1>1, <1>2 DEF SyncInv, NobodyIsStranded, OneImmediateTask, NoIdleTask

LEMMA PushStep == SyncInv /\ scheduleSyncCallback => SyncInv'
<1> SUFFICES ASSUME SyncInv, scheduleSyncCallback PROVE SyncInv'
  OBVIOUS
<1>1. pushed \in Nat /\ ran \in Nat /\ index \in Nat /\ pushed' = pushed + 1
  BY DEF SyncInv, TypeOK, scheduleSyncCallback
<1>2. CASE syncQueue = Null
  <2>1. /\ syncQueue' = <<pushed + 1>> /\ scheduleImpl
        /\ UNCHANGED <<isFlushingSyncQueue, index, retryTasks, ran>>
    BY <1>2 DEF scheduleSyncCallback
  <2>2. ran = pushed /\ ~isFlushingSyncQueue /\ index = 0 /\ implTasks = {}
    BY <1>2 DEF SyncInv, StartedOnceInOrder, NoIdleTask
  <2>3. /\ Len(syncQueue') = 1 /\ syncQueue' \in Seq(Nat)
        /\ \A j \in 1..1 : syncQueue'[j] = pushed + 1
    BY <1>1, <2>1
  <2>4. syncQueue' # Null
    BY <2>3, NullAssumption
  <2>5. TypeOK'
    BY <1>1, <2>1, <2>2, <2>3 DEF SyncInv, TypeOK, scheduleImpl
  <2>6. StartedOnceInOrder'
    BY <1>1, <2>1, <2>2, <2>3, <2>4 DEF StartedOnceInOrder
  <2> QED
    BY <2>1, <2>2, <2>4, <2>5, <2>6
       DEF SyncInv, scheduleImpl, NobodyIsStranded, OneImmediateTask, NoIdleTask
<1>3. CASE syncQueue # Null
  <2>1. /\ syncQueue' = Append(syncQueue, pushed + 1)
        /\ UNCHANGED <<implTasks, nextTask, immediateQueueCallbackNode,
                       isFlushingSyncQueue, index, retryTasks, ran>>
    BY <1>3 DEF scheduleSyncCallback
  <2>2. syncQueue \in Seq(Nat)
    BY <1>3 DEF SyncInv, TypeOK
  <2>3. /\ syncQueue' \in Seq(Nat) /\ Len(syncQueue') = Len(syncQueue) + 1
        /\ Len(syncQueue) \in Nat /\ syncQueue'[Len(syncQueue) + 1] = pushed + 1
        /\ \A j \in 1..Len(syncQueue) : syncQueue'[j] = syncQueue[j]
    BY <1>1, <2>1, <2>2
  <2>4. syncQueue' # Null
    BY <2>3, NullAssumption
  <2>5. TypeOK'
    BY <1>1, <2>1, <2>3 DEF SyncInv, TypeOK
  <2>9. /\ ran + Len(syncQueue) - index = pushed /\ index <= Len(syncQueue)
        /\ \A j \in 1..Len(syncQueue) : syncQueue[j] = ran + j - index
    BY <1>3 DEF SyncInv, StartedOnceInOrder
  <2>6. ASSUME NEW j \in 1..Len(syncQueue') PROVE syncQueue'[j] = ran + j - index
    <3>1. CASE j = Len(syncQueue) + 1
      <4>1. ran + j - index = pushed + 1
        <5>1. PICK n \in Nat : n = Len(syncQueue)
          BY <2>3
        <5>2. ran + n - index = pushed /\ j = n + 1
          BY <2>9, <3>1, <5>1
        <5> QED
          BY <1>1, <5>2
      <4> QED
        BY <2>3, <3>1, <4>1
    <3>2. CASE j # Len(syncQueue) + 1
      BY <2>3, <2>9, <3>2
    <3> QED
      BY <3>1, <3>2
  <2>7. ran + Len(syncQueue') - index = pushed' /\ index <= Len(syncQueue')
    BY <1>1, <2>3, <2>9
  <2>8. StartedOnceInOrder'
    BY <2>1, <2>4, <2>6, <2>7 DEF SyncInv, StartedOnceInOrder
  <2> QED
    BY <1>3, <2>1, <2>4, <2>5, <2>8 DEF SyncInv, NobodyIsStranded, OneImmediateTask, NoIdleTask
<1> QED
  BY <1>2, <1>3

(* The suffix of a sequence behind its element i.                          *)
LEMMA Suffix ==
    ASSUME NEW s \in Seq(Nat), NEW i \in Nat, i <= Len(s)
    PROVE  LET t == SubSeq(s, i + 1, Len(s)) IN
           /\ t \in Seq(Nat) /\ Len(t) = Len(s) - i
           /\ \A j \in 1..(Len(s) - i) : t[j] = s[i + j]
<1>1. PICK n \in Nat : n = Len(s)
  OBVIOUS
<1>2. \A k \in (i + 1)..n : s[k] \in Nat
  BY <1>1
<1>3. /\ SubSeq(s, i + 1, n) \in Seq(Nat)
      /\ Len(SubSeq(s, i + 1, n)) = IF i + 1 <= n THEN n - (i + 1) + 1 ELSE 0
      /\ \A j \in 1..(n - (i + 1) + 1) : SubSeq(s, i + 1, n)[j] = s[i + 1 + j - 1]
  <2>1. i + 1 \in Int /\ n \in Int
    OBVIOUS
  <2> QED
    BY <1>2, <2>1, SubSeqProperties
<1>4. Len(SubSeq(s, i + 1, n)) = n - i
  BY <1>1, <1>3
<1>5. \A j \in 1..(n - i) : SubSeq(s, i + 1, n)[j] = s[i + j]
  <2>1. 1..(n - i) = 1..(n - (i + 1) + 1) /\ \A j \in 1..(n - i) : i + 1 + j - 1 = i + j
    OBVIOUS
  <2> QED
    BY <1>3, <2>1
<1> QED
  BY <1>1, <1>3, <1>4, <1>5

LEMMA ThrowStep == SyncInv /\ callbackThrows => SyncInv'
<1> SUFFICES ASSUME SyncInv, callbackThrows PROVE SyncInv'
  OBVIOUS
<1>1. /\ syncQueue # Null /\ syncQueue \in Seq(Nat) /\ Len(syncQueue) \in Nat
      /\ index \in Nat /\ ran \in Nat /\ pushed \in Nat /\ index # 0
      /\ index <= Len(syncQueue) /\ ran + Len(syncQueue) - index = pushed
      /\ \A j \in 1..Len(syncQueue) : syncQueue[j] = ran + j - index
  BY DEF SyncInv, TypeOK, StartedOnceInOrder, callbackThrows
<1>2. /\ syncQueue' = SubSeq(syncQueue, index + 1, Len(syncQueue))
      /\ isFlushingSyncQueue' = FALSE /\ index' = 0
      /\ retryTasks' = retryTasks \cup {nextTask} /\ nextTask' = nextTask + 1
      /\ UNCHANGED <<immediateQueueCallbackNode, implTasks, pushed, ran>>
  BY DEF callbackThrows, Remaining, scheduleRetry
<1>3. /\ syncQueue' \in Seq(Nat) /\ Len(syncQueue') = Len(syncQueue) - index
      /\ \A j \in 1..(Len(syncQueue) - index) : syncQueue'[j] = syncQueue[index + j]
  BY <1>1, <1>2, Suffix
<1>4. syncQueue' # Null
  BY <1>3, NullAssumption
<1>5. TypeOK'
  <2>1. nextTask \in Nat \ {0} /\ nextTask' = nextTask + 1
    BY <1>2 DEF SyncInv, TypeOK
  <2>2. /\ implTasks' \subseteq 1..(nextTask' - 1)
        /\ retryTasks' \subseteq 1..(nextTask' - 1)
    BY <1>2, <2>1 DEF SyncInv, TypeOK
  <2> QED
    <3>1. isFlushingSyncQueue' \in BOOLEAN /\ index' \in Nat
      BY <1>2
    <3>2. immediateQueueCallbackNode' \in Nat /\ pushed' \in Nat /\ ran' \in Nat
      BY <1>2 DEF SyncInv, TypeOK
    <3>3. nextTask' \in Nat \ {0}
      BY <2>1
    <3> QED
      BY <1>3, <2>2, <3>1, <3>2, <3>3 DEF TypeOK
<1>6. \A j \in 1..Len(syncQueue') : syncQueue'[j] = ran + j
  BY <1>1, <1>3
<1>7. StartedOnceInOrder'
  <2>1. ran' + Len(syncQueue') - index' = pushed' /\ index' <= Len(syncQueue')
    BY <1>1, <1>2, <1>3
  <2>2. \A j \in 1..Len(syncQueue') : syncQueue'[j] = ran' + j - index'
    BY <1>1, <1>2, <1>3, <1>6
  <2> QED
    BY <1>2, <1>4, <2>1, <2>2 DEF StartedOnceInOrder
<1>8. NobodyIsStranded' /\ OneImmediateTask'
  BY <1>2 DEF SyncInv, NobodyIsStranded, OneImmediateTask
<1>9. implTasks' = {}
  BY <1>2 DEF SyncInv, NoIdleTask, callbackThrows
<1> QED
  BY <1>5, <1>7, <1>8, <1>9 DEF SyncInv, NoIdleTask

LEMMA SyncInvStep == SyncInv /\ [Next]_vars => SyncInv'
<1> SUFFICES ASSUME SyncInv, [Next]_vars PROVE SyncInv'
  OBVIOUS
<1>1. CASE flushSyncCallbackQueue
  <2>1. implTasks' = {}
    BY <1>1 DEF SyncInv, OneImmediateTask, flushSyncCallbackQueue, cancelNode
  <2> QED
    BY <1>1, <2>1, SyncFlushStep DEF NoNode, flushSyncCallbackQueue, cancelNode, SyncInv, TypeOK
<1>2. CASE runImplTask
  <2>1. implTasks' = {}
    BY <1>2 DEF SyncInv, OneImmediateTask, runImplTask
  <2> QED
    BY <1>2, <2>1, SyncFlushStep DEF runImplTask, SyncInv, TypeOK
<1>3. CASE runRetryTask
  <2>1. implTasks' = {} /\ retryTasks' \subseteq retryTasks
    BY <1>3 DEF SyncInv, OneImmediateTask, runRetryTask, cancelNode
  <2> QED
    BY <1>3, <2>1, SyncFlushStep DEF NoNode, runRetryTask, cancelNode, SyncInv, TypeOK
<1>4. CASE callbackReturns
  <2>1. syncQueue # Null /\ implTasks = {} /\ index + 1 \in Nat
    BY <1>4 DEF SyncInv, TypeOK, StartedOnceInOrder, NoIdleTask, callbackReturns
  <2> QED
    BY <1>4, <2>1, RunFromStep DEF SyncInv, TypeOK, callbackReturns, NobodyIsStranded,
                                   OneImmediateTask, NoIdleTask
<1>5. CASE UNCHANGED vars
  BY <1>5 DEF vars, SyncInv, TypeOK, StartedOnceInOrder, NobodyIsStranded, OneImmediateTask,
              NoIdleTask
<1> QED
  BY <1>1, <1>2, <1>3, <1>4, <1>5, PushStep, ThrowStep DEF Next, RunTask, CallbackEnds

THEOREM SyncInductive == Spec => []SyncInv
<1>1. Init => SyncInv
  <2> SUFFICES ASSUME Init PROVE SyncInv
    OBVIOUS
  <2>1. StartedOnceInOrder
    <3>1. syncQueue = Null /\ ran = pushed
      BY DEF Init
    <3>2. ~isFlushingSyncQueue /\ ~(index # 0)
      BY DEF Init
    <3> QED
      BY <3>1, <3>2 DEF StartedOnceInOrder
  <2>2. TypeOK
    <3>1. isFlushingSyncQueue \in BOOLEAN
      BY DEF Init
    <3>2. /\ index \in Nat /\ immediateQueueCallbackNode \in Nat /\ nextTask \in Nat \ {0}
          /\ pushed \in Nat /\ ran \in Nat
      BY DEF Init, NoNode
    <3> QED
      BY <3>1, <3>2 DEF Init, TypeOK
  <2> QED
    BY <2>1, <2>2 DEF Init, SyncInv, NobodyIsStranded, OneImmediateTask, NoIdleTask
<1> QED
  BY <1>1, SyncInvStep, PTL DEF Spec

\* The types of the variables of the queue.
THEOREM SyncTypeCorrect == Spec => []TypeOK
<1>1. SyncInv => TypeOK
  BY DEF SyncInv
<1> QED
  BY <1>1, SyncInductive, PTL

\* Synchronous callbacks start in the order they were pushed, each once, though
\* some throw and some push others.
THEOREM CallbacksStartInOrder == Spec => []StartedOnceInOrder
<1>1. SyncInv => StartedOnceInOrder
  BY DEF SyncInv
<1> QED
  BY <1>1, SyncInductive, PTL

\* While callbacks wait, somebody is going to flush them.
THEOREM CallbacksAreNotStranded == Spec => []NobodyIsStranded
<1>1. SyncInv => NobodyIsStranded
  BY DEF SyncInv
<1> QED
  BY <1>1, SyncInductive, PTL

\* There is at most one task for the first flush, and an explicit flush cancels it.
THEOREM OneTaskAtMost == Spec => []OneImmediateTask
<1>1. SyncInv => OneImmediateTask
  BY DEF SyncInv
<1> QED
  BY <1>1, SyncInductive, PTL

-----------------------------------------------------------------------------
(* The Flight server: however large the model, however small the stream and *)
(* whatever suspends or throws, each row that is finished is written once, *)
(* and the stream is closed once, behind the last.                         *)

(* Sequences without repetition *)

\* What the two operators say of a sequence.
LEMMA SequenceElements ==
    ASSUME NEW S, NEW s \in Seq(S)
    PROVE  /\ \A i \in 1..Len(s) : s[i] \in ToSet(s)
           /\ \A x \in ToSet(s) : \E i \in 1..Len(s) : x = s[i]
           /\ IsInjective(s) <=> \A i, j \in 1..Len(s) : s[i] = s[j] => i = j
           /\ ToSet(s) \subseteq S
BY DEF ToSet, IsInjective

\* A sequence is one over each set that has all its elements.
LEMMA SeqOver ==
    ASSUME NEW S, NEW T, NEW s \in Seq(S), ToSet(s) \subseteq T
    PROVE  s \in Seq(T)
<1>1. Len(s) \in Nat /\ s \in [1..Len(s) -> S]
  OBVIOUS
<1>2. \A i \in 1..Len(s) : s[i] \in T
  BY SequenceElements
<1>3. s \in [1..Len(s) -> T]
  BY <1>1, <1>2
<1> QED
  BY <1>1, <1>3, SeqDef

\* The elements of a concatenation.
LEMMA ToSetConcat ==
    ASSUME NEW S, NEW s \in Seq(S), NEW t \in Seq(S)
    PROVE  /\ s \o t \in Seq(S) /\ Len(s \o t) = Len(s) + Len(t)
           /\ ToSet(s \o t) = ToSet(s) \cup ToSet(t)
<1>1. s \o t \in Seq(S) /\ Len(s \o t) = Len(s) + Len(t)
  OBVIOUS
<1>2. ASSUME NEW x \in ToSet(s \o t) PROVE x \in ToSet(s) \cup ToSet(t)
  <2>1. PICK i \in 1..Len(s \o t) : x = (s \o t)[i]
    BY <1>1, <1>2, SequenceElements
  <2> QED
    BY <1>1, <2>1, SequenceElements
<1>3. ASSUME NEW x \in ToSet(s) PROVE x \in ToSet(s \o t)
  <2>1. PICK i \in 1..Len(s) : x = s[i]
    BY SequenceElements
  <2>2. (s \o t)[i] = s[i] /\ i \in 1..Len(s \o t)
    BY <1>1
  <2> QED
    BY <1>1, <2>1, <2>2, SequenceElements
<1>4. ASSUME NEW x \in ToSet(t) PROVE x \in ToSet(s \o t)
  <2>1. PICK i \in 1..Len(t) : x = t[i]
    BY SequenceElements
  <2>2. (s \o t)[Len(s) + i] = t[i] /\ Len(s) + i \in 1..Len(s \o t)
    BY <1>1
  <2> QED
    BY <1>1, <2>1, <2>2, SequenceElements
<1> QED
  BY <1>1, <1>2, <1>3, <1>4

LEMMA ToSetConcatTwice ==
    ASSUME NEW S, NEW s \in Seq(S), NEW t \in Seq(S), NEW u \in Seq(S)
    PROVE  /\ (s \o t) \o u \in Seq(S)
           /\ ToSet((s \o t) \o u) = (ToSet(s) \cup ToSet(t)) \cup ToSet(u)
<1> DEFINE st == s \o t
<1>1. st \in Seq(S) /\ ToSet(st) = ToSet(s) \cup ToSet(t)
  BY ToSetConcat
<1> HIDE DEF st
<1>2. st \o u \in Seq(S) /\ ToSet(st \o u) = ToSet(st) \cup ToSet(u)
  BY <1>1, ToSetConcat
<1> QED
  BY <1>1, <1>2 DEF st

\* Two sequences without repetition that share nothing make one without repetition.
LEMMA InjectiveConcat ==
    ASSUME NEW S, NEW s \in Seq(S), NEW t \in Seq(S), IsInjective(s), IsInjective(t),
           ToSet(s) \cap ToSet(t) = {}
    PROVE  IsInjective(s \o t)
<1>1. ASSUME NEW i \in 1..Len(s \o t), NEW j \in 1..Len(s \o t), i < j,
             (s \o t)[i] = (s \o t)[j]
      PROVE  FALSE
  <2>1. Len(s \o t) = Len(s) + Len(t)
    OBVIOUS
  <2>2. CASE j <= Len(s)
    BY <1>1, <2>2 DEF IsInjective
  <2>3. CASE i > Len(s)
    <3>1. t[i - Len(s)] = t[j - Len(s)] /\ i - Len(s) \in 1..Len(t) /\ j - Len(s) \in 1..Len(t)
      BY <1>1, <2>1, <2>3
    <3> QED
      BY <1>1, <3>1 DEF IsInjective
  <2>4. CASE i <= Len(s) /\ j > Len(s)
    <3>1. s[i] = t[j - Len(s)] /\ i \in 1..Len(s) /\ j - Len(s) \in 1..Len(t)
      BY <1>1, <2>1, <2>4
    <3>2. s[i] \in ToSet(s) /\ t[j - Len(s)] \in ToSet(t)
      BY <3>1 DEF ToSet
    <3> QED
      BY <3>1, <3>2
  <2> QED
    BY <1>1, <2>2, <2>3, <2>4
<1>2. DOMAIN (s \o t) = 1..Len(s \o t) /\ Len(s \o t) \in Nat
  OBVIOUS
<1> QED
  BY <1>1, <1>2 DEF IsInjective

\* One element.
LEMMA Single ==
    ASSUME NEW S, NEW x \in S
    PROVE  <<x>> \in Seq(S) /\ IsInjective(<<x>>) /\ ToSet(<<x>>) = {x}
BY DEF IsInjective, ToSet

\* Another element.
LEMMA AppendOne ==
    ASSUME NEW S, NEW s \in Seq(S), NEW x \in S, IsInjective(s), x \notin ToSet(s)
    PROVE  /\ Append(s, x) \in Seq(S) /\ IsInjective(Append(s, x))
           /\ ToSet(Append(s, x)) = ToSet(s) \cup {x}
<1> DEFINE one == <<x>>
<1>1. one \in Seq(S) /\ IsInjective(one) /\ ToSet(one) = {x}
  BY Single
<1>2. Append(s, x) = s \o one
  BY AppendIsConcat
<1> HIDE DEF one
<1>3. ToSet(s) \cap ToSet(one) = {}
  BY <1>1
<1>4. s \o one \in Seq(S) /\ ToSet(s \o one) = ToSet(s) \cup ToSet(one)
  BY <1>1, ToSetConcat
<1>5. IsInjective(s \o one)
  BY <1>1, <1>3, InjectiveConcat
<1> QED
  BY <1>1, <1>2, <1>4, <1>5

\* The two pieces of a sequence.
LEMMA Pieces ==
    ASSUME NEW S, NEW s \in Seq(S), NEW n \in 0..Len(s)
    PROVE  LET a == SubSeq(s, 1, n)
               b == SubSeq(s, n + 1, Len(s))
           IN  /\ a \in Seq(S) /\ Len(a) = n /\ \A i \in 1..n : a[i] = s[i] /\ i \in 1..Len(s)
               /\ b \in Seq(S) /\ Len(b) = Len(s) - n
               /\ \A i \in 1..Len(b) : b[i] = s[n + i] /\ n + i \in 1..Len(s)
<1> DEFINE a == SubSeq(s, 1, n)
           b == SubSeq(s, n + 1, Len(s))
<1>1. n \in Nat /\ Len(s) \in Nat /\ n <= Len(s)
  OBVIOUS
<1>2. a \in Seq(S) /\ Len(a) = n
  BY <1>1
<1>3. \A i \in 1..n : a[i] = s[i] /\ i \in 1..Len(s)
  BY <1>1
<1>4. b \in Seq(S) /\ Len(b) = Len(s) - n
  BY <1>1
<1>5. \A i \in 1..(Len(s) - n) : b[i] = s[n + i] /\ n + i \in 1..Len(s)
  BY <1>1
<1> QED
  BY <1>2, <1>3, <1>4, <1>5

\* A sequence without repetition is cut in two.
LEMMA Cut ==
    ASSUME NEW S, NEW s \in Seq(S), IsInjective(s), NEW n \in 0..Len(s)
    PROVE  LET a == SubSeq(s, 1, n)
               b == SubSeq(s, n + 1, Len(s))
           IN  /\ a \in Seq(S) /\ b \in Seq(S) /\ Len(a) = n
               /\ IsInjective(a) /\ IsInjective(b)
               /\ ToSet(a) \cap ToSet(b) = {} /\ ToSet(a) \cup ToSet(b) = ToSet(s)
<1> DEFINE a == SubSeq(s, 1, n)
           b == SubSeq(s, n + 1, Len(s))
<1>1. /\ a \in Seq(S) /\ Len(a) = n
      /\ \A i \in 1..n : a[i] = s[i] /\ i \in 1..Len(s)
  BY Pieces
<1>2. /\ b \in Seq(S) /\ Len(b) = Len(s) - n
      /\ \A i \in 1..Len(b) : b[i] = s[n + i] /\ n + i \in 1..Len(s)
  BY Pieces
<1> HIDE DEF a, b
<1>3. IsInjective(a)
  BY <1>1, SequenceElements
<1>4. IsInjective(b)
  <2> SUFFICES ASSUME NEW i \in 1..Len(b), NEW j \in 1..Len(b), b[i] = b[j] PROVE i = j
    BY <1>2, SequenceElements
  <2>1. s[n + i] = s[n + j] /\ n + i \in 1..Len(s) /\ n + j \in 1..Len(s)
    BY <1>2
  <2>2. n + i = n + j
    BY <2>1, SequenceElements
  <2> QED
    BY <1>2, <2>2
<1>5. ToSet(a) \cap ToSet(b) = {}
  <2> SUFFICES ASSUME NEW i \in 1..n, NEW j \in 1..Len(b), a[i] = b[j] PROVE FALSE
    <3>1. /\ \A x \in ToSet(a) : \E i \in 1..n : x = a[i]
          /\ \A x \in ToSet(b) : \E j \in 1..Len(b) : x = b[j]
      BY <1>1, <1>2, SequenceElements
    <3> QED
      BY <3>1
  <2>1. s[i] = s[n + j] /\ i \in 1..Len(s) /\ n + j \in 1..Len(s)
    BY <1>1, <1>2
  <2>2. i = n + j
    BY <2>1, SequenceElements
  <2> QED
    BY <1>2, <2>2
<1>6. ToSet(a) \cup ToSet(b) \subseteq ToSet(s)
  <2>1. \A x \in ToSet(a) : \E i \in 1..n : x = a[i]
    BY <1>1, SequenceElements
  <2>2. \A x \in ToSet(b) : \E i \in 1..Len(b) : x = b[i]
    BY <1>2, SequenceElements
  <2>3. \A i \in 1..Len(s) : s[i] \in ToSet(s)
    BY SequenceElements
  <2> QED
    BY <1>1, <1>2, <2>1, <2>2, <2>3
<1>7. ASSUME NEW i \in 1..Len(s) PROVE s[i] \in ToSet(a) \cup ToSet(b)
  <2>1. CASE i <= n
    BY <1>1, <2>1, SequenceElements
  <2>2. CASE i > n
    <3>1. i - n \in 1..Len(b) /\ b[i - n] = s[i]
      BY <1>2, <2>2
    <3> QED
      BY <1>2, <3>1, SequenceElements
  <2> QED
    BY <2>1, <2>2
<1> QED
  BY <1>1, <1>2, <1>3, <1>4, <1>5, <1>6, <1>7, SequenceElements DEF a, b

\* Without its head, a sequence without repetition has all elements but that.
LEMMA TailElements ==
    ASSUME NEW S, NEW s \in Seq(S), s # <<>>, IsInjective(s)
    PROVE  /\ Tail(s) \in Seq(S) /\ IsInjective(Tail(s)) /\ Head(s) \in ToSet(s)
           /\ ToSet(Tail(s)) = ToSet(s) \ {Head(s)}
<1>1. /\ Tail(s) \in Seq(S) /\ Len(Tail(s)) = Len(s) - 1 /\ Len(s) \in Nat \ {0}
      /\ \A i \in 1..(Len(s) - 1) : Tail(s)[i] = s[i + 1] /\ i + 1 \in 1..Len(s)
      /\ Head(s) = s[1] /\ 1 \in 1..Len(s)
  OBVIOUS
<1>2. \A i, j \in 1..Len(s) : s[i] = s[j] => i = j
  BY SequenceElements
<1>3. ASSUME NEW i \in 1..(Len(s) - 1), NEW j \in 1..(Len(s) - 1), Tail(s)[i] = Tail(s)[j]
      PROVE  i = j
  <2>1. i + 1 = j + 1
    BY <1>1, <1>2, <1>3
  <2> QED
    BY <1>1, <2>1
<1>4. IsInjective(Tail(s))
  BY <1>1, <1>3, SequenceElements
<1>5. ASSUME NEW x \in ToSet(Tail(s)) PROVE x \in ToSet(s) /\ x # Head(s)
  <2>0. \A y \in ToSet(Tail(s)) : \E i \in 1..Len(Tail(s)) : y = Tail(s)[i]
    BY <1>1, SequenceElements
  <2>1. PICK i \in 1..(Len(s) - 1) : x = Tail(s)[i]
    BY <1>1, <2>0
  <2>2. x = s[i + 1] /\ i + 1 \in 1..Len(s) /\ i + 1 # 1
    BY <1>1, <2>1
  <2> QED
    BY <1>1, <1>2, <2>2, SequenceElements
<1>6. ASSUME NEW x \in ToSet(s), x # Head(s) PROVE x \in ToSet(Tail(s))
  <2>1. PICK i \in 1..Len(s) : x = s[i]
    BY SequenceElements
  <2>2. i - 1 \in 1..(Len(s) - 1) /\ i = (i - 1) + 1
    BY <1>1, <1>6, <2>1
  <2>3. x = Tail(s)[i - 1] /\ i - 1 \in 1..Len(Tail(s))
    BY <1>1, <2>1, <2>2
  <2> QED
    BY <1>1, <2>3, SequenceElements
<1>7. Head(s) \in ToSet(s)
  BY <1>1, SequenceElements
<1> QED
  BY <1>1, <1>4, <1>5, <1>6, <1>7

\* A piece of a sequence has no other elements.
LEMMA PieceElements ==
    ASSUME NEW S, NEW s \in Seq(S), NEW n \in 0..Len(s)
    PROVE  /\ ToSet(SubSeq(s, 1, n)) \subseteq ToSet(s)
           /\ ToSet(SubSeq(s, n + 1, Len(s))) \subseteq ToSet(s)
<1> DEFINE a == SubSeq(s, 1, n)
           b == SubSeq(s, n + 1, Len(s))
<1>1. /\ a \in Seq(S) /\ Len(a) = n /\ \A i \in 1..n : a[i] = s[i] /\ i \in 1..Len(s)
      /\ b \in Seq(S) /\ Len(b) = Len(s) - n
      /\ \A i \in 1..Len(b) : b[i] = s[n + i] /\ n + i \in 1..Len(s)
  BY Pieces
<1>2. \A i \in 1..Len(s) : s[i] \in ToSet(s)
  BY SequenceElements
<1> HIDE DEF a, b
<1>3. /\ \A x \in ToSet(a) : \E i \in 1..Len(a) : x = a[i]
      /\ \A x \in ToSet(b) : \E i \in 1..Len(b) : x = b[i]
  BY <1>1, SequenceElements
<1>4. ToSet(a) \subseteq ToSet(s)
  BY <1>1, <1>2, <1>3
<1>5. ToSet(b) \subseteq ToSet(s)
  BY <1>1, <1>2, <1>3
<1> QED
  BY <1>4, <1>5 DEF a, b

\* The pigeonhole principle: n rows are written when the sequence has n elements.
LEMMA Pigeonhole ==
    ASSUME NEW n \in Nat, NEW s \in Seq(0..(n - 1)), IsInjective(s)
    PROVE  Len(s) <= n /\ (Len(s) = n => ToSet(s) = 0..(n - 1))
<1>1. s \in Injection(1..Len(s), 0..(n - 1)) /\ Len(s) \in Nat
  <2>1. s \in [1..Len(s) -> 0..(n - 1)] /\ Len(s) \in Nat
    OBVIOUS
  <2> QED
    BY <2>1 DEF Injection
<1>2. IsFiniteSet(0..(n - 1)) /\ Cardinality(0..(n - 1)) = n /\ Cardinality(1..Len(s)) = Len(s)
  <2>1. 0 \in Int /\ 1 \in Int /\ n - 1 \in Int /\ Len(s) \in Int /\ Len(s) >= 0
    BY <1>1
  <2>2. /\ IsFiniteSet(0..(n - 1))
        /\ Cardinality(0..(n - 1)) = IF 0 > n - 1 THEN 0 ELSE n - 1 - 0 + 1
    BY <2>1, FS_Interval
  <2>3. Cardinality(1..Len(s)) = IF 1 > Len(s) THEN 0 ELSE Len(s) - 1 + 1
    BY <2>1, FS_Interval
  <2> QED
    BY <2>1, <2>2, <2>3
<1>3. Len(s) <= n /\ (Len(s) = n => s \in Surjection(1..Len(s), 0..(n - 1)))
  BY <1>1, <1>2, FS_Injection
<1> QED
  BY <1>1, <1>3 DEF Surjection, ToSet

\* The ids of parts, one by one: all of them.
LEMMA AscendingElements ==
    ASSUME NEW a \in Nat, NEW b \in Int, NEW ids \in SUBSET (a..b), NEW s \in Ascending(ids)
    PROVE  s \in Seq(ids) /\ IsInjective(s) /\ ToSet(s) = ids
<1>1. IsFiniteSet(ids) /\ Cardinality(ids) \in Nat
  <2>1. IsFiniteSet(a..b)
    BY FS_Interval
  <2>2. IsFiniteSet(ids)
    BY <2>1, FS_Subset
  <2> QED
    BY <2>2, FS_CardinalityType
<1>2. s \in [1..Cardinality(ids) -> ids] /\ \A i, j \in 1..Cardinality(ids) : i < j => s[i] < s[j]
  BY DEF Ascending
<1>3. s \in Seq(ids) /\ Len(s) = Cardinality(ids)
  BY <1>1, <1>2
<1>4. IsInjective(s)
  <2>1. ids \subseteq Int
    OBVIOUS
  <2>2. \A i \in 1..Cardinality(ids) : s[i] \in Int
    BY <1>2, <2>1
  <2> QED
    BY <1>1, <1>2, <2>2 DEF IsInjective
<1>5. s \in Injection(1..Cardinality(ids), ids)
  BY <1>2, <1>4 DEF Injection
<1>6. Cardinality(1..Cardinality(ids)) = Cardinality(ids)
  BY <1>1, FS_Interval
<1>7. s \in Surjection(1..Cardinality(ids), ids)
  BY <1>1, <1>5, <1>6, FS_Injection
<1> QED
  BY <1>2, <1>3, <1>4, <1>7 DEF Surjection, ToSet

-----------------------------------------------------------------------------
(* The invariant *)

AllRows == [id : RowIds, tag : {"J", "E"}, refs : SUBSET RowIds]

FlightTypeOK ==
    /\ segment \in [RowIds -> Segments] /\ nextChunkId \in 1..MaxRows
    /\ pingedSegments \in Seq(RowIds) /\ attempted \in Seq(RowIds)
    /\ working \in BOOLEAN
    /\ completedJSONChunks \in Seq(AllRows) /\ completedErrorChunks \in Seq(AllRows)
    /\ destination \in Seq(AllRows) /\ written \in Seq(RowIds)

\* Ids are handed out one by one, and each has a segment.
IdsOK == \A id \in RowIds : segment[id] = "unused" <=> id >= nextChunkId

\* Who is to be attempted (again): no segment twice, and none that is finished.
PingsOK ==
    /\ IsInjective(pingedSegments) /\ IsInjective(attempted)
    /\ \A id \in ToSet(pingedSegments) \cup ToSet(attempted) : segment[id] = "pinged"
    /\ working => pingedSegments = <<>>
    /\ ~working => attempted = <<>>

\* The server works when there is something to attempt, and never after the end.
WorkOK ==
    /\ scheduled = IF pingedSegments = <<>> THEN 0 ELSE 1
    /\ working => closed = 0

FlightInv == FlightTypeOK /\ IdsOK /\ PingsOK /\ WorkOK /\ RowsAreAccounted

\* While a segment is not finished, a row is to be written, and the stream is open.
LEMMA UnfinishedIsOpen ==
    ASSUME FlightTypeOK, IdsOK, RowsAreAccounted,
           NEW id \in RowIds, segment[id] \in {"suspended", "pinged"}
    PROVE  closed = 0 /\ Len(written) \in Nat /\ Len(written) < nextChunkId
<1>1. id \in 0..(nextChunkId - 1) /\ id \notin Finished /\ nextChunkId \in Nat
  BY DEF FlightTypeOK, IdsOK, Finished, RowIds
<1>2. ToSet(written) \subseteq Finished /\ IsInjective(written)
  BY DEF RowsAreAccounted
<1>3. Finished \subseteq 0..(nextChunkId - 1)
  BY DEF FlightTypeOK, IdsOK, Finished, RowIds
<1>4. written \in Seq(0..(nextChunkId - 1)) /\ Len(written) \in Nat
  <2>1. written \in Seq(RowIds)
    BY DEF FlightTypeOK
  <2>2. ToSet(written) \subseteq 0..(nextChunkId - 1)
    BY <1>2, <1>3
  <2>3. written \in Seq(0..(nextChunkId - 1))
    BY <2>1, <2>2, SeqOver
  <2> QED
    BY <2>1, <2>3, LenProperties
<1>5. Len(written) <= nextChunkId /\ Len(written) # nextChunkId
  BY <1>1, <1>2, <1>4, Pigeonhole
<1> QED
  BY <1>1, <1>4, <1>5 DEF RowsAreAccounted

-----------------------------------------------------------------------------
(* Rows and their ids *)

LEMMA IdsOfSeq ==
    ASSUME NEW s \in Seq(AllRows)
    PROVE  /\ IdsOf(s) \in Seq(RowIds) /\ Len(IdsOf(s)) = Len(s)
           /\ \A i \in 1..Len(s) : IdsOf(s)[i] = s[i].id
<1>1. Len(s) \in Nat /\ \A i \in 1..Len(s) : s[i] \in AllRows
  OBVIOUS
<1>2. \A i \in 1..Len(s) : s[i].id \in RowIds
  BY <1>1 DEF AllRows
<1>3. IdsOf(s) = [i \in 1..Len(s) |-> s[i].id]
  BY DEF IdsOf
<1> QED
  BY <1>1, <1>2, <1>3

LEMMA IdsOfRows ==
    ASSUME NEW rows \in Seq(AllRows), NEW more \in Seq(AllRows), NEW n \in 0..Len(rows)
    PROVE  /\ IdsOf(rows \o more) = IdsOf(rows) \o IdsOf(more)
           /\ IdsOf(SubSeq(rows, 1, n)) = SubSeq(IdsOf(rows), 1, n)
           /\ IdsOf(SubSeq(rows, n + 1, Len(rows))) = SubSeq(IdsOf(rows), n + 1, Len(rows))
<1>1. IdsOf(rows \o more) = IdsOf(rows) \o IdsOf(more)
  <2>1. rows \o more \in Seq(AllRows) /\ Len(rows \o more) = Len(rows) + Len(more)
    OBVIOUS
  <2>2. /\ IdsOf(rows \o more) \in Seq(RowIds)
        /\ IdsOf(rows) \o IdsOf(more) \in Seq(RowIds)
        /\ Len(IdsOf(rows \o more)) = Len(rows) + Len(more)
        /\ Len(IdsOf(rows) \o IdsOf(more)) = Len(rows) + Len(more)
    <3>1. IdsOf(rows) \in Seq(RowIds) /\ Len(IdsOf(rows)) = Len(rows)
      BY IdsOfSeq
    <3>2. IdsOf(more) \in Seq(RowIds) /\ Len(IdsOf(more)) = Len(more)
      BY IdsOfSeq
    <3>3. /\ IdsOf(rows \o more) \in Seq(RowIds)
          /\ Len(IdsOf(rows \o more)) = Len(rows) + Len(more)
      BY <2>1, IdsOfSeq
    <3>4. /\ IdsOf(rows) \o IdsOf(more) \in Seq(RowIds)
          /\ Len(IdsOf(rows) \o IdsOf(more)) = Len(rows) + Len(more)
      BY <3>1, <3>2, ConcatProperties
    <3> QED
      BY <3>3, <3>4
  <2>3. ASSUME NEW i \in 1..(Len(rows) + Len(more))
        PROVE  IdsOf(rows \o more)[i] = (IdsOf(rows) \o IdsOf(more))[i]
    <3>1. IdsOf(rows \o more)[i] = (rows \o more)[i].id
      BY <2>1, IdsOfSeq
    <3>2. CASE i <= Len(rows)
      BY <3>1, <3>2, IdsOfSeq
    <3>3. CASE i > Len(rows)
      <4>1. i - Len(rows) \in 1..Len(more) /\ (rows \o more)[i] = more[i - Len(rows)]
        BY <3>3
      <4>2. IdsOf(more)[i - Len(rows)] = more[i - Len(rows)].id
        BY <4>1, IdsOfSeq
      <4>3. /\ IdsOf(rows) \in Seq(RowIds) /\ Len(IdsOf(rows)) = Len(rows)
            /\ IdsOf(more) \in Seq(RowIds) /\ Len(IdsOf(more)) = Len(more)
        BY IdsOfSeq
      <4>4. (IdsOf(rows) \o IdsOf(more))[i] = IdsOf(more)[i - Len(rows)]
        BY <3>3, <4>3
      <4> QED
        BY <3>1, <4>1, <4>2, <4>4
    <3>4. i <= Len(rows) \/ i > Len(rows)
      OBVIOUS
    <3> QED
      BY <3>2, <3>3, <3>4, Zenon
  <2> QED
    BY <2>2, <2>3, SeqEqual
<1>2. ASSUME NEW a \in 1..(n + 1), NEW b \in {n, Len(rows)}, <<a, b>> \in {<<1, n>>, <<n + 1, Len(rows)>>}
      PROVE  IdsOf(SubSeq(rows, a, b)) = SubSeq(IdsOf(rows), a, b)
  <2>1. /\ SubSeq(rows, a, b) \in Seq(AllRows) /\ Len(SubSeq(rows, a, b)) = b - a + 1
        /\ \A i \in 1..(b - a + 1) : SubSeq(rows, a, b)[i] = rows[a + i - 1] /\ a + i - 1 \in 1..Len(rows)
    BY <1>2
  <2>2. /\ SubSeq(IdsOf(rows), a, b) \in Seq(RowIds) /\ Len(SubSeq(IdsOf(rows), a, b)) = b - a + 1
        /\ \A i \in 1..(b - a + 1) : SubSeq(IdsOf(rows), a, b)[i] = IdsOf(rows)[a + i - 1]
    <3>1. IdsOf(rows) \in Seq(RowIds) /\ Len(IdsOf(rows)) = Len(rows)
      BY IdsOfSeq
    <3> QED
      BY <1>2, <3>1
  <2>3. /\ IdsOf(SubSeq(rows, a, b)) \in Seq(RowIds) /\ Len(IdsOf(SubSeq(rows, a, b))) = b - a + 1
        /\ \A i \in 1..(b - a + 1) : IdsOf(SubSeq(rows, a, b))[i] = rows[a + i - 1].id
    BY <2>1, IdsOfSeq
  <2>4. \A i \in 1..(b - a + 1) : IdsOf(rows)[a + i - 1] = rows[a + i - 1].id
    BY <2>1, IdsOfSeq
  <2> QED
    BY <2>2, <2>3, <2>4, SeqEqual
<1>3. n \in Nat /\ Len(rows) \in Nat
  OBVIOUS
<1>4. IdsOf(SubSeq(rows, 1, n)) = SubSeq(IdsOf(rows), 1, n)
  <2>1. 1 \in 1..(n + 1) /\ n \in {n, Len(rows)}
    BY <1>3
  <2> QED
    BY <1>2, <2>1, Zenon
<1>5. IdsOf(SubSeq(rows, n + 1, Len(rows))) = SubSeq(IdsOf(rows), n + 1, Len(rows))
  <2>1. n + 1 \in 1..(n + 1) /\ Len(rows) \in {n, Len(rows)}
    BY <1>3
  <2> QED
    BY <1>2, <2>1, Zenon
<1> QED
  BY <1>1, <1>4, <1>5

LEMMA TakenOK ==
    ASSUME NEW rows \in Seq(AllRows), NEW buffer \in Seq(AllRows)
    PROVE  Taken(rows, buffer) \in 0..Len(rows)
BY CapacityAssumption DEF Taken

-----------------------------------------------------------------------------
(* The steps *)

\* What a loop of flushCompletedChunks takes from the rows that wait.
LEMMA WriteSome ==
    ASSUME NEW W \in Seq(RowIds), NEW rows \in Seq(AllRows), NEW n \in 0..Len(rows),
           IsInjective(W), IsInjective(IdsOf(rows)), ToSet(W) \cap ToSet(IdsOf(rows)) = {}
    PROVE  LET some == SubSeq(rows, 1, n)
               rest == SubSeq(rows, n + 1, Len(rows))
           IN  /\ some \in Seq(AllRows) /\ rest \in Seq(AllRows) /\ Len(some) = n
               /\ W \o IdsOf(some) \in Seq(RowIds) /\ Len(W \o IdsOf(some)) = Len(W) + n
               /\ IsInjective(W \o IdsOf(some)) /\ IsInjective(IdsOf(rest))
               /\ ToSet(W \o IdsOf(some)) \cap ToSet(IdsOf(rest)) = {}
               /\ ToSet(W \o IdsOf(some)) \cup ToSet(IdsOf(rest)) = ToSet(W) \cup ToSet(IdsOf(rows))
               /\ ToSet(W \o IdsOf(some)) \subseteq ToSet(W) \cup ToSet(IdsOf(rows))
               /\ ToSet(IdsOf(rest)) \subseteq ToSet(IdsOf(rows))
<1> DEFINE some == SubSeq(rows, 1, n)
           rest == SubSeq(rows, n + 1, Len(rows))
           ids  == IdsOf(rows)
<1>1. some \in Seq(AllRows) /\ rest \in Seq(AllRows) /\ Len(some) = n
  OBVIOUS
<1>2. ids \in Seq(RowIds) /\ Len(ids) = Len(rows)
  BY IdsOfSeq
<1>3. IdsOf(some) = SubSeq(ids, 1, n) /\ IdsOf(rest) = SubSeq(ids, n + 1, Len(ids))
  BY <1>2, IdsOfRows
<1> HIDE DEF some, rest, ids
<1>4. /\ IdsOf(some) \in Seq(RowIds) /\ Len(IdsOf(some)) = n
      /\ IsInjective(IdsOf(some)) /\ IsInjective(IdsOf(rest))
      /\ ToSet(IdsOf(some)) \cap ToSet(IdsOf(rest)) = {}
      /\ ToSet(IdsOf(some)) \cup ToSet(IdsOf(rest)) = ToSet(ids)
  <2>1. IsInjective(ids) /\ n \in 0..Len(ids)
    BY <1>2 DEF ids
  <2> QED
    BY <1>2, <1>3, <2>1, Cut
<1>5. ToSet(W) \cap ToSet(ids) = {}
  BY DEF ids
<1>6. /\ W \o IdsOf(some) \in Seq(RowIds) /\ Len(W \o IdsOf(some)) = Len(W) + n
      /\ ToSet(W \o IdsOf(some)) = ToSet(W) \cup ToSet(IdsOf(some))
  BY <1>4, ToSetConcat
<1>7. IsInjective(W \o IdsOf(some))
  BY <1>4, <1>5, InjectiveConcat
<1> QED
  BY <1>1, <1>4, <1>5, <1>6, <1>7 DEF some, rest, ids

\* flushCompletedChunks moves the first m models and the first n errors.
LEMMA FlushTakes ==
    ASSUME FlightTypeOK, flushCompletedChunks
    PROVE  \E m \in 0..Len(completedJSONChunks), n \in 0..Len(completedErrorChunks) :
             LET models == SubSeq(completedJSONChunks, 1, m)
                 errors == SubSeq(completedErrorChunks, 1, n)
             IN  /\ destination' = (destination \o models) \o errors
                 /\ completedJSONChunks' = SubSeq(completedJSONChunks, m + 1, Len(completedJSONChunks))
                 /\ completedErrorChunks' = SubSeq(completedErrorChunks, n + 1, Len(completedErrorChunks))
                 /\ pendingChunks' = pendingChunks - m - n
                 /\ closed' = IF pendingChunks' = 0 THEN closed + 1 ELSE closed
                 /\ written' = (written \o IdsOf(models)) \o IdsOf(errors)
<1> DEFINE J == completedJSONChunks
           E == completedErrorChunks
           m == Taken(J, destination)
           models == SubSeq(J, 1, m)
           buffer == destination \o models
           n == Taken(E, buffer)
           errors == SubSeq(E, 1, n)
<1>1. /\ J \in Seq(AllRows) /\ E \in Seq(AllRows) /\ destination \in Seq(AllRows)
  BY DEF FlightTypeOK
<1>2. m \in 0..Len(J)
  BY <1>1, TakenOK
<1>3. models \in Seq(AllRows) /\ buffer \in Seq(AllRows) /\ Len(models) = m
  BY <1>1, <1>2
<1>4. n \in 0..Len(E)
  BY <1>1, <1>3, TakenOK
<1>5. Len(errors) = n
  BY <1>1, <1>3, <1>4
<1>6. /\ destination' = buffer \o errors
      /\ completedJSONChunks' = SubSeq(J, m + 1, Len(J))
      /\ completedErrorChunks' = SubSeq(E, n + 1, Len(E))
      /\ pendingChunks' = pendingChunks - m - n
      /\ closed' = IF pendingChunks' = 0 THEN closed + 1 ELSE closed
      /\ written' = (written \o IdsOf(models)) \o IdsOf(errors)
  BY <1>3, <1>5 DEF flushCompletedChunks
<1> HIDE DEF m, n
<1> QED
  BY <1>2, <1>4, <1>6

\* flushCompletedChunks, while the stream is open.
LEMMA FlushStep ==
    ASSUME FlightTypeOK, RowsAreAccounted, closed = 0, flushCompletedChunks,
           UNCHANGED <<segment, nextChunkId>>
    PROVE  /\ completedJSONChunks' \in Seq(AllRows) /\ completedErrorChunks' \in Seq(AllRows)
           /\ destination' \in Seq(AllRows) /\ written' \in Seq(RowIds)
           /\ RowsAreAccounted'
<1> DEFINE J == completedJSONChunks
           E == completedErrorChunks
<1>1. /\ J \in Seq(AllRows) /\ E \in Seq(AllRows) /\ destination \in Seq(AllRows)
      /\ written \in Seq(RowIds)
  BY DEF FlightTypeOK
<1>2. PICK m \in 0..Len(J), n \in 0..Len(E) :
        /\ destination' = (destination \o SubSeq(J, 1, m)) \o SubSeq(E, 1, n)
        /\ completedJSONChunks' = SubSeq(J, m + 1, Len(J))
        /\ completedErrorChunks' = SubSeq(E, n + 1, Len(E))
        /\ pendingChunks' = pendingChunks - m - n
        /\ closed' = IF pendingChunks' = 0 THEN closed + 1 ELSE closed
        /\ written' = (written \o IdsOf(SubSeq(J, 1, m))) \o IdsOf(SubSeq(E, 1, n))
  BY FlushTakes
<1> DEFINE models == SubSeq(J, 1, m)
           errors == SubSeq(E, 1, n)
           W == written \o IdsOf(models)
<1>4. m \in 0..Len(J) /\ n \in 0..Len(E)
  OBVIOUS
<1>5. models \in Seq(AllRows) /\ errors \in Seq(AllRows) /\ (destination \o models) \o errors \in Seq(AllRows)
  <2>1. models \in Seq(AllRows) /\ errors \in Seq(AllRows)
    BY <1>1, <1>4
  <2> QED
    BY <1>1, <2>1
<1>6. /\ destination' = (destination \o models) \o errors
      /\ completedJSONChunks' = SubSeq(J, m + 1, Len(J))
      /\ completedErrorChunks' = SubSeq(E, n + 1, Len(E))
      /\ pendingChunks' = pendingChunks - m - n
      /\ closed' = IF pendingChunks' = 0 THEN closed + 1 ELSE closed
      /\ written' = W \o IdsOf(errors)
  BY <1>2
<1> HIDE DEF J, E, models, errors, W
<1>7. /\ IsInjective(written) /\ IsInjective(IdsOf(J)) /\ IsInjective(IdsOf(E))
      /\ ToSet(written) \cap ToSet(IdsOf(J)) = {}
      /\ ToSet(written) \cap ToSet(IdsOf(E)) = {}
      /\ ToSet(IdsOf(J)) \cap ToSet(IdsOf(E)) = {}
      /\ (ToSet(written) \cup ToSet(IdsOf(J))) \cup ToSet(IdsOf(E)) = Finished
      /\ pendingChunks = nextChunkId - Len(written)
  BY DEF RowsAreAccounted, ModelsWaiting, ErrorsWaiting, J, E
<1>8. LET rest == SubSeq(J, m + 1, Len(J))
      IN  /\ rest \in Seq(AllRows)
          /\ W \in Seq(RowIds) /\ Len(W) = Len(written) + m
          /\ IsInjective(W) /\ IsInjective(IdsOf(rest))
          /\ ToSet(W) \cap ToSet(IdsOf(rest)) = {}
          /\ ToSet(W) \cup ToSet(IdsOf(rest)) = ToSet(written) \cup ToSet(IdsOf(J))
          /\ ToSet(W) \subseteq ToSet(written) \cup ToSet(IdsOf(J))
          /\ ToSet(IdsOf(rest)) \subseteq ToSet(IdsOf(J))
  BY <1>1, <1>4, <1>7, WriteSome DEF W, models
<1>9. ToSet(W) \cap ToSet(IdsOf(E)) = {}
  BY <1>7, <1>8
<1>10. LET rest == SubSeq(E, n + 1, Len(E))
           all  == W \o IdsOf(errors)
       IN  /\ rest \in Seq(AllRows)
           /\ all \in Seq(RowIds) /\ Len(all) = Len(W) + n
           /\ IsInjective(all) /\ IsInjective(IdsOf(rest))
           /\ ToSet(all) \cap ToSet(IdsOf(rest)) = {}
           /\ ToSet(all) \cup ToSet(IdsOf(rest)) = ToSet(W) \cup ToSet(IdsOf(E))
           /\ ToSet(all) \subseteq ToSet(W) \cup ToSet(IdsOf(E))
           /\ ToSet(IdsOf(rest)) \subseteq ToSet(IdsOf(E))
  BY <1>1, <1>4, <1>7, <1>8, <1>9, WriteSome DEF errors
<1>11. /\ IsInjective(written') /\ IsInjective(IdsOf(completedJSONChunks'))
       /\ IsInjective(IdsOf(completedErrorChunks'))
       /\ ToSet(written') \cap ToSet(IdsOf(completedErrorChunks')) = {}
  BY <1>6, <1>8, <1>10
<1>12. /\ ToSet(written') \cap ToSet(IdsOf(completedJSONChunks')) = {}
       /\ ToSet(IdsOf(completedJSONChunks')) \cap ToSet(IdsOf(completedErrorChunks')) = {}
  BY <1>6, <1>7, <1>8, <1>10
<1>13. (ToSet(written') \cup ToSet(IdsOf(completedJSONChunks'))) \cup ToSet(IdsOf(completedErrorChunks'))
         = Finished'
  <2>1. Finished' = Finished
    BY DEF Finished
  <2> QED
    BY <1>6, <1>7, <1>8, <1>10, <2>1
<1>14. pendingChunks' = nextChunkId' - Len(written')
  <2>1. nextChunkId \in Int /\ Len(written) \in Int /\ m \in Int /\ n \in Int
    BY <1>1, <1>4 DEF FlightTypeOK
  <2>2. Len(written') = Len(written) + m + n
    BY <1>6, <1>8, <1>10
  <2> QED
    BY <1>6, <1>7, <2>1, <2>2
<1>15. closed' = IF pendingChunks' = 0 THEN 1 ELSE 0
  BY <1>6
<1>16. RowsAreAccounted'
  BY <1>11, <1>12, <1>13, <1>14, <1>15 DEF RowsAreAccounted, ModelsWaiting, ErrorsWaiting
<1> QED
  BY <1>1, <1>5, <1>6, <1>8, <1>10, <1>16

\* What retrySegment makes of the ids: those it hands out, and its own.
LEMMA RetryIds ==
    ASSUME FlightTypeOK, IdsOK, NEW result \in {"model", "error", "suspended"}, NEW parts \in Parts,
           NEW id \in RowIds, segment[id] = "pinged",
           nextChunkId' = nextChunkId + Len(parts),
           segment' = [s \in RowIds |-> IF s = id THEN result
                                        ELSE IF s \in NewIds(parts) THEN parts[s - nextChunkId + 1]
                                        ELSE segment[s]]
    PROVE  /\ Len(parts) \in Nat /\ nextChunkId' \in 1..MaxRows
           /\ NewIds(parts) \subseteq RowIds /\ id \notin NewIds(parts)
           /\ segment' \in [RowIds -> Segments] /\ IdsOK'
           /\ Thrown(parts) \subseteq NewIds(parts) /\ NewIds(parts) \cap Finished = {}
           /\ Finished' = (Finished \cup Thrown(parts))
                            \cup (IF result = "suspended" THEN {} ELSE {id})
           /\ id \notin Finished
<1>1. PICK n \in 0..(MaxRows - nextChunkId) : parts \in [1..n -> {"suspended", "error"}]
  BY DEF Parts
<1>2. nextChunkId \in 1..MaxRows /\ MaxRows \in Nat
  BY RowsAssumption DEF FlightTypeOK
<1>3. Len(parts) = n /\ n \in Nat /\ nextChunkId + n \in 1..MaxRows
  BY <1>1, <1>2
<1>4. NewIds(parts) = nextChunkId .. (nextChunkId + n - 1)
  BY <1>3 DEF NewIds
<1>5. NewIds(parts) \subseteq RowIds
  BY <1>2, <1>3, <1>4 DEF RowIds
<1>6. \A s \in NewIds(parts) : segment[s] = "unused" /\ parts[s - nextChunkId + 1] \in {"suspended", "error"}
  <2> SUFFICES ASSUME NEW s \in NewIds(parts)
               PROVE  segment[s] = "unused" /\ parts[s - nextChunkId + 1] \in {"suspended", "error"}
    OBVIOUS
  <2>1. s \in RowIds /\ s >= nextChunkId
    BY <1>2, <1>3, <1>4, <1>5
  <2>2. s - nextChunkId + 1 \in 1..n
    BY <1>2, <1>3, <1>4
  <2> QED
    BY <1>1, <2>1, <2>2 DEF IdsOK
<1>7. id \notin NewIds(parts) /\ id < nextChunkId /\ id \notin Finished
  <2>1. segment[id] # "unused" /\ id \in Int
    BY DEF RowIds
  <2> QED
    BY <1>2, <1>6, <2>1 DEF IdsOK, Finished, RowIds
<1>8. segment' \in [RowIds -> Segments]
  BY <1>6 DEF FlightTypeOK, Segments
<1>9. ASSUME NEW s \in RowIds
      PROVE  /\ segment'[s] = "unused" <=> s >= nextChunkId'
             /\ s \in Finished' <=> \/ s \in Finished
                                     \/ s \in Thrown(parts)
                                     \/ (s = id /\ result # "suspended")
  <2>0. s \in Int /\ Thrown(parts) \subseteq NewIds(parts)
    BY DEF RowIds, Thrown
  <2>1. CASE s = id
    <3>1. segment'[s] = result
      BY <2>1
    <3>2. s < nextChunkId'
      BY <1>2, <1>3, <1>7, <2>1, <2>0
    <3>3. s \notin Finished /\ s \notin Thrown(parts)
      BY <1>7, <2>0, <2>1
    <3>4. segment'[s] # "unused" /\ ~(s >= nextChunkId')
      BY <1>2, <1>3, <3>1, <3>2, <2>0
    <3> QED
      BY <2>1, <3>1, <3>3, <3>4 DEF Finished
  <2>2. CASE s # id /\ s \in NewIds(parts)
    <3>1. segment'[s] = parts[s - nextChunkId + 1] /\ segment'[s] \in {"suspended", "error"}
      BY <1>6, <2>2
    <3>2. ~(s >= nextChunkId')
      BY <1>2, <1>3, <1>4, <2>0, <2>2
    <3>3. s \notin Finished
      BY <1>6, <2>2 DEF Finished
    <3>4. s \in Thrown(parts) <=> segment'[s] = "error"
      BY <2>2, <3>1 DEF Thrown
    <3> QED
      BY <2>2, <3>1, <3>2, <3>3, <3>4 DEF Finished
  <2>3. CASE s # id /\ s \notin NewIds(parts)
    <3>1. segment'[s] = segment[s] /\ s \notin Thrown(parts)
      BY <2>0, <2>3
    <3>2. s >= nextChunkId <=> s >= nextChunkId'
      BY <1>2, <1>3, <1>4, <2>0, <2>3
    <3> QED
      BY <2>3, <3>1, <3>2 DEF Finished, IdsOK
  <2> QED
    BY <2>1, <2>2, <2>3
<1>10. NewIds(parts) \cap Finished = {}
  BY <1>6 DEF Finished
<1>11. Thrown(parts) \subseteq NewIds(parts) /\ Thrown(parts) \subseteq RowIds
  BY <1>5 DEF Thrown
<1>12. Finished' = (Finished \cup Thrown(parts)) \cup (IF result = "suspended" THEN {} ELSE {id})
  <2>1. Finished' \subseteq RowIds /\ Finished \subseteq RowIds
    BY DEF Finished
  <2>2. CASE result = "suspended"
    BY <1>9, <1>11, <2>1, <2>2
  <2>3. CASE result # "suspended"
    BY <1>9, <1>11, <2>1, <2>3
  <2> QED
    BY <2>2, <2>3
<1>13. IdsOK'
  BY <1>9 DEF IdsOK
<1> QED
  BY <1>2, <1>3, <1>5, <1>7, <1>8, <1>10, <1>11, <1>12, <1>13

\* Rows are added to those that wait.
LEMMA AddRows ==
    ASSUME NEW rows \in Seq(AllRows), NEW new \in Seq(AllRows), NEW taken,
           IsInjective(IdsOf(rows)), IsInjective(IdsOf(new)),
           ToSet(IdsOf(rows)) \subseteq taken, ToSet(IdsOf(new)) \cap taken = {}
    PROVE  /\ rows \o new \in Seq(AllRows) /\ IsInjective(IdsOf(rows \o new))
           /\ ToSet(IdsOf(rows \o new)) = ToSet(IdsOf(rows)) \cup ToSet(IdsOf(new))
<1>1. IdsOf(rows) \in Seq(RowIds) /\ IdsOf(new) \in Seq(RowIds)
  BY IdsOfSeq
<1>2. IdsOf(rows \o new) = IdsOf(rows) \o IdsOf(new)
  <2>1. 0 \in 0..Len(rows)
    OBVIOUS
  <2> QED
    BY <2>1, IdsOfRows
<1>3. rows \o new \in Seq(AllRows)
  BY ConcatProperties
<1>4. ToSet(IdsOf(rows)) \cap ToSet(IdsOf(new)) = {}
  OBVIOUS
<1> QED
  BY <1>1, <1>2, <1>3, <1>4, ToSetConcat, InjectiveConcat

\* The row of a model, if there is one, and those of errors.
LEMMA ModelRow ==
    ASSUME NEW id \in RowIds, NEW refs \in SUBSET RowIds
    PROVE  /\ <<Row(id, "J", refs)>> \in Seq(AllRows)
           /\ IdsOf(<<Row(id, "J", refs)>>) = <<id>>
<1>1. Row(id, "J", refs) \in AllRows /\ Row(id, "J", refs).id = id
  BY DEF Row, AllRows
<1>2. <<Row(id, "J", refs)>> \in Seq(AllRows)
  BY <1>1
<1> QED
  BY <1>1, <1>2 DEF IdsOf

LEMMA ErrorRows ==
    ASSUME NEW errors \in Seq(RowIds)
    PROVE  LET rows == [i \in DOMAIN errors |-> Row(errors[i], "E", {})]
           IN  rows \in Seq(AllRows) /\ IdsOf(rows) = errors
<1> DEFINE rows == [i \in DOMAIN errors |-> Row(errors[i], "E", {})]
<1>1. DOMAIN errors = 1..Len(errors) /\ Len(errors) \in Nat /\ \A i \in 1..Len(errors) : errors[i] \in RowIds
  OBVIOUS
<1>2. \A i \in 1..Len(errors) : Row(errors[i], "E", {}) \in AllRows /\ Row(errors[i], "E", {}).id = errors[i]
  BY <1>1 DEF Row, AllRows
<1>3. rows \in [1..Len(errors) -> AllRows] /\ DOMAIN rows = 1..Len(errors)
  BY <1>1, <1>2
<1>4. rows \in Seq(AllRows) /\ Len(rows) = Len(errors)
  BY <1>1, <1>3
<1>5. \A i \in 1..Len(errors) : rows[i].id = errors[i]
  BY <1>1, <1>2
<1> HIDE DEF rows
<1>6. /\ IdsOf(rows) \in Seq(RowIds) /\ Len(IdsOf(rows)) = Len(errors)
      /\ \A i \in 1..Len(errors) : IdsOf(rows)[i] = errors[i]
  BY <1>4, <1>5, IdsOfSeq
<1>7. IdsOf(rows) = errors
  BY <1>6, SeqEqual
<1> QED
  BY <1>4, <1>7 DEF rows

\* retrySegment.
LEMMA RetryStep ==
    ASSUME FlightInv, NEW result \in {"model", "error", "suspended"}, NEW parts \in Parts,
           retrySegment(result, parts)
    PROVE  FlightInv'
<1> DEFINE id == Head(attempted)
           J == completedJSONChunks
           E == completedErrorChunks
<1>1. /\ attempted \in Seq(RowIds) /\ attempted # <<>> /\ working
      /\ J \in Seq(AllRows) /\ E \in Seq(AllRows) /\ written \in Seq(RowIds)
  BY DEF FlightInv, FlightTypeOK, retrySegment
<1>2. id \in RowIds /\ id \in ToSet(attempted)
  <2>1. IsInjective(attempted)
    BY DEF FlightInv, PingsOK
  <2> QED
    BY <1>1, <2>1, TailElements, SequenceElements
<1>3. segment[id] = "pinged"
  BY <1>2 DEF FlightInv, PingsOK
<1>4. PICK thrown \in Ascending(Thrown(parts)) :
        LET errors == IF result = "error" THEN Append(thrown, id) ELSE thrown
        IN  /\ segment' = [s \in RowIds |->
                             IF s = id THEN result
                             ELSE IF s \in NewIds(parts) THEN parts[s - nextChunkId + 1]
                             ELSE segment[s]]
            /\ completedErrorChunks' = E \o [i \in DOMAIN errors |-> Row(errors[i], "E", {})]
            /\ completedJSONChunks' = IF result = "model" THEN Append(J, Row(id, "J", NewIds(parts))) ELSE J
  BY DEF retrySegment
<1>5. /\ nextChunkId' = nextChunkId + Len(parts) /\ pendingChunks' = pendingChunks + Len(parts)
      /\ attempted' = Tail(attempted)
      /\ pingedSegments' = pingedSegments /\ working' = working /\ scheduled' = scheduled
      /\ destination' = destination /\ closed' = closed /\ written' = written
  BY DEF retrySegment, NewChunks, stream
<1> DEFINE errors == IF result = "error" THEN Append(thrown, id) ELSE thrown
           new == [i \in DOMAIN errors |-> Row(errors[i], "E", {})]
<1>6. /\ segment' = [s \in RowIds |->
                       IF s = id THEN result
                       ELSE IF s \in NewIds(parts) THEN parts[s - nextChunkId + 1]
                       ELSE segment[s]]
      /\ completedErrorChunks' = E \o new
      /\ completedJSONChunks' = IF result = "model" THEN Append(J, Row(id, "J", NewIds(parts))) ELSE J
  BY <1>4
<1> HIDE DEF id, J, E, errors, new
<1>7. /\ Len(parts) \in Nat /\ nextChunkId' \in 1..MaxRows
      /\ NewIds(parts) \subseteq RowIds /\ id \notin NewIds(parts)
      /\ segment' \in [RowIds -> Segments] /\ IdsOK'
      /\ Thrown(parts) \subseteq NewIds(parts) /\ NewIds(parts) \cap Finished = {}
      /\ Finished' = (Finished \cup Thrown(parts)) \cup (IF result = "suspended" THEN {} ELSE {id})
      /\ id \notin Finished
  BY <1>2, <1>3, <1>5, <1>6, RetryIds DEF FlightInv
<1>8. thrown \in Seq(RowIds) /\ IsInjective(thrown) /\ ToSet(thrown) = Thrown(parts)
  <2>1. /\ nextChunkId \in Nat /\ nextChunkId + Len(parts) - 1 \in Int
        /\ Thrown(parts) \in SUBSET (nextChunkId .. (nextChunkId + Len(parts) - 1))
    BY <1>7 DEF FlightInv, FlightTypeOK, NewIds
  <2>2. thrown \in Seq(Thrown(parts)) /\ IsInjective(thrown) /\ ToSet(thrown) = Thrown(parts)
    BY <2>1, AscendingElements
  <2>3. Thrown(parts) \subseteq RowIds
    BY <1>7
  <2> QED
    BY <2>2, <2>3, SeqOver
<1>9. /\ errors \in Seq(RowIds) /\ IsInjective(errors)
      /\ ToSet(errors) = Thrown(parts) \cup (IF result = "error" THEN {id} ELSE {})
  <2>1. CASE result = "error"
    <3>1. errors = Append(thrown, id)
      BY <2>1 DEF errors
    <3>2. id \notin ToSet(thrown)
      BY <1>7, <1>8
    <3> QED
      BY <1>2, <1>8, <2>1, <3>1, <3>2, AppendOne
  <2>2. CASE result # "error"
    BY <1>8, <2>2 DEF errors
  <2> QED
    BY <2>1, <2>2
<1>10. new \in Seq(AllRows) /\ IdsOf(new) = errors
  BY <1>9, ErrorRows DEF new
<1>11. /\ IsInjective(written) /\ IsInjective(IdsOf(J)) /\ IsInjective(IdsOf(E))
       /\ ToSet(written) \cap ToSet(IdsOf(J)) = {}
       /\ ToSet(written) \cap ToSet(IdsOf(E)) = {}
       /\ ToSet(IdsOf(J)) \cap ToSet(IdsOf(E)) = {}
       /\ (ToSet(written) \cup ToSet(IdsOf(J))) \cup ToSet(IdsOf(E)) = Finished
       /\ pendingChunks = nextChunkId - Len(written)
  BY DEF FlightInv, RowsAreAccounted, ModelsWaiting, ErrorsWaiting, J, E
<1>12. /\ completedErrorChunks' \in Seq(AllRows) /\ IsInjective(IdsOf(completedErrorChunks'))
       /\ ToSet(IdsOf(completedErrorChunks')) = ToSet(IdsOf(E)) \cup ToSet(errors)
  <2>1. ToSet(IdsOf(E)) \subseteq Finished /\ ToSet(IdsOf(new)) \cap Finished = {}
    BY <1>7, <1>9, <1>10, <1>11
  <2> QED
    BY <1>1, <1>6, <1>9, <1>10, <1>11, <2>1, AddRows
<1>13. /\ completedJSONChunks' \in Seq(AllRows) /\ IsInjective(IdsOf(completedJSONChunks'))
       /\ ToSet(IdsOf(completedJSONChunks')) = ToSet(IdsOf(J)) \cup (IF result = "model" THEN {id} ELSE {})
  <2>1. CASE result = "model"
    <3>1. /\ <<Row(id, "J", NewIds(parts))>> \in Seq(AllRows)
          /\ IdsOf(<<Row(id, "J", NewIds(parts))>>) = <<id>>
      BY <1>2, <1>7, ModelRow
    <3>2. completedJSONChunks' = J \o <<Row(id, "J", NewIds(parts))>>
      <4>1. Row(id, "J", NewIds(parts)) \in AllRows
        BY <1>2, <1>7 DEF Row, AllRows
      <4> QED
        BY <1>1, <1>6, <2>1, <4>1, AppendIsConcat
    <3>3. IsInjective(<<id>>) /\ ToSet(<<id>>) = {id}
      BY <1>2, Single
    <3>4. ToSet(IdsOf(J)) \subseteq Finished /\ {id} \cap Finished = {}
      BY <1>7, <1>11
    <3>5. /\ IsInjective(IdsOf(<<Row(id, "J", NewIds(parts))>>))
          /\ ToSet(IdsOf(<<Row(id, "J", NewIds(parts))>>)) = {id}
      BY <3>1, <3>3
    <3> QED
      BY <1>1, <1>11, <2>1, <3>1, <3>2, <3>4, <3>5, AddRows
  <2>2. CASE result # "model"
    BY <1>1, <1>6, <1>11, <2>2
  <2> QED
    BY <2>1, <2>2
<1>14. closed = 0 /\ Len(written) \in Nat /\ Len(written) < nextChunkId /\ nextChunkId \in Nat
  BY <1>2, <1>3, UnfinishedIsOpen DEF FlightInv, FlightTypeOK
<1>15. RowsAreAccounted'
  <2>1. /\ ToSet(written) \cap (Thrown(parts) \cup {id}) = {}
        /\ ToSet(IdsOf(J)) \cap (Thrown(parts) \cup {id}) = {}
        /\ ToSet(IdsOf(E)) \cap (Thrown(parts) \cup {id}) = {}
        /\ id \notin Thrown(parts)
    BY <1>7, <1>11
  <2>2. /\ ToSet(written) \cap ToSet(IdsOf(completedJSONChunks')) = {}
        /\ ToSet(written) \cap ToSet(IdsOf(completedErrorChunks')) = {}
    BY <1>9, <1>11, <1>12, <1>13, <2>1
  <2>3. ToSet(IdsOf(completedJSONChunks')) \cap ToSet(IdsOf(completedErrorChunks')) = {}
    BY <1>9, <1>11, <1>12, <1>13, <2>1
  <2>4. (ToSet(written) \cup ToSet(IdsOf(completedJSONChunks'))) \cup ToSet(IdsOf(completedErrorChunks'))
          = Finished'
    <3>1. CASE result = "model"
      BY <1>7, <1>9, <1>11, <1>12, <1>13, <3>1
    <3>2. CASE result = "error"
      BY <1>7, <1>9, <1>11, <1>12, <1>13, <3>2
    <3>3. CASE result = "suspended"
      BY <1>7, <1>9, <1>11, <1>12, <1>13, <3>3
    <3> QED
      BY <3>1, <3>2, <3>3
  <2>5. pendingChunks' = nextChunkId' - Len(written) /\ pendingChunks' # 0
    BY <1>5, <1>7, <1>11, <1>14
  <2> QED
    BY <1>5, <1>11, <1>12, <1>13, <1>14, <2>2, <2>3, <2>4, <2>5
    DEF RowsAreAccounted, ModelsWaiting, ErrorsWaiting
<1>16. FlightTypeOK'
  <2>1. Tail(attempted) \in Seq(RowIds)
    BY <1>1
  <2> QED
    BY <1>5, <1>7, <1>12, <1>13, <2>1 DEF FlightInv, FlightTypeOK
<1>17. PingsOK'
  <2>1. /\ IsInjective(Tail(attempted))
        /\ \A s \in ToSet(Tail(attempted)) : s \in ToSet(attempted) /\ s # id
    BY <1>1, TailElements DEF id, FlightInv, PingsOK
  <2>2. ASSUME NEW s \in ToSet(attempted), s # id PROVE segment'[s] = "pinged"
    <3>1. segment[s] = "pinged" /\ s \in RowIds
      BY <1>1, SequenceElements DEF FlightInv, PingsOK
    <3>2. s \notin NewIds(parts)
      BY <3>1 DEF FlightInv, FlightTypeOK, IdsOK, NewIds, RowIds
    <3> QED
      BY <1>6, <2>2, <3>1, <3>2
  <2>3. pingedSegments = <<>> /\ ToSet(pingedSegments) = {}
    BY <1>1 DEF FlightInv, PingsOK, ToSet
  <2>4. IsInjective(pingedSegments)
    BY DEF FlightInv, PingsOK
  <2> QED
    BY <1>1, <1>5, <2>1, <2>2, <2>3, <2>4 DEF PingsOK
<1>18. WorkOK'
  BY <1>5, <1>14 DEF FlightInv, WorkOK
<1> QED
  BY <1>7, <1>15, <1>16, <1>17, <1>18 DEF FlightInv

LEMMA FlightInvInit == FlightInit => FlightInv
<1> SUFFICES ASSUME FlightInit PROVE FlightInv
  OBVIOUS
<1>1. 0 \in RowIds
  BY RowsAssumption DEF RowIds
<1>2. /\ <<0>> \in Seq(RowIds) /\ IsInjective(<<0>>) /\ ToSet(<<0>>) = {0}
  BY <1>1, Single
<1>3. FlightTypeOK
  BY <1>1, <1>2, RowsAssumption DEF FlightInit, FlightTypeOK, Segments
<1>4. IdsOK
  BY DEF FlightInit, IdsOK, RowIds
<1>5. IsInjective(<<>>) /\ ToSet(<<>>) = {} /\ IdsOf(<<>>) = <<>>
  BY DEF IsInjective, ToSet, IdsOf
<1>6. PingsOK
  BY <1>1, <1>2, <1>5 DEF FlightInit, PingsOK
<1>7. WorkOK
  BY DEF FlightInit, WorkOK
<1>8. Finished = {}
  BY DEF FlightInit, Finished
<1>9. RowsAreAccounted
  BY <1>5, <1>8 DEF FlightInit, RowsAreAccounted, ModelsWaiting, ErrorsWaiting
<1> QED
  BY <1>3, <1>4, <1>6, <1>7, <1>9 DEF FlightInv

\* A step that leaves rows and segments alone.
LEMMA OthersStep ==
    ASSUME FlightInv,
           UNCHANGED <<segment, nextChunkId, pingedSegments, attempted, working, scheduled,
                       pendingChunks, completedJSONChunks, completedErrorChunks, closed, written>>,
           destination' \in Seq(AllRows)
    PROVE  FlightInv'
BY DEF FlightInv, FlightTypeOK, IdsOK, PingsOK, WorkOK, RowsAreAccounted, Finished,
       ModelsWaiting, ErrorsWaiting

LEMMA FlightInvStep == FlightInv /\ [FlightNext]_flightVars => FlightInv'
<1> SUFFICES ASSUME FlightInv, [FlightNext]_flightVars PROVE FlightInv'
  OBVIOUS
<1>1. ASSUME NEW id \in RowIds, pingSegment(id) PROVE FlightInv'
  <2>1. /\ ~working /\ segment[id] = "suspended" /\ attempted = <<>>
        /\ segment' = [segment EXCEPT ![id] = "pinged"]
        /\ pingedSegments' = Append(pingedSegments, id)
        /\ scheduled' = IF Len(pingedSegments') = 1 THEN scheduled + 1 ELSE scheduled
        /\ UNCHANGED <<nextChunkId, attempted, working, unwritten, stream>>
    BY <1>1 DEF pingSegment, FlightInv, PingsOK
  <2>2. /\ segment \in [RowIds -> Segments] /\ segment' \in [RowIds -> Segments]
        /\ \A s \in RowIds : s # id => segment'[s] = segment[s]
        /\ segment'[id] = "pinged"
        /\ pingedSegments \in Seq(RowIds)
    BY <2>1 DEF FlightInv, FlightTypeOK, Segments
  <2>3. id \notin ToSet(pingedSegments)
    BY <2>1 DEF FlightInv, PingsOK
  <2>4. /\ pingedSegments' \in Seq(RowIds) /\ IsInjective(pingedSegments')
        /\ ToSet(pingedSegments') = ToSet(pingedSegments) \cup {id}
    BY <2>1, <2>2, <2>3, AppendOne DEF FlightInv, PingsOK
  <2>5. FlightTypeOK'
    BY <2>1, <2>2, <2>4 DEF FlightInv, FlightTypeOK, unwritten, stream
  <2>6. IdsOK'
    BY <2>1, <2>2 DEF FlightInv, IdsOK
  <2>7. PingsOK'
    <3>1. ToSet(attempted) = {}
      BY <2>1 DEF ToSet
    <3>2. \A s \in ToSet(pingedSegments) : s \in RowIds /\ segment[s] = "pinged"
      BY <2>2, SequenceElements DEF FlightInv, PingsOK
    <3>3. \A s \in ToSet(pingedSegments') \cup ToSet(attempted') : segment'[s] = "pinged"
      BY <2>1, <2>2, <2>4, <3>1, <3>2
    <3> QED
      BY <2>1, <2>4, <3>3 DEF FlightInv, PingsOK
  <2>8. WorkOK'
    <3>1. Len(pingedSegments') = Len(pingedSegments) + 1 /\ Len(pingedSegments) \in Nat
          /\ pingedSegments' # <<>> /\ (pingedSegments = <<>> <=> Len(pingedSegments) = 0)
      BY <2>1, <2>2
    <3> QED
      BY <2>1, <3>1 DEF FlightInv, WorkOK, stream
  <2>9. RowsAreAccounted'
    <3>1. Finished' = Finished
      BY <2>1, <2>2 DEF Finished
    <3> QED
      BY <2>1, <3>1 DEF FlightInv, RowsAreAccounted, ModelsWaiting, ErrorsWaiting, unwritten, stream
  <2> QED
    BY <2>5, <2>6, <2>7, <2>8, <2>9 DEF FlightInv
<1>2. CASE performWork
  <2>1. /\ ~working /\ scheduled > 0 /\ working' = TRUE /\ scheduled' = scheduled - 1
        /\ attempted' = pingedSegments /\ pingedSegments' = <<>>
        /\ UNCHANGED <<segment, nextChunkId, unwritten, stream>>
    BY <1>2 DEF performWork
  <2>2. pingedSegments \in Seq(RowIds) /\ pingedSegments # <<>> /\ scheduled = 1
    BY <2>1 DEF FlightInv, FlightTypeOK, WorkOK
  <2>3. PICK id \in RowIds : segment[id] = "pinged"
    <3>1. pingedSegments[1] \in RowIds /\ pingedSegments[1] \in ToSet(pingedSegments)
      <4>1. 1 \in 1..Len(pingedSegments)
        BY <2>2
      <4> QED
        BY <2>2, <4>1, SequenceElements
    <3> QED
      BY <3>1 DEF FlightInv, PingsOK
  <2>4. closed = 0
    BY <2>3, UnfinishedIsOpen DEF FlightInv
  <2>5. FlightTypeOK' /\ IdsOK'
    BY <2>1, <2>2 DEF FlightInv, FlightTypeOK, IdsOK, unwritten, stream
  <2>6. PingsOK'
    <3>1. IsInjective(<<>>) /\ ToSet(<<>>) = {}
      BY DEF IsInjective, ToSet
    <3> QED
      BY <2>1, <3>1 DEF FlightInv, PingsOK
  <2>7. WorkOK'
    BY <2>1, <2>2, <2>4 DEF WorkOK, stream
  <2>8. RowsAreAccounted'
    BY <2>1 DEF FlightInv, RowsAreAccounted, Finished, ModelsWaiting, ErrorsWaiting, unwritten, stream
  <2> QED
    BY <2>5, <2>6, <2>7, <2>8 DEF FlightInv
<1>3. CASE Attempt
  BY <1>3, RetryStep DEF Attempt
<1>4. CASE endWork
  <2>1. /\ working /\ attempted = <<>> /\ working' = FALSE
        /\ UNCHANGED <<segment, nextChunkId, pingedSegments, attempted, scheduled>>
    BY <1>4 DEF endWork
  <2>2. closed = 0
    BY <2>1 DEF FlightInv, WorkOK
  <2>3. /\ completedJSONChunks' \in Seq(AllRows) /\ completedErrorChunks' \in Seq(AllRows)
        /\ destination' \in Seq(AllRows) /\ written' \in Seq(RowIds)
        /\ RowsAreAccounted'
    <3>1. CASE flowing
      BY <1>4, <2>1, <2>2, <3>1, FlushStep DEF endWork, FlightInv
    <3>2. CASE ~flowing
      BY <1>4, <2>1, <3>2 DEF endWork, FlightInv, FlightTypeOK, RowsAreAccounted, Finished,
                              ModelsWaiting, ErrorsWaiting, unwritten, stream
    <3> QED
      BY <3>1, <3>2
  <2>4. FlightTypeOK' /\ IdsOK'
    BY <2>1, <2>3 DEF FlightInv, FlightTypeOK, IdsOK
  <2>5. PingsOK' /\ WorkOK'
    BY <2>1 DEF FlightInv, PingsOK, WorkOK
  <2> QED
    BY <2>3, <2>4, <2>5 DEF FlightInv
<1>5. CASE startFlowing
  <2>1. /\ ~working /\ closed = 0 /\ flushCompletedChunks
        /\ UNCHANGED <<segment, nextChunkId, pingedSegments, attempted, working, scheduled>>
    BY <1>5 DEF startFlowing, FlowAgain
  <2>2. /\ completedJSONChunks' \in Seq(AllRows) /\ completedErrorChunks' \in Seq(AllRows)
        /\ destination' \in Seq(AllRows) /\ written' \in Seq(RowIds)
        /\ RowsAreAccounted'
    BY <2>1, FlushStep DEF FlightInv
  <2>3. FlightTypeOK' /\ IdsOK'
    BY <2>1, <2>2 DEF FlightInv, FlightTypeOK, IdsOK
  <2>4. PingsOK' /\ WorkOK'
    BY <2>1 DEF FlightInv, PingsOK, WorkOK
  <2> QED
    BY <2>2, <2>3, <2>4 DEF FlightInv
<1>6. CASE Read
  <2>1. destination \in Seq(AllRows)
    BY DEF FlightInv, FlightTypeOK
  <2>2. CASE processFullRow
    <3>1. Tail(destination) \in Seq(AllRows)
      BY <2>1, <2>2 DEF processFullRow
    <3> QED
      BY <2>2, <3>1, OthersStep DEF processFullRow, server, unwritten
  <2>3. CASE complete
    BY <2>1, <2>3, OthersStep DEF complete, server, unwritten, stream
  <2> QED
    BY <1>6, <2>2, <2>3 DEF Read
<1>7. CASE loseConnection
  <2>1. destination' \in Seq(AllRows)
    BY <1>7 DEF loseConnection, stream, FlightInv, FlightTypeOK
  <2> QED
    BY <1>7, <2>1, OthersStep DEF loseConnection, server, unwritten, stream
<1>8. CASE UNCHANGED flightVars
  <2>1. destination' \in Seq(AllRows)
    BY <1>8 DEF flightVars, stream, FlightInv, FlightTypeOK
  <2> QED
    BY <1>8, <2>1, OthersStep DEF flightVars, server, unwritten, stream
<1> QED
  BY <1>1, <1>2, <1>3, <1>4, <1>5, <1>6, <1>7, <1>8 DEF FlightNext, Work

-----------------------------------------------------------------------------
(* The client *)

ChunkStates == {"absent", "pending", "resolved", "errored", "failed"}

\* A row says what became of its segment, and refers to segments that exist.
IsTrue(row, segments, next) ==
    IF row.tag = "J" THEN segments[row.id] = "model" /\ row.refs \subseteq 0..(next - 1)
    ELSE segments[row.id] = "error"

TrueRows ==
    \A row \in (ToSet(completedJSONChunks) \cup ToSet(completedErrorChunks)) \cup ToSet(destination) :
      IsTrue(row, segment, nextChunkId)

Unread == ToSet(IdsOf(destination))

\* Each row is read once, and makes its chunk what it says.
ReadOK ==
    /\ IsInjective(IdsOf(destination)) /\ Unread \subseteq ToSet(written)
    /\ \A id \in RowIds : chunks[id] \in {"resolved", "errored"} <=> id \in ToSet(written) \ Unread
    /\ \A id \in RowIds : /\ chunks[id] = "resolved" => segment[id] = "model"
                          /\ chunks[id] = "errored" => segment[id] = "error"
                          /\ chunks[id] # "failed"
                          /\ chunks[id] = "pending" => id < nextChunkId
    /\ connection = "complete" => closed > 0 /\ destination = <<>>

ClientInv ==
    /\ chunks \in [RowIds -> ChunkStates]
    /\ connection \in {"open", "complete", "lost"}
    /\ TrueRows
    /\ connection # "lost" => ReadOK

\* What is finished stays as it is.
Kept ==
    /\ \A s \in RowIds : segment[s] \in {"model", "error"} => segment'[s] = segment[s]
    /\ nextChunkId \in Int /\ nextChunkId' \in Int /\ nextChunkId <= nextChunkId'

LEMMA MoreIds ==
    ASSUME NEW a \in Int, NEW b \in Int, a <= b
    PROVE  0..(a - 1) \subseteq 0..(b - 1)
OBVIOUS

LEMMA TrueRowStays ==
    ASSUME Kept, NEW row \in AllRows, IsTrue(row, segment, nextChunkId)
    PROVE  IsTrue(row, segment', nextChunkId')
<1>1. row.id \in RowIds /\ row.refs \in SUBSET RowIds
  BY DEF AllRows
<1>2. 0..(nextChunkId - 1) \subseteq 0..(nextChunkId' - 1)
  <2>1. nextChunkId \in Int /\ nextChunkId' \in Int /\ nextChunkId <= nextChunkId'
    BY DEF Kept
  <2> QED
    BY <2>1, MoreIds
<1>3. CASE row.tag = "J"
  BY <1>1, <1>2, <1>3 DEF Kept, IsTrue
<1>4. CASE row.tag # "J"
  BY <1>1, <1>4 DEF Kept, IsTrue
<1> QED
  BY <1>3, <1>4

\* The server does something, and writes nothing.
LEMMA ReadStays ==
    ASSUME ReadOK, Kept, UNCHANGED <<destination, closed, written, chunks, connection>>
    PROVE  ReadOK'
<1>1. \A id \in RowIds : /\ chunks[id] = "resolved" => segment'[id] = "model"
                         /\ chunks[id] = "errored" => segment'[id] = "error"
  BY DEF ReadOK, Kept
<1>2. \A id \in RowIds : chunks[id] = "pending" => id < nextChunkId'
  BY DEF ReadOK, Kept, RowIds
<1>3. Unread' = Unread
  BY DEF Unread
<1> QED
  BY <1>1, <1>2, <1>3 DEF ReadOK

\* The same for all of the invariant, if no row is added either.
LEMMA ClientStays ==
    ASSUME FlightInv, ClientInv, Kept,
           UNCHANGED <<destination, closed, written, chunks, connection,
                       completedJSONChunks, completedErrorChunks>>
    PROVE  ClientInv'
<1>1. TrueRows'
  <2>1. (ToSet(completedJSONChunks) \cup ToSet(completedErrorChunks)) \cup ToSet(destination)
          \subseteq AllRows
    BY SequenceElements DEF FlightInv, FlightTypeOK
  <2> QED
    BY <2>1, TrueRowStays DEF ClientInv, TrueRows
<1>2. connection' # "lost" => ReadOK'
  BY ReadStays DEF ClientInv
<1> QED
  BY <1>1, <1>2 DEF ClientInv

LEMMA ClientRetry ==
    ASSUME FlightInv, ClientInv, NEW result \in {"model", "error", "suspended"}, NEW parts \in Parts,
           retrySegment(result, parts)
    PROVE  ClientInv'
<1> DEFINE id == Head(attempted)
           J == completedJSONChunks
           E == completedErrorChunks
<1>1. /\ attempted \in Seq(RowIds) /\ attempted # <<>>
      /\ J \in Seq(AllRows) /\ E \in Seq(AllRows) /\ destination \in Seq(AllRows)
      /\ nextChunkId \in Int
  BY DEF FlightInv, FlightTypeOK, retrySegment
<1>2. id \in RowIds /\ segment[id] = "pinged"
  <2>1. IsInjective(attempted)
    BY DEF FlightInv, PingsOK
  <2>2. id \in ToSet(attempted)
    BY <1>1, <2>1, TailElements
  <2> QED
    BY <1>1, <2>2, SequenceElements DEF FlightInv, PingsOK
<1>3. PICK thrown \in Ascending(Thrown(parts)) :
        LET errors == IF result = "error" THEN Append(thrown, id) ELSE thrown
        IN  /\ segment' = [s \in RowIds |->
                             IF s = id THEN result
                             ELSE IF s \in NewIds(parts) THEN parts[s - nextChunkId + 1]
                             ELSE segment[s]]
            /\ completedErrorChunks' = E \o [i \in DOMAIN errors |-> Row(errors[i], "E", {})]
            /\ completedJSONChunks' = IF result = "model" THEN Append(J, Row(id, "J", NewIds(parts))) ELSE J
  BY DEF retrySegment
<1>4. /\ nextChunkId' = nextChunkId + Len(parts)
      /\ UNCHANGED <<destination, closed, written, chunks, connection>>
  BY DEF retrySegment, stream, client
<1> DEFINE errors == IF result = "error" THEN Append(thrown, id) ELSE thrown
           new == [i \in DOMAIN errors |-> Row(errors[i], "E", {})]
<1>5. /\ segment' = [s \in RowIds |->
                       IF s = id THEN result
                       ELSE IF s \in NewIds(parts) THEN parts[s - nextChunkId + 1]
                       ELSE segment[s]]
      /\ completedErrorChunks' = E \o new
      /\ completedJSONChunks' = IF result = "model" THEN Append(J, Row(id, "J", NewIds(parts))) ELSE J
  BY <1>3
<1> HIDE DEF id, J, E, errors, new
<1>6. /\ Len(parts) \in Nat /\ nextChunkId' \in 1..MaxRows
      /\ NewIds(parts) \subseteq RowIds /\ id \notin NewIds(parts)
      /\ Thrown(parts) \subseteq NewIds(parts) /\ NewIds(parts) \cap Finished = {}
      /\ id \notin Finished
  BY <1>2, <1>4, <1>5, RetryIds DEF FlightInv
<1>7. Kept
  <2>1. ASSUME NEW s \in RowIds, segment[s] \in {"model", "error"} PROVE segment'[s] = segment[s]
    BY <1>5, <1>6, <2>1 DEF Finished
  <2> QED
    BY <1>1, <1>4, <1>6, <2>1 DEF Kept
<1>8. errors \in Seq(RowIds) /\ \A i \in 1..Len(errors) : errors[i] \in Thrown(parts) \/ (errors[i] = id /\ result = "error")
  <2>1. thrown \in Seq(Thrown(parts))
    <3>1. /\ nextChunkId \in Nat /\ nextChunkId + Len(parts) - 1 \in Int
          /\ Thrown(parts) \in SUBSET (nextChunkId .. (nextChunkId + Len(parts) - 1))
      BY <1>6 DEF FlightInv, FlightTypeOK, NewIds
    <3> QED
      BY <3>1, AscendingElements
  <2>2. CASE result = "error"
    <3>1. errors = Append(thrown, id) /\ errors \in Seq(Thrown(parts) \cup {id})
      BY <2>1, <2>2 DEF errors
    <3>2. Thrown(parts) \cup {id} \subseteq RowIds
      BY <1>2, <1>6
    <3> QED
      BY <2>2, <3>1, <3>2, SeqMonotonic
  <2>3. CASE result # "error"
    <3>1. errors = thrown /\ Thrown(parts) \subseteq RowIds
      BY <1>6, <2>3 DEF errors
    <3> QED
      BY <2>1, <3>1, SeqMonotonic
  <2> QED
    BY <2>2, <2>3
<1>9. new \in Seq(AllRows) /\ \A row \in ToSet(new) : IsTrue(row, segment', nextChunkId')
  <2>1. new \in Seq(AllRows) /\ DOMAIN new = DOMAIN errors /\ DOMAIN errors = 1..Len(errors)
    BY <1>8, ErrorRows DEF new
  <2>2. ASSUME NEW i \in 1..Len(errors) PROVE IsTrue(new[i], segment', nextChunkId')
    <3>1. new[i].id = errors[i] /\ new[i].tag = "E"
      BY <2>1 DEF new, Row
    <3>2. errors[i] \in RowIds /\ segment'[errors[i]] = "error"
      BY <1>2, <1>5, <1>6, <1>8 DEF Thrown
    <3> QED
      BY <3>1, <3>2 DEF IsTrue
  <2> HIDE DEF new
  <2>3. \A x \in ToSet(new) : \E i \in 1..Len(new) : x = new[i]
    BY <2>1, SequenceElements
  <2>4. 1..Len(new) = 1..Len(errors)
    BY <2>1
  <2> QED
    BY <2>1, <2>2, <2>3, <2>4
<1>10. \A row \in (ToSet(J) \cup ToSet(E)) \cup ToSet(destination) : IsTrue(row, segment', nextChunkId')
  <2>1. (ToSet(J) \cup ToSet(E)) \cup ToSet(destination) \subseteq AllRows
    BY <1>1, SequenceElements
  <2>2. \A row \in (ToSet(J) \cup ToSet(E)) \cup ToSet(destination) : IsTrue(row, segment, nextChunkId)
    BY DEF ClientInv, TrueRows, J, E
  <2> QED
    BY <1>7, <2>1, <2>2, TrueRowStays
<1>11. \A row \in ToSet(completedErrorChunks') : IsTrue(row, segment', nextChunkId')
  <2>1. ToSet(completedErrorChunks') = ToSet(E) \cup ToSet(new)
    BY <1>1, <1>5, <1>9, ToSetConcat
  <2> QED
    BY <1>9, <1>10, <2>1
<1>12. \A row \in ToSet(completedJSONChunks') : IsTrue(row, segment', nextChunkId')
  <2> DEFINE row == Row(id, "J", NewIds(parts))
  <2>1. CASE result = "model"
    <3>1. row \in AllRows /\ row.id = id /\ row.tag = "J" /\ row.refs = NewIds(parts)
      BY <1>2, <1>6 DEF Row, AllRows
    <3>2. segment'[id] = "model"
      BY <1>2, <1>5, <2>1
    <3>3. NewIds(parts) \subseteq 0..(nextChunkId' - 1)
      BY <1>4, <1>6 DEF NewIds, FlightInv, FlightTypeOK
    <3>4. IsTrue(row, segment', nextChunkId')
      BY <3>1, <3>2, <3>3 DEF IsTrue
    <3> HIDE DEF row
    <3>5. completedJSONChunks' = Append(J, row)
      BY <1>5, <2>1 DEF row
    <3>6. \A x \in ToSet(Append(J, row)) : x \in ToSet(J) \/ x = row
      <4>1. Append(J, row) \in Seq(AllRows) /\ Len(Append(J, row)) = Len(J) + 1
            /\ \A i \in 1..Len(J) + 1 : Append(J, row)[i] = IF i = Len(J) + 1 THEN row ELSE J[i]
        BY <1>1, <3>1
      <4>2. \A x \in ToSet(Append(J, row)) : \E i \in 1..Len(Append(J, row)) : x = Append(J, row)[i]
        BY <4>1, SequenceElements
      <4>3. \A i \in 1..Len(J) : J[i] \in ToSet(J)
        BY <1>1, SequenceElements
      <4> QED
        BY <1>1, <4>1, <4>2, <4>3
    <3> QED
      BY <1>10, <3>4, <3>5, <3>6
  <2>2. CASE result # "model"
    BY <1>5, <1>10, <2>2
  <2> QED
    BY <2>1, <2>2
<1>13. TrueRows'
  BY <1>4, <1>10, <1>11, <1>12 DEF TrueRows
<1>14. connection' # "lost" => ReadOK'
  BY <1>4, <1>7, ReadStays DEF ClientInv
<1> QED
  BY <1>4, <1>13, <1>14 DEF ClientInv

\* flushCompletedChunks: what was read stays so, and what is new was not.
LEMMA ClientFlush ==
    ASSUME FlightInv, ClientInv, closed = 0, flushCompletedChunks,
           UNCHANGED <<segment, nextChunkId, chunks, connection>>
    PROVE  ClientInv'
<1> DEFINE J == completedJSONChunks
           E == completedErrorChunks
           D == destination
<1>1. /\ J \in Seq(AllRows) /\ E \in Seq(AllRows) /\ D \in Seq(AllRows) /\ written \in Seq(RowIds)
  BY DEF FlightInv, FlightTypeOK
<1>2. PICK m \in 0..Len(J), n \in 0..Len(E) :
        /\ destination' = (D \o SubSeq(J, 1, m)) \o SubSeq(E, 1, n)
        /\ completedJSONChunks' = SubSeq(J, m + 1, Len(J))
        /\ completedErrorChunks' = SubSeq(E, n + 1, Len(E))
        /\ pendingChunks' = pendingChunks - m - n
        /\ closed' = IF pendingChunks' = 0 THEN closed + 1 ELSE closed
        /\ written' = (written \o IdsOf(SubSeq(J, 1, m))) \o IdsOf(SubSeq(E, 1, n))
  BY FlushTakes DEF FlightInv
<1> DEFINE models == SubSeq(J, 1, m)
           errors == SubSeq(E, 1, n)
           A == IdsOf(models)
           B == IdsOf(errors)
<1>3. /\ models \in Seq(AllRows) /\ errors \in Seq(AllRows)
      /\ ToSet(models) \subseteq ToSet(J) /\ ToSet(errors) \subseteq ToSet(E)
      /\ ToSet(SubSeq(J, m + 1, Len(J))) \subseteq ToSet(J)
      /\ ToSet(SubSeq(E, n + 1, Len(E))) \subseteq ToSet(E)
  BY <1>1, PieceElements
<1>4. /\ D \o models \in Seq(AllRows) /\ (D \o models) \o errors \in Seq(AllRows)
      /\ ToSet((D \o models) \o errors) = (ToSet(D) \cup ToSet(models)) \cup ToSet(errors)
  <2> HIDE DEF D, models, errors
  <2> QED
    BY <1>1, <1>3, ToSetConcat, ToSetConcatTwice
<1>5. TrueRows'
  <2>1. \A row \in (ToSet(J) \cup ToSet(E)) \cup ToSet(D) : IsTrue(row, segment, nextChunkId)
    BY DEF ClientInv, TrueRows
  <2>2. (ToSet(completedJSONChunks') \cup ToSet(completedErrorChunks')) \cup ToSet(destination')
          \subseteq (ToSet(J) \cup ToSet(E)) \cup ToSet(D)
    <3> HIDE DEF J, E, D, models, errors
    <3>1. /\ ToSet(completedJSONChunks') \subseteq ToSet(J)
          /\ ToSet(completedErrorChunks') \subseteq ToSet(E)
      BY <1>2, <1>3
    <3>2. ToSet(destination') = (ToSet(D) \cup ToSet(models)) \cup ToSet(errors)
      BY <1>2, <1>4 DEF models, errors
    <3> QED
      BY <1>3, <3>1, <3>2
  <2>3. segment' = segment /\ nextChunkId' = nextChunkId
    OBVIOUS
  <2> HIDE DEF J, E, D, models, errors
  <2> QED
    BY <2>1, <2>2, <2>3 DEF TrueRows
<1>6. ASSUME connection # "lost" PROVE ReadOK'
  <2>1. ReadOK
    BY <1>6 DEF ClientInv
  <2>2. /\ IsInjective(written) /\ IsInjective(IdsOf(J)) /\ IsInjective(IdsOf(E))
        /\ ToSet(written) \cap ToSet(IdsOf(J)) = {} /\ ToSet(written) \cap ToSet(IdsOf(E)) = {}
        /\ ToSet(IdsOf(J)) \cap ToSet(IdsOf(E)) = {}
    BY DEF FlightInv, RowsAreAccounted, ModelsWaiting, ErrorsWaiting
  <2>3. IsInjective(IdsOf(D)) /\ ToSet(IdsOf(D)) \subseteq ToSet(written)
    BY <2>1 DEF ReadOK, Unread
  <2>4. m \in 0..Len(J) /\ n \in 0..Len(E)
    OBVIOUS
  <2>5. IdsOf(destination') = (IdsOf(D) \o A) \o B
    <3> HIDE DEF D, models, errors, A, B
    <3>0. 0 \in 0..Len(D) /\ 0 \in 0..Len(D \o models)
      BY <1>1, <1>4
    <3>1. IdsOf(D \o models) = IdsOf(D) \o A
      BY <1>1, <1>3, <3>0, IdsOfRows DEF A
    <3>2. IdsOf((D \o models) \o errors) = IdsOf(D \o models) \o B
      BY <1>3, <1>4, <3>0, IdsOfRows DEF B
    <3>3. destination' = (D \o models) \o errors
      BY <1>2 DEF models, errors
    <3> QED
      BY <3>1, <3>2, <3>3
  <2>6. written' = (written \o A) \o B
    BY <1>2
  <2>7. /\ A \in Seq(RowIds) /\ B \in Seq(RowIds) /\ IdsOf(D) \in Seq(RowIds)
        /\ IdsOf(J) \in Seq(RowIds) /\ IdsOf(E) \in Seq(RowIds)
        /\ Len(IdsOf(J)) = Len(J) /\ Len(IdsOf(E)) = Len(E)
    <3> HIDE DEF D, J, E, models, errors
    <3> QED
      BY <1>1, <1>3, IdsOfSeq DEF A, B
  <2>8. A = SubSeq(IdsOf(J), 1, m) /\ B = SubSeq(IdsOf(E), 1, n)
    <3> HIDE DEF D, J, E
    <3>1. A = SubSeq(IdsOf(J), 1, m)
      BY <1>1, <2>4, IdsOfRows
    <3>2. B = SubSeq(IdsOf(E), 1, n)
      BY <1>1, <2>4, IdsOfRows
    <3> QED
      BY <3>1, <3>2
  <2> HIDE DEF J, E, D, models, errors, A, B
  <2>9. /\ ToSet(A) \subseteq ToSet(IdsOf(J)) /\ ToSet(B) \subseteq ToSet(IdsOf(E))
        /\ IsInjective(A) /\ IsInjective(B)
    <3>1. ToSet(A) \subseteq ToSet(IdsOf(J)) /\ IsInjective(A)
      BY <2>2, <2>4, <2>7, <2>8, Cut
    <3>2. ToSet(B) \subseteq ToSet(IdsOf(E)) /\ IsInjective(B)
      BY <2>2, <2>4, <2>7, <2>8, Cut
    <3> QED
      BY <3>1, <3>2
  <2>10. /\ IdsOf(D) \o A \in Seq(RowIds) /\ ToSet(IdsOf(D) \o A) = ToSet(IdsOf(D)) \cup ToSet(A)
         /\ IsInjective(IdsOf(D) \o A)
    <3>1. ToSet(IdsOf(D)) \cap ToSet(A) = {}
      BY <2>2, <2>3, <2>9
    <3> QED
      BY <2>3, <2>7, <2>9, <3>1, ToSetConcat, InjectiveConcat
  <2>11. /\ Unread' = (ToSet(IdsOf(D)) \cup ToSet(A)) \cup ToSet(B)
         /\ IsInjective(IdsOf(destination'))
    <3>1. ToSet(IdsOf(D) \o A) \cap ToSet(B) = {}
      BY <2>2, <2>3, <2>9, <2>10
    <3>2. IsInjective((IdsOf(D) \o A) \o B)
      BY <2>7, <2>9, <2>10, <3>1, InjectiveConcat
    <3>3. ToSet((IdsOf(D) \o A) \o B) = (ToSet(IdsOf(D)) \cup ToSet(A)) \cup ToSet(B)
      BY <2>7, ToSetConcatTwice
    <3> QED
      BY <2>5, <3>2, <3>3 DEF Unread
  <2>12. ToSet(written') = (ToSet(written) \cup ToSet(A)) \cup ToSet(B)
    BY <1>1, <2>6, <2>7, ToSetConcatTwice
  <2>13. ToSet(written') \ Unread' = ToSet(written) \ Unread
    <3>1. Unread = ToSet(IdsOf(D))
      BY DEF Unread, D
    <3>2. ToSet(A) \cap ToSet(written) = {} /\ ToSet(B) \cap ToSet(written) = {}
      BY <2>2, <2>9
    <3> QED
      BY <2>11, <2>12, <3>1, <3>2
  <2>14. Unread' \subseteq ToSet(written')
    BY <2>3, <2>11, <2>12
  <2>15. connection # "complete"
    BY <2>1 DEF ReadOK
  <2> QED
    BY <2>1, <2>11, <2>13, <2>14, <2>15 DEF ReadOK
<1> QED
  BY <1>5, <1>6 DEF ClientInv

\* processFullRow: the first row that is not read becomes one that is.
LEMMA ClientReadsRow ==
    ASSUME FlightInv, ClientInv, processFullRow
    PROVE  ClientInv'
<1> DEFINE row == Head(destination)
           ids == IdsOf(destination)
<1>1. /\ connection = "open" /\ destination # <<>> /\ destination' = Tail(destination)
      /\ IF row.tag = "E" THEN processErrorRow(row) ELSE resolveJSONRow(row)
      /\ UNCHANGED <<segment, nextChunkId, completedJSONChunks, completedErrorChunks,
                     closed, written, connection>>
  BY DEF processFullRow, server, unwritten
<1>2. destination \in Seq(AllRows) /\ chunks \in [RowIds -> ChunkStates] /\ ReadOK
  BY <1>1 DEF FlightInv, FlightTypeOK, ClientInv
<1>3. row \in AllRows /\ row \in ToSet(destination) /\ Tail(destination) \in Seq(AllRows)
      /\ ToSet(Tail(destination)) \subseteq ToSet(destination)
  <2>1. row = destination[1] /\ 1 \in 1..Len(destination) /\ row \in AllRows
    BY <1>1, <1>2
  <2>2. row \in ToSet(destination)
    BY <1>2, <2>1, SequenceElements
  <2>3. /\ Tail(destination) = SubSeq(destination, 1 + 1, Len(destination))
        /\ 1 \in 0..Len(destination) /\ Tail(destination) \in Seq(AllRows)
    BY <1>1, <1>2
  <2>4. ToSet(SubSeq(destination, 1 + 1, Len(destination))) \subseteq ToSet(destination)
    BY <1>2, <2>3, PieceElements
  <2> QED
    BY <2>1, <2>2, <2>3, <2>4
<1>4. /\ ids \in Seq(RowIds) /\ ids # <<>> /\ IsInjective(ids)
      /\ Head(ids) = row.id /\ IdsOf(Tail(destination)) = Tail(ids)
  <2>1. /\ ids \in Seq(RowIds) /\ Len(ids) = Len(destination)
        /\ \A j \in 1..Len(destination) : ids[j] = destination[j].id
    BY <1>2, IdsOfSeq
  <2>2. Len(destination) \in Nat \ {0} /\ row = destination[1]
    BY <1>1, <1>2
  <2>3. ids # <<>> /\ Head(ids) = row.id
    BY <2>1, <2>2
  <2>4. 1 \in 0..Len(destination)
    BY <2>2
  <2>5. IdsOf(SubSeq(destination, 1 + 1, Len(destination))) = SubSeq(ids, 1 + 1, Len(destination))
    BY <1>2, <2>4, IdsOfRows
  <2>6. Tail(destination) = SubSeq(destination, 1 + 1, Len(destination))
    BY <1>1, <1>2
  <2> HIDE DEF ids, row
  <2>7. Tail(ids) = SubSeq(ids, 1 + 1, Len(ids))
    BY <2>1, <2>3
  <2>8. IsInjective(ids)
    BY <1>2 DEF ReadOK, ids
  <2> QED
    BY <2>1, <2>3, <2>5, <2>6, <2>7, <2>8
<1> HIDE DEF row, ids
<1>5. /\ IsInjective(IdsOf(destination')) /\ Unread = ToSet(ids)
      /\ Unread' = Unread \ {row.id} /\ row.id \in Unread
  BY <1>1, <1>4, TailElements DEF Unread, ids
<1>6. row.id \in RowIds /\ row.refs \subseteq RowIds /\ IsTrue(row, segment, nextChunkId)
  BY <1>3 DEF AllRows, ClientInv, TrueRows
<1>7. chunks[row.id] \in {"pending", "absent"}
  BY <1>2, <1>5, <1>6 DEF ReadOK, ChunkStates
<1>8. ASSUME NEW id \in RowIds
      PROVE  /\ chunks'[id] \in ChunkStates /\ chunks'[id] # "failed"
             /\ id = row.id => \/ chunks'[id] = "resolved" /\ segment[id] = "model"
                               \/ chunks'[id] = "errored" /\ segment[id] = "error"
             /\ id # row.id => \/ chunks'[id] = chunks[id]
                               \/ chunks[id] = "absent" /\ chunks'[id] = "pending" /\ id < nextChunkId
  <2>1. chunks[id] \in ChunkStates /\ chunks[id] # "failed"
    BY <1>2 DEF ReadOK
  <2>2. CASE row.tag = "E"
    <3>1. chunks' = [chunks EXCEPT ![row.id] = "errored"]
      BY <1>1, <1>7, <2>2 DEF processErrorRow
    <3>2. segment[row.id] = "error"
      BY <1>6, <2>2 DEF IsTrue
    <3> QED
      BY <1>2, <1>6, <2>1, <3>1, <3>2 DEF ChunkStates
  <2>3. CASE row.tag # "E"
    <3>1. row.tag = "J" /\ segment[row.id] = "model" /\ row.refs \subseteq 0..(nextChunkId - 1)
      BY <1>3, <1>6, <2>3 DEF IsTrue, AllRows
    <3>2. chunks'[id] = IF id = row.id /\ chunks[id] \in {"pending", "absent"} THEN "resolved"
                        ELSE IF id \in row.refs /\ chunks[id] = "absent" THEN "pending"
                        ELSE chunks[id]
      BY <1>1, <2>3 DEF resolveJSONRow
    <3>3. id \in row.refs => id < nextChunkId
      BY <3>1 DEF FlightInv, FlightTypeOK
    <3>4. CASE id = row.id
      BY <1>7, <3>1, <3>2, <3>4 DEF ChunkStates
    <3>5. CASE id # row.id
      BY <2>1, <3>2, <3>3, <3>5 DEF ChunkStates
    <3> QED
      BY <3>4, <3>5
  <2> QED
    BY <2>2, <2>3
<1>9. chunks' \in [RowIds -> ChunkStates]
  <2>1. DOMAIN chunks' = RowIds /\ chunks' = [id \in RowIds |-> chunks'[id]]
    BY <1>1, <1>2 DEF processErrorRow, resolveJSONRow
  <2> QED
    BY <1>8, <2>1
<1>10. TrueRows'
  <2>1. \A r \in (ToSet(completedJSONChunks) \cup ToSet(completedErrorChunks)) \cup ToSet(destination) :
          IsTrue(r, segment, nextChunkId)
    BY DEF ClientInv, TrueRows
  <2> QED
    BY <1>1, <1>3, <2>1 DEF TrueRows
<1>11. ReadOK'
  <2>1. Unread' \subseteq ToSet(written')
    BY <1>1, <1>2, <1>5 DEF ReadOK
  <2>2. \A id \in RowIds : chunks'[id] \in {"resolved", "errored"} <=> id \in ToSet(written') \ Unread'
    <3> SUFFICES ASSUME NEW id \in RowIds
                 PROVE  chunks'[id] \in {"resolved", "errored"} <=> id \in ToSet(written) \ Unread'
      BY <1>1
    <3>1. chunks[id] \in {"resolved", "errored"} <=> id \in ToSet(written) \ Unread
      BY <1>2 DEF ReadOK
    <3>2. Unread \subseteq ToSet(written)
      BY <1>2 DEF ReadOK
    <3>3. CASE id = row.id
      BY <1>5, <1>8, <3>2, <3>3
    <3>4. CASE id # row.id
      BY <1>5, <1>8, <3>1, <3>4
    <3> QED
      BY <3>3, <3>4
  <2>3. ASSUME NEW id \in RowIds
        PROVE  /\ chunks'[id] = "resolved" => segment[id] = "model"
               /\ chunks'[id] = "errored" => segment[id] = "error"
               /\ chunks'[id] # "failed"
               /\ chunks'[id] = "pending" => id < nextChunkId
    <3>1. /\ chunks[id] = "resolved" => segment[id] = "model"
          /\ chunks[id] = "errored" => segment[id] = "error"
          /\ chunks[id] = "pending" => id < nextChunkId
      BY <1>2 DEF ReadOK
    <3>2. CASE id = row.id
      BY <1>8, <3>2
    <3>3. CASE id # row.id
      BY <1>8, <3>1, <3>3
    <3> QED
      BY <3>2, <3>3
  <2> QED
    BY <1>1, <1>5, <2>1, <2>2, <2>3 DEF ReadOK
<1> QED
  BY <1>1, <1>9, <1>10, <1>11 DEF ClientInv

\* Once the stream is closed and nothing is unread, all rows there are were read.
LEMMA AllRead ==
    ASSUME FlightInv, ClientInv, connection # "lost", closed > 0, destination = <<>>,
           NEW id \in RowIds, id < nextChunkId
    PROVE  chunks[id] \in {"resolved", "errored"}
<1>1. /\ nextChunkId \in Nat /\ written \in Seq(RowIds) /\ id \in 0..(nextChunkId - 1)
  BY DEF FlightInv, FlightTypeOK, RowIds
<1>2. /\ IsInjective(written) /\ ToSet(written) \subseteq Finished
      /\ pendingChunks = nextChunkId - Len(written) /\ pendingChunks = 0
  BY DEF FlightInv, RowsAreAccounted
<1>3. Finished \subseteq 0..(nextChunkId - 1)
  BY DEF FlightInv, FlightTypeOK, IdsOK, Finished, RowIds
<1>4. written \in Seq(0..(nextChunkId - 1))
  <2>1. ToSet(written) \subseteq 0..(nextChunkId - 1)
    BY <1>2, <1>3
  <2> QED
    BY <1>1, <2>1, SeqOver
<1>5. Len(written) = nextChunkId
  BY <1>1, <1>2
<1>6. id \in ToSet(written)
  BY <1>1, <1>2, <1>4, <1>5, Pigeonhole
<1>7. Unread = {}
  BY DEF Unread, IdsOf, ToSet
<1> QED
  BY <1>6, <1>7 DEF ClientInv, ReadOK

LEMMA ClientInvInit == FlightInit => ClientInv
<1> SUFFICES ASSUME FlightInit PROVE ClientInv
  OBVIOUS
<1>1. chunks \in [RowIds -> ChunkStates] /\ connection = "open"
  BY DEF FlightInit, ChunkStates
<1>2. IsInjective(<<>>) /\ ToSet(<<>>) = {} /\ IdsOf(<<>>) = <<>>
  BY DEF IsInjective, ToSet, IdsOf
<1>3. TrueRows
  BY <1>2 DEF FlightInit, TrueRows
<1>4. ReadOK
  BY <1>2 DEF FlightInit, ReadOK, Unread
<1> QED
  BY <1>1, <1>3, <1>4 DEF ClientInv

LEMMA ClientInvStep == FlightInv /\ ClientInv /\ [FlightNext]_flightVars => ClientInv'
<1> SUFFICES ASSUME FlightInv, ClientInv, [FlightNext]_flightVars PROVE ClientInv'
  OBVIOUS
<1>0. nextChunkId \in Int /\ segment \in [RowIds -> Segments]
  BY DEF FlightInv, FlightTypeOK
<1>1. ASSUME NEW id \in RowIds, pingSegment(id) PROVE ClientInv'
  <2>1. Kept
    BY <1>0, <1>1 DEF pingSegment, Kept
  <2> QED
    BY <1>1, <2>1, ClientStays DEF pingSegment, unwritten, stream, client
<1>2. CASE performWork
  <2>1. Kept
    BY <1>0, <1>2 DEF performWork, Kept
  <2> QED
    BY <1>2, <2>1, ClientStays DEF performWork, unwritten, stream, client
<1>3. CASE Attempt
  BY <1>3, ClientRetry DEF Attempt
<1>4. CASE endWork
  <2>1. closed = 0
    BY <1>4 DEF endWork, FlightInv, WorkOK
  <2>2. CASE flowing
    BY <1>4, <2>1, <2>2, ClientFlush DEF endWork, client
  <2>3. CASE ~flowing
    <3>1. Kept
      BY <1>0, <1>4 DEF endWork, Kept
    <3> QED
      BY <1>4, <2>3, <3>1, ClientStays DEF endWork, unwritten, stream, client
  <2> QED
    BY <2>2, <2>3
<1>5. CASE startFlowing
  BY <1>5, ClientFlush DEF startFlowing, FlowAgain, client
<1>6. CASE Read
  <2>1. CASE complete
    <3>1. /\ connection = "open" /\ closed > 0 /\ destination = <<>> /\ connection' = "complete"
          /\ chunks' = [id \in RowIds |-> IF chunks[id] = "pending" THEN "failed" ELSE chunks[id]]
          /\ UNCHANGED <<segment, nextChunkId, completedJSONChunks, completedErrorChunks,
                         destination, closed, written>>
      BY <2>1 DEF complete, reportGlobalError, server, stream, unwritten
    <3>2. ReadOK /\ chunks \in [RowIds -> ChunkStates]
      BY <3>1 DEF ClientInv
    <3>3. \A id \in RowIds : chunks[id] # "pending"
      BY <3>1, <3>2, AllRead DEF ReadOK
    <3>4. chunks' = chunks
      BY <3>1, <3>2, <3>3
    <3>5. Unread' = Unread
      BY <3>1 DEF Unread
    <3>6. ReadOK'
      BY <3>1, <3>2, <3>4, <3>5 DEF ReadOK
    <3>7. TrueRows'
      BY <3>1 DEF ClientInv, TrueRows
    <3> QED
      BY <3>1, <3>2, <3>4, <3>6, <3>7 DEF ClientInv
  <2> QED
    BY <1>6, <2>1, ClientReadsRow DEF Read
<1>7. CASE loseConnection
  <2>1. /\ connection' = "lost"
        /\ chunks' = [id \in RowIds |-> IF chunks[id] = "pending" THEN "failed" ELSE chunks[id]]
        /\ UNCHANGED <<segment, nextChunkId, completedJSONChunks, completedErrorChunks, destination>>
    BY <1>7 DEF loseConnection, reportGlobalError, server, stream, unwritten
  <2>2. chunks' \in [RowIds -> ChunkStates]
    BY <2>1 DEF ClientInv, ChunkStates
  <2>3. TrueRows'
    BY <2>1 DEF ClientInv, TrueRows
  <2> QED
    BY <2>1, <2>2, <2>3 DEF ClientInv
<1>8. CASE UNCHANGED flightVars
  <2>1. Kept
    BY <1>0, <1>8 DEF Kept, flightVars, server
  <2> QED
    BY <1>8, <2>1, ClientStays DEF flightVars, server, unwritten, stream, client
<1> QED
  BY <1>1, <1>2, <1>3, <1>4, <1>5, <1>6, <1>7, <1>8 DEF FlightNext, Work

\* Of a response of any size, written to a stream of any size, each finished
\* segment is one row, pendingChunks counts what is not written, and the stream
\* is closed once, when that is nothing (flushCompletedChunks).
THEOREM RowsAccounted == FlightSpec => []RowsAreAccounted
<1>1. FlightInv => RowsAreAccounted
  BY DEF FlightInv
<1> QED
  BY <1>1, FlightInvInit, FlightInvStep, PTL DEF FlightSpec

\* Nobody pings a segment twice before it is attempted, and the server does not
\* work when the response is over (pingSegment, performWork).
THEOREM WorkIsInOrder == FlightSpec => [](PingsOK /\ WorkOK)
<1>1. FlightInv => PingsOK /\ WorkOK
  BY DEF FlightInv
<1> QED
  BY <1>1, FlightInvInit, FlightInvStep, PTL DEF FlightSpec

\* Of a response of any size, unless the connection is lost: a chunk of the client
\* is what became of the server's segment (processFullRow), none is given up that
\* will come (reportGlobalError), and once the stream has ended all are there.
THEOREM ClientIsRight == FlightSpec => []ClientSeesModel
<1>1. ASSUME FlightInv, ClientInv PROVE ClientSeesModel
  <2> SUFFICES ASSUME connection # "lost", NEW id \in RowIds
               PROVE  /\ chunks[id] = "resolved" => segment[id] = "model"
                      /\ chunks[id] = "errored" => segment[id] = "error"
                      /\ chunks[id] # "failed"
                      /\ connection = "complete" /\ id < nextChunkId
                           => chunks[id] \in {"resolved", "errored"}
    BY DEF ClientSeesModel
  <2>1. ReadOK
    BY <1>1 DEF ClientInv
  <2> QED
    BY <1>1, <2>1, AllRead DEF ReadOK
<1> QED
  BY <1>1, FlightInvInit, FlightInvStep, ClientInvInit, ClientInvStep, PTL DEF FlightSpec

-----------------------------------------------------------------------------
(* DevToolsFrontend: the store counts the rows of the tree view right, for   *)
(* trees of any size and shape and any messages that fit.                  *)
(*                                                                         *)
(* The elements are a forest, which a rank of each element shows: that of  *)
(* its parent is smaller.  So a set of elements that each have their       *)
(* parent in the set is empty (Rise), which is the induction used here.    *)
(* With it Lineage, a recursive function, is what it says, and so are the  *)
(* ways up (AllUpIs, OpenUpIs).  The invariant says which rows an element  *)
(* takes (RowsIn), and that its weight is their number: each operation     *)
(* changes the weights on one open way up, and those sets of rows change   *)
(* for the same elements.                                                  *)

IsRank(els, rank, n) ==
    /\ n \in Nat
    /\ rank \in [DOMAIN els -> 0..n]
    /\ \A i \in DOMAIN els :
          els[i].parent \in DOMAIN els => rank[els[i].parent] < rank[i]

\* Where ranks are, a set of elements each of which has its parent in it is empty.
LEMMA Rise ==
    ASSUME NEW els, NEW rank, NEW n, IsRank(els, rank, n),
           NEW S \in SUBSET DOMAIN els,
           \A i \in S : els[i].parent \in S
    PROVE  S = {}
<1> DEFINE R == {rank[i] : i \in S}
<1>1. R \in SUBSET Nat
    BY DEF IsRank
<1>2. ASSUME NEW r \in R PROVE \E q \in R : q < r
    BY DEF IsRank
<1>3. R = {}
    <2> HIDE DEF R
    <2> QED BY <1>1, <1>2, NoSmallest
<1> QED
    BY <1>3

LEMMA LineageIs ==
    ASSUME NEW els, NEW rank, NEW n, IsRank(els, rank, n), NEW id
    PROVE  Lineage(els, id) = IF id \in DOMAIN els
                              THEN <<id>> \o Lineage(els, els[id].parent) ELSE <<>>
<1> DEFINE D == DOMAIN els
           Up(g) == [i \in D |-> <<i>> \o (IF els[i].parent \in D THEN g[els[i].parent] ELSE <<>>)]
           Until(m, g) == \A i \in D : rank[i] <= m => g[i] = Up(g)[i]
           Bad == {m \in 0..n : ~ \E g : Until(m, g)}
           up == CHOOSE g : g = Up(g)
<1>0. /\ n \in Nat /\ \A i \in D : rank[i] \in Nat /\ rank[i] <= n
      /\ \A i \in D : els[i].parent \in D => rank[els[i].parent] < rank[i]
    BY DEF IsRank
<1>1. ASSUME NEW m \in Bad PROVE \E k \in Bad : k < m
  <2>0. m \in Nat /\ m <= n /\ ~ \E g : Until(m, g)
    <3> HIDE DEF Until
    <3> QED BY <1>0
  <2> SUFFICES ASSUME m - 1 \notin Bad PROVE \E g : Until(m, g)
    <3> HIDE DEF Until
    <3> QED BY <2>0
  <2>1. \E g : \A i \in D : rank[i] <= m - 1 => g[i] = Up(g)[i]
    <3>1. CASE m = 0
      <4>1. \A i \in D : ~(rank[i] <= m - 1)
          BY <3>1, <1>0
      <4> QED BY <4>1
    <3>2. CASE m # 0
      <4>1. m - 1 \in 0 .. n
          BY <3>2, <2>0, <1>0
      <4>2. \E g : Until(m - 1, g)
        <5> HIDE DEF Until
        <5> QED BY <4>1
      <4> QED BY <4>2
    <3> QED BY <3>1, <3>2
  <2>2. PICK g : \A i \in D : rank[i] <= m - 1 => g[i] = Up(g)[i]
      BY <2>1
  <2>3. ASSUME NEW i \in D, rank[i] <= m PROVE Up(g)[i] = Up(Up(g))[i]
    <3>1. CASE els[i].parent \in D
      <4>1. rank[els[i].parent] <= m - 1
        <5>1. /\ rank[els[i].parent] \in Nat /\ rank[i] \in Nat /\ rank[i] <= m
              /\ rank[els[i].parent] < rank[i] /\ m \in Nat
            BY <2>3, <3>1, <1>0, <2>0
        <5> QED BY <5>1
      <4>2. g[els[i].parent] = Up(g)[els[i].parent]
          BY <3>1, <4>1, <2>2
      <4> QED BY <3>1, <4>2
    <3>2. CASE els[i].parent \notin D
        BY <3>2
    <3> QED BY <3>1, <3>2
  <2> QED BY <2>3
<1>2. Bad = {}
  <2>1. Bad \in SUBSET Nat
      BY DEF IsRank
  <2> HIDE DEF Bad
  <2> QED BY <1>1, <2>1, NoSmallest
<1>3. PICK g : Until(n, g)
  <2>1. n \in 0 .. n /\ n \notin Bad
    <3> HIDE DEF Bad
    <3> QED BY <1>0, <1>2
  <2> HIDE DEF Until
  <2> QED BY <2>1
<1>4. Up(g) = Up(Up(g))
  <2>1. \A i \in D : rank[i] <= n
      BY DEF IsRank
  <2>2. ASSUME NEW i \in D PROVE g[i] = Up(g)[i]
      BY <1>3, <2>1
  <2>3. ASSUME NEW i \in D PROVE Up(g)[i] = Up(Up(g))[i]
    <3>1. CASE els[i].parent \in D
        BY <3>1, <2>2
    <3>2. CASE els[i].parent \notin D
        BY <3>2
    <3> QED BY <3>1, <3>2
  <2> QED BY <2>3
<1>5. up = Up(up)
    BY <1>4
<1>6. Lineage(els, id) = IF id \in D THEN up[id] ELSE <<>>
    BY DEF Lineage
<1>7. Lineage(els, els[id].parent) = IF els[id].parent \in D THEN up[els[id].parent] ELSE <<>>
    BY DEF Lineage
<1>8. CASE id \in D
  <2>1. up[id] = Up(up)[id]
      BY <1>5
  <2> HIDE DEF up
  <2> QED BY <1>6, <1>7, <1>8, <2>1
<1> QED
    BY <1>6, <1>8

LEMMA LineageType ==
    ASSUME NEW els, NEW rank, NEW n, IsRank(els, rank, n), NEW id
    PROVE  Lineage(els, id) \in Seq(DOMAIN els)
<1> DEFINE Bad == {i \in DOMAIN els : Lineage(els, i) \notin Seq(DOMAIN els)}
<1>1. ASSUME NEW i \in Bad PROVE els[i].parent \in Bad
  <2> DEFINE p == els[i].parent
  <2>1. Lineage(els, i) = <<i>> \o Lineage(els, p)
      BY LineageIs
  <2>2. CASE p \in DOMAIN els
    <3> SUFFICES ASSUME Lineage(els, p) \in Seq(DOMAIN els) PROVE FALSE
        BY <2>2
    <3> HIDE DEF p
    <3>1. <<i>> \o Lineage(els, p) \in Seq(DOMAIN els)
        OBVIOUS
    <3> QED BY <2>1, <3>1
  <2>3. CASE p \notin DOMAIN els
    <3>1. Lineage(els, p) = <<>>
        BY <2>3, LineageIs
    <3>2. <<i>> \o <<>> \in Seq(DOMAIN els)
        OBVIOUS
    <3> QED BY <3>1, <3>2, <2>1
  <2> QED BY <2>2, <2>3
<1>2. Bad = {}
  <2> HIDE DEF Bad
  <2>1. Bad \in SUBSET DOMAIN els
      BY DEF Bad
  <2> QED BY <1>1, <2>1, Rise
<1>3. CASE id \in DOMAIN els
    BY <1>2, <1>3
<1>4. CASE id \notin DOMAIN els
  <2>1. Lineage(els, id) = <<>>
      BY <1>4, LineageIs
  <2> QED BY <2>1
<1> QED
    BY <1>3, <1>4

LEMMA AllUpIs ==
    ASSUME NEW els, NEW rank, NEW n, IsRank(els, rank, n), NEW id
    PROVE  AllUp(els, id) = IF id \in DOMAIN els
                            THEN {id} \cup AllUp(els, els[id].parent) ELSE {}
<1> DEFINE up == Lineage(els, els[id].parent)
<1>1. up \in Seq(DOMAIN els)
    BY LineageType
<1>2. Lineage(els, id) = IF id \in DOMAIN els THEN <<id>> \o up ELSE <<>>
    BY LineageIs
<1> HIDE DEF up
<1>3. CASE id \in DOMAIN els
  <2>1. /\ DOMAIN (<<id>> \o up) = 1 .. 1 + Len(up) /\ (<<id>> \o up)[1] = id
        /\ \A k \in 1 .. Len(up) : (<<id>> \o up)[k + 1] = up[k]
        /\ DOMAIN up = 1 .. Len(up) /\ Len(up) \in Nat
      BY <1>1
  <2>2. ToSet(<<id>> \o up) = {id} \cup ToSet(up)
    <3>1. ASSUME NEW x \in ToSet(<<id>> \o up) PROVE x \in {id} \cup ToSet(up)
      <4>1. PICK k \in 1 .. 1 + Len(up) : x = (<<id>> \o up)[k]
          BY <2>1 DEF ToSet
      <4>2. CASE k = 1
          BY <2>1, <4>1, <4>2
      <4>3. CASE k # 1
          BY <2>1, <4>1, <4>3, k - 1 \in 1 .. Len(up) DEF ToSet
      <4> QED BY <4>2, <4>3
    <3>2. ASSUME NEW k \in 1 .. Len(up) PROVE up[k] \in ToSet(<<id>> \o up)
        BY <2>1, k + 1 \in 1 .. 1 + Len(up) DEF ToSet
    <3>3. id \in ToSet(<<id>> \o up)
        BY <2>1, 1 \in 1 .. 1 + Len(up) DEF ToSet
    <3> QED BY <2>1, <3>1, <3>2, <3>3 DEF ToSet
  <2> QED BY <1>2, <1>3, <2>2 DEF AllUp, up
<1>4. CASE id \notin DOMAIN els
  <2>1. Lineage(els, id) = <<>>
      BY <1>2, <1>4
  <2>2. ToSet(<<>>) = {}
      BY DEF ToSet
  <2> QED BY <1>4, <2>1, <2>2 DEF AllUp
<1> QED
    BY <1>3, <1>4

LEMMA OpenUpIs ==
    ASSUME NEW els, NEW rank, NEW n, IsRank(els, rank, n), NEW id
    PROVE  OpenUp(els, id) =
             IF id \in DOMAIN els
             THEN {id} \cup (IF els[id].collapsed THEN {} ELSE OpenUp(els, els[id].parent))
             ELSE {}
<1> DEFINE up == Lineage(els, els[id].parent)
           Reached(s) == {k \in DOMAIN s : \A m \in 1 .. k - 1 : ~els[s[m]].collapsed}
<1>1. up \in Seq(DOMAIN els)
    BY LineageType
<1>2. Lineage(els, id) = IF id \in DOMAIN els THEN <<id>> \o up ELSE <<>>
    BY LineageIs
<1>3. OpenUp(els, id) = {Lineage(els, id)[k] : k \in Reached(Lineage(els, id))}
    BY DEF OpenUp
<1>4. OpenUp(els, els[id].parent) = {up[k] : k \in Reached(up)}
    BY DEF OpenUp
<1> HIDE DEF up
<1>5. CASE id \in DOMAIN els
  <2> DEFINE s == <<id>> \o up
  <2>1. /\ DOMAIN s = 1 .. 1 + Len(up) /\ s[1] = id
        /\ \A k \in 1 .. Len(up) : s[k + 1] = up[k]
        /\ DOMAIN up = 1 .. Len(up) /\ Len(up) \in Nat
      BY <1>1
  <2> HIDE DEF s
  <2>2. 1 \in Reached(s)
      BY <2>1
  <2>3. ASSUME els[id].collapsed, NEW k \in Reached(s) PROVE k = 1
    <3>1. k \in 1 .. 1 + Len(up)
        BY <2>1
    <3> SUFFICES ASSUME k # 1 PROVE FALSE
        OBVIOUS
    <3>2. 1 \in 1 .. k - 1
        BY <3>1, <2>1
    <3> QED BY <3>2, <2>1, <2>3
  <2>4. ASSUME ~els[id].collapsed, NEW k \in Reached(s), k # 1 PROVE k - 1 \in Reached(up)
    <3>1. k \in 1 .. 1 + Len(up) /\ k - 1 \in 1 .. Len(up)
        BY <2>1, <2>4
    <3>2. ASSUME NEW m \in 1 .. (k - 1) - 1 PROVE ~els[up[m]].collapsed
      <4>1. m + 1 \in 1 .. k - 1 /\ m \in 1 .. Len(up)
          BY <3>1, <2>1
      <4>2. ~els[s[m + 1]].collapsed
          BY <4>1
      <4> QED BY <4>1, <4>2, <2>1
    <3> QED BY <3>1, <3>2, <2>1
  <2>5. ASSUME ~els[id].collapsed, NEW k \in Reached(up) PROVE k + 1 \in Reached(s)
    <3>1. k \in 1 .. Len(up) /\ k + 1 \in DOMAIN s
        BY <2>1
    <3>2. ASSUME NEW m \in 1 .. (k + 1) - 1 PROVE ~els[s[m]].collapsed
      <4>1. CASE m = 1
          BY <4>1, <2>1, <2>5
      <4>2. CASE m # 1
        <5>1. m - 1 \in 1 .. k - 1 /\ m - 1 \in 1 .. Len(up)
            BY <4>2, <3>1, <2>1
        <5>2. ~els[up[m - 1]].collapsed
            BY <5>1
        <5>3. s[(m - 1) + 1] = up[m - 1]
            BY <5>1, <2>1
        <5>4. (m - 1) + 1 = m
            BY <3>1
        <5> QED BY <5>2, <5>3, <5>4
      <4> QED BY <4>1, <4>2
    <3> QED BY <3>1, <3>2
  <2>6. CASE els[id].collapsed
    <3>1. Reached(s) = {1}
        BY <2>2, <2>3, <2>6
    <3> QED BY <1>2, <1>3, <1>5, <2>1, <2>6, <3>1 DEF s
  <2>7. CASE ~els[id].collapsed
    <3>1. ASSUME NEW k \in Reached(s) PROVE s[k] \in {id} \cup {up[j] : j \in Reached(up)}
      <4>1. CASE k = 1
          BY <4>1, <2>1
      <4>2. CASE k # 1
        <5>1. k - 1 \in Reached(up) /\ k \in 1 .. 1 + Len(up)
            BY <4>2, <2>4, <2>7, <2>1
        <5>2. k - 1 \in 1 .. Len(up) /\ (k - 1) + 1 = k
            BY <5>1, <2>1
        <5> QED BY <5>1, <5>2, <2>1
      <4> QED BY <4>1, <4>2
    <3>2. ASSUME NEW j \in Reached(up) PROVE up[j] \in {s[k] : k \in Reached(s)}
        BY <2>5, <2>7, <2>1
    <3>3. {s[k] : k \in Reached(s)} = {id} \cup {up[j] : j \in Reached(up)}
      <4> HIDE DEF Reached
      <4> QED BY <3>1, <3>2, <2>1, <2>2
    <3> QED BY <1>2, <1>3, <1>4, <1>5, <2>7, <3>3 DEF s
  <2> QED BY <2>6, <2>7
<1>6. CASE id \notin DOMAIN els
  <2>1. Reached(<<>>) = {}
      OBVIOUS
  <2> QED BY <1>2, <1>3, <1>6, <2>1
<1> QED
    BY <1>5, <1>6


\* What the two sets of ways up are, for an element and for what is none.
LEMMA Ways ==
    ASSUME NEW els, NEW rank, NEW n, IsRank(els, rank, n)
    PROVE  /\ \A i \in DOMAIN els : AllUp(els, i) = {i} \cup AllUp(els, els[i].parent)
           /\ \A i : i \notin DOMAIN els => AllUp(els, i) = {} /\ OpenUp(els, i) = {}
           /\ \A i \in DOMAIN els : els[i].collapsed => OpenUp(els, i) = {i}
           /\ \A i \in DOMAIN els :
                 ~els[i].collapsed => OpenUp(els, i) = {i} \cup OpenUp(els, els[i].parent)
BY AllUpIs, OpenUpIs

\* The way up is among the elements, and the ranks sink on it.
LEMMA AllUpSinks ==
    ASSUME NEW els, NEW rank, NEW n, IsRank(els, rank, n), NEW i \in DOMAIN els,
           NEW b \in AllUp(els, i)
    PROVE  b \in DOMAIN els /\ rank[b] <= rank[i]
<1> DEFINE Bad == {j \in DOMAIN els :
                     \E a \in AllUp(els, j) : ~(a \in DOMAIN els /\ rank[a] <= rank[j])}
<1>1. ASSUME NEW j \in Bad PROVE els[j].parent \in Bad
  <2> DEFINE p == els[j].parent
  <2>1. PICK a \in AllUp(els, j) : ~(a \in DOMAIN els /\ rank[a] <= rank[j])
      OBVIOUS
  <2>2. AllUp(els, j) = {j} \cup AllUp(els, p)
      BY Ways
  <2>3. rank[j] \in Nat
      BY DEF IsRank
  <2>4. a # j
      BY <2>1, <2>3
  <2>5. a \in AllUp(els, p)
      BY <2>2, <2>4
  <2>6. p \in DOMAIN els
      BY <2>5, Ways
  <2>7. rank[p] \in Nat /\ rank[p] < rank[j]
      BY <2>6 DEF IsRank
  <2>8. ~(a \in DOMAIN els /\ rank[a] <= rank[p])
    <3>1. ASSUME a \in DOMAIN els, rank[a] <= rank[p] PROVE FALSE
      <4>1. rank[a] \in Nat
          BY <3>1 DEF IsRank
      <4>2. rank[a] <= rank[j]
          BY <3>1, <4>1, <2>3, <2>7
      <4> QED BY <3>1, <4>2, <2>1
    <3> QED BY <3>1
  <2> QED BY <2>5, <2>6, <2>8
<1>2. Bad = {}
  <2>1. Bad \in SUBSET DOMAIN els
      OBVIOUS
  <2> HIDE DEF Bad
  <2> QED BY <1>1, <2>1, Rise
<1> QED
    BY <1>2

\* No element is on the way up from its parent.
LEMMA NotAboveItself ==
    ASSUME NEW els, NEW rank, NEW n, IsRank(els, rank, n), NEW i \in DOMAIN els
    PROVE  i \notin AllUp(els, els[i].parent)
<1> SUFFICES ASSUME i \in AllUp(els, els[i].parent) PROVE FALSE
    OBVIOUS
<1>1. els[i].parent \in DOMAIN els
    BY Ways
<1>2. rank[i] <= rank[els[i].parent]
    BY <1>1, AllUpSinks
<1> QED
    BY <1>1, <1>2 DEF IsRank

\* What is above an element on the way is on the way.
LEMMA AllUpGoesOn ==
    ASSUME NEW els, NEW rank, NEW n, IsRank(els, rank, n), NEW i, NEW b \in AllUp(els, i)
    PROVE  AllUp(els, b) \subseteq AllUp(els, i)
<1> DEFINE Bad == {j \in DOMAIN els : b \in AllUp(els, j) /\ ~(AllUp(els, b) \subseteq AllUp(els, j))}
<1>1. ASSUME NEW j \in Bad PROVE els[j].parent \in Bad
  <2>1. AllUp(els, j) = {j} \cup AllUp(els, els[j].parent)
      BY Ways
  <2>2. b \in AllUp(els, els[j].parent) /\ ~(AllUp(els, b) \subseteq AllUp(els, els[j].parent))
      BY <2>1
  <2> QED BY <2>2, Ways
<1>2. Bad = {}
  <2>1. Bad \in SUBSET DOMAIN els
      OBVIOUS
  <2> HIDE DEF Bad
  <2> QED BY <1>1, <2>1, Rise
<1> QED
    BY <1>2, Ways

\* The way up to the first collapsed element is a part of the whole way.
LEMMA OpenUpIsPart ==
    ASSUME NEW els, NEW rank, NEW n, IsRank(els, rank, n), NEW i
    PROVE  OpenUp(els, i) \subseteq AllUp(els, i)
<1> DEFINE Bad == {j \in DOMAIN els : ~(OpenUp(els, j) \subseteq AllUp(els, j))}
<1>1. ASSUME NEW j \in Bad PROVE els[j].parent \in Bad
  <2>1. AllUp(els, j) = {j} \cup AllUp(els, els[j].parent)
      BY Ways
  <2>2. ~els[j].collapsed /\ OpenUp(els, j) = {j} \cup OpenUp(els, els[j].parent)
      BY <2>1, Ways
  <2>3. ~(OpenUp(els, els[j].parent) \subseteq AllUp(els, els[j].parent))
      BY <2>1, <2>2
  <2> QED BY <2>3, Ways
<1>2. Bad = {}
  <2>1. Bad \in SUBSET DOMAIN els
      OBVIOUS
  <2> HIDE DEF Bad
  <2> QED BY <1>1, <2>1, Rise
<1> QED
    BY <1>2, Ways

\* From an open element that it reaches the open way goes on.
LEMMA OpenUpGoesOn ==
    ASSUME NEW els, NEW rank, NEW n, IsRank(els, rank, n), NEW i, NEW b \in OpenUp(els, i),
           ~els[b].collapsed
    PROVE  OpenUp(els, els[b].parent) \subseteq OpenUp(els, i)
<1> DEFINE Bad == {j \in DOMAIN els :
                     b \in OpenUp(els, j) /\ ~(OpenUp(els, els[b].parent) \subseteq OpenUp(els, j))}
<1>1. ASSUME NEW j \in Bad PROVE els[j].parent \in Bad
  <2>1. b \in OpenUp(els, j) /\ ~(OpenUp(els, els[b].parent) \subseteq OpenUp(els, j))
      OBVIOUS
  <2>2. ~els[j].collapsed
    <3> SUFFICES ASSUME els[j].collapsed PROVE FALSE
        OBVIOUS
    <3>1. OpenUp(els, j) = {j}
        BY Ways
    <3> QED BY <3>1, <2>1
  <2>3. OpenUp(els, j) = {j} \cup OpenUp(els, els[j].parent)
      BY <2>2, Ways
  <2>4. b # j
      BY <2>1, <2>3
  <2>5. b \in OpenUp(els, els[j].parent) /\ ~(OpenUp(els, els[b].parent) \subseteq OpenUp(els, els[j].parent))
      BY <2>1, <2>3, <2>4
  <2> QED BY <2>5, Ways
<1>2. Bad = {}
  <2>1. Bad \in SUBSET DOMAIN els
      OBVIOUS
  <2> HIDE DEF Bad
  <2> QED BY <1>1, <2>1, Rise
<1> QED
    BY <1>2, Ways

\* The open way meets no collapsed element exactly if the whole way has none, and
\* then it is the whole way.
LEMMA OpenToTheRoot ==
    ASSUME NEW els, NEW rank, NEW n, IsRank(els, rank, n), NEW i
    PROVE  /\ AllUp(els, i) \cap Collapsed(els) = {} => OpenUp(els, i) = AllUp(els, i)
           /\ OpenUp(els, i) \cap Collapsed(els) = {} => AllUp(els, i) \cap Collapsed(els) = {}
<1> DEFINE Bad == {j \in DOMAIN els :
                     OpenUp(els, j) \cap Collapsed(els) = {} /\ OpenUp(els, j) # AllUp(els, j)}
<1>1. ASSUME NEW j \in Bad PROVE els[j].parent \in Bad
  <2>1. ~els[j].collapsed
    <3> SUFFICES ASSUME els[j].collapsed PROVE FALSE
        OBVIOUS
    <3>1. OpenUp(els, j) = {j} /\ j \in Collapsed(els)
        BY Ways DEF Collapsed
    <3> QED BY <3>1
  <2>2. OpenUp(els, j) = {j} \cup OpenUp(els, els[j].parent)
      BY <2>1, Ways
  <2>3. AllUp(els, j) = {j} \cup AllUp(els, els[j].parent)
      BY Ways
  <2> QED BY <2>2, <2>3, Ways
<1>2. Bad = {}
  <2>1. Bad \in SUBSET DOMAIN els
      OBVIOUS
  <2> HIDE DEF Bad
  <2> QED BY <1>1, <2>1, Rise
<1>3. OpenUp(els, i) \cap Collapsed(els) = {} => OpenUp(els, i) = AllUp(els, i)
    BY <1>2, Ways
<1>4. OpenUp(els, i) \subseteq AllUp(els, i)
    BY OpenUpIsPart
<1> QED
    BY <1>3, <1>4

\* At the end of the way is one root.
LEMMA OneRoot ==
    ASSUME NEW els, NEW rank, NEW n, IsRank(els, rank, n), NEW i \in DOMAIN els
    PROVE  \E r \in AllUp(els, i) : /\ els[r].parent \notin DOMAIN els
                                    /\ \A q \in AllUp(els, i) : els[q].parent \notin DOMAIN els => q = r
<1> DEFINE End(j) == \E r \in AllUp(els, j) :
                         /\ els[r].parent \notin DOMAIN els
                         /\ \A q \in AllUp(els, j) : els[q].parent \notin DOMAIN els => q = r
           Bad == {j \in DOMAIN els : ~End(j)}
<1>1. ASSUME NEW j \in Bad PROVE els[j].parent \in Bad
  <2>1. AllUp(els, j) = {j} \cup AllUp(els, els[j].parent)
      BY Ways
  <2>2. CASE els[j].parent \in DOMAIN els
    <3> SUFFICES ASSUME End(els[j].parent) PROVE End(j)
        BY <2>2
    <3> QED BY <2>1, <2>2
  <2>3. CASE els[j].parent \notin DOMAIN els
    <3>1. AllUp(els, els[j].parent) = {}
        BY <2>3, Ways
    <3>2. AllUp(els, j) = {j}
        BY <2>1, <3>1
    <3>3. End(j)
        BY <3>2, <2>3
    <3> QED BY <3>3
  <2> QED BY <2>2, <2>3
<1>2. Bad = {}
  <2>1. Bad \in SUBSET DOMAIN els
      OBVIOUS
  <2> HIDE DEF Bad
  <2> QED BY <1>1, <2>1, Rise
<1> QED
    BY <1>2

-----------------------------------------------------------------------------
(* How a change of the elements changes the ways up.                       *)

\* The parents of some elements stay, and so do the ways up from them.
LEMMA SameUp ==
    ASSUME NEW els, NEW more, NEW rank, NEW n, NEW rank2, NEW n2,
           IsRank(els, rank, n), IsRank(more, rank2, n2),
           DOMAIN els \subseteq DOMAIN more,
           \A i \in DOMAIN els : more[i].parent = els[i].parent,
           \A i \in DOMAIN els : els[i].parent \in DOMAIN more => els[i].parent \in DOMAIN els
    PROVE  \A i \in DOMAIN els : AllUp(more, i) = AllUp(els, i)
<1> DEFINE Bad == {j \in DOMAIN els : AllUp(more, j) # AllUp(els, j)}
<1>1. ASSUME NEW j \in Bad PROVE els[j].parent \in Bad
  <2>1. AllUp(els, j) = {j} \cup AllUp(els, els[j].parent)
      BY Ways
  <2>2. j \in DOMAIN more /\ more[j].parent = els[j].parent
      OBVIOUS
  <2>3. AllUp(more, j) = {j} \cup AllUp(more, els[j].parent)
      BY <2>2, Ways
  <2>4. AllUp(more, els[j].parent) # AllUp(els, els[j].parent)
      BY <2>1, <2>3
  <2>5. CASE els[j].parent \notin DOMAIN els
    <3>1. els[j].parent \notin DOMAIN more
        BY <2>5
    <3>2. AllUp(more, els[j].parent) = {} /\ AllUp(els, els[j].parent) = {}
        BY <2>5, <3>1, Ways
    <3> QED BY <3>2, <2>4
  <2> QED BY <2>4, <2>5
<1>2. Bad = {}
  <2>1. Bad \in SUBSET DOMAIN els
      OBVIOUS
  <2> HIDE DEF Bad
  <2> QED BY <1>1, <2>1, Rise
<1> QED
    BY <1>2

LEMMA SameOpenUp ==
    ASSUME NEW els, NEW more, NEW rank, NEW n, NEW rank2, NEW n2,
           IsRank(els, rank, n), IsRank(more, rank2, n2),
           DOMAIN els \subseteq DOMAIN more,
           \A i \in DOMAIN els : more[i].parent = els[i].parent,
           \A i \in DOMAIN els : more[i].collapsed = els[i].collapsed,
           \A i \in DOMAIN els : els[i].parent \in DOMAIN more => els[i].parent \in DOMAIN els
    PROVE  \A i \in DOMAIN els : OpenUp(more, i) = OpenUp(els, i)
<1> DEFINE Bad == {j \in DOMAIN els : OpenUp(more, j) # OpenUp(els, j)}
<1>1. ASSUME NEW j \in Bad PROVE els[j].parent \in Bad
  <2>1. j \in DOMAIN more /\ more[j].parent = els[j].parent /\ more[j].collapsed = els[j].collapsed
      OBVIOUS
  <2>2. OpenUp(els, j) = {j} \cup (IF els[j].collapsed THEN {} ELSE OpenUp(els, els[j].parent))
      BY OpenUpIs
  <2>3. OpenUp(more, j) = {j} \cup (IF els[j].collapsed THEN {} ELSE OpenUp(more, els[j].parent))
      BY <2>1, OpenUpIs
  <2>4. OpenUp(more, els[j].parent) # OpenUp(els, els[j].parent)
      BY <2>2, <2>3
  <2>5. CASE els[j].parent \notin DOMAIN els
    <3>1. els[j].parent \notin DOMAIN more
        BY <2>5
    <3>2. OpenUp(more, els[j].parent) = {} /\ OpenUp(els, els[j].parent) = {}
        BY <2>5, <3>1, Ways
    <3> QED BY <3>2, <2>4
  <2> QED BY <2>4, <2>5
<1>2. Bad = {}
  <2>1. Bad \in SUBSET DOMAIN els
      OBVIOUS
  <2> HIDE DEF Bad
  <2> QED BY <1>1, <2>1, Rise
<1> QED
    BY <1>2

\* An element is collapsed: the open ways that reach it end there.
LEMMA ShutUp ==
    ASSUME NEW els, NEW shut, NEW rank, NEW n,
           IsRank(els, rank, n), IsRank(shut, rank, n),
           DOMAIN shut = DOMAIN els, NEW c \in DOMAIN els,
           ~els[c].collapsed, shut[c].collapsed,
           \A i \in DOMAIN els : shut[i].parent = els[i].parent,
           \A i \in DOMAIN els : i # c => shut[i].collapsed = els[i].collapsed,
           NEW y
    PROVE  OpenUp(shut, y) = IF c \in OpenUp(els, y)
                             THEN OpenUp(els, y) \ OpenUp(els, els[c].parent)
                             ELSE OpenUp(els, y)
<1> DEFINE Above == OpenUp(els, els[c].parent)
           CutShort(j) == IF c \in OpenUp(els, j) THEN OpenUp(els, j) \ Above ELSE OpenUp(els, j)
           Bad == {j \in DOMAIN els : OpenUp(shut, j) # CutShort(j)}
<1>0. c \notin Above /\ OpenUp(els, c) = {c} \cup Above /\ OpenUp(shut, c) = {c}
    BY NotAboveItself, OpenUpIsPart, Ways
<1>1. ASSUME NEW j \in Bad PROVE els[j].parent \in Bad
  <2> DEFINE p == els[j].parent
  <2>1. j # c
      BY <1>0
  <2>2. shut[j].parent = p /\ shut[j].collapsed = els[j].collapsed
      BY <2>1
  <2>3. OpenUp(els, j) = {j} \cup (IF els[j].collapsed THEN {} ELSE OpenUp(els, p))
      BY OpenUpIs
  <2>4. OpenUp(shut, j) = {j} \cup (IF els[j].collapsed THEN {} ELSE OpenUp(shut, p))
      BY <2>2, OpenUpIs
  <2>5. ~els[j].collapsed
      BY <2>1, <2>3, <2>4
  <2>6. p \in DOMAIN els
    <3> SUFFICES ASSUME p \notin DOMAIN els PROVE FALSE
        OBVIOUS
    <3>1. OpenUp(els, p) = {} /\ OpenUp(shut, p) = {}
        BY Ways
    <3> QED BY <2>1, <2>3, <2>4, <3>1
  <2>7. OpenUp(shut, p) # CutShort(p)
    <3> SUFFICES ASSUME OpenUp(shut, p) = CutShort(p) PROVE FALSE
        OBVIOUS
    <3>1. CASE c \in OpenUp(els, p)
      <4>1. j \notin Above
        <5> SUFFICES ASSUME j \in Above PROVE FALSE
            OBVIOUS
        <5>1. c \in AllUp(els, p) /\ j \in AllUp(els, els[c].parent)
            BY <3>1, OpenUpIsPart
        <5>2. els[c].parent \in DOMAIN els
            BY <5>1, Ways
        <5>3. rank[c] <= rank[p] /\ rank[j] <= rank[els[c].parent]
            BY <5>1, <5>2, <2>6, AllUpSinks
        <5>4. rank[p] < rank[j] /\ rank[els[c].parent] < rank[c]
            BY <2>6, <5>2 DEF IsRank
        <5>5. {rank[c], rank[p], rank[j], rank[els[c].parent]} \subseteq Nat
            BY <2>6, <5>2 DEF IsRank
        <5> QED BY <5>3, <5>4, <5>5
      <4> QED BY <2>1, <2>3, <2>4, <2>5, <3>1, <4>1
    <3>2. CASE c \notin OpenUp(els, p)
        BY <2>1, <2>3, <2>4, <2>5, <3>2
    <3> QED BY <3>1, <3>2
  <2> QED BY <2>6, <2>7
<1>2. Bad = {}
  <2>1. Bad \in SUBSET DOMAIN els
      OBVIOUS
  <2> HIDE DEF Bad
  <2> QED BY <1>1, <2>1, Rise
<1>3. CASE y \in DOMAIN els
    BY <1>2, <1>3
<1>4. CASE y \notin DOMAIN els
    BY <1>4, Ways
<1> QED
    BY <1>3, <1>4


\* Two elements on one way up do not have the same parent.
LEMMA Siblings ==
    ASSUME NEW els, NEW rank, NEW n, IsRank(els, rank, n), NEW i,
           NEW a \in AllUp(els, i), NEW b \in AllUp(els, i), els[a].parent = els[b].parent
    PROVE  a = b
<1> SUFFICES ASSUME a # b PROVE FALSE
    OBVIOUS
<1> DEFINE Bad == {j \in DOMAIN els : a \in AllUp(els, j) /\ b \in AllUp(els, j)}
<1>1. ASSUME NEW j \in Bad PROVE els[j].parent \in Bad
  <2>1. AllUp(els, j) = {j} \cup AllUp(els, els[j].parent)
      BY Ways
  <2>0. a \notin AllUp(els, els[a].parent) /\ b \notin AllUp(els, els[b].parent)
    <3>1. a \in DOMAIN els /\ b \in DOMAIN els
        BY AllUpSinks
    <3> QED BY <3>1, NotAboveItself
  <2>2. j # a /\ j # b
      BY <2>0, <2>1
  <2>3. a \in AllUp(els, els[j].parent) /\ b \in AllUp(els, els[j].parent)
      BY <2>1, <2>2
  <2> QED BY <2>3, Ways
<1>2. Bad = {}
  <2>1. Bad \in SUBSET DOMAIN els
      OBVIOUS
  <2> HIDE DEF Bad
  <2> QED BY <1>1, <2>1, Rise
<1> QED
    BY <1>2, Ways

\* An open way up to an element comes through one of its children, which is open.
LEMMA Through ==
    ASSUME NEW els, NEW rank, NEW n, IsRank(els, rank, n), NEW i,
           NEW a \in OpenUp(els, i), a # i
    PROVE  \E k \in OpenUp(els, i) : k \in DOMAIN els /\ ~els[k].collapsed /\ els[k].parent = a
<1> DEFINE Kid(j) == \E k \in OpenUp(els, j) : k \in DOMAIN els /\ ~els[k].collapsed /\ els[k].parent = a
           Bad == {j \in DOMAIN els : a \in OpenUp(els, j) /\ a # j /\ ~Kid(j)}
<1>1. ASSUME NEW j \in Bad PROVE els[j].parent \in Bad
  <2> DEFINE p == els[j].parent
  <2>1. ~els[j].collapsed
    <3> SUFFICES ASSUME els[j].collapsed PROVE FALSE
        OBVIOUS
    <3>1. OpenUp(els, j) = {j}
        BY Ways
    <3> QED BY <3>1
  <2>2. OpenUp(els, j) = {j} \cup OpenUp(els, p)
      BY <2>1, Ways
  <2>3. p # a
      BY <2>1, <2>2
  <2>4. a \in OpenUp(els, p) /\ ~Kid(p)
      BY <2>2
  <2> QED BY <2>3, <2>4, Ways
<1>2. Bad = {}
  <2>1. Bad \in SUBSET DOMAIN els
      OBVIOUS
  <2> HIDE DEF Bad
  <2> QED BY <1>1, <2>1, Rise
<1> QED
    BY <1>2, Ways

\* If the open way reaches an open root, nothing on the whole way is collapsed.
LEMMA OpenRoot ==
    ASSUME NEW els, NEW rank, NEW n, IsRank(els, rank, n), NEW i,
           NEW r \in OpenUp(els, i), els[r].parent \notin DOMAIN els, ~els[r].collapsed
    PROVE  AllUp(els, i) \cap Collapsed(els) = {}
<1> SUFFICES ASSUME NEW c \in OpenUp(els, i), c \in Collapsed(els) PROVE FALSE
    BY OpenToTheRoot
<1> DEFINE Bad == {j \in DOMAIN els : r \in OpenUp(els, j) /\ c \in OpenUp(els, j)}
<1>1. ASSUME NEW j \in Bad PROVE els[j].parent \in Bad
  <2>1. ~els[j].collapsed
    <3> SUFFICES ASSUME els[j].collapsed PROVE FALSE
        OBVIOUS
    <3>1. OpenUp(els, j) = {j}
        BY Ways
    <3> QED BY <3>1 DEF Collapsed
  <2>2. OpenUp(els, j) = {j} \cup OpenUp(els, els[j].parent)
      BY <2>1, Ways
  <2>3. c \in OpenUp(els, els[j].parent)
      BY <2>1, <2>2 DEF Collapsed
  <2>4. els[j].parent \in DOMAIN els
      BY <2>3, Ways
  <2>5. r \in OpenUp(els, els[j].parent)
      BY <2>2, <2>4
  <2> QED BY <2>3, <2>4, <2>5
<1>2. Bad = {}
  <2>1. Bad \in SUBSET DOMAIN els
      OBVIOUS
  <2> HIDE DEF Bad
  <2> QED BY <1>1, <2>1, Rise
<1> QED
    BY <1>2, Ways

-----------------------------------------------------------------------------
(* The rows.                                                               *)

\* The rows an element takes in its tree: its own, and those that lie openly
\* below it.
RowsIn(els, a) ==
    {x \in DOMAIN els : els[x].parent # 0 /\ (x = a \/ a \in OpenUp(els, els[x].parent))}

\* The rows of the tree view.
RowsInSight(els) ==
    {x \in DOMAIN els : els[x].parent # 0 /\ AllUp(els, els[x].parent) \cap Collapsed(els) = {}}

StoreElement == [parent : Nat, kids : Seq(Nat), collapsed : BOOLEAN, weight : Int]

\* What a tree is, but for the kids.
Rooted(els) ==
    /\ IsFiniteSet(DOMAIN els) /\ DOMAIN els \subseteq Nat \ {0}
    /\ els \in [DOMAIN els -> StoreElement]
    /\ \A i \in DOMAIN els : els[i].parent = 0 \/ els[i].parent \in DOMAIN els
    /\ \A i \in DOMAIN els : els[i].parent = 0 => ~els[i].collapsed
    /\ \E rank, n : IsRank(els, rank, n)

\* An element holds each of its children once.
KidsKept(els) ==
    \A i \in DOMAIN els :
        /\ ToSet(els[i].kids) = {j \in DOMAIN els : els[j].parent = i}
        /\ \A k, m \in 1 .. Len(els[i].kids) : els[i].kids[k] = els[i].kids[m] => k = m

Counted(els) == \A a \in DOMAIN els : els[a].weight = Cardinality(RowsIn(els, a))

LEMMA RowsFinite ==
    ASSUME NEW els, IsFiniteSet(DOMAIN els), NEW a
    PROVE  /\ IsFiniteSet(RowsIn(els, a)) /\ Cardinality(RowsIn(els, a)) \in Nat
           /\ IsFiniteSet(RowsInSight(els)) /\ Cardinality(RowsInSight(els)) \in Nat
<1>1. RowsIn(els, a) \in SUBSET DOMAIN els /\ RowsInSight(els) \in SUBSET DOMAIN els
    BY DEF RowsIn, RowsInSight
<1>2. IsFiniteSet(RowsIn(els, a)) /\ IsFiniteSet(RowsInSight(els))
    BY <1>1, FS_Subset
<1> QED
    BY <1>2, FS_CardinalityType

\* A change of the weights and the order of the kids changes no row.
SameTree(els, more) ==
    /\ DOMAIN more = DOMAIN els
    /\ \A i \in DOMAIN els : more[i].parent = els[i].parent /\ more[i].collapsed = els[i].collapsed

LEMMA SameRank ==
    ASSUME NEW els, NEW more, NEW rank, NEW n, IsRank(els, rank, n),
           DOMAIN more = DOMAIN els, \A i \in DOMAIN els : more[i].parent = els[i].parent
    PROVE  IsRank(more, rank, n)
BY DEF IsRank

LEMMA SameRows ==
    ASSUME NEW els, NEW more, Rooted(els), SameTree(els, more)
    PROVE  /\ \A a : RowsIn(more, a) = RowsIn(els, a)
           /\ RowsInSight(more) = RowsInSight(els)
           /\ \A i \in DOMAIN els : AllUp(more, i) = AllUp(els, i) /\ OpenUp(more, i) = OpenUp(els, i)
<1>1. PICK rank, n : IsRank(els, rank, n)
    BY DEF Rooted
<1>2. IsRank(more, rank, n)
    BY <1>1, SameRank DEF SameTree
<1>3. \A i \in DOMAIN els : AllUp(more, i) = AllUp(els, i)
    BY <1>1, <1>2, SameUp DEF SameTree
<1>4. \A i \in DOMAIN els : OpenUp(more, i) = OpenUp(els, i)
    BY <1>1, <1>2, SameOpenUp DEF SameTree
<1>5. Collapsed(more) = Collapsed(els)
    BY DEF Collapsed, SameTree
<1>6. \A x \in DOMAIN els : els[x].parent # 0 => els[x].parent \in DOMAIN els
    BY DEF Rooted
<1>7. RowsInSight(more) = RowsInSight(els)
    BY <1>3, <1>5, <1>6 DEF RowsInSight, SameTree
<1>8. ASSUME NEW a PROVE RowsIn(more, a) = RowsIn(els, a)
    BY <1>4, <1>6 DEF RowsIn, SameTree
<1> QED
    BY <1>3, <1>4, <1>7, <1>8

\* A leaf more.
Leaf(els, more, id, p) ==
    /\ more[id].parent = p
    /\ id \notin DOMAIN els /\ DOMAIN more = DOMAIN els \cup {id}
    /\ \A i \in DOMAIN els : more[i].parent = els[i].parent /\ more[i].collapsed = els[i].collapsed

LEMMA LeafRows ==
    ASSUME NEW els, NEW more, NEW id, Rooted(els), Rooted(more), NEW p, Leaf(els, more, id, p)
    PROVE  /\ RowsIn(more, id) = IF p = 0 THEN {} ELSE {id}
           /\ \A a \in DOMAIN els :
                 RowsIn(more, a) = IF p # 0 /\ a \in OpenUp(els, p) THEN RowsIn(els, a) \cup {id}
                                   ELSE RowsIn(els, a)
           /\ RowsInSight(more) = IF p # 0 /\ OpenUp(els, p) \cap Collapsed(els) = {}
                                  THEN RowsInSight(els) \cup {id} ELSE RowsInSight(els)
           /\ p # 0 => p \in DOMAIN els /\ OpenUp(more, p) = OpenUp(els, p)
<1>0. more[id].parent = p
    BY DEF Leaf
<1>1. PICK rank, n : IsRank(els, rank, n)
    BY DEF Rooted
<1>2. PICK rank2, n2 : IsRank(more, rank2, n2)
    BY DEF Rooted
<1>3. \A i \in DOMAIN els : /\ els[i].parent # 0 => els[i].parent \in DOMAIN els
                            /\ els[i].parent \in DOMAIN more => els[i].parent \in DOMAIN els
                            /\ more[i].parent = els[i].parent /\ more[i].collapsed = els[i].collapsed
    BY DEF Rooted, Leaf
<1>4. \A i \in DOMAIN els : AllUp(more, i) = AllUp(els, i) /\ OpenUp(more, i) = OpenUp(els, i)
  <2>1. DOMAIN els \subseteq DOMAIN more
      BY DEF Leaf
  <2> QED BY <1>1, <1>2, <1>3, <2>1, SameUp, SameOpenUp
<1>5. p # 0 => p \in DOMAIN els
  <2>1. id \in DOMAIN more /\ (p # 0 => p \in DOMAIN more)
      BY <1>0 DEF Rooted, Leaf
  <2>2. p # id
      BY <1>0, <1>2, <2>1 DEF IsRank
  <2> QED BY <1>0, <2>1, <2>2 DEF Leaf
<1>6. \A i \in DOMAIN els : id \notin OpenUp(els, i) /\ AllUp(els, i) \subseteq DOMAIN els
    BY <1>1, AllUpSinks, OpenUpIsPart DEF Leaf
<1>7. Collapsed(more) \cap DOMAIN els = Collapsed(els)
    BY <1>3 DEF Collapsed, Leaf
<1>8. RowsIn(more, id) = IF p = 0 THEN {} ELSE {id}
    BY <1>0, <1>3, <1>4, <1>5, <1>6 DEF RowsIn, Leaf
<1>9. ASSUME NEW a \in DOMAIN els
      PROVE  RowsIn(more, a) = IF p # 0 /\ a \in OpenUp(els, p) THEN RowsIn(els, a) \cup {id}
                               ELSE RowsIn(els, a)
    BY <1>0, <1>3, <1>4, <1>5 DEF RowsIn, Leaf
<1>10. p # 0 => (AllUp(els, p) \cap Collapsed(els) = {} <=> OpenUp(els, p) \cap Collapsed(els) = {})
    BY <1>1, OpenToTheRoot
<1>11. RowsInSight(more) = IF p # 0 /\ OpenUp(els, p) \cap Collapsed(els) = {}
                           THEN RowsInSight(els) \cup {id} ELSE RowsInSight(els)
  <2>1. \A x \in DOMAIN els : x \in RowsInSight(more) <=> x \in RowsInSight(els)
      BY <1>3, <1>4, <1>6, <1>7 DEF RowsInSight, Leaf
  <2>2. id \in RowsInSight(more) <=> p # 0 /\ OpenUp(els, p) \cap Collapsed(els) = {}
    <3>1. p # 0 => AllUp(more, p) \cap Collapsed(more) = AllUp(els, p) \cap Collapsed(els)
        BY <1>4, <1>5, <1>6, <1>7
    <3>2. id \in DOMAIN more
        BY DEF Leaf
    <3> QED BY <1>0, <1>10, <3>1, <3>2 DEF RowsInSight
  <2>3. RowsInSight(more) \subseteq DOMAIN els \cup {id} /\ RowsInSight(els) \subseteq DOMAIN els
      BY DEF RowsInSight, Leaf
  <2> QED BY <2>1, <2>2, <2>3
<1> QED
    BY <1>4, <1>5, <1>8, <1>9, <1>11

\* An open element is collapsed.
Shut(els, shut, c) ==
    /\ DOMAIN shut = DOMAIN els /\ c \in DOMAIN els /\ els[c].parent # 0
    /\ ~els[c].collapsed /\ shut[c].collapsed
    /\ \A i \in DOMAIN els : shut[i].parent = els[i].parent
    /\ \A i \in DOMAIN els : i # c => shut[i].collapsed = els[i].collapsed

LEMMA ShutRows ==
    ASSUME NEW els, NEW shut, NEW c, Rooted(els), Shut(els, shut, c),
           NEW Above, Above = OpenUp(els, els[c].parent)
    PROVE  /\ \A a \in DOMAIN els :
                 /\ RowsIn(shut, a) = IF a \in Above THEN RowsIn(els, a) \ (RowsIn(els, c) \ {c})
                                      ELSE RowsIn(els, a)
                 /\ a \in Above => RowsIn(els, c) \subseteq RowsIn(els, a)
           /\ c \in RowsIn(els, c)
           /\ OpenUp(shut, els[c].parent) = Above /\ c \notin Above
<1>1. PICK rank, n : IsRank(els, rank, n)
    BY DEF Rooted
<1>2. IsRank(shut, rank, n)
    BY <1>1, SameRank DEF Shut
<1>3. \A y : OpenUp(shut, y) = IF c \in OpenUp(els, y) THEN OpenUp(els, y) \ Above ELSE OpenUp(els, y)
    BY <1>1, <1>2, ShutUp DEF Shut
<1>4. c \notin Above
    BY <1>1, NotAboveItself, OpenUpIsPart DEF Shut
<1>5. c \in RowsIn(els, c)
    BY DEF RowsIn, Shut
<1>6. \A x \in DOMAIN els : els[x].parent # 0 => (x \in RowsIn(els, c) \ {c} <=> c \in OpenUp(els, els[x].parent))
    BY <1>4 DEF RowsIn, Shut
<1>7. \A y : c \in OpenUp(els, y) => Above \subseteq OpenUp(els, y)
    BY <1>1, OpenUpGoesOn DEF Shut
<1>8. ASSUME NEW a \in Above PROVE RowsIn(els, c) \subseteq RowsIn(els, a)
  <2>1. ASSUME NEW x \in RowsIn(els, c) PROVE a \in OpenUp(els, els[x].parent)
      BY <2>1, <1>7, <1>8 DEF RowsIn
  <2> QED BY <2>1 DEF RowsIn
<1>9. ASSUME NEW a \in DOMAIN els, a \notin Above PROVE RowsIn(shut, a) = RowsIn(els, a)
  <2>1. \A y : a \in OpenUp(shut, y) <=> a \in OpenUp(els, y)
      BY <1>3, <1>9
  <2> QED BY <2>1 DEF RowsIn, Shut
<1>10. ASSUME NEW a \in Above PROVE RowsIn(shut, a) = RowsIn(els, a) \ (RowsIn(els, c) \ {c})
  <2>1. \A y : a \in OpenUp(shut, y) <=> a \in OpenUp(els, y) /\ c \notin OpenUp(els, y)
      BY <1>3, <1>10
  <2>2. c \notin OpenUp(els, els[a].parent)
    <3> SUFFICES ASSUME c \in OpenUp(els, els[a].parent) PROVE FALSE
        OBVIOUS
    <3>1. a \in OpenUp(els, els[a].parent)
        BY <1>7, <1>10
    <3>2. a \in AllUp(els, els[c].parent) /\ a \in AllUp(els, els[a].parent)
        BY <1>1, <1>10, <3>1, OpenUpIsPart
    <3>3. els[c].parent \in DOMAIN els
        BY DEF Rooted, Shut
    <3>4. a \in DOMAIN els
        BY <1>1, <3>2, <3>3, AllUpSinks
    <3> QED BY <1>1, <3>2, <3>4, NotAboveItself
  <2>3. a \notin RowsIn(els, c) \ {c}
      BY <2>2 DEF RowsIn
  <2> QED BY <1>6, <2>1, <2>2, <2>3 DEF RowsIn, Shut
<1> QED
    BY <1>3, <1>4, <1>5, <1>8, <1>9, <1>10


-----------------------------------------------------------------------------
(* Folds.                                                                  *)

\* From each number to the next.
LEMMA Climb ==
    ASSUME NEW n \in Nat, NEW P, 0 \in P, \A i \in 1 .. n : i - 1 \in P => i \in P
    PROVE  0 .. n \subseteq P
<1> DEFINE Bad == {i \in 0 .. n : i \notin P}
<1>1. ASSUME NEW i \in Bad PROVE \E j \in Bad : j < i
  <2>1. i \in 1 .. n
      OBVIOUS
  <2>2. i - 1 \in Bad /\ i - 1 < i
      BY <2>1
  <2> QED BY <2>2
<1>2. Bad = {}
  <2>1. Bad \in SUBSET Nat
      OBVIOUS
  <2> HIDE DEF Bad
  <2> QED BY <1>1, <2>1, NoSmallest
<1> QED
    BY <1>2

\* The stages of a fold are there if every step stays among some values.
AreStages(f, X, start, n, F) ==
    /\ f \in [0 .. n -> X]
    /\ f[0] = start
    /\ \A i \in 1 .. n : f[i] = F[i][f[i - 1]]

LEMMA StagesExist ==
    ASSUME NEW X, NEW start \in X, NEW n \in Nat, NEW F \in [1 .. n -> [X -> X]]
    PROVE  \E f : AreStages(f, X, start, n, F)
<1> DEFINE P == {m \in 0 .. n : \E f : AreStages(f, X, start, m, F)}
<1>1. 0 \in P
  <2>1. AreStages([i \in 0 .. 0 |-> start], X, start, 0, F)
      BY DEF AreStages
  <2> QED BY <2>1
<1>2. ASSUME NEW m \in 1 .. n, m - 1 \in P PROVE m \in P
  <2>1. PICK f : AreStages(f, X, start, m - 1, F)
      BY <1>2
  <2>2. f \in [0 .. m - 1 -> X] /\ f[0] = start /\ \A i \in 1 .. m - 1 : f[i] = F[i][f[i - 1]]
      BY <2>1 DEF AreStages
  <2> DEFINE g == [i \in 0 .. m |-> IF i = m THEN F[m][f[m - 1]] ELSE f[i]]
  <2>3. F[m][f[m - 1]] \in X
      BY <2>2
  <2>4. g \in [0 .. m -> X]
      BY <2>2, <2>3
  <2>5. g[0] = start
      BY <2>2
  <2>6. ASSUME NEW i \in 1 .. m PROVE g[i] = F[i][g[i - 1]]
    <3>1. g[i - 1] = f[i - 1]
        OBVIOUS
    <3>2. CASE i = m
        BY <3>1, <3>2
    <3>3. CASE i # m
      <4>1. i \in 1 .. m - 1
          BY <3>3
      <4> QED BY <3>1, <3>3, <4>1, <2>2
    <3> QED BY <3>2, <3>3
  <2>7. AreStages(g, X, start, m, F)
    <3> HIDE DEF g
    <3> QED BY <2>4, <2>5, <2>6 DEF AreStages
  <2> QED BY <2>7
<1>3. 0 .. n \subseteq P
  <2> HIDE DEF P
  <2> QED BY <1>1, <1>2, Climb
<1> QED
    BY <1>3

\* What Weighed adds up, step by step.
AreSums(g, weights, start, seq) ==
    /\ Weighed(weights, start, seq) = g[Len(seq)]
    /\ g[0] = start
    /\ \A i \in 1 .. Len(seq) : g[i] = g[i - 1] + weights[seq[i]]

LEMMA WeighedIs ==
    ASSUME NEW weights, NEW start \in Int, NEW seq, Len(seq) \in Nat,
           \A i \in 1 .. Len(seq) : weights[seq[i]] \in Int
    PROVE  \E g : AreSums(g, weights, start, seq)
<1> DEFINE n == Len(seq)
           F == [i \in 1 .. n |-> [x \in Int |-> x + weights[seq[i]]]]
           Step(g) == [i \in 0 .. n |-> IF i = 0 THEN start ELSE g[i - 1] + weights[seq[i]]]
           after == CHOOSE g : g = Step(g)
<1>1. ASSUME NEW g, NEW i PROVE With(g[i - 1], LAMBDA a : a + weights[seq[i]]) = g[i - 1] + weights[seq[i]]
    BY DEF With
<1>2. F \in [1 .. n -> [Int -> Int]]
    OBVIOUS
<1>3. PICK f : AreStages(f, Int, start, n, F)
  <2> HIDE DEF F
  <2> QED BY <1>2, StagesExist
<1>4. f = Step(f)
  <2>0. f \in [0 .. n -> Int] /\ f[0] = start /\ \A i \in 1 .. n : f[i] = F[i][f[i - 1]]
    <3> HIDE DEF F
    <3> QED BY <1>3 DEF AreStages
  <2>1. ASSUME NEW i \in 0 .. n PROVE f[i] = Step(f)[i]
    <3>1. CASE i = 0
        BY <3>1, <2>0
    <3>2. CASE i # 0
      <4>1. i \in 1 .. n /\ i - 1 \in 0 .. n
          BY <3>2
      <4>2. F[i][f[i - 1]] = f[i - 1] + weights[seq[i]]
          BY <4>1, <2>0
      <4>3. f[i] = f[i - 1] + weights[seq[i]]
          BY <4>1, <4>2, <2>0
      <4>4. Step(f)[i] = f[i - 1] + weights[seq[i]]
          BY <3>2
      <4> QED BY <4>3, <4>4
    <3> QED BY <3>1, <3>2
  <2> QED BY <2>0, <2>1
<1>5. after = Step(after)
    BY <1>4
<1>6. \A g : [i \in 0 .. Len(seq) |->
                IF i = 0 THEN start ELSE With(g[i - 1], LAMBDA a : a + weights[seq[i]])] = Step(g)
    BY <1>1
<1>7. Weighed(weights, start, seq) = after[n]
    BY <1>6 DEF Weighed, Fold, Stages
<1>8. after[0] = start /\ \A i \in 1 .. n : after[i] = after[i - 1] + weights[seq[i]]
  <2>1. \A g : Step(g)[0] = start /\ \A i \in 1 .. n : Step(g)[i] = g[i - 1] + weights[seq[i]]
      OBVIOUS
  <2> HIDE DEF after, Step
  <2> QED BY <2>1, <1>5
<1>9. AreSums(after, weights, start, seq)
  <2> HIDE DEF after
  <2> QED BY <1>7, <1>8 DEF AreSums
<1> QED
    BY <1>9

\* Disjoint sets of the weights of the elements of a sequence are together as
\* many as the weights add up to.
Shares(weights, seq, V) ==
    /\ Len(seq) \in Nat
    /\ \A i \in 1 .. Len(seq) : /\ IsFiniteSet(V[seq[i]])
                                /\ weights[seq[i]] = Cardinality(V[seq[i]])
    /\ \A i, j \in 1 .. Len(seq) : i # j => V[seq[i]] \cap V[seq[j]] = {}

Together(V, seq) == UNION {V[seq[i]] : i \in 1 .. Len(seq)}

LEMMA WeighedCounts ==
    ASSUME NEW weights, NEW start \in Nat, NEW seq, NEW V, Shares(weights, seq, V)
    PROVE  /\ IsFiniteSet(Together(V, seq))
           /\ Weighed(weights, start, seq) = start + Cardinality(Together(V, seq))
<1> DEFINE n == Len(seq)
           All(m) == UNION {V[seq[i]] : i \in 1 .. m}
<1> /\ Len(seq) \in Nat
    /\ \A i \in 1 .. Len(seq) : /\ IsFiniteSet(V[seq[i]])
                                /\ weights[seq[i]] = Cardinality(V[seq[i]])
    /\ \A i, j \in 1 .. Len(seq) : i # j => V[seq[i]] \cap V[seq[j]] = {}
    BY DEF Shares
<1>0. \A i \in 1 .. n : weights[seq[i]] \in Nat
    BY FS_CardinalityType
<1>00. PICK g : AreSums(g, weights, start, seq)
  <2>1. start \in Int /\ \A i \in 1 .. Len(seq) : weights[seq[i]] \in Int
      BY <1>0
  <2> HIDE DEF n
  <2> QED BY <2>1, WeighedIs
<1>1. /\ Weighed(weights, start, seq) = g[n]
      /\ g[0] = start
      /\ \A i \in 1 .. n : g[i] = g[i - 1] + weights[seq[i]]
    BY <1>00 DEF AreSums
<1> DEFINE P == {m \in 0 .. n : IsFiniteSet(All(m)) /\ g[m] = start + Cardinality(All(m))}
<1>2. 0 \in P
  <2>1. All(0) = {}
      OBVIOUS
  <2> HIDE DEF All
  <2>2. IsFiniteSet(All(0)) /\ Cardinality(All(0)) = 0
      BY <2>1, FS_EmptySet
  <2> QED BY <1>1, <2>2
<1>3. ASSUME NEW m \in 1 .. n, m - 1 \in P PROVE m \in P
  <2>1. All(m) = All(m - 1) \cup V[seq[m]]
    <3>1. 1 .. m = (1 .. m - 1) \cup {m}
        OBVIOUS
    <3> QED BY <3>1
  <2>2. All(m - 1) \cap V[seq[m]] = {}
      OBVIOUS
  <2>3. IsFiniteSet(All(m - 1)) /\ g[m - 1] = start + Cardinality(All(m - 1))
      BY <1>3
  <2> HIDE DEF All
  <2>4. IsFiniteSet(V[seq[m]]) /\ weights[seq[m]] = Cardinality(V[seq[m]])
      OBVIOUS
  <2>5. /\ IsFiniteSet(All(m))
        /\ Cardinality(All(m)) = Cardinality(All(m - 1)) + Cardinality(V[seq[m]]) - Cardinality({})
    <3> DEFINE A == All(m - 1)
               B == V[seq[m]]
    <3>1. IsFiniteSet(A) /\ IsFiniteSet(B)
        BY <2>3, <2>4
    <3>2. IsFiniteSet(A \cup B) /\ Cardinality(A \cup B) = Cardinality(A) + Cardinality(B) - Cardinality(A \cap B)
      <4> HIDE DEF A, B
      <4> QED BY <3>1, FS_Union
    <3> QED BY <2>1, <2>2, <3>2
  <2>6. Cardinality({}) = 0
      BY FS_EmptySet
  <2>7. Cardinality(All(m - 1)) \in Nat /\ Cardinality(V[seq[m]]) \in Nat
      BY <2>3, <2>4, FS_CardinalityType
  <2>8. g[m] = start + Cardinality(All(m))
    <3>1. g[m] = g[m - 1] + Cardinality(V[seq[m]])
        BY <1>1, <2>4
    <3>2. g[m] = (start + Cardinality(All(m - 1))) + Cardinality(V[seq[m]])
        BY <2>3, <3>1
    <3>3. Cardinality(All(m)) = Cardinality(All(m - 1)) + Cardinality(V[seq[m]])
        BY <2>5, <2>6, <2>7
    <3> QED BY <2>7, <3>2, <3>3
  <2> QED BY <2>5, <2>8
<1>4. 0 .. n \subseteq P
  <2>1. n \in Nat
      OBVIOUS
  <2> HIDE DEF P, n
  <2> QED BY <1>2, <1>3, <2>1, Climb
<1>5. IsFiniteSet(All(n)) /\ g[n] = start + Cardinality(All(n))
  <2>1. n \in 0 .. n
      OBVIOUS
  <2>2. n \in P
    <3> HIDE DEF P
    <3> QED BY <2>1, <1>4
  <2> HIDE DEF All
  <2> QED BY <2>2
<1> QED
    BY <1>1, <1>5 DEF Together

\* A set as a sequence.
LEMMA SetToSeqIs ==
    ASSUME NEW S, IsFiniteSet(S)
    PROVE  /\ Len(SetToSeq(S)) = Cardinality(S) /\ Cardinality(S) \in Nat
           /\ \A x : x \in S <=> \E i \in 1 .. Cardinality(S) : SetToSeq(S)[i] = x
           /\ \A i, j \in 1 .. Cardinality(S) : SetToSeq(S)[i] = SetToSeq(S)[j] => i = j
<1> DEFINE n == Cardinality(S)
           I == 1 .. n
<1>1. n \in Nat /\ ExistsBijection(I, S)
    BY FS_CardinalityType
<1>2. PICK b : b \in Bijection(I, S)
    BY <1>1 DEF ExistsBijection
<1>3. b \in [I -> S] /\ IsInjective(b)
    BY <1>2 DEF Bijection, Injection
<1> DEFINE s == SetToSeq(S)
<1>4. s \in [I -> S] /\ IsInjective(s)
    BY <1>3 DEF SetToSeq
<1> HIDE DEF s
<1>5. s \in Injection(I, S)
    BY <1>4 DEF Injection
<1>6. IsFiniteSet(I) /\ Cardinality(I) = n
    BY <1>1, FS_Interval
<1>7. s \in Surjection(I, S)
    BY <1>5, <1>6, FS_Injection
<1>8. Len(s) = n
    BY <1>1, <1>4
<1>9. \A i, j \in I : s[i] = s[j] => i = j
    BY <1>4 DEF IsInjective
<1>10. \A x \in S : \E i \in I : s[i] = x
    BY <1>7 DEF Surjection
<1> QED
    BY <1>1, <1>4, <1>8, <1>9, <1>10 DEF s


-----------------------------------------------------------------------------
(* The store.                                                              *)

Weighted(els) == Rooted(els) /\ KidsKept(els) /\ Counted(els)

Trees == {els \in UNION {[D -> StoreElement] : D \in SUBSET Nat} : Weighted(els)}

\* Stores that count their rows right.
Stores ==
    {s \in [elements : Trees, rows : Nat, threw : BOOLEAN] :
        s.rows = Cardinality(RowsInSight(s.elements))}

LEMMA TreesAre ==
    ASSUME NEW els
    PROVE  els \in Trees <=> Weighted(els)
<1>1. ASSUME Weighted(els) PROVE els \in UNION {[D -> StoreElement] : D \in SUBSET Nat}
  <2>1. els \in [DOMAIN els -> StoreElement] /\ DOMAIN els \in SUBSET Nat
      BY <1>1 DEF Weighted, Rooted
  <2> QED BY <2>1
<1> QED
    BY <1>1 DEF Trees

\* A tree with other weights, another order of the kids or other folds.
LEMMA RootedStill ==
    ASSUME NEW els, NEW more, Rooted(els), more \in [DOMAIN els -> StoreElement],
           \A i \in DOMAIN els : more[i].parent = els[i].parent,
           \A i \in DOMAIN els : more[i].parent = 0 => ~more[i].collapsed
    PROVE  Rooted(more)
<1>1. PICK rank, n : IsRank(els, rank, n)
    BY DEF Rooted
<1>2. DOMAIN more = DOMAIN els
    OBVIOUS
<1>3. IsRank(more, rank, n)
    BY <1>1, <1>2, SameRank
<1> QED
    BY <1>2, <1>3 DEF Rooted

LEMMA KeptStill ==
    ASSUME NEW els, NEW more, KidsKept(els), DOMAIN more = DOMAIN els,
           \A i \in DOMAIN els : more[i].parent = els[i].parent /\ more[i].kids = els[i].kids
    PROVE  KidsKept(more)
BY DEF KidsKept

LEMMA HeavierIs ==
    ASSUME NEW els, Rooted(els), KidsKept(els), NEW ids, NEW delta \in Int
    PROVE  LET h == Heavier(els, ids, delta)
           IN  /\ Rooted(h) /\ KidsKept(h) /\ SameTree(els, h)
               /\ \A i \in DOMAIN els :
                     h[i].weight = IF i \in ids THEN els[i].weight + delta ELSE els[i].weight
<1> DEFINE h == Heavier(els, ids, delta)
<1>1. els \in [DOMAIN els -> StoreElement]
    BY DEF Rooted
<1>2. DOMAIN h = DOMAIN els
    BY DEF Heavier
<1>3. ASSUME NEW i \in DOMAIN els
      PROVE  /\ h[i] \in StoreElement /\ h[i].parent = els[i].parent /\ h[i].kids = els[i].kids
             /\ h[i].collapsed = els[i].collapsed
             /\ h[i].weight = IF i \in ids THEN els[i].weight + delta ELSE els[i].weight
  <2>1. els[i] \in StoreElement
      BY <1>1
  <2>2. h[i] = IF i \in ids THEN [els[i] EXCEPT !.weight = @ + delta] ELSE els[i]
      BY DEF Heavier
  <2> QED BY <2>1, <2>2 DEF StoreElement
<1>4. h \in [DOMAIN els -> StoreElement]
  <2>1. h = [i \in DOMAIN els |-> h[i]]
      BY DEF Heavier
  <2> HIDE DEF h
  <2> QED BY <1>3, <2>1
<1>5. \A i \in DOMAIN els : h[i].parent = 0 => ~h[i].collapsed
  <2> HIDE DEF h
  <2> QED BY <1>3 DEF Rooted
<1> HIDE DEF h
<1>6. Rooted(h)
    BY <1>3, <1>4, <1>5, RootedStill
<1>7. KidsKept(h)
    BY <1>2, <1>3, KeptStill
<1> QED
    BY <1>2, <1>3, <1>6, <1>7 DEF SameTree, h

\* Both together, in one place.
LEMMA Recounted ==
    ASSUME NEW els, Rooted(els), KidsKept(els), NEW ids, NEW delta \in Int,
           \A a \in DOMAIN els : Cardinality(RowsIn(els, a)) =
               IF a \in ids THEN els[a].weight + delta ELSE els[a].weight
    PROVE  /\ Weighted(Heavier(els, ids, delta))
           /\ RowsInSight(Heavier(els, ids, delta)) = RowsInSight(els)
           /\ SameTree(els, Heavier(els, ids, delta))
<1> DEFINE h == Heavier(els, ids, delta)
<1>1. /\ Rooted(h) /\ KidsKept(h) /\ SameTree(els, h)
      /\ \A i \in DOMAIN els :
            h[i].weight = IF i \in ids THEN els[i].weight + delta ELSE els[i].weight
    BY HeavierIs
<1> HIDE DEF h
<1>2. \A a : RowsIn(h, a) = RowsIn(els, a)
    BY <1>1, SameRows
<1>3. RowsInSight(h) = RowsInSight(els)
    BY <1>1, SameRows
<1>4. Counted(h)
    BY <1>1, <1>2 DEF Counted, SameTree
<1> QED
    BY <1>1, <1>3, <1>4 DEF Weighted, h

-----------------------------------------------------------------------------
(* An element is added.                                                    *)

Adds == [op : {"add"}, id : Nat \ {0}, parent : Nat]

\* The elements with the new one, before the weights are adjusted.
WithElement(els, op, byDefault) ==
    [i \in DOMAIN els \cup {op.id} |->
        IF i = op.id
        THEN [parent |-> op.parent, kids |-> <<>>, collapsed |-> ~(op.parent = 0) /\ byDefault,
              weight |-> IF op.parent = 0 THEN 0 ELSE 1]
        ELSE IF i = op.parent THEN [els[i] EXCEPT !.kids = Append(@, op.id)]
        ELSE els[i]]

LEMMA WithElementIs ==
    ASSUME NEW els, Rooted(els), KidsKept(els), NEW op \in Adds, NEW byDefault \in BOOLEAN,
           op.id \notin DOMAIN els, op.parent = 0 \/ op.parent \in DOMAIN els
    PROVE  LET w == WithElement(els, op, byDefault)
           IN  /\ Rooted(w) /\ KidsKept(w) /\ Leaf(els, w, op.id, op.parent)
               /\ w[op.id].weight = IF op.parent = 0 THEN 0 ELSE 1
               /\ \A i \in DOMAIN els : w[i].weight = els[i].weight
<1> DEFINE w == WithElement(els, op, byDefault)
           D == DOMAIN els
<1>0. op.id \in Nat \ {0} /\ op.parent \in Nat /\ op.id \notin D /\ op.id # op.parent
    BY DEF Adds
<1>1. els \in [D -> StoreElement] /\ D \subseteq Nat \ {0}
    BY DEF Rooted
<1>2. DOMAIN w = D \cup {op.id}
    BY DEF WithElement
<1>3. /\ w[op.id] \in StoreElement /\ w[op.id].parent = op.parent /\ w[op.id].kids = <<>>
      /\ w[op.id].weight = (IF op.parent = 0 THEN 0 ELSE 1)
      /\ op.parent = 0 => ~w[op.id].collapsed
  <2> DEFINE c == ~(op.parent = 0) /\ byDefault
             v == IF op.parent = 0 THEN 0 ELSE 1
  <2>1. w[op.id] = [parent |-> op.parent, kids |-> <<>>, collapsed |-> c, weight |-> v]
      BY DEF WithElement
  <2>2. c \in BOOLEAN /\ v \in Int /\ (op.parent = 0 => ~c) /\ <<>> \in Seq(Nat)
      OBVIOUS
  <2>3. v = IF op.parent = 0 THEN 0 ELSE 1
      OBVIOUS
  <2> HIDE DEF c, v, w
  <2>4. w[op.id] \in StoreElement
      BY <2>1, <2>2, <1>0 DEF StoreElement
  <2>5. /\ w[op.id].parent = op.parent /\ w[op.id].kids = <<>> /\ w[op.id].weight = v
        /\ w[op.id].collapsed = c
      BY <2>1
  <2> QED BY <2>2, <2>3, <2>4, <2>5
<1>4. ASSUME NEW i \in D
      PROVE  /\ w[i] \in StoreElement /\ w[i].parent = els[i].parent /\ w[i].collapsed = els[i].collapsed
             /\ w[i].weight = els[i].weight
             /\ w[i].kids = IF i = op.parent THEN Append(els[i].kids, op.id) ELSE els[i].kids
  <2>1. els[i] \in StoreElement /\ i # op.id
      BY <1>0, <1>1
  <2>2. w[i] = IF i = op.parent THEN [els[i] EXCEPT !.kids = Append(@, op.id)] ELSE els[i]
      BY <2>1 DEF WithElement
  <2>3. els[i].kids \in Seq(Nat)
      BY <2>1 DEF StoreElement
  <2>4. Append(els[i].kids, op.id) \in Seq(Nat)
      BY <1>0, <2>3
  <2> QED BY <2>1, <2>2, <2>4 DEF StoreElement
<1> HIDE DEF w
<1>5. Leaf(els, w, op.id, op.parent)
    BY <1>0, <1>2, <1>3, <1>4 DEF Leaf
<1>6. w \in [DOMAIN w -> StoreElement]
  <2>1. w = [i \in D \cup {op.id} |-> w[i]]
      BY DEF w, WithElement
  <2> QED BY <1>2, <1>3, <1>4, <2>1
<1>7. IsFiniteSet(DOMAIN w)
    BY <1>2, FS_AddElement DEF Rooted
<1>8. \E rank, n : IsRank(w, rank, n)
  <2>1. PICK rank, n : IsRank(els, rank, n)
      BY DEF Rooted
  <2> DEFINE rank2 == [i \in D \cup {op.id} |-> IF i = op.id THEN n + 1 ELSE rank[i]]
  <2>2. /\ n \in Nat /\ \A i \in D : rank[i] \in 0 .. n
        /\ \A i \in D : els[i].parent \in D => rank[els[i].parent] < rank[i]
      BY <2>1 DEF IsRank
  <2>3. n + 1 \in Nat /\ rank2 \in [DOMAIN w -> 0 .. n + 1]
      BY <1>2, <2>2
  <2>4. ASSUME NEW i \in DOMAIN w, w[i].parent \in DOMAIN w PROVE rank2[w[i].parent] < rank2[i]
    <3>1. CASE i = op.id
      <4>1. w[i].parent \in D
          BY <3>1, <1>0, <1>2, <1>3, <2>4
      <4>2. rank2[w[i].parent] = rank[w[i].parent] /\ rank2[i] = n + 1
          BY <4>1, <3>1, <1>0
      <4>3. rank[w[i].parent] \in 0 .. n
          BY <4>1, <2>2
      <4> QED BY <4>2, <4>3, <2>2
    <3>2. CASE i # op.id
      <4>1. i \in D /\ w[i].parent = els[i].parent
          BY <3>2, <1>2, <1>4
      <4>2. els[i].parent \in D
          BY <4>1, <1>0, <2>4, <1>2 DEF Rooted
      <4>3. rank2[i] = rank[i] /\ rank2[els[i].parent] = rank[els[i].parent]
          BY <4>1, <4>2, <1>0
      <4> QED BY <4>1, <4>2, <4>3, <2>2
    <3> QED BY <3>1, <3>2
  <2>5. IsRank(w, rank2, n + 1)
    <3> HIDE DEF rank2
    <3> QED BY <2>3, <2>4 DEF IsRank
  <2> QED BY <2>5
<1>9. Rooted(w)
  <2>1. DOMAIN w \subseteq Nat \ {0}
      BY <1>0, <1>1, <1>2
  <2>2. \A i \in DOMAIN w : w[i].parent = 0 \/ w[i].parent \in DOMAIN w
      BY <1>2, <1>3, <1>4 DEF Rooted
  <2>3. \A i \in DOMAIN w : w[i].parent = 0 => ~w[i].collapsed
      BY <1>2, <1>3, <1>4 DEF Rooted
  <2> QED BY <1>6, <1>7, <1>8, <2>1, <2>2, <2>3 DEF Rooted
<1>10. KidsKept(w)
  <2>1. \A j \in DOMAIN w : w[j].parent # op.id
    <3>1. \A j \in D : els[j].parent # op.id
        BY <1>0 DEF Rooted
    <3> QED BY <3>1, <1>0, <1>2, <1>3, <1>4
  <2>2. ToSet(<<>>) = {} /\ Len(<<>>) = 0
      BY DEF ToSet
  <2>3. ASSUME NEW i \in D, i # op.parent
        PROVE  /\ ToSet(w[i].kids) = {j \in DOMAIN w : w[j].parent = i}
               /\ \A k, m \in 1 .. Len(w[i].kids) : w[i].kids[k] = w[i].kids[m] => k = m
    <3>1. w[i].kids = els[i].kids
        BY <1>4, <2>3
    <3>2. {j \in DOMAIN w : w[j].parent = i} = {j \in D : els[j].parent = i}
        BY <1>2, <1>3, <1>4, <2>3
    <3> QED BY <3>1, <3>2 DEF KidsKept
  <2>4. ASSUME NEW i \in D, i = op.parent
        PROVE  /\ ToSet(w[i].kids) = {j \in DOMAIN w : w[j].parent = i}
               /\ \A k, m \in 1 .. Len(w[i].kids) : w[i].kids[k] = w[i].kids[m] => k = m
    <3> DEFINE kids == els[i].kids
               more == Append(kids, op.id)
    <3>1. w[i].kids = more
        BY <1>4, <2>4
    <3>2. kids \in Seq(Nat)
        BY <1>1 DEF StoreElement
    <3>3. ToSet(kids) = {j \in D : els[j].parent = i} /\ \A k, m \in 1 .. Len(kids) : kids[k] = kids[m] => k = m
        BY DEF KidsKept
    <3> HIDE DEF kids
    <3>4. /\ Len(kids) \in Nat /\ DOMAIN kids = 1 .. Len(kids) /\ Len(more) = Len(kids) + 1
          /\ DOMAIN more = 1 .. Len(kids) + 1 /\ more[Len(kids) + 1] = op.id
          /\ \A k \in 1 .. Len(kids) : more[k] = kids[k]
        BY <3>2, <1>0
    <3> HIDE DEF more
    <3>5. op.id \notin ToSet(kids)
        BY <3>3, <1>0
    <3>6. ToSet(more) = ToSet(kids) \cup {op.id}
      <4>1. \A k \in 1 .. Len(kids) + 1 : k = Len(kids) + 1 \/ k \in 1 .. Len(kids)
          BY <3>4
      <4>2. 1 .. Len(kids) \subseteq 1 .. Len(kids) + 1 /\ Len(kids) + 1 \in 1 .. Len(kids) + 1
          BY <3>4
      <4> QED BY <3>4, <4>1, <4>2 DEF ToSet
    <3>7. {j \in DOMAIN w : w[j].parent = i} = {j \in D : els[j].parent = i} \cup {op.id}
        BY <1>2, <1>3, <1>4, <2>4
    <3>8. ASSUME NEW k \in 1 .. Len(more), NEW m \in 1 .. Len(more), more[k] = more[m] PROVE k = m
      <4>1. \A j \in 1 .. Len(kids) : more[j] # op.id
          BY <3>4, <3>5 DEF ToSet
      <4>2. (k = Len(kids) + 1 \/ k \in 1 .. Len(kids)) /\ (m = Len(kids) + 1 \/ m \in 1 .. Len(kids))
          BY <3>4
      <4> QED BY <3>3, <3>4, <3>8, <4>1, <4>2
    <3> QED BY <3>1, <3>3, <3>6, <3>7, <3>8
  <2> QED BY <1>2, <1>3, <2>1, <2>2, <2>3, <2>4 DEF KidsKept
<1> QED
    BY <1>3, <1>4, <1>5, <1>9, <1>10 DEF w

LEMMA AddElementCounts ==
    ASSUME NEW s \in Stores, NEW op \in Adds, NEW byDefault \in BOOLEAN
    PROVE  AddElement(s, op, byDefault) \in Stores
<1> DEFINE els == s.elements
           p == op.parent
           w == WithElement(els, op, byDefault)
<1>1. /\ s \in [elements : Trees, rows : Nat, threw : BOOLEAN]
      /\ s.rows = Cardinality(RowsInSight(els))
    BY DEF Stores
<1>2. Weighted(els)
    BY <1>1, TreesAre
<1>3. CASE Has(s, op.id) \/ (~(p = 0) /\ ~Has(s, p))
  <2>1. AddElement(s, op, byDefault) = [s EXCEPT !.threw = TRUE]
      BY <1>3 DEF AddElement
  <2> QED BY <1>1, <2>1 DEF Stores
<1>4. CASE ~(Has(s, op.id) \/ (~(p = 0) /\ ~Has(s, p)))
  <2>1. op.id \notin DOMAIN els /\ (p = 0 \/ p \in DOMAIN els)
      BY <1>4 DEF Has
  <2>2. /\ Rooted(w) /\ KidsKept(w) /\ Leaf(els, w, op.id, p)
        /\ w[op.id].weight = (IF p = 0 THEN 0 ELSE 1)
        /\ \A i \in DOMAIN els : w[i].weight = els[i].weight
      BY <1>2, <2>1, WithElementIs DEF Weighted
  <2>3. AddElement(s, op, byDefault) =
           IF p = 0 THEN [s EXCEPT !.elements = w]
           ELSE adjustParentTreeWeight([s EXCEPT !.elements = w], p, 1)
      BY <1>4 DEF AddElement, WithElement
  <2> HIDE DEF w, els
  <2>4. /\ RowsIn(w, op.id) = IF p = 0 THEN {} ELSE {op.id}
        /\ \A a \in DOMAIN els :
              RowsIn(w, a) = IF p # 0 /\ a \in OpenUp(els, p) THEN RowsIn(els, a) \cup {op.id}
                             ELSE RowsIn(els, a)
        /\ RowsInSight(w) = IF p # 0 /\ OpenUp(els, p) \cap Collapsed(els) = {}
                            THEN RowsInSight(els) \cup {op.id} ELSE RowsInSight(els)
        /\ p # 0 => p \in DOMAIN els /\ OpenUp(w, p) = OpenUp(els, p)
    <3>1. Rooted(els) /\ Rooted(w) /\ Leaf(els, w, op.id, p)
        BY <1>2, <2>2 DEF Weighted
    <3> HIDE DEF p
    <3> QED BY <3>1, LeafRows
  <2>5. DOMAIN w = DOMAIN els \cup {op.id}
      BY <2>2 DEF Leaf
  <2>6. \A a \in DOMAIN els : els[a].weight = Cardinality(RowsIn(els, a))
      BY <1>2 DEF Weighted, Counted
  <2>7. IsFiniteSet(DOMAIN els)
      BY <1>2 DEF Weighted, Rooted
  <2>8. CASE p = 0
    <3>1. Cardinality({}) = 0
        BY FS_EmptySet
    <3>2. Counted(w)
        BY <2>2, <2>4, <2>5, <2>6, <2>8, <3>1 DEF Counted
    <3>3. w \in Trees
        BY <2>2, <3>2, TreesAre DEF Weighted
    <3>4. RowsInSight(w) = RowsInSight(els)
        BY <2>4, <2>8
    <3> QED BY <1>1, <2>3, <2>8, <3>3, <3>4 DEF Stores, els
  <2>9. CASE p # 0
    <3> DEFINE ids == OpenUp(els, p)
               h == Heavier(w, ids, 1)
    <3>1. ids \subseteq DOMAIN els
      <4>1. PICK rank, n : IsRank(els, rank, n)
          BY <1>2 DEF Weighted, Rooted
      <4> QED BY <4>1, <2>4, <2>9, AllUpSinks, OpenUpIsPart
    <3>2. ASSUME NEW a \in DOMAIN w
          PROVE  Cardinality(RowsIn(w, a)) = IF a \in ids THEN w[a].weight + 1 ELSE w[a].weight
      <4>1. CASE a = op.id
        <5>1. Cardinality({op.id}) = 1
            BY FS_Singleton
        <5> QED BY <2>1, <2>2, <2>4, <2>9, <3>1, <4>1, <5>1 DEF els
      <4>2. CASE a # op.id
        <5>1. a \in DOMAIN els
            BY <2>5, <4>2
        <5>2. op.id \notin RowsIn(els, a)
            BY <2>1 DEF RowsIn, els
        <5>3. IsFiniteSet(RowsIn(els, a))
            BY <2>7, RowsFinite
        <5>4. Cardinality(RowsIn(els, a) \cup {op.id}) = Cardinality(RowsIn(els, a)) + 1
            BY <5>2, <5>3, FS_AddElement
        <5> QED BY <2>2, <2>4, <2>6, <2>9, <5>1, <5>4
      <4> QED BY <4>1, <4>2
    <3>3. /\ Weighted(h) /\ RowsInSight(h) = RowsInSight(w)
      <4> HIDE DEF ids
      <4> QED BY <2>2, <3>2, Recounted
    <3>4. h \in Trees
      <4> HIDE DEF h
      <4> QED BY <3>3, TreesAre
    <3>5. Collapsed(w) \cap ids = Collapsed(els) \cap ids
        BY <2>2, <3>1 DEF Collapsed, Leaf
    <3>6. AddElement(s, op, byDefault) =
             [s EXCEPT !.elements = h,
                       !.rows = IF ids \cap Collapsed(w) = {} THEN s.rows + 1 ELSE s.rows]
      <4>1. [s EXCEPT !.elements = w].elements = w /\ [s EXCEPT !.elements = w].rows = s.rows
          BY <1>1
      <4> QED BY <1>1, <2>3, <2>4, <2>9, <4>1 DEF adjustParentTreeWeight
    <3>7. Cardinality(RowsInSight(w)) = IF ids \cap Collapsed(w) = {} THEN s.rows + 1 ELSE s.rows
      <4>1. op.id \notin RowsInSight(els)
          BY <2>1 DEF RowsInSight, els
      <4>2. IsFiniteSet(RowsInSight(els))
          BY <2>7, RowsFinite
      <4>3. Cardinality(RowsInSight(els) \cup {op.id}) = Cardinality(RowsInSight(els)) + 1
          BY <4>1, <4>2, FS_AddElement
      <4> QED BY <1>1, <2>4, <2>9, <3>5, <4>3 DEF els
    <3> HIDE DEF h, ids
    <3>8. [s EXCEPT !.elements = h,
                    !.rows = IF ids \cap Collapsed(w) = {} THEN s.rows + 1 ELSE s.rows]
          \in [elements : Trees, rows : Nat, threw : BOOLEAN]
      <4>1. \A r \in Nat : [s EXCEPT !.elements = h, !.rows = r] \in [elements : Trees, rows : Nat, threw : BOOLEAN]
          BY <1>1, <3>4
      <4>2. s.rows \in Nat
          BY <1>1
      <4>3. (IF ids \cap Collapsed(w) = {} THEN s.rows + 1 ELSE s.rows) \in Nat
          BY <4>2
      <4> QED BY <4>1, <4>3
    <3> QED BY <1>1, <3>3, <3>6, <3>7, <3>8 DEF Stores
  <2> QED BY <2>8, <2>9
<1> QED
    BY <1>3, <1>4


-----------------------------------------------------------------------------
(* An element is removed.                                                  *)

\* What is left of the kids, in their order.
LEMMA SplicedIs ==
    ASSUME NEW kids \in Seq(Nat), NEW id \in ToSet(kids),
           \A k, m \in 1 .. Len(kids) : kids[k] = kids[m] => k = m
    PROVE  LET r == Spliced(kids, id)
           IN  /\ r \in Seq(Nat) /\ ToSet(r) = ToSet(kids) \ {id}
               /\ \A k, m \in 1 .. Len(r) : r[k] = r[m] => k = m
<1> DEFINE at == CHOOSE k \in 1 .. Len(kids) : kids[k] = id
           r == Spliced(kids, id)
           n == Len(kids)
<1>1. n \in Nat /\ DOMAIN kids = 1 .. n
    OBVIOUS
<1>2. at \in 1 .. n /\ kids[at] = id
    BY <1>1 DEF ToSet
<1>3. r = SubSeq(kids, 1, at - 1) \o SubSeq(kids, at + 1, n)
    BY DEF Spliced, RemoveAt
<1> HIDE DEF at, r
<1> DEFINE left == SubSeq(kids, 1, at - 1)
           right == SubSeq(kids, at + 1, n)
<1>4. left \in Seq(Nat) /\ Len(left) = at - 1 /\ \A k \in 1 .. at - 1 : left[k] = kids[k]
  <2>1. 1 \in Int /\ at - 1 \in Int /\ at \in Int
      BY <1>2
  <2>2. \A i \in 1 .. at - 1 : kids[i] \in Nat
      BY <1>1, <1>2
  <2>3. /\ left \in Seq(Nat)
        /\ Len(left) = IF 1 <= at - 1 THEN (at - 1) - 1 + 1 ELSE 0
        /\ \A i \in 1 .. (at - 1) - 1 + 1 : left[i] = kids[1 + i - 1]
    <3> HIDE DEF n
    <3> QED BY <2>1, <2>2, SubSeqProperties
  <2> HIDE DEF left, n
  <2>4. Len(left) = at - 1
      BY <1>1, <1>2, <2>3
  <2>5. (at - 1) - 1 + 1 = at - 1
      BY <2>1
  <2>6. ASSUME NEW k \in 1 .. at - 1 PROVE left[k] = kids[k]
    <3>1. left[k] = kids[1 + k - 1]
        BY <2>3, <2>5
    <3>2. 1 + k - 1 = k
        BY <2>1
    <3> QED BY <3>1, <3>2
  <2> QED BY <2>3, <2>4, <2>6
<1>5. right \in Seq(Nat) /\ Len(right) = n - at /\ \A k \in 1 .. n - at : right[k] = kids[at + k]
  <2>1. at \in Nat /\ at <= Len(kids)
      BY <1>1, <1>2
  <2> QED BY <2>1, Suffix
<1> HIDE DEF left, right
<1>6. /\ r \in Seq(Nat) /\ Len(r) = n - 1 /\ DOMAIN r = 1 .. n - 1
      /\ \A k \in 1 .. n - 1 : r[k] = IF k <= at - 1 THEN left[k] ELSE right[k - (at - 1)]
  <2>1. /\ left \o right \in Seq(Nat)
        /\ Len(left \o right) = Len(left) + Len(right)
        /\ \A i \in 1 .. Len(left) + Len(right) :
              (left \o right)[i] = IF i <= Len(left) THEN left[i] ELSE right[i - Len(left)]
      BY <1>4, <1>5, ConcatProperties
  <2>2. Len(left) + Len(right) = n - 1
      BY <1>1, <1>2, <1>4, <1>5
  <2>3. r = left \o right
      BY <1>3 DEF left, right
  <2> HIDE DEF n
  <2>4. r \in Seq(Nat) /\ Len(r) = n - 1
      BY <2>1, <2>2, <2>3
  <2>5. DOMAIN r = 1 .. n - 1
      BY <2>4
  <2>6. \A k \in 1 .. n - 1 : r[k] = IF k <= Len(left) THEN left[k] ELSE right[k - Len(left)]
      BY <2>1, <2>2, <2>3
  <2> QED BY <1>4, <2>4, <2>5, <2>6
<1>7. ASSUME NEW k \in 1 .. n - 1 PROVE r[k] = kids[IF k < at THEN k ELSE k + 1]
  <2>1. CASE k < at
    <3>1. k \in 1 .. at - 1 /\ k <= at - 1
        BY <1>2, <2>1
    <3> QED BY <1>4, <1>6, <2>1, <3>1
  <2>2. CASE ~(k < at)
    <3>1. k - (at - 1) \in 1 .. n - at /\ ~(k <= at - 1)
        BY <1>1, <1>2, <2>2
    <3>2. r[k] = right[k - (at - 1)]
        BY <1>6, <3>1
    <3>3. at + (k - (at - 1)) = k + 1
        BY <1>1, <1>2
    <3> QED BY <1>5, <2>2, <3>1, <3>2, <3>3
  <2> QED BY <2>1, <2>2
<1>8. ASSUME NEW k \in 1 .. n - 1, NEW m \in 1 .. n - 1, r[k] = r[m] PROVE k = m
  <2> DEFINE K == IF k < at THEN k ELSE k + 1
             M == IF m < at THEN m ELSE m + 1
  <2>1. K \in 1 .. n /\ M \in 1 .. n
      BY <1>1, <1>2
  <2>2. kids[K] = kids[M]
      BY <1>7, <1>8
  <2>3. K = M
    <3> HIDE DEF K, M
    <3> QED BY <2>1, <2>2
  <2> QED BY <1>2, <2>3
<1>9. ToSet(r) = ToSet(kids) \ {id}
  <2>1. ASSUME NEW k \in 1 .. n - 1 PROVE r[k] \in ToSet(kids) \ {id}
    <3> DEFINE K == IF k < at THEN k ELSE k + 1
    <3>1. K \in 1 .. n /\ K # at /\ r[k] = kids[K]
        BY <1>1, <1>2, <1>7
    <3> HIDE DEF K
    <3> QED BY <1>1, <1>2, <3>1 DEF ToSet
  <2>2. ASSUME NEW K \in 1 .. n, kids[K] # id PROVE kids[K] \in ToSet(r)
    <3> DEFINE k == IF K < at THEN K ELSE K - 1
    <3>1. k \in 1 .. n - 1 /\ (IF k < at THEN k ELSE k + 1) = K
        BY <1>1, <1>2, <2>2
    <3> HIDE DEF k
    <3>2. r[k] = kids[K]
        BY <1>7, <3>1
    <3> QED BY <1>6, <3>1, <3>2 DEF ToSet
  <2> QED BY <1>1, <1>6, <2>1, <2>2 DEF ToSet
<1> QED
    BY <1>6, <1>8, <1>9 DEF r

\* The elements without the one removed, before the weights are adjusted.
WithoutElement(els, id) ==
    [i \in DOMAIN els \ {id} |->
        IF i = els[id].parent THEN [els[i] EXCEPT !.kids = Spliced(@, id)] ELSE els[i]]

LEMMA WithoutElementIs ==
    ASSUME NEW els, Rooted(els), KidsKept(els), NEW id \in DOMAIN els, els[id].kids = <<>>
    PROVE  LET w == WithoutElement(els, id)
           IN  /\ Rooted(w) /\ KidsKept(w) /\ Leaf(w, els, id, els[id].parent)
               /\ \A i \in DOMAIN w : w[i].weight = els[i].weight
<1> DEFINE w == WithoutElement(els, id)
           p == els[id].parent
           D == DOMAIN els
<1>1. els \in [D -> StoreElement] /\ D \subseteq Nat \ {0} /\ IsFiniteSet(D)
    BY DEF Rooted
<1>2. DOMAIN w = D \ {id}
    BY DEF WithoutElement
<1>3. \A j \in D : els[j].parent # id
  <2>1. ToSet(<<>>) = {}
      BY DEF ToSet
  <2>2. ToSet(els[id].kids) = {j \in D : els[j].parent = id}
      BY DEF KidsKept
  <2> QED BY <2>1, <2>2
<1>4. ASSUME NEW i \in D \ {id}
      PROVE  /\ els[i].kids \in Seq(Nat)
             /\ \A k, m \in 1 .. Len(els[i].kids) : els[i].kids[k] = els[i].kids[m] => k = m
             /\ i = p => id \in ToSet(els[i].kids)
  <2>1. els[i] \in StoreElement
      BY <1>1
  <2> QED BY <2>1 DEF KidsKept, StoreElement
<1>5. ASSUME NEW i \in D \ {id}
      PROVE  /\ w[i] \in StoreElement /\ w[i].parent = els[i].parent /\ w[i].collapsed = els[i].collapsed
             /\ w[i].weight = els[i].weight
             /\ w[i].kids = IF i = p THEN Spliced(els[i].kids, id) ELSE els[i].kids
  <2>1. els[i] \in StoreElement
      BY <1>1
  <2>2. w[i] = IF i = p THEN [els[i] EXCEPT !.kids = Spliced(@, id)] ELSE els[i]
      BY DEF WithoutElement
  <2>3. i = p => Spliced(els[i].kids, id) \in Seq(Nat)
      BY <1>4, SplicedIs
  <2> QED BY <2>1, <2>2, <2>3 DEF StoreElement
<1> HIDE DEF w
<1>6. Leaf(w, els, id, p)
  <2>1. id \notin DOMAIN w /\ D = DOMAIN w \cup {id}
      BY <1>2
  <2> QED BY <1>2, <1>5, <2>1 DEF Leaf
<1>7. w \in [DOMAIN w -> StoreElement]
  <2>1. w = [i \in D \ {id} |-> w[i]]
      BY DEF w, WithoutElement
  <2> QED BY <1>2, <1>5, <2>1
<1>8. IsFiniteSet(DOMAIN w)
    BY <1>1, <1>2, FS_RemoveElement
<1>9. \E rank, n : IsRank(w, rank, n)
  <2>1. PICK rank, n : IsRank(els, rank, n)
      BY DEF Rooted
  <2> DEFINE rank2 == [i \in D \ {id} |-> rank[i]]
  <2>2. IsRank(w, rank2, n)
    <3>1. rank2 \in [DOMAIN w -> 0 .. n] /\ n \in Nat
        BY <1>2, <2>1 DEF IsRank
    <3>2. ASSUME NEW i \in DOMAIN w, w[i].parent \in DOMAIN w PROVE rank2[w[i].parent] < rank2[i]
        BY <1>2, <1>5, <2>1, <3>2 DEF IsRank
    <3> HIDE DEF rank2
    <3> QED BY <3>1, <3>2 DEF IsRank
  <2> QED BY <2>2
<1>10. Rooted(w)
  <2>1. DOMAIN w \subseteq Nat \ {0}
      BY <1>1, <1>2
  <2>2. \A i \in DOMAIN w : w[i].parent = 0 \/ w[i].parent \in DOMAIN w
      BY <1>2, <1>3, <1>5 DEF Rooted
  <2>3. \A i \in DOMAIN w : w[i].parent = 0 => ~w[i].collapsed
      BY <1>2, <1>5 DEF Rooted
  <2> QED BY <1>7, <1>8, <1>9, <2>1, <2>2, <2>3 DEF Rooted
<1>11. KidsKept(w)
  <2>1. ASSUME NEW i \in D \ {id}
        PROVE  /\ ToSet(w[i].kids) = {j \in DOMAIN w : w[j].parent = i}
               /\ \A k, m \in 1 .. Len(w[i].kids) : w[i].kids[k] = w[i].kids[m] => k = m
    <3>1. ToSet(els[i].kids) = {j \in D : els[j].parent = i}
        BY DEF KidsKept
    <3>2. {j \in DOMAIN w : w[j].parent = i} = {j \in D : els[j].parent = i} \ {id}
        BY <1>2, <1>5
    <3>3. CASE i = p
      <4> DEFINE kids == els[i].kids
      <4>1. /\ kids \in Seq(Nat) /\ id \in ToSet(kids)
            /\ \A k, m \in 1 .. Len(kids) : kids[k] = kids[m] => k = m
          BY <1>4, <3>3
      <4>2. w[i].kids = Spliced(kids, id)
          BY <1>5, <3>3
      <4> HIDE DEF kids
      <4>3. /\ ToSet(Spliced(kids, id)) = ToSet(kids) \ {id}
            /\ \A k, m \in 1 .. Len(Spliced(kids, id)) : Spliced(kids, id)[k] = Spliced(kids, id)[m] => k = m
          BY <4>1, SplicedIs
      <4>4. ToSet(kids) = {j \in D : els[j].parent = i}
          BY <3>1 DEF kids
      <4> QED BY <3>2, <4>2, <4>3, <4>4
    <3>4. CASE i # p
      <4>1. w[i].kids = els[i].kids
          BY <1>5, <3>4
      <4>2. id \notin {j \in D : els[j].parent = i}
          BY <3>4
      <4> QED BY <1>4, <3>1, <3>2, <4>1, <4>2
    <3> QED BY <3>3, <3>4
  <2> QED BY <1>2, <2>1 DEF KidsKept
<1> QED
    BY <1>2, <1>5, <1>6, <1>10, <1>11 DEF w

LEMMA RemoveElementCounts ==
    ASSUME NEW s \in Stores, NEW id
    PROVE  RemoveElement(s, id) \in Stores
<1> DEFINE els == s.elements
           e == els[id]
           p == e.parent
           w == WithoutElement(els, id)
           ids == OpenUp(w, p)
           h == Heavier(w, ids, -e.weight)
           Throws == ~Has(s, id) \/ e.kids # <<>> \/ (p # 0 /\ ~Has(s, p))
<1>1. /\ s \in [elements : Trees, rows : Nat, threw : BOOLEAN]
      /\ s.rows = Cardinality(RowsInSight(els))
    BY DEF Stores
<1>2. Weighted(els)
    BY <1>1, TreesAre
<1>3. CASE Throws
  <2>1. RemoveElement(s, id) = [s EXCEPT !.threw = TRUE]
      BY <1>3 DEF RemoveElement
  <2> QED BY <1>1, <2>1 DEF Stores
<1>4. CASE ~Throws
  <2>1. id \in DOMAIN els /\ e.kids = <<>>
      BY <1>4 DEF Has
  <2>2. RemoveElement(s, id) = adjustParentTreeWeight([s EXCEPT !.elements = w], p, -e.weight)
      BY <1>4 DEF RemoveElement, WithoutElement
  <2>3. /\ Rooted(w) /\ KidsKept(w) /\ Leaf(w, els, id, p)
        /\ \A i \in DOMAIN w : w[i].weight = els[i].weight
      BY <1>2, <2>1, WithoutElementIs DEF Weighted
  <2>4. RemoveElement(s, id) =
           [s EXCEPT !.elements = h,
                     !.rows = IF ids \cap Collapsed(w) = {} THEN s.rows + (-e.weight) ELSE s.rows]
    <3>1. [s EXCEPT !.elements = w].elements = w /\ [s EXCEPT !.elements = w].rows = s.rows
        BY <1>1
    <3> QED BY <1>1, <2>2, <3>1 DEF adjustParentTreeWeight
  <2>5. p = 0 => ids = {}
    <3>1. PICK rank, n : IsRank(w, rank, n)
        BY <2>3 DEF Rooted
    <3>2. 0 \notin DOMAIN w
        BY <2>3 DEF Rooted
    <3> QED BY <3>1, <3>2, Ways
  <2> HIDE DEF w, p
  <2>6. /\ RowsIn(els, id) = IF p = 0 THEN {} ELSE {id}
        /\ \A a \in DOMAIN w :
              RowsIn(els, a) = IF p # 0 /\ a \in OpenUp(w, p) THEN RowsIn(w, a) \cup {id}
                               ELSE RowsIn(w, a)
        /\ RowsInSight(els) = IF p # 0 /\ OpenUp(w, p) \cap Collapsed(w) = {}
                              THEN RowsInSight(w) \cup {id} ELSE RowsInSight(w)
    <3>1. Rooted(els) /\ Rooted(w) /\ Leaf(w, els, id, p)
        BY <1>2, <2>3 DEF Weighted
    <3> HIDE DEF els
    <3> QED BY <3>1, LeafRows
  <2>7. DOMAIN els = DOMAIN w \cup {id} /\ id \notin DOMAIN w
      BY <2>3 DEF Leaf
  <2>8. \A a \in DOMAIN els : els[a].weight = Cardinality(RowsIn(els, a))
      BY <1>2 DEF Weighted, Counted
  <2>9. e.weight = IF p = 0 THEN 0 ELSE 1
      BY <2>1, <2>6, <2>8, FS_EmptySet, FS_Singleton
  <2>10. -e.weight = IF p = 0 THEN 0 ELSE -1
      BY <2>9
  <2>11. IsFiniteSet(DOMAIN w)
      BY <2>3 DEF Rooted
  <2> HIDE DEF e, els
  <2>12. ASSUME NEW a \in DOMAIN w
         PROVE  Cardinality(RowsIn(w, a)) = IF a \in ids THEN w[a].weight + (-e.weight) ELSE w[a].weight
    <3>1. id \notin RowsIn(w, a)
        BY <2>7 DEF RowsIn
    <3>2. IsFiniteSet(RowsIn(w, a)) /\ Cardinality(RowsIn(w, a)) \in Nat
        BY <2>11, RowsFinite
    <3>3. Cardinality(RowsIn(w, a) \cup {id}) = Cardinality(RowsIn(w, a)) + 1
        BY <3>1, <3>2, FS_AddElement
    <3>4. w[a].weight = Cardinality(RowsIn(els, a))
        BY <2>3, <2>7, <2>8
    <3>5. CASE a \in ids
        BY <2>5, <2>6, <2>10, <3>2, <3>3, <3>4, <3>5
    <3>6. CASE a \notin ids
        BY <2>6, <3>4, <3>6
    <3> QED BY <3>5, <3>6
  <2>13. /\ Weighted(h) /\ RowsInSight(h) = RowsInSight(w)
    <3>1. -e.weight \in Int
        BY <2>10
    <3> HIDE DEF ids
    <3> QED BY <2>3, <2>12, <3>1, Recounted
  <2>14. h \in Trees
    <3> HIDE DEF h
    <3> QED BY <2>13, TreesAre
  <2> DEFINE r == IF ids \cap Collapsed(w) = {} THEN s.rows + (-e.weight) ELSE s.rows
  <2>15. Cardinality(RowsInSight(w)) = r
    <3>1. id \notin RowsInSight(w)
        BY <2>7 DEF RowsInSight
    <3>2. IsFiniteSet(RowsInSight(w)) /\ Cardinality(RowsInSight(w)) \in Nat
        BY <2>11, RowsFinite
    <3>3. Cardinality(RowsInSight(w) \cup {id}) = Cardinality(RowsInSight(w)) + 1
        BY <3>1, <3>2, FS_AddElement
    <3>4. CASE p = 0
        BY <1>1, <2>6, <2>10, <3>2, <3>4 DEF els
    <3>5. CASE p # 0
        BY <1>1, <2>6, <2>10, <3>2, <3>3, <3>5 DEF els
    <3> QED BY <3>4, <3>5
  <2>16. r \in Nat
    <3>1. Cardinality(RowsInSight(w)) \in Nat
        BY <2>11, RowsFinite
    <3> QED BY <2>15, <3>1
  <2>17. RemoveElement(s, id) = [s EXCEPT !.elements = h, !.rows = r]
      BY <2>4
  <2> HIDE DEF h, r
  <2> QED BY <1>1, <2>13, <2>14, <2>15, <2>16, <2>17 DEF Stores
<1> QED
    BY <1>3, <1>4

-----------------------------------------------------------------------------
(* The kids are reordered.                                                 *)

Reorders == [op : {"reorder"}, id : Nat \ {0}, kids : Seq(Nat \ {0})]

LEMMA Permuted ==
    ASSUME NEW kids \in Seq(Nat), NEW others \in Seq(Nat),
           \A k, m \in 1 .. Len(kids) : kids[k] = kids[m] => k = m,
           Len(others) = Len(kids), ToSet(others) = ToSet(kids)
    PROVE  \A k, m \in 1 .. Len(others) : others[k] = others[m] => k = m
<1> DEFINE I == 1 .. Len(kids)
           S == ToSet(kids)
<1>1. Len(kids) \in Nat /\ DOMAIN kids = I /\ DOMAIN others = I
    OBVIOUS
<1>2. IsFiniteSet(I)
    BY <1>1, FS_Interval
<1>3. kids \in [I -> S] /\ others \in [I -> S]
  <2>1. kids = [i \in I |-> kids[i]] /\ others = [i \in I |-> others[i]]
      BY <1>1
  <2>2. \A i \in I : kids[i] \in S /\ others[i] \in ToSet(others)
      BY <1>1 DEF ToSet
  <2> HIDE DEF S, I
  <2> QED BY <2>1, <2>2 DEF S
<1>4. kids \in Surjection(I, S) /\ others \in Surjection(I, S)
    BY <1>1, <1>3 DEF Surjection, ToSet
<1>5. kids \in Injection(I, S)
    BY <1>1, <1>3 DEF Injection, IsInjective
<1> HIDE DEF I, S
<1>6. Cardinality(S) = Cardinality(I)
    BY <1>2, <1>4, <1>5, FS_Surjection
<1>7. others \in Injection(I, S)
    BY <1>2, <1>4, <1>6, FS_SurjSameCardinalityImpliesInj
<1> QED
    BY <1>1, <1>7 DEF Injection, IsInjective, I

LEMMA ReorderChildrenCounts ==
    ASSUME NEW s \in Stores, ~s.threw, NEW op \in Reorders, Permutes(s, op)
    PROVE  ReorderChildren(s, op) \in Stores
<1> DEFINE els == s.elements
           Throws == ~Has(s, op.id) \/ Len(els[op.id].kids) # Len(op.kids)
           h == [els EXCEPT ![op.id].kids = op.kids]
<1>1. /\ s \in [elements : Trees, rows : Nat, threw : BOOLEAN]
      /\ s.rows = Cardinality(RowsInSight(els))
    BY DEF Stores
<1>2. Weighted(els)
    BY <1>1, TreesAre
<1>3. CASE Throws
  <2>1. ReorderChildren(s, op) = [s EXCEPT !.threw = TRUE]
      BY <1>3 DEF ReorderChildren
  <2> QED BY <1>1, <2>1 DEF Stores
<1>4. CASE ~Throws
  <2>1. ReorderChildren(s, op) = [s EXCEPT !.elements = h]
      BY <1>1, <1>4 DEF ReorderChildren
  <2>2. op.id \in DOMAIN els /\ Len(els[op.id].kids) = Len(op.kids)
      BY <1>4 DEF Has
  <2>3. op.kids \in Seq(Nat) /\ op.op = "reorder"
    <3>1. op.kids \in Seq(Nat \ {0}) /\ op.op = "reorder"
        BY DEF Reorders
    <3> QED BY <3>1
  <2>4. ToSet(op.kids) = ToSet(els[op.id].kids)
      BY <1>4, <2>3 DEF Permutes
  <2>5. els \in [DOMAIN els -> StoreElement]
      BY <1>2 DEF Weighted, Rooted
  <2> HIDE DEF els
  <2>6. ASSUME NEW i \in DOMAIN els
        PROVE  /\ h[i] \in StoreElement /\ h[i].parent = els[i].parent /\ h[i].collapsed = els[i].collapsed
               /\ h[i].weight = els[i].weight
               /\ h[i].kids = IF i = op.id THEN op.kids ELSE els[i].kids
    <3>1. els[i] \in StoreElement
        BY <2>5
    <3>2. h[i] = IF i = op.id THEN [els[i] EXCEPT !.kids = op.kids] ELSE els[i]
        BY <2>2
    <3> QED BY <2>3, <3>1, <3>2 DEF StoreElement
  <2>7. DOMAIN h = DOMAIN els /\ h = [i \in DOMAIN els |-> h[i]]
      OBVIOUS
  <2> HIDE DEF h
  <2>8. SameTree(els, h)
      BY <2>6, <2>7 DEF SameTree
  <2>9. Rooted(h)
    <3>1. h \in [DOMAIN els -> StoreElement]
        BY <2>6, <2>7
    <3>2. Rooted(els) /\ \A i \in DOMAIN els : h[i].parent = 0 => ~h[i].collapsed
        BY <1>2, <2>6 DEF Weighted, Rooted
    <3> QED BY <2>6, <3>1, <3>2, RootedStill
  <2>10. KidsKept(h)
    <3>1. ASSUME NEW i \in DOMAIN els
          PROVE  /\ ToSet(h[i].kids) = {j \in DOMAIN h : h[j].parent = i}
                 /\ \A k, m \in 1 .. Len(h[i].kids) : h[i].kids[k] = h[i].kids[m] => k = m
      <4>1. {j \in DOMAIN h : h[j].parent = i} = {j \in DOMAIN els : els[j].parent = i}
          BY <2>6, <2>7
      <4>2. /\ ToSet(els[i].kids) = {j \in DOMAIN els : els[j].parent = i}
            /\ \A k, m \in 1 .. Len(els[i].kids) : els[i].kids[k] = els[i].kids[m] => k = m
          BY <1>2 DEF Weighted, KidsKept
      <4>3. CASE i = op.id
        <5>1. els[i].kids \in Seq(Nat)
            BY <2>5 DEF StoreElement
        <5>2. h[i].kids = op.kids
            BY <2>6, <4>3
        <5>3. \A k, m \in 1 .. Len(op.kids) : op.kids[k] = op.kids[m] => k = m
            BY <2>2, <2>3, <2>4, <4>2, <4>3, <5>1, Permuted
        <5> QED BY <2>4, <4>1, <4>2, <4>3, <5>2, <5>3
      <4>4. CASE i # op.id
        <5>1. h[i].kids = els[i].kids
            BY <2>6, <4>4
        <5> QED BY <4>1, <4>2, <5>1
      <4> QED BY <4>3, <4>4
    <3> QED BY <2>7, <3>1 DEF KidsKept
  <2>11. RowsInSight(h) = RowsInSight(els) /\ \A a : RowsIn(h, a) = RowsIn(els, a)
      BY <1>2, <2>8, SameRows DEF Weighted
  <2>12. Counted(h)
      BY <1>2, <2>6, <2>7, <2>11 DEF Weighted, Counted
  <2>13. h \in Trees
      BY <2>9, <2>10, <2>12, TreesAre DEF Weighted
  <2> QED BY <1>1, <2>1, <2>11, <2>13 DEF Stores, els
<1> QED
    BY <1>3, <1>4


-----------------------------------------------------------------------------
(* Elements are collapsed and expanded.                                    *)

LEMMA AllButOne ==
    ASSUME NEW B, IsFiniteSet(B), NEW A, A \subseteq B, NEW c \in A
    PROVE  Cardinality(B \ (A \ {c})) = Cardinality(B) - (Cardinality(A) - 1)
<1>1. IsFiniteSet(A)
    BY FS_Subset
<1>2. IsFiniteSet(A \ {c}) /\ Cardinality(A \ {c}) = Cardinality(A) - 1
    BY <1>1, FS_RemoveElement
<1> DEFINE A1 == A \ {c}
<1>3. B \cap A1 = A1
    OBVIOUS
<1>4. IsFiniteSet(A1) /\ Cardinality(A1) = Cardinality(A) - 1
    BY <1>2
<1> HIDE DEF A1
<1>5. Cardinality(B \ A1) = Cardinality(B) - Cardinality(B \cap A1)
    BY <1>4, FS_Difference
<1> QED
    BY <1>3, <1>4, <1>5 DEF A1

\* The elements with one of them folded otherwise.
Folded(els, c, isCollapsed) == [els EXCEPT ![c].collapsed = isCollapsed]

LEMMA FoldedIs ==
    ASSUME NEW els, Rooted(els), KidsKept(els), NEW c \in DOMAIN els, NEW isCollapsed \in BOOLEAN,
           isCollapsed => els[c].parent # 0
    PROVE  LET f == Folded(els, c, isCollapsed)
           IN  /\ Rooted(f) /\ KidsKept(f) /\ DOMAIN f = DOMAIN els
               /\ \A i \in DOMAIN els : f[i].parent = els[i].parent /\ f[i].weight = els[i].weight
               /\ \A i \in DOMAIN els : i # c => f[i].collapsed = els[i].collapsed
               /\ f[c].collapsed = isCollapsed
<1> DEFINE f == Folded(els, c, isCollapsed)
<1>1. els \in [DOMAIN els -> StoreElement]
    BY DEF Rooted
<1>2. DOMAIN f = DOMAIN els
    BY DEF Folded
<1>3. ASSUME NEW i \in DOMAIN els
      PROVE  /\ f[i] \in StoreElement /\ f[i].parent = els[i].parent /\ f[i].kids = els[i].kids
             /\ f[i].weight = els[i].weight
             /\ i # c => f[i].collapsed = els[i].collapsed
             /\ i = c => f[i].collapsed = isCollapsed
  <2>1. els[i] \in StoreElement
      BY <1>1
  <2>2. f[i] = IF i = c THEN [els[i] EXCEPT !.collapsed = isCollapsed] ELSE els[i]
      BY DEF Folded
  <2>3. CASE i = c
      BY <2>1, <2>2, <2>3 DEF StoreElement
  <2>4. CASE i # c
      BY <2>1, <2>2, <2>4
  <2> QED BY <2>3, <2>4
<1>4. f \in [DOMAIN els -> StoreElement]
  <2>1. f = [i \in DOMAIN els |-> f[i]]
      BY DEF Folded
  <2> HIDE DEF f
  <2> QED BY <1>3, <2>1
<1> HIDE DEF f
<1>5. \A i \in DOMAIN els : f[i].parent = 0 => ~f[i].collapsed
    BY <1>3 DEF Rooted
<1>6. Rooted(f)
    BY <1>3, <1>4, <1>5, RootedStill
<1>7. KidsKept(f)
    BY <1>2, <1>3, KeptStill
<1> QED
    BY <1>2, <1>3, <1>6, <1>7 DEF f

\* What the two directions need of the counts.
LEMMA ShutCounts ==
    ASSUME NEW els, NEW shut, NEW c, Rooted(els), Rooted(shut), Shut(els, shut, c),
           NEW Above, Above = OpenUp(els, els[c].parent)
    PROVE  /\ \A a \in DOMAIN els :
                 Cardinality(RowsIn(shut, a)) =
                     IF a \in Above
                     THEN Cardinality(RowsIn(els, a)) - (Cardinality(RowsIn(els, c)) - 1)
                     ELSE Cardinality(RowsIn(els, a))
           /\ RowsIn(shut, c) = RowsIn(els, c)
           /\ OpenUp(shut, els[c].parent) = Above
<1>1. /\ \A a \in DOMAIN els :
            /\ RowsIn(shut, a) = IF a \in Above THEN RowsIn(els, a) \ (RowsIn(els, c) \ {c})
                                 ELSE RowsIn(els, a)
            /\ a \in Above => RowsIn(els, c) \subseteq RowsIn(els, a)
      /\ c \in RowsIn(els, c)
      /\ OpenUp(shut, els[c].parent) = Above /\ c \notin Above
    BY ShutRows
<1>2. ASSUME NEW a \in DOMAIN els, a \in Above
      PROVE  Cardinality(RowsIn(shut, a)) = Cardinality(RowsIn(els, a)) - (Cardinality(RowsIn(els, c)) - 1)
  <2>1. IsFiniteSet(RowsIn(els, a))
      BY RowsFinite DEF Rooted
  <2>2. RowsIn(els, c) \subseteq RowsIn(els, a) /\ c \in RowsIn(els, c)
      BY <1>1, <1>2
  <2> QED BY <1>1, <1>2, <2>1, <2>2, AllButOne
<1>3. c \in DOMAIN els
    BY DEF Shut
<1> QED
    BY <1>1, <1>2, <1>3

\* An element in sight is collapsed.
LEMMA Collapses ==
    ASSUME NEW els, Weighted(els), NEW c \in DOMAIN els, els[c].parent # 0, ~els[c].collapsed,
           AllUp(els, els[c].parent) \cap Collapsed(els) = {}
    PROVE  Weighted(AddToAncestors(Folded(els, c, TRUE), els[c].parent, 1 - els[c].weight))
<1> DEFINE shut == Folded(els, c, TRUE)
           p == els[c].parent
           Above == OpenUp(els, p)
<1>1. /\ Rooted(shut) /\ KidsKept(shut) /\ DOMAIN shut = DOMAIN els
      /\ \A i \in DOMAIN els : shut[i].parent = els[i].parent /\ shut[i].weight = els[i].weight
      /\ \A i \in DOMAIN els : i # c => shut[i].collapsed = els[i].collapsed
      /\ shut[c].collapsed = TRUE
    BY FoldedIs DEF Weighted
<1> HIDE DEF shut
<1>2. Shut(els, shut, c)
    BY <1>1 DEF Shut
<1>3. /\ \A a \in DOMAIN els :
            Cardinality(RowsIn(shut, a)) =
                IF a \in Above
                THEN Cardinality(RowsIn(els, a)) - (Cardinality(RowsIn(els, c)) - 1)
                ELSE Cardinality(RowsIn(els, a))
      /\ OpenUp(shut, p) = Above
  <2>1. Rooted(els)
      BY DEF Weighted
  <2> QED BY <1>1, <1>2, <2>1, ShutCounts
<1>4. AllUp(shut, p) = Above
  <2>1. PICK rank, n : IsRank(els, rank, n)
      BY DEF Weighted, Rooted
  <2>2. IsRank(shut, rank, n)
      BY <1>1, <2>1, SameRank
  <2>3. AllUp(els, p) = Above
      BY <2>1, OpenToTheRoot
  <2>4. p \in DOMAIN els
      BY DEF Weighted, Rooted
  <2>5. \A i \in DOMAIN els : AllUp(shut, i) = AllUp(els, i)
      BY <1>1, <2>1, <2>2, SameUp
  <2> QED BY <2>3, <2>4, <2>5
<1>5. \A a \in DOMAIN els : els[a].weight = Cardinality(RowsIn(els, a)) /\ els[a].weight \in Nat
    BY RowsFinite DEF Weighted, Rooted, Counted
<1> DEFINE v == els[c].weight
<1>6. v \in Nat /\ v = Cardinality(RowsIn(els, c))
    BY <1>5
<1> HIDE DEF v, Above, p
<1>7. ASSUME NEW a \in DOMAIN shut
      PROVE  Cardinality(RowsIn(shut, a)) = IF a \in Above THEN shut[a].weight + (1 - v) ELSE shut[a].weight
    BY <1>1, <1>3, <1>5, <1>6
<1>8. 1 - v \in Int
    BY <1>6
<1>9. Weighted(Heavier(shut, Above, 1 - v))
    BY <1>1, <1>7, <1>8, Recounted
<1> QED
    BY <1>4, <1>9 DEF AddToAncestors, shut, v, p

\* An element is expanded.
LEMMA OpenedIs ==
    ASSUME NEW els \in Trees, NEW c \in DOMAIN els
    PROVE  Opened(els, c) \in Trees /\ DOMAIN Opened(els, c) = DOMAIN els
<1>0. Weighted(els)
    BY TreesAre
<1>1. CASE ~els[c].collapsed
    BY <1>1 DEF Opened
<1>2. CASE els[c].collapsed
  <2> DEFINE open == Folded(els, c, FALSE)
             p == els[c].parent
             Above == OpenUp(open, p)
  <2>0. Rooted(els) /\ KidsKept(els)
      BY <1>0 DEF Weighted
  <2>1. /\ Rooted(open) /\ KidsKept(open) /\ DOMAIN open = DOMAIN els
        /\ \A i \in DOMAIN els : open[i].parent = els[i].parent /\ open[i].weight = els[i].weight
        /\ \A i \in DOMAIN els : i # c => open[i].collapsed = els[i].collapsed
        /\ open[c].collapsed = FALSE
      BY <2>0, FoldedIs
  <2> HIDE DEF open
  <2>2. p # 0
      BY <1>2, <2>0 DEF Rooted
  <2>3. Shut(open, els, c)
      BY <1>2, <2>1, <2>2 DEF Shut
  <2>4. /\ \A a \in DOMAIN open :
              Cardinality(RowsIn(els, a)) =
                  IF a \in Above
                  THEN Cardinality(RowsIn(open, a)) - (Cardinality(RowsIn(open, c)) - 1)
                  ELSE Cardinality(RowsIn(open, a))
        /\ RowsIn(els, c) = RowsIn(open, c)
    <3>1. Above = OpenUp(open, open[c].parent)
        BY <2>1
    <3> HIDE DEF Above
    <3> QED BY <2>0, <2>1, <2>3, <3>1, ShutCounts
  <2>5. \A a \in DOMAIN els : els[a].weight = Cardinality(RowsIn(els, a)) /\ els[a].weight \in Nat
      BY <1>0, RowsFinite DEF Weighted, Rooted, Counted
  <2>6. \A a \in DOMAIN els : Cardinality(RowsIn(open, a)) \in Nat
      BY <2>1, RowsFinite DEF Rooted
  <2> DEFINE v == els[c].weight
  <2>7. v \in Nat /\ v = Cardinality(RowsIn(open, c))
      BY <2>4, <2>5
  <2> HIDE DEF v, Above, p
  <2>8. ASSUME NEW a \in DOMAIN open
        PROVE  Cardinality(RowsIn(open, a)) = IF a \in Above THEN open[a].weight + (v - 1) ELSE open[a].weight
      BY <2>1, <2>4, <2>5, <2>6, <2>7
  <2>9. v - 1 \in Int
      BY <2>7
  <2>10. Weighted(Heavier(open, Above, v - 1)) /\ SameTree(open, Heavier(open, Above, v - 1))
      BY <2>1, <2>8, <2>9, Recounted
  <2>11. Opened(els, c) = Heavier(open, Above, v - 1)
      BY <1>2 DEF Opened, AddToOpenAncestors, Folded, open, v, p, Above
  <2>12. DOMAIN Heavier(open, Above, v - 1) = DOMAIN els
      BY <2>1, <2>10 DEF SameTree
  <2> QED BY <2>10, <2>11, <2>12, TreesAre
<1> QED
    BY <1>1, <1>2

\* An element and all above it are expanded.
LEMMA ExpandedIs ==
    ASSUME NEW els \in Trees, NEW id
    PROVE  Expanded(els, id) \in Trees
<1> DEFINE up == Lineage(els, id)
           n == Len(up)
           X == {t \in Trees : DOMAIN t = DOMAIN els}
           F == [i \in 1 .. n |-> [t \in X |-> Opened(t, up[i])]]
           Step(g) == [i \in 0 .. n |-> IF i = 0 THEN els ELSE Opened(g[i - 1], up[i])]
           after == CHOOSE g : g = Step(g)
<1>1. up \in Seq(DOMAIN els)
  <2>1. PICK rank, m : IsRank(els, rank, m)
      BY TreesAre DEF Weighted, Rooted
  <2> QED BY <2>1, LineageType
<1>2. Expanded(els, id) = after[n]
  <2>1. ASSUME NEW g, NEW i PROVE With(g[i - 1], LAMBDA a : Opened(a, up[i])) = Opened(g[i - 1], up[i])
      BY DEF With
  <2>2. \A g : [i \in 0 .. Len(up) |->
                  IF i = 0 THEN els ELSE With(g[i - 1], LAMBDA a : Opened(a, up[i]))] = Step(g)
      BY <2>1
  <2> QED BY <2>2 DEF Expanded, Fold, Stages
<1> HIDE DEF up
<1>3. n \in Nat /\ \A i \in 1 .. n : up[i] \in DOMAIN els
    BY <1>1
<1>4. ASSUME NEW t \in X, NEW i \in 1 .. n PROVE Opened(t, up[i]) \in X
  <2>1. t \in Trees /\ DOMAIN t = DOMAIN els /\ up[i] \in DOMAIN t
      BY <1>3
  <2>2. Opened(t, up[i]) \in Trees /\ DOMAIN Opened(t, up[i]) = DOMAIN t
      BY <2>1, OpenedIs
  <2> QED BY <2>1, <2>2
<1>5. F \in [1 .. n -> [X -> X]] /\ els \in X
  <2> HIDE DEF X
  <2>1. els \in X
      BY DEF X
  <2> QED BY <1>4, <2>1
<1>6. PICK f : AreStages(f, X, els, n, F)
  <2> HIDE DEF F, X, n
  <2> QED BY <1>3, <1>5, StagesExist
<1>7. f = Step(f)
  <2>0. f \in [0 .. n -> X] /\ f[0] = els /\ \A i \in 1 .. n : f[i] = F[i][f[i - 1]]
    <3> HIDE DEF F, X
    <3> QED BY <1>6 DEF AreStages
  <2>1. ASSUME NEW i \in 1 .. n PROVE f[i] = Opened(f[i - 1], up[i])
    <3>1. f[i - 1] \in X
      <4>1. i - 1 \in 0 .. n
          OBVIOUS
      <4> HIDE DEF X, F
      <4> QED BY <2>0, <4>1
    <3>2. F[i][f[i - 1]] = Opened(f[i - 1], up[i])
      <4> HIDE DEF X
      <4> QED BY <3>1
    <3> HIDE DEF F
    <3> QED BY <2>0, <3>2
  <2>2. \A i \in 0 .. n : i = 0 \/ i \in 1 .. n
      BY <1>3
  <2>3. f = [i \in 0 .. n |-> f[i]]
    <3> HIDE DEF X, F
    <3> QED BY <2>0
  <2>4. f[0] = els
    <3> HIDE DEF X, F
    <3> QED BY <2>0
  <2> HIDE DEF F, X
  <2>5. ASSUME NEW i \in 0 .. n PROVE f[i] = IF i = 0 THEN els ELSE Opened(f[i - 1], up[i])
      BY <2>1, <2>2, <2>4
  <2> QED BY <2>3, <2>5
<1>8. after = Step(after)
  <2> HIDE DEF Step
  <2> QED BY <1>7
<1>9. after[0] = els /\ \A i \in 1 .. n : after[i] = Opened(after[i - 1], up[i])
  <2>1. \A g : Step(g)[0] = els /\ \A i \in 1 .. n : Step(g)[i] = Opened(g[i - 1], up[i])
      BY <1>3
  <2> HIDE DEF after, Step
  <2> QED BY <2>1, <1>8
<1> HIDE DEF after, F
<1> DEFINE P == {i \in 0 .. n : after[i] \in X}
<1>10. 0 \in P
  <2> HIDE DEF X
  <2> QED BY <1>3, <1>5, <1>9
<1>11. ASSUME NEW i \in 1 .. n, i - 1 \in P PROVE i \in P
  <2> HIDE DEF X
  <2> QED BY <1>4, <1>9, <1>11
<1>12. 0 .. n \subseteq P
  <2> HIDE DEF P, n
  <2> QED BY <1>3, <1>10, <1>11, Climb
<1>13. n \in 0 .. n
    BY <1>3
<1> QED
    BY <1>2, <1>12, <1>13


-----------------------------------------------------------------------------
(* Weights that are added up.                                              *)

\* The weights of the roots are the rows of the tree view.
LEMMA RootsCount ==
    ASSUME NEW els, Weighted(els), NEW weights, weights = [i \in DOMAIN els |-> els[i].weight]
    PROVE  Weighed(weights, 0, SetToSeq(Roots(els))) = Cardinality(RowsInSight(els))
<1> DEFINE S == Roots(els)
           seq == SetToSeq(S)
           V == [i \in DOMAIN els |-> RowsIn(els, i)]
           n == Cardinality(S)
<1>1. S \in SUBSET DOMAIN els /\ IsFiniteSet(DOMAIN els)
    BY DEF Weighted, Rooted, Roots
<1>2. IsFiniteSet(S)
    BY <1>1, FS_Subset
<1>3. /\ Len(seq) = n /\ n \in Nat
      /\ \A x : x \in S <=> \E i \in 1 .. n : seq[i] = x
      /\ \A i, j \in 1 .. n : seq[i] = seq[j] => i = j
    BY <1>2, SetToSeqIs
<1> HIDE DEF seq, n
<1>4. PICK rank, m : IsRank(els, rank, m)
    BY DEF Weighted, Rooted
<1>5. \A x \in DOMAIN els : els[x].parent # 0 => els[x].parent \in DOMAIN els
    BY DEF Weighted, Rooted
<1>6. 0 \notin DOMAIN els
    BY DEF Weighted, Rooted
<1>7. \A i \in 1 .. Len(seq) : seq[i] \in S /\ seq[i] \in DOMAIN els
    BY <1>1, <1>3
<1>8. \A r \in S : V[r] = RowsIn(els, r) /\ weights[r] = Cardinality(V[r]) /\ IsFiniteSet(V[r])
    BY <1>1, RowsFinite DEF Weighted, Counted
<1>9. ASSUME NEW r \in S, NEW q \in S, NEW x \in V[r], x \in V[q] PROVE r = q
  <2>1. /\ x \in DOMAIN els /\ els[x].parent # 0
        /\ x = r \/ r \in OpenUp(els, els[x].parent)
        /\ x = q \/ q \in OpenUp(els, els[x].parent)
      BY <1>8, <1>9 DEF RowsIn
  <2>2. els[r].parent = 0 /\ els[q].parent = 0
      BY DEF Roots
  <2>3. r \in AllUp(els, els[x].parent) /\ q \in AllUp(els, els[x].parent)
      BY <1>4, <2>1, <2>2, OpenUpIsPart
  <2> QED BY <1>4, <2>2, <2>3, Siblings
<1> DEFINE all == Together(V, seq)
<1>10. all = RowsInSight(els)
  <2>1. ASSUME NEW x \in all PROVE x \in RowsInSight(els)
    <3>1. PICK i \in 1 .. Len(seq) : x \in V[seq[i]]
        BY <2>1 DEF Together
    <3> DEFINE r == seq[i]
    <3>2. r \in S /\ r \in DOMAIN els
        BY <1>7
    <3> HIDE DEF r, V, S
    <3>3. x \in RowsIn(els, r)
        BY <1>8, <3>1, <3>2 DEF r
    <3>4. els[r].parent = 0 /\ ~els[r].collapsed
        BY <3>2 DEF Roots, Weighted, Rooted, S
    <3>5. x \in DOMAIN els /\ els[x].parent # 0 /\ r \in OpenUp(els, els[x].parent)
        BY <3>3, <3>4 DEF RowsIn
    <3>6. els[r].parent \notin DOMAIN els
        BY <1>6, <3>4
    <3> QED BY <1>4, <3>4, <3>5, <3>6, OpenRoot DEF RowsInSight
  <2>2. ASSUME NEW x \in RowsInSight(els) PROVE x \in all
    <3> DEFINE p == els[x].parent
    <3>1. x \in DOMAIN els /\ p # 0 /\ AllUp(els, p) \cap Collapsed(els) = {}
        BY <2>2 DEF RowsInSight
    <3>2. p \in DOMAIN els
        BY <1>5, <3>1
    <3>3. PICK r \in AllUp(els, p) : els[r].parent \notin DOMAIN els
      <4> HIDE DEF p
      <4> QED BY <1>4, <3>2, OneRoot
    <3>4. r \in DOMAIN els
      <4> HIDE DEF p
      <4> QED BY <1>4, <3>2, <3>3, AllUpSinks
    <3>5. r \in S
        BY <1>5, <3>3, <3>4 DEF Roots
    <3>6. r \in OpenUp(els, p)
        BY <1>4, <3>1, <3>3, OpenToTheRoot
    <3>7. x \in RowsIn(els, r)
        BY <3>1, <3>6 DEF RowsIn
    <3>8. PICK i \in 1 .. Len(seq) : seq[i] = r
        BY <1>3, <3>5
    <3>9. x \in V[seq[i]]
        BY <1>8, <3>5, <3>7, <3>8
    <3> QED BY <3>9 DEF Together
  <2> QED BY <2>1, <2>2
<1> HIDE DEF V, S
<1>11. IsFiniteSet(all) /\ Weighed(weights, 0, seq) = 0 + Cardinality(all)
  <2>1. \A i \in 1 .. Len(seq) : IsFiniteSet(V[seq[i]]) /\ weights[seq[i]] = Cardinality(V[seq[i]])
      BY <1>7, <1>8
  <2>2. \A i, j \in 1 .. Len(seq) : i # j => V[seq[i]] \cap V[seq[j]] = {}
      BY <1>3, <1>7, <1>9
  <2>3. Shares(weights, seq, V)
      BY <1>3, <2>1, <2>2 DEF Shares
  <2> QED BY <2>3, WeighedCounts
<1>12. Cardinality(all) \in Nat
    BY <1>11, FS_CardinalityType
<1>13. Weighed(weights, 0, seq) = Cardinality(RowsInSight(els))
  <2> HIDE DEF all
  <2> QED BY <1>10, <1>11, <1>12
<1> QED
    BY <1>13 DEF seq, S

\* The rows of an element are its own and those its children take in it.
LEMMA KidsCount ==
    ASSUME NEW els, Weighted(els), NEW id \in DOMAIN els,
           NEW rowsOf, rowsOf = [k \in DOMAIN els |-> RowsOf(els[k])]
    PROVE  els[id].weight = Weighed(rowsOf, IF els[id].parent = 0 THEN 0 ELSE 1, els[id].kids)
<1> DEFINE seq == els[id].kids
           V == [k \in DOMAIN els |-> IF els[k].collapsed THEN {k} ELSE RowsIn(els, k)]
           own == IF els[id].parent = 0 THEN {} ELSE {id}
           Kids == {j \in DOMAIN els : els[j].parent = id}
<1>1. PICK rank, m : IsRank(els, rank, m)
    BY DEF Weighted, Rooted
<1>2. /\ seq \in Seq(Nat) /\ ToSet(seq) = Kids
      /\ \A k, j \in 1 .. Len(seq) : seq[k] = seq[j] => k = j
  <2>1. els[id] \in StoreElement
      BY DEF Weighted, Rooted
  <2> QED BY <2>1 DEF Weighted, KidsKept, StoreElement
<1> HIDE DEF seq
<1>3. Len(seq) \in Nat /\ DOMAIN seq = 1 .. Len(seq)
    BY <1>2
<1>4. /\ \A i \in 1 .. Len(seq) : seq[i] \in Kids
      /\ \A k \in Kids : \E i \in 1 .. Len(seq) : seq[i] = k
    BY <1>2, <1>3 DEF ToSet
<1>5. \A x \in DOMAIN els : els[x].parent # 0 => els[x].parent \in DOMAIN els
    BY DEF Weighted, Rooted
<1>6. id # 0 /\ IsFiniteSet(DOMAIN els)
    BY DEF Weighted, Rooted
<1>7. \A k \in Kids : IsFiniteSet(V[k]) /\ rowsOf[k] = Cardinality(V[k]) /\ V[k] \subseteq RowsIn(els, k)
  <2> TAKE k \in Kids
  <2>1. CASE els[k].collapsed
    <3>1. IsFiniteSet({k}) /\ Cardinality({k}) = 1
        BY FS_Singleton
    <3>2. k \in RowsIn(els, k)
        BY <1>6 DEF RowsIn
    <3> QED BY <2>1, <3>1, <3>2 DEF RowsOf
  <2>2. CASE ~els[k].collapsed
    <3>1. IsFiniteSet(RowsIn(els, k)) /\ els[k].weight = Cardinality(RowsIn(els, k))
        BY <1>6, RowsFinite DEF Weighted, Counted
    <3> QED BY <2>2, <3>1 DEF RowsOf
  <2> QED BY <2>1, <2>2
\* An element that takes a row is on the way up from it.
<1>8. \A k, x : x \in RowsIn(els, k) => x \in DOMAIN els /\ k \in AllUp(els, x)
  <2> TAKE k, x
  <2> HAVE x \in RowsIn(els, k)
  <2>1. x \in DOMAIN els /\ (x = k \/ k \in OpenUp(els, els[x].parent))
      BY DEF RowsIn
  <2>2. AllUp(els, x) = {x} \cup AllUp(els, els[x].parent)
      BY <1>1, <2>1, Ways
  <2>3. OpenUp(els, els[x].parent) \subseteq AllUp(els, els[x].parent)
      BY <1>1, OpenUpIsPart
  <2> QED BY <2>1, <2>2, <2>3
<1>9. ASSUME NEW k \in Kids, NEW j \in Kids, NEW x \in V[k], x \in V[j] PROVE k = j
  <2>1. k \in AllUp(els, x) /\ j \in AllUp(els, x)
      BY <1>7, <1>8, <1>9
  <2>2. els[k].parent = els[j].parent
      OBVIOUS
  <2> QED BY <1>1, <2>1, <2>2, Siblings
<1> DEFINE all == Together(V, seq)
<1>10. ASSUME NEW x \in all PROVE x \in RowsIn(els, id) /\ x # id
  <2>1. PICK k \in Kids : x \in V[k]
      BY <1>4, <1>10 DEF Together
  <2>2. x \in RowsIn(els, k)
      BY <1>7, <2>1
  <2>3. k \in DOMAIN els /\ els[k].parent = id
      OBVIOUS
  <2>4. x # id
    <3> SUFFICES ASSUME x = id PROVE FALSE
        OBVIOUS
    <3>1. k \in AllUp(els, id)
        BY <1>8, <2>2
    <3>2. rank[k] <= rank[id]
        BY <1>1, <3>1, AllUpSinks
    <3> QED BY <1>1, <2>3, <3>2 DEF IsRank
  <2>5. CASE els[k].collapsed
    <3>1. x = k
        BY <2>1, <2>3, <2>5
    <3>2. id \in OpenUp(els, id)
      <4>1. CASE els[id].collapsed
          BY <1>1, <4>1, Ways
      <4>2. CASE ~els[id].collapsed
          BY <1>1, <4>2, Ways
      <4> QED BY <4>1, <4>2
    <3> QED BY <1>6, <2>3, <2>4, <3>1, <3>2 DEF RowsIn
  <2>6. CASE ~els[k].collapsed
    <3>1. id \in OpenUp(els, id)
      <4>1. CASE els[id].collapsed
          BY <1>1, <4>1, Ways
      <4>2. CASE ~els[id].collapsed
          BY <1>1, <4>2, Ways
      <4> QED BY <4>1, <4>2
    <3>2. x \in DOMAIN els /\ els[x].parent # 0 /\ (x = k \/ k \in OpenUp(els, els[x].parent))
        BY <2>2 DEF RowsIn
    <3>3. CASE x = k
        BY <2>3, <2>4, <3>1, <3>2, <3>3 DEF RowsIn
    <3>4. CASE k \in OpenUp(els, els[x].parent)
      <4>1. OpenUp(els, id) \subseteq OpenUp(els, els[x].parent)
          BY <1>1, <2>3, <2>6, <3>4, OpenUpGoesOn
      <4> QED BY <2>4, <3>1, <3>2, <4>1 DEF RowsIn
    <3> QED BY <3>2, <3>3, <3>4
  <2> QED BY <2>4, <2>5, <2>6
<1>11. ASSUME NEW x \in RowsIn(els, id), x # id PROVE x \in all
  <2>1. x \in DOMAIN els /\ els[x].parent # 0 /\ id \in OpenUp(els, els[x].parent)
      BY <1>11 DEF RowsIn
  <2>2. \E k \in Kids : x \in V[k]
    <3>1. CASE els[x].parent = id
      <4>1. x \in Kids /\ x \in RowsIn(els, x)
          BY <2>1, <3>1 DEF RowsIn
      <4>2. x \in V[x]
          BY <2>1, <4>1
      <4> QED BY <4>1, <4>2
    <3>2. CASE els[x].parent # id
      <4> DEFINE p == els[x].parent
      <4>1. PICK k \in OpenUp(els, p) : k \in DOMAIN els /\ ~els[k].collapsed /\ els[k].parent = id
        <5>1. id \in OpenUp(els, p) /\ id # p
            BY <2>1, <3>2
        <5> HIDE DEF p
        <5> QED BY <1>1, <5>1, Through
      <4>2. x \in RowsIn(els, k)
          BY <2>1, <4>1 DEF RowsIn
      <4>3. k \in Kids /\ x \in V[k]
          BY <4>1, <4>2
      <4> QED BY <4>3
    <3> QED BY <3>1, <3>2
  <2> HIDE DEF V, Kids
  <2>3. PICK k \in Kids : x \in V[k]
      BY <2>2
  <2>4. PICK i \in 1 .. Len(seq) : seq[i] = k
      BY <1>4
  <2> QED BY <2>3, <2>4 DEF Together
<1>12. RowsIn(els, id) = own \cup all /\ own \cap all = {}
  <2>1. id \in RowsIn(els, id) <=> els[id].parent # 0
    <3>1. id \notin OpenUp(els, els[id].parent)
        BY <1>1, NotAboveItself, OpenUpIsPart
    <3> QED BY <3>1 DEF RowsIn
  <2> HIDE DEF all
  <2> QED BY <1>10, <1>11, <2>1
<1> DEFINE start == IF els[id].parent = 0 THEN 0 ELSE 1
<1>13. start \in Nat /\ IsFiniteSet(own) /\ Cardinality(own) = start
    BY FS_EmptySet, FS_Singleton
<1> HIDE DEF V, Kids, own, start
<1>14. IsFiniteSet(all) /\ Weighed(rowsOf, start, seq) = start + Cardinality(all)
  <2>1. \A i \in 1 .. Len(seq) : IsFiniteSet(V[seq[i]]) /\ rowsOf[seq[i]] = Cardinality(V[seq[i]])
      BY <1>4, <1>7
  <2>2. \A i, j \in 1 .. Len(seq) : i # j => V[seq[i]] \cap V[seq[j]] = {}
      BY <1>2, <1>4, <1>9
  <2>3. Shares(rowsOf, seq, V)
      BY <1>3, <2>1, <2>2 DEF Shares
  <2> QED BY <1>13, <2>3, WeighedCounts
<1> HIDE DEF all
<1>15. Cardinality(own \cup all) = Cardinality(own) + Cardinality(all) - Cardinality(own \cap all)
    BY <1>13, <1>14, FS_Union
<1>16. Cardinality({}) = 0 /\ Cardinality(all) \in Nat
    BY <1>14, FS_EmptySet, FS_CardinalityType
<1>17. els[id].weight = Cardinality(RowsIn(els, id))
    BY DEF Weighted, Counted
<1>18. els[id].weight = start + Cardinality(all)
  <2>1. els[id].weight = Cardinality(own) + Cardinality(all) - 0
      BY <1>12, <1>15, <1>16, <1>17
  <2> QED BY <1>13, <1>16, <2>1
<1> QED
    BY <1>14, <1>18 DEF start, seq


\* What follows a fold of the user: the rows are added up again.
LEMMA RowsAgain ==
    ASSUME NEW s \in Stores, NEW next \in Trees, NEW weights,
           weights = [i \in DOMAIN next |-> next[i].weight]
    PROVE  [s EXCEPT !.elements = next, !.rows = Weighed(weights, 0, SetToSeq(Roots(next)))] \in Stores
<1>1. Weighted(next)
    BY TreesAre
<1>2. Weighed(weights, 0, SetToSeq(Roots(next))) = Cardinality(RowsInSight(next))
    BY <1>1, RootsCount
<1>3. Cardinality(RowsInSight(next)) \in Nat
    BY <1>1, RowsFinite DEF Weighted, Rooted
<1>4. s \in [elements : Trees, rows : Nat, threw : BOOLEAN]
    BY DEF Stores
<1> DEFINE r == Weighed(weights, 0, SetToSeq(Roots(next)))
<1>5. r \in Nat /\ r = Cardinality(RowsInSight(next))
    BY <1>2, <1>3
<1> HIDE DEF r
<1>6. [s EXCEPT !.elements = next, !.rows = r] \in Stores
    BY <1>4, <1>5 DEF Stores
<1> QED
    BY <1>6 DEF r

LEMMA ToggleCounts ==
    ASSUME NEW s \in Stores, NEW id \in DOMAIN s.elements, NEW isCollapsed \in BOOLEAN,
           isCollapsed => s.elements[id].parent # 0 /\ ~isInsideCollapsedSubTree(s, id)
    PROVE  toggleIsCollapsed(s, id, isCollapsed) \in Stores
<1> DEFINE els == s.elements
           e == els[id]
           toggled ==
               IF ~isCollapsed THEN Expanded(els, id)
               ELSE IF e.collapsed THEN els
               ELSE AddToAncestors([els EXCEPT ![id].collapsed = TRUE], e.parent, 1 - e.weight)
           weights == [i \in DOMAIN toggled |-> toggled[i].weight]
           other == [s EXCEPT !.elements = toggled,
                              !.rows = Weighed(weights, 0, SetToSeq(Roots(toggled)))]
<1>1. els \in Trees
    BY DEF Stores
<1>2. toggled \in Trees
  <2>1. CASE ~isCollapsed
      BY <1>1, <2>1, ExpandedIs
  <2>2. CASE isCollapsed /\ e.collapsed
      BY <1>1, <2>2
  <2>3. CASE isCollapsed /\ ~e.collapsed
    <3>1. Weighted(els) /\ e.parent # 0 /\ AllUp(els, e.parent) \cap Collapsed(els) = {}
        BY <1>1, <2>3, TreesAre DEF isInsideCollapsedSubTree
    <3>2. Weighted(AddToAncestors(Folded(els, id, TRUE), e.parent, 1 - e.weight))
        BY <2>3, <3>1, Collapses
    <3>3. toggled = AddToAncestors(Folded(els, id, TRUE), e.parent, 1 - e.weight)
        BY <2>3 DEF Folded
    <3> HIDE DEF toggled
    <3> QED BY <3>2, <3>3, TreesAre
  <2> QED BY <2>1, <2>2, <2>3
<1>3. toggleIsCollapsed(s, id, isCollapsed) = Refolded(s, toggled)
    BY DEF toggleIsCollapsed, With
<1> HIDE DEF toggled
<1>4. other \in Stores
    BY <1>2, RowsAgain
<1> QED
    BY <1>3, <1>4 DEF Refolded

-----------------------------------------------------------------------------
(* A message.                                                              *)

Messages == [removes : Seq(Nat \ {0}), ops : Seq(Adds \cup Reorders)]

LEMMA RemovedCounts ==
    ASSUME NEW s \in Stores, NEW ids, Len(ids) \in Nat
    PROVE  Removed(s, ids) \in Stores
<1> DEFINE n == Len(ids)
           Step1(t, i) == IF t.threw THEN t ELSE RemoveElement(t, ids[i])
           F == [i \in 1 .. n |-> [t \in Stores |-> Step1(t, i)]]
           Step(g) == [i \in 0 .. n |-> IF i = 0 THEN s ELSE Step1(g[i - 1], i)]
           after == CHOOSE g : g = Step(g)
<1>2. Removed(s, ids) = after[n]
  <2>1. ASSUME NEW g, NEW i
        PROVE  With(g[i - 1], LAMBDA a : IF a.threw THEN a ELSE RemoveElement(a, ids[i])) = Step1(g[i - 1], i)
      BY DEF With
  <2>2. \A g : [i \in 0 .. Len(ids) |->
                  IF i = 0 THEN s
                  ELSE With(g[i - 1], LAMBDA a : IF a.threw THEN a ELSE RemoveElement(a, ids[i]))] = Step(g)
      BY <2>1
  <2> QED BY <2>2 DEF Removed, Fold, Stages
<1>3. n \in Nat
    OBVIOUS
<1>4. ASSUME NEW t \in Stores, NEW i \in 1 .. n PROVE Step1(t, i) \in Stores
    BY RemoveElementCounts
<1> HIDE DEF Step1
<1>5. F \in [1 .. n -> [Stores -> Stores]]
    BY <1>4
<1>6. PICK f : AreStages(f, Stores, s, n, F)
  <2> HIDE DEF F, n
  <2> QED BY <1>3, <1>5, StagesExist
<1>7. f = Step(f)
  <2>0. f \in [0 .. n -> Stores] /\ f[0] = s /\ \A i \in 1 .. n : f[i] = F[i][f[i - 1]]
    <3> HIDE DEF F
    <3> QED BY <1>6 DEF AreStages
  <2>1. ASSUME NEW i \in 1 .. n PROVE f[i] = Step1(f[i - 1], i)
    <3>1. f[i - 1] \in Stores
      <4>1. i - 1 \in 0 .. n
          OBVIOUS
      <4> HIDE DEF F
      <4> QED BY <2>0, <4>1
    <3>2. F[i][f[i - 1]] = Step1(f[i - 1], i)
        BY <3>1
    <3> HIDE DEF F
    <3> QED BY <2>0, <3>2
  <2>2. \A i \in 0 .. n : i = 0 \/ i \in 1 .. n
      BY <1>3
  <2> HIDE DEF F
  <2>3. f = [i \in 0 .. n |-> f[i]]
      BY <2>0
  <2>5. ASSUME NEW i \in 0 .. n PROVE f[i] = IF i = 0 THEN s ELSE Step1(f[i - 1], i)
      BY <2>0, <2>1, <2>2
  <2> QED BY <2>3, <2>5
<1>8. after = Step(after)
  <2> HIDE DEF Step
  <2> QED BY <1>7
<1>9. after[0] = s /\ \A i \in 1 .. n : after[i] = Step1(after[i - 1], i)
  <2>1. \A g : Step(g)[0] = s /\ \A i \in 1 .. n : Step(g)[i] = Step1(g[i - 1], i)
      BY <1>3
  <2> HIDE DEF after, Step
  <2> QED BY <2>1, <1>8
<1> HIDE DEF after, F
<1> DEFINE P == {i \in 0 .. n : after[i] \in Stores}
<1>10. 0 \in P
    BY <1>3, <1>9
<1>11. ASSUME NEW i \in 1 .. n, i - 1 \in P PROVE i \in P
    BY <1>4, <1>9, <1>11
<1>12. 0 .. n \subseteq P
  <2> HIDE DEF P, n
  <2> QED BY <1>3, <1>10, <1>11, Climb
<1>13. n \in 0 .. n
    BY <1>3
<1> QED
    BY <1>2, <1>12, <1>13

\* One operation of a message.
Applied(s, op, byDefault) ==
    IF s.threw THEN s
    ELSE IF op.op = "add" THEN AddElement(s, op, byDefault) ELSE ReorderChildren(s, op)

AreOperated(after, s, ops, byDefault) ==
    /\ after[0] = s
    /\ \A i \in 1 .. Len(ops) : after[i] = Applied(after[i - 1], ops[i], byDefault)

LEMMA OperatedIs ==
    ASSUME NEW s, NEW ops, Len(ops) \in Nat, NEW byDefault
    PROVE  AreOperated(Operated(s, ops, byDefault), s, ops, byDefault)
<1> DEFINE n == Len(ops)
           A(t, i) == Applied(t, ops[i], byDefault)
           Step(g) == [i \in 0 .. n |-> IF i = 0 THEN s ELSE A(g[i - 1], i)]
           after == CHOOSE g : g = Step(g)
           Upto(f, m) == f[0] = s /\ \A i \in 1 .. m : f[i] = A(f[i - 1], i)
           P == {m \in 0 .. n : \E f : Upto(f, m)}
<1>1. Operated(s, ops, byDefault) = after
  <2>1. ASSUME NEW g, NEW i
        PROVE  With(g[i - 1], LAMBDA a : IF a.threw THEN a
                                         ELSE IF ops[i].op = "add" THEN AddElement(a, ops[i], byDefault)
                                              ELSE ReorderChildren(a, ops[i])) = A(g[i - 1], i)
      BY DEF With, Applied
  <2>2. \A g : [i \in 0 .. Len(ops) |->
                  IF i = 0 THEN s
                  ELSE With(g[i - 1], LAMBDA a : IF a.threw THEN a
                                         ELSE IF ops[i].op = "add" THEN AddElement(a, ops[i], byDefault)
                                              ELSE ReorderChildren(a, ops[i]))] = Step(g)
      BY <2>1
  <2> QED BY <2>2 DEF Operated, Stages
<1> HIDE DEF A
<1>2. n \in Nat
    OBVIOUS
<1>3. 0 \in P
  <2>1. Upto([i \in 0 .. 0 |-> s], 0)
      OBVIOUS
  <2> HIDE DEF Upto
  <2> QED BY <1>2, <2>1
<1>4. ASSUME NEW m \in 1 .. n, m - 1 \in P PROVE m \in P
  <2>1. PICK f : Upto(f, m - 1)
      BY <1>4
  <2> DEFINE g == [i \in 0 .. m |-> IF i = m THEN A(f[m - 1], m) ELSE f[i]]
  <2>2. g[0] = s
      BY <2>1
  <2>3. ASSUME NEW i \in 1 .. m PROVE g[i] = A(g[i - 1], i)
    <3>1. g[i - 1] = f[i - 1]
        OBVIOUS
    <3>2. CASE i = m
        BY <3>1, <3>2
    <3>3. CASE i # m
      <4>1. i \in 1 .. m - 1
          BY <3>3
      <4> QED BY <2>1, <3>1, <3>3, <4>1
    <3> QED BY <3>2, <3>3
  <2>4. Upto(g, m)
    <3> HIDE DEF g
    <3> QED BY <2>2, <2>3
  <2> HIDE DEF Upto, g
  <2> QED BY <2>4
<1>5. 0 .. n \subseteq P
  <2> HIDE DEF P, n
  <2> QED BY <1>2, <1>3, <1>4, Climb
<1>6. PICK f : Upto(f, n)
  <2>1. n \in P
      BY <1>2, <1>5
  <2> HIDE DEF Upto
  <2> QED BY <2>1
<1>7. [i \in 0 .. n |-> f[i]] = Step([i \in 0 .. n |-> f[i]])
  <2> DEFINE h == [i \in 0 .. n |-> f[i]]
  <2>1. ASSUME NEW i \in 0 .. n PROVE h[i] = Step(h)[i]
    <3>1. CASE i = 0
        BY <1>6, <3>1
    <3>2. CASE i # 0
      <4>1. i \in 1 .. n /\ i - 1 \in 0 .. n
          BY <3>2
      <4> QED BY <1>6, <3>2, <4>1
    <3> QED BY <3>1, <3>2
  <2> QED BY <2>1
<1>8. after = Step(after)
  <2> HIDE DEF Step
  <2> QED BY <1>7
<1>9. after[0] = s /\ \A i \in 1 .. n : after[i] = A(after[i - 1], i)
  <2>1. \A g : Step(g)[0] = s /\ \A i \in 1 .. n : Step(g)[i] = A(g[i - 1], i)
      BY <1>2
  <2> HIDE DEF after, Step
  <2> QED BY <2>1, <1>8
<1> QED
  <2> HIDE DEF after
  <2> QED BY <1>1, <1>9 DEF AreOperated, A

\* A message that fits leaves the store counting its rows right.
LEMMA MessageCounts ==
    ASSUME NEW s \in Stores, NEW m \in Messages, NEW byDefault \in BOOLEAN, Fits(s, m, byDefault)
    PROVE  onBridgeOperations(s, m, byDefault) \in Stores
<1> DEFINE removed == Removed(s, m.removes)
           ops == m.ops
           n == Len(ops)
           after == Operated(removed, ops, byDefault)
<1>1. m.removes \in Seq(Nat \ {0}) /\ ops \in Seq(Adds \cup Reorders)
    BY DEF Messages
<1>2. Len(m.removes) \in Nat /\ n \in Nat /\ \A i \in 1 .. n : ops[i] \in Adds \cup Reorders
    BY <1>1
<1>3. onBridgeOperations(s, m, byDefault) = after[n]
    BY DEF onBridgeOperations, With
<1>4. \A i \in 1 .. n : Permutes(after[i - 1], ops[i])
    BY DEF Fits, With
<1>5. removed \in Stores
    BY <1>2, RemovedCounts
<1> HIDE DEF removed, ops
<1>6. AreOperated(after, removed, ops, byDefault)
    BY <1>2, OperatedIs
<1> HIDE DEF after
<1>7. /\ after[0] = removed
      /\ \A i \in 1 .. n : after[i] = Applied(after[i - 1], ops[i], byDefault)
    BY <1>6 DEF AreOperated
<1> DEFINE P == {i \in 0 .. n : after[i] \in Stores}
<1>8. 0 \in P
    BY <1>2, <1>5, <1>7
<1>9. ASSUME NEW i \in 1 .. n, i - 1 \in P PROVE i \in P
  <2> DEFINE t == after[i - 1]
             op == ops[i]
  <2>1. t \in Stores /\ after[i] = Applied(t, op, byDefault) /\ op \in Adds \cup Reorders /\ Permutes(t, op)
      BY <1>2, <1>4, <1>7, <1>9
  <2> HIDE DEF t, op
  <2>2. Applied(t, op, byDefault) \in Stores
    <3>1. CASE t.threw
        BY <2>1, <3>1 DEF Applied
    <3>2. CASE ~t.threw /\ op \in Adds
      <4>1. op.op = "add"
          BY <3>2 DEF Adds
      <4> QED BY <2>1, <3>2, <4>1, AddElementCounts DEF Applied
    <3>3. CASE ~t.threw /\ op \in Reorders
      <4>1. op.op # "add"
          BY <3>3 DEF Reorders
      <4> QED BY <2>1, <3>3, <4>1, ReorderChildrenCounts DEF Applied
    <3> QED BY <2>1, <3>1, <3>2, <3>3
  <2> QED BY <2>1, <2>2
<1>10. 0 .. n \subseteq P
  <2> HIDE DEF P, n
  <2> QED BY <1>2, <1>8, <1>9, Climb
<1>11. n \in 0 .. n
    BY <1>2
<1> QED
    BY <1>3, <1>10, <1>11

-----------------------------------------------------------------------------
(* The state machine.                                                      *)

StoreInv == store \in Stores /\ collapseNodesByDefault \in BOOLEAN

\* A store of which this is true counts its rows right.
LEMMA StoresCount == store \in Stores => RowsAreCounted
<1> SUFFICES ASSUME store \in Stores PROVE RowsAreCounted
    OBVIOUS
<1> DEFINE els == store.elements
<1>1. Weighted(els) /\ store.rows = Cardinality(RowsInSight(els))
    BY TreesAre DEF Stores
<1>2. {i \in DOMAIN els : InSight(i)} = RowsInSight(els)
    BY DEF InSight, IsElement, Has, isInsideCollapsedSubTree, RowsInSight
<1>3. ASSUME NEW id \in DOMAIN els
      PROVE  els[id].weight = Weighed([k \in DOMAIN els |-> RowsOf(els[k])],
                                      IF els[id].parent = 0 THEN 0 ELSE 1, els[id].kids)
    BY <1>1, KidsCount
<1> QED
    BY <1>1, <1>2, <1>3 DEF RowsAreCounted

LEMMA StoreInitially == StoreInit => StoreInv
<1> SUFFICES ASSUME StoreInit PROVE store \in Stores
    BY DEF StoreInit, StoreInv
<1> DEFINE els == store.elements
<1>1. els = <<>> /\ store.rows = 0 /\ store \in [elements : {<<>>}, rows : Nat, threw : BOOLEAN]
    BY DEF StoreInit, EmptyStore
<1>2. DOMAIN els = {}
    BY <1>1
<1>3. IsFiniteSet({}) /\ Cardinality({}) = 0
    BY FS_EmptySet
<1>4. els \in [DOMAIN els -> StoreElement]
    BY <1>1, <1>2
<1>5. \E rank, n : IsRank(els, rank, n)
  <2>1. IsRank(els, [i \in {} |-> 0], 0)
      BY <1>2 DEF IsRank
  <2> QED BY <2>1
<1>6. Weighted(els)
  <2> HIDE DEF els
  <2> QED BY <1>2, <1>3, <1>4, <1>5 DEF Weighted, Rooted, KidsKept, Counted
<1>7. RowsInSight(els) = {}
    BY <1>2 DEF RowsInSight
<1>8. <<>> \in Trees
    BY <1>1, <1>6, TreesAre
<1> QED
    BY <1>1, <1>3, <1>7, <1>8 DEF Stores

\* What is above a new selection is expanded.
LEMMA RevealedCounts ==
    ASSUME NEW s \in Stores, NEW id, id = 0 \/ id \in DOMAIN s.elements
    PROVE  Revealed(s, id) \in Stores
<1> DEFINE p == s.elements[id].parent
<1>1. CASE id = 0 \/ p = 0
    BY <1>1 DEF Revealed
<1>2. CASE ~(id = 0 \/ p = 0)
  <2>1. Revealed(s, id) = toggleIsCollapsed(s, p, FALSE)
      BY <1>2 DEF Revealed
  <2>2. Rooted(s.elements)
      BY TreesAre DEF Stores, Weighted
  <2>3. p \in DOMAIN s.elements
      BY <1>2, <2>2 DEF Rooted
  <2>4. toggleIsCollapsed(s, p, FALSE) \in Stores
    <3> HIDE DEF p
    <3> QED BY <2>3, ToggleCounts
  <2> QED BY <2>1, <2>4
<1> QED
    BY <1>1, <1>2

\* The selection that survives a message is an element that is left.
LEMMA SurvivingIs ==
    ASSUME NEW before \in Stores, NEW after, NEW id
    PROVE  Surviving(before, after, id) = 0 \/ Surviving(before, after, id) \in DOMAIN after.elements
<1> DEFINE up == Lineage(before.elements, id)
           left == {k \in DOMAIN up : Has(after, up[k])}
<1>1. CASE left = {}
    BY <1>1 DEF Surviving
<1>2. CASE left # {}
  <2>1. PICK rank, n : IsRank(before.elements, rank, n)
      BY TreesAre DEF Stores, Weighted, Rooted
  <2>2. up \in Seq(DOMAIN before.elements)
      BY <2>1, LineageType
  <2>3. left \in SUBSET Nat
    <3> HIDE DEF up
    <3> QED BY <2>2
  <2>4. \E k \in left : \A j \in left : k <= j
    <3> SUFFICES ASSUME \A k \in left : \E j \in left : ~(k <= j) PROVE FALSE
        OBVIOUS
    <3> HIDE DEF left
    <3>1. \A k \in left : \E j \in left : j < k
        BY <2>3
    <3> QED BY <1>2, <2>3, <3>1, NoSmallest
  <2> DEFINE k == CHOOSE k \in left : \A j \in left : k <= j
  <2>5. k \in left
    <3> HIDE DEF left
    <3> QED BY <2>4
  <2>6. Surviving(before, after, id) = up[k]
      BY <1>2 DEF Surviving
  <2> HIDE DEF k, up
  <2> QED BY <2>5, <2>6 DEF Has
<1> QED
    BY <1>1, <1>2

LEMMA MessageKeepsCount ==
    ASSUME StoreInv, NEW m \in Messages, Fits(store, m, collapseNodesByDefault), ReceiveMessage(m)
    PROVE  StoreInv'
<1> DEFINE after == onBridgeOperations(store, m, collapseNodesByDefault)
           survivor == IF after.threw THEN selected ELSE Surviving(store, after, selected)
<1>1. after \in Stores
    BY MessageCounts DEF StoreInv
<1>2. store' = (IF survivor = selected THEN after ELSE Revealed(after, survivor))
    BY DEF ReceiveMessage
<1> HIDE DEF after
<1>3. survivor # selected => survivor = 0 \/ survivor \in DOMAIN after.elements
    BY SurvivingIs DEF StoreInv
<1> HIDE DEF survivor
<1>4. store' \in Stores
    BY <1>1, <1>2, <1>3, RevealedCounts
<1> QED
    BY <1>4 DEF ReceiveMessage, StoreInv

LEMMA FoldKeepsCount ==
    ASSUME StoreInv, ArrowLeft => InSight(selected), UserFolds
    PROVE  StoreInv'
<1>1. ASSUME NEW id \in DOMAIN store.elements, ClickToggle(id) PROVE StoreInv'
  <2> DEFINE to == ~store.elements[id].collapsed
  <2>1. /\ store.elements[id].parent # 0 /\ ~isInsideCollapsedSubTree(store, id)
        /\ store' = toggleIsCollapsed(store, id, to) /\ UNCHANGED collapseNodesByDefault
      BY <1>1 DEF ClickToggle, Toggle, InSight, IsElement
  <2>2. to \in BOOLEAN
      OBVIOUS
  <2> HIDE DEF to
  <2>3. store' \in Stores
      BY <2>1, <2>2, ToggleCounts DEF StoreInv
  <2> QED BY <2>1, <2>3 DEF StoreInv
<1>2. ASSUME NEW id \in DOMAIN store.elements, Select(id) PROVE StoreInv'
  <2>1. Revealed(store, id) \in Stores
      BY RevealedCounts DEF StoreInv
  <2> QED BY <1>2, <2>1 DEF Select, StoreInv
<1>3. ASSUME ArrowLeft PROVE StoreInv'
  <2>1. /\ selected \in DOMAIN store.elements
        /\ store.elements[selected].parent # 0 /\ ~isInsideCollapsedSubTree(store, selected)
        /\ store' = toggleIsCollapsed(store, selected, TRUE) /\ UNCHANGED collapseNodesByDefault
      BY <1>3 DEF ArrowLeft, Toggle, InSight, IsElement, Has
  <2>2. store' \in Stores
      BY <2>1, ToggleCounts DEF StoreInv
  <2> QED BY <2>1, <2>2 DEF StoreInv
<1>4. ASSUME ArrowRight PROVE StoreInv'
  <2>1. /\ selected \in DOMAIN store.elements
        /\ store' = toggleIsCollapsed(store, selected, FALSE) /\ UNCHANGED collapseNodesByDefault
      BY <1>4 DEF ArrowRight, Toggle, IsElement, Has
  <2>2. store' \in Stores
      BY <2>1, ToggleCounts DEF StoreInv
  <2> QED BY <2>1, <2>2 DEF StoreInv
<1> QED
    BY <1>1, <1>2, <1>3, <1>4 DEF UserFolds

\* INVARIANT, conditional.  Whatever messages come, if they fit, the weights and
\* the rows of the store are right as long as the keyboard collapses no element
\* that is out of sight (toggleIsCollapsed of store.js adds to all the ancestors
\* of an element it collapses, which is right only if none is collapsed).
THEOREM RowsCountedInSight ==
    ASSUME NEW CONSTANT messages, messages \subseteq Messages
    PROVE  StoreSpec(messages) /\ [][ArrowLeft => InSight(selected)]_storeVars => []RowsAreCounted
<1>1. StoreInit => StoreInv
    BY StoreInitially
<1>2. ASSUME StoreInv, [StoreNext(messages)]_storeVars, [ArrowLeft => InSight(selected)]_storeVars
      PROVE  StoreInv'
  <2>1. CASE UNCHANGED storeVars
      BY <2>1, <1>2 DEF storeVars, StoreInv
  <2>2. CASE StoreNext(messages) /\ (ArrowLeft => InSight(selected))
    <3>1. ASSUME NEW m \in messages, Fits(store, m, collapseNodesByDefault), ReceiveMessage(m)
          PROVE  StoreInv'
      <4>1. m \in Messages
          OBVIOUS
      <4> QED BY <1>2, <3>1, <4>1, MessageKeepsCount
    <3>2. CASE UserFolds
        BY <1>2, <2>2, <3>2, FoldKeepsCount
    <3> QED BY <2>2, <3>1, <3>2 DEF StoreNext
  <2> QED BY <1>2, <2>1, <2>2
<1>3. StoreInv => RowsAreCounted
    BY StoresCount DEF StoreInv
<1> QED
    BY <1>1, <1>2, <1>3, PTL DEF StoreSpec

\* INVARIANT.  If the keyboard folds only what is in sight, the rows are counted
\* right for any messages that fit.
THEOREM RowsCounted ==
    ASSUME NEW CONSTANT messages, messages \subseteq Messages, ~FoldsHidden
    PROVE  StoreSpec(messages) => []RowsAreCounted
<1>1. [StoreNext(messages)]_storeVars => [ArrowLeft => InSight(selected)]_storeVars
    BY DEF ArrowLeft
<1> QED
    BY <1>1, RowsCountedInSight, PTL DEF StoreSpec

-----------------------------------------------------------------------------
(* ReactChildFiber.js, for child lists of any length: how an array of       *)
(* elements is matched with the children of the last render.               *)

\* A sequence whose elements are all different, without one of them.
Distinct(s) == \A k, m \in 1 .. Len(s) : s[k] = s[m] => k = m

\* What RemoveAt leaves of a sequence without repetition.
LEMMA RemoveAtIs ==
    ASSUME NEW S, NEW s \in Seq(S), NEW at \in 1 .. Len(s), Distinct(s)
    PROVE  LET r == RemoveAt(s, at)
           IN  r \in Seq(S) /\ ToSet(r) = ToSet(s) \ {s[at]} /\ Distinct(r)
<1> DEFINE r == RemoveAt(s, at)
           n == Len(s)
<1>1. n \in Nat /\ DOMAIN s = 1 .. n /\ at \in Int /\ 1 <= at /\ at <= n
    OBVIOUS
<1> DEFINE left == SubSeq(s, 1, at - 1)
           right == SubSeq(s, at + 1, n)
<1>3. r = left \o right
    BY DEF RemoveAt
<1> HIDE DEF r
<1>4. left \in Seq(S) /\ Len(left) = at - 1 /\ \A k \in 1 .. at - 1 : left[k] = s[k]
  <2>1. 1 \in Int /\ at - 1 \in Int
      BY <1>1
  <2>2. \A i \in 1 .. at - 1 : s[i] \in S
      BY <1>1
  <2>3. /\ left \in Seq(S)
        /\ Len(left) = IF 1 <= at - 1 THEN (at - 1) - 1 + 1 ELSE 0
        /\ \A i \in 1 .. (at - 1) - 1 + 1 : left[i] = s[1 + i - 1]
    <3> HIDE DEF n
    <3> QED BY <2>1, <2>2, SubSeqProperties
  <2> HIDE DEF left, n
  <2>4. Len(left) = at - 1
      BY <1>1, <2>3
  <2>5. (at - 1) - 1 + 1 = at - 1
      BY <2>1
  <2>6. ASSUME NEW k \in 1 .. at - 1 PROVE left[k] = s[k]
    <3>1. left[k] = s[1 + k - 1]
        BY <2>3, <2>5
    <3>2. 1 + k - 1 = k
        BY <2>1
    <3> QED BY <3>1, <3>2
  <2> QED BY <2>3, <2>4, <2>6
<1>5. right \in Seq(S) /\ Len(right) = n - at /\ \A k \in 1 .. n - at : right[k] = s[at + k]
  <2>1. at + 1 \in Int /\ n \in Int
      BY <1>1
  <2>2. \A i \in at + 1 .. n : s[i] \in S
      BY <1>1
  <2>3. /\ right \in Seq(S)
        /\ Len(right) = IF at + 1 <= n THEN n - (at + 1) + 1 ELSE 0
        /\ \A i \in 1 .. n - (at + 1) + 1 : right[i] = s[at + 1 + i - 1]
    <3> HIDE DEF n
    <3> QED BY <2>1, <2>2, SubSeqProperties
  <2> HIDE DEF right, n
  <2>4. Len(right) = n - at
      BY <1>1, <2>3
  <2>5. ASSUME NEW k \in 1 .. n - at PROVE right[k] = s[at + k]
    <3>1. k \in 1 .. n - (at + 1) + 1
        BY <1>1
    <3>2. right[k] = s[at + 1 + k - 1] /\ at + 1 + k - 1 = at + k
        BY <1>1, <2>3, <3>1
    <3> QED BY <3>2
  <2> QED BY <2>3, <2>4, <2>5
<1> HIDE DEF left, right
<1>6. /\ r \in Seq(S) /\ Len(r) = n - 1 /\ DOMAIN r = 1 .. n - 1
      /\ \A k \in 1 .. n - 1 : r[k] = IF k <= at - 1 THEN left[k] ELSE right[k - (at - 1)]
  <2>1. /\ left \o right \in Seq(S)
        /\ Len(left \o right) = Len(left) + Len(right)
        /\ \A i \in 1 .. Len(left) + Len(right) :
              (left \o right)[i] = IF i <= Len(left) THEN left[i] ELSE right[i - Len(left)]
      BY <1>4, <1>5, ConcatProperties
  <2>2. Len(left) + Len(right) = n - 1
      BY <1>1, <1>4, <1>5
  <2> HIDE DEF n
  <2>4. r \in Seq(S) /\ Len(r) = n - 1
      BY <2>1, <2>2, <1>3
  <2>5. DOMAIN r = 1 .. n - 1
      BY <2>4
  <2>6. \A k \in 1 .. n - 1 : r[k] = IF k <= Len(left) THEN left[k] ELSE right[k - Len(left)]
      BY <2>1, <2>2, <1>3
  <2> QED BY <1>4, <2>4, <2>5, <2>6
<1>7. ASSUME NEW k \in 1 .. n - 1 PROVE r[k] = s[IF k < at THEN k ELSE k + 1]
  <2>1. CASE k < at
    <3>1. k \in 1 .. at - 1 /\ k <= at - 1
        BY <1>1, <2>1
    <3> QED BY <1>4, <1>6, <2>1, <3>1
  <2>2. CASE ~(k < at)
    <3>1. k - (at - 1) \in 1 .. n - at /\ ~(k <= at - 1)
        BY <1>1, <2>2
    <3>2. r[k] = right[k - (at - 1)]
        BY <1>6, <3>1
    <3>3. at + (k - (at - 1)) = k + 1
        BY <1>1
    <3> QED BY <1>5, <2>2, <3>1, <3>2, <3>3
  <2> QED BY <2>1, <2>2
<1>8. ASSUME NEW k \in 1 .. n - 1, NEW m \in 1 .. n - 1, r[k] = r[m] PROVE k = m
  <2> DEFINE K == IF k < at THEN k ELSE k + 1
             M == IF m < at THEN m ELSE m + 1
  <2>1. K \in 1 .. n /\ M \in 1 .. n
      BY <1>1
  <2>2. s[K] = s[M]
      BY <1>7, <1>8
  <2>3. K = M
    <3> HIDE DEF K, M
    <3> QED BY <2>1, <2>2 DEF Distinct
  <2> QED BY <1>1, <2>3
<1>9. ToSet(r) = ToSet(s) \ {s[at]}
  <2>1. ASSUME NEW k \in 1 .. n - 1 PROVE r[k] \in ToSet(s) \ {s[at]}
    <3> DEFINE K == IF k < at THEN k ELSE k + 1
    <3>1. K \in 1 .. n /\ K # at /\ r[k] = s[K]
        BY <1>1, <1>7
    <3> HIDE DEF K
    <3>2. s[K] # s[at]
        BY <3>1, <1>1 DEF Distinct
    <3> QED BY <1>1, <3>1, <3>2 DEF ToSet
  <2>2. ASSUME NEW K \in 1 .. n, s[K] # s[at] PROVE s[K] \in ToSet(r)
    <3> DEFINE k == IF K < at THEN K ELSE K - 1
    <3>1. k \in 1 .. n - 1 /\ (IF k < at THEN k ELSE k + 1) = K
        BY <1>1, <2>2
    <3> HIDE DEF k
    <3>2. r[k] = s[K]
        BY <1>7, <3>1
    <3> QED BY <1>6, <3>1, <3>2 DEF ToSet
  <2> QED BY <1>1, <1>6, <2>1, <2>2 DEF ToSet
<1> QED
    BY <1>6, <1>8, <1>9 DEF r, Distinct

\* The same for its tail.
LEMMA TailIs ==
    ASSUME NEW S, NEW s \in Seq(S), s # <<>>, Distinct(s)
    PROVE  /\ Tail(s) \in Seq(S) /\ ToSet(Tail(s)) = ToSet(s) \ {Head(s)} /\ Distinct(Tail(s))
           /\ Len(Tail(s)) = Len(s) - 1 /\ \A k \in 1 .. Len(s) - 1 : Tail(s)[k] = s[k + 1]
<1>1. /\ Tail(s) \in Seq(S) /\ Len(Tail(s)) = Len(s) - 1 /\ Head(s) = s[1] /\ Len(s) \in Nat \ {0}
      /\ \A k \in 1 .. Len(s) - 1 : Tail(s)[k] = s[k + 1]
    BY HeadTailProperties
<1>2. DOMAIN s = 1 .. Len(s) /\ DOMAIN Tail(s) = 1 .. Len(s) - 1
    BY <1>1
<1>3. Distinct(Tail(s))
  <2> SUFFICES ASSUME NEW k \in 1 .. Len(s) - 1, NEW m \in 1 .. Len(s) - 1, Tail(s)[k] = Tail(s)[m]
               PROVE  k = m
      BY <1>1 DEF Distinct
  <2>1. s[k + 1] = s[m + 1] /\ k + 1 \in 1 .. Len(s) /\ m + 1 \in 1 .. Len(s)
      BY <1>1
  <2>2. k + 1 = m + 1
      BY <2>1 DEF Distinct
  <2> QED BY <2>2, <1>1
<1>4. ASSUME NEW k \in 1 .. Len(s) - 1 PROVE Tail(s)[k] \in ToSet(s) \ {Head(s)}
  <2>1. k + 1 \in 1 .. Len(s) /\ 1 \in 1 .. Len(s) /\ k + 1 # 1
      BY <1>1
  <2>2. s[k + 1] # s[1]
      BY <2>1 DEF Distinct
  <2> QED BY <1>1, <1>2, <2>1, <2>2 DEF ToSet
<1>5. ASSUME NEW k \in 1 .. Len(s), s[k] # Head(s) PROVE s[k] \in ToSet(Tail(s))
  <2>1. k - 1 \in 1 .. Len(s) - 1 /\ (k - 1) + 1 = k
      BY <1>1, <1>5
  <2>2. Tail(s)[k - 1] = s[k]
      BY <1>1, <2>1
  <2> QED BY <1>2, <2>1, <2>2 DEF ToSet
<1> QED
    BY <1>1, <1>2, <1>3, <1>4, <1>5 DEF ToSet

\* The same for one more element behind it.
LEMMA AppendIs ==
    ASSUME NEW S, NEW s \in Seq(S), NEW x \in S
    PROVE  /\ Append(s, x) \in Seq(S) /\ Len(Append(s, x)) = Len(s) + 1
           /\ Append(s, x)[Len(s) + 1] = x
           /\ \A k \in 1 .. Len(s) : Append(s, x)[k] = s[k]
           /\ ToSet(Append(s, x)) = ToSet(s) \cup {x}
           /\ Distinct(s) /\ x \notin ToSet(s) => Distinct(Append(s, x))
<1> DEFINE t == Append(s, x)
<1>1. /\ t \in Seq(S) /\ Len(t) = Len(s) + 1 /\ t[Len(s) + 1] = x /\ Len(s) \in Nat
      /\ \A k \in 1 .. Len(s) : t[k] = s[k]
    OBVIOUS
<1>2. DOMAIN s = 1 .. Len(s) /\ DOMAIN t = 1 .. Len(s) + 1
    BY <1>1
<1> HIDE DEF t
<1>3. ToSet(t) = ToSet(s) \cup {x}
  <2>1. ASSUME NEW k \in 1 .. Len(s) + 1 PROVE t[k] \in ToSet(s) \cup {x}
    <3>1. k \in 1 .. Len(s) \/ k = Len(s) + 1
        BY <1>1
    <3> QED BY <1>1, <1>2, <3>1 DEF ToSet
  <2>2. ASSUME NEW k \in 1 .. Len(s) PROVE s[k] \in ToSet(t)
    <3>1. k \in 1 .. Len(s) + 1 /\ t[k] = s[k]
        BY <1>1
    <3> QED BY <1>2, <3>1 DEF ToSet
  <2>3. x \in ToSet(t)
    <3>1. Len(s) + 1 \in 1 .. Len(s) + 1
        BY <1>1
    <3> QED BY <1>1, <1>2, <3>1 DEF ToSet
  <2> QED BY <1>2, <2>1, <2>2, <2>3 DEF ToSet
<1>4. ASSUME Distinct(s), x \notin ToSet(s), NEW k \in 1 .. Len(s) + 1, NEW m \in 1 .. Len(s) + 1, t[k] = t[m]
      PROVE  k = m
  <2>1. \A i \in 1 .. Len(s) : t[i] = s[i] /\ s[i] # x
      BY <1>1, <1>2, <1>4 DEF ToSet
  <2>2. CASE k \in 1 .. Len(s) /\ m \in 1 .. Len(s)
      BY <2>1, <2>2, <1>4 DEF Distinct
  <2>3. CASE k = Len(s) + 1
      BY <2>1, <2>3, <1>1, <1>4
  <2>4. CASE m = Len(s) + 1
      BY <2>1, <2>4, <1>1, <1>4
  <2> QED BY <2>2, <2>3, <2>4, <1>1
<1> QED
    BY <1>1, <1>3, <1>4 DEF t, Distinct

\* Fibers and elements whose types, keys and other fields are any values.
FiberRecords(V) ==
    [id : Nat, type : V, key : V, index : Nat, timedOut : V, kids : V, text : V,
     placed : BOOLEAN, update : V, reset : V, dels : V, shared : V]

Elements(V) == [type : V, key : V, children : V, suspends : V, fallback : V]

\* The values V have those that a clone of a fiber is given.
Values(V) == BOOLEAN \subseteq V /\ <<>> \in V

\* What a render leaves as the children of a fiber.
AreChildren(fibers, V) ==
    /\ fibers \in Seq(FiberRecords(V))
    /\ \A i \in 1 .. Len(fibers) : ~IsNew(fibers[i])
    /\ \A i, j \in 1 .. Len(fibers) : i < j => fibers[i].index < fibers[j].index
    /\ \A i, j \in 1 .. Len(fibers) : i # j =>
           /\ fibers[i].id # fibers[j].id
           /\ fibers[i].key = NoKey \/ fibers[i].key # fibers[j].key

\* An array of children as a component returns it.
AreElements(els, V) ==
    /\ els \in Seq(Elements(V))
    /\ \A i, j \in 1 .. Len(els) : i # j => els[i].key = NoKey \/ els[i].key # els[j].key

\* No two elements of an array are looked up alike in the map.
LEMMA KeysDiffer ==
    ASSUME NEW V, NEW els, AreElements(els, V), NEW m \in 1 .. Len(els), NEW n \in 1 .. Len(els), m # n
    PROVE  ElementKey(els[m], m - 1) # ElementKey(els[n], n - 1)
<1>1. els[m].key = NoKey \/ els[m].key # els[n].key
    BY DEF AreElements
<1>2. m - 1 # n - 1 /\ "index" # "key"
    OBVIOUS
<1> QED
    BY <1>1, <1>2 DEF ElementKey

\* The id, the index and the key in the map each tell the old children apart.
LEMMA MapKeysDiffer ==
    ASSUME NEW V, NEW old, AreChildren(old, V), NEW f \in ToSet(old), NEW g \in ToSet(old)
    PROVE  /\ f \in FiberRecords(V) /\ f.id \in Nat \ {0} /\ f.index \in Nat
           /\ f.id = g.id \/ f.index = g.index \/ MapKey(f) = MapKey(g) => f = g
<1>1. PICK i \in 1 .. Len(old) : f = old[i]
    BY DEF ToSet, AreChildren
<1>2. PICK j \in 1 .. Len(old) : g = old[j]
    BY DEF ToSet, AreChildren
<1>3. f \in FiberRecords(V) /\ g \in FiberRecords(V) /\ ~IsNew(f)
    BY <1>1, <1>2 DEF AreChildren
<1>4. f.id \in Nat \ {0} /\ f.index \in Nat /\ g.index \in Nat
    BY <1>3 DEF FiberRecords, IsNew
<1>5. i # j => f.index # g.index
  <2>1. i < j \/ j < i \/ i = j
      BY <1>1, <1>2 DEF AreChildren
  <2> QED BY <2>1, <1>1, <1>2, <1>4 DEF AreChildren
<1>6. i # j => f.id # g.id /\ (f.key = NoKey \/ f.key # g.key)
    BY <1>1, <1>2 DEF AreChildren
<1>7. i # j => MapKey(f) # MapKey(g)
    BY <1>5, <1>6 DEF MapKey
<1> QED
    BY <1>1, <1>2, <1>3, <1>4, <1>5, <1>6, <1>7

\* One child: what Added makes of an element and the fiber in its slot.
Reuses(slot, el) == slot # <<>> /\ slot[1].type = el.type

\* Element newIdx has the child w, made from the fiber in the slot or new.
IsAdded(added, w, acc, slot, el, newIdx, track) ==
    /\ added = [acc EXCEPT !.work = Append(@, [fiber |-> w, el |-> el]),
                          !.last = IF track /\ Reuses(slot, el) /\ slot[1].index >= @
                                   THEN slot[1].index ELSE @]
    /\ w.type = el.type /\ w.key = el.key /\ w.index = newIdx
    /\ w.id = (IF Reuses(slot, el) THEN slot[1].id ELSE 0)
    /\ w.placed = (track /\ ~(Reuses(slot, el) /\ slot[1].index >= acc.last))

\* A slot with a fiber that has the element's key.
IsSlot(slot, el, V) == slot = <<>> \/ \E f \in FiberRecords(V) : slot = <<f>> /\ ~IsNew(f) /\ f.key = el.key

\* Added does that: a clone or a new fiber, placed as placeChild decides.
LEMMA AddedIs ==
    ASSUME NEW V, Values(V), NEW acc, NEW el \in Elements(V), NEW newIdx \in Nat, NEW track \in BOOLEAN,
           acc.last \in Nat, NEW slot, IsSlot(slot, el, V)
    PROVE  \E w \in FiberRecords(V) :
              IsAdded(Added(acc, slot, el, newIdx, track), w, acc, slot, el, newIdx, track)
<1> DEFINE fiber == updateElement(slot, el)
           alternate == IF IsNew(fiber) THEN fiber ELSE [fiber EXCEPT !.index = slot[1].index]
           p == placeChild(alternate, acc.last, newIdx, track)
           w == p.fiber
<1>1. CASE Reuses(slot, el)
  <2>1. PICK f \in FiberRecords(V) : slot = <<f>> /\ ~IsNew(f) /\ f.key = el.key
      BY <1>1 DEF Reuses, IsSlot
  <2>2. slot[1] = f /\ f.type = el.type
      BY <2>1, <1>1 DEF Reuses
  <2>3. fiber = useFiber(f)
      BY <1>1, <2>2 DEF updateElement, Reuses
  <2>4. /\ fiber \in FiberRecords(V) /\ fiber.id = f.id /\ fiber.type = f.type /\ fiber.key = f.key
    <3>1. FALSE \in V /\ <<>> \in V /\ FALSE \in BOOLEAN /\ 0 \in Nat
        BY DEF Values
    <3>2. fiber = [id |-> f.id, type |-> f.type, key |-> f.key, index |-> 0, timedOut |-> f.timedOut,
                   kids |-> f.kids, text |-> f.text, placed |-> FALSE, update |-> FALSE,
                   reset |-> FALSE, dels |-> <<>>, shared |-> FALSE]
        BY <2>1, <2>3 DEF useFiber, FiberRecords
    <3> HIDE DEF fiber
    <3> QED BY <2>1, <3>1, <3>2 DEF FiberRecords
  <2>5. ~IsNew(fiber) /\ f.index \in Nat
      BY <2>1, <2>4 DEF IsNew, FiberRecords
  <2> HIDE DEF fiber
  <2>6. alternate = [fiber EXCEPT !.index = f.index]
      BY <2>2, <2>5
  <2>7. /\ alternate \in FiberRecords(V) /\ alternate.id = f.id /\ alternate.type = el.type
        /\ alternate.key = el.key /\ alternate.index = f.index /\ ~IsNew(alternate)
      BY <2>1, <2>2, <2>4, <2>5, <2>6 DEF FiberRecords, IsNew
  <2> HIDE DEF alternate
  <2> DEFINE stays == ~IsNew(alternate) /\ alternate.index >= acc.last
             here == [alternate EXCEPT !.index = newIdx]
  <2>8. p = [fiber |-> [here EXCEPT !.placed = track /\ ~stays],
             last |-> IF track /\ stays THEN alternate.index ELSE acc.last]
      BY DEF placeChild
  <2>9. stays <=> f.index >= acc.last
      BY <2>7
  <2>10. /\ here \in FiberRecords(V) /\ here.id = f.id /\ here.type = el.type
         /\ here.key = el.key /\ here.index = newIdx
      BY <2>7 DEF FiberRecords
  <2> HIDE DEF p, here, stays
  <2>11. w = [here EXCEPT !.placed = track /\ ~stays]
      BY <2>8
  <2>12. /\ w \in FiberRecords(V) /\ w.id = f.id /\ w.type = el.type
         /\ w.key = el.key /\ w.index = newIdx /\ w.placed = (track /\ ~stays)
    <3>1. (track /\ ~stays) \in BOOLEAN
        OBVIOUS
    <3> QED BY <2>10, <2>11, <3>1 DEF FiberRecords
  <2>13. p.last = IF track /\ Reuses(slot, el) /\ slot[1].index >= acc.last
                  THEN slot[1].index ELSE acc.last
      BY <1>1, <2>2, <2>7, <2>8, <2>9
  <2>14. Added(acc, slot, el, newIdx, track) =
            [acc EXCEPT !.work = Append(@, [fiber |-> w, el |-> el]), !.last = p.last]
      BY DEF Added, p, alternate, fiber
  <2>15. w.placed = (track /\ ~(Reuses(slot, el) /\ slot[1].index >= acc.last))
      BY <1>1, <2>2, <2>9, <2>12
  <2> HIDE DEF w
  <2> QED BY <1>1, <2>2, <2>12, <2>13, <2>14, <2>15 DEF IsAdded
<1>2. CASE ~Reuses(slot, el)
  <2>3. fiber = createFiber(el)
      BY <1>2 DEF updateElement, Reuses
  <2>4. /\ fiber \in FiberRecords(V) /\ fiber.id = 0 /\ fiber.type = el.type /\ fiber.key = el.key
    <3>1. FALSE \in V /\ <<>> \in V /\ FALSE \in BOOLEAN /\ 0 \in Nat
        BY DEF Values
    <3>2. el.type \in V /\ el.key \in V
        BY DEF Elements
    <3>3. fiber = [id |-> 0, type |-> el.type, key |-> el.key, index |-> 0, timedOut |-> FALSE, kids |-> <<>>,
                   text |-> FALSE, placed |-> FALSE, update |-> FALSE, reset |-> FALSE, dels |-> <<>>,
                   shared |-> FALSE]
        BY <2>3 DEF createFiber
    <3> HIDE DEF fiber
    <3>4. fiber.id = 0 /\ fiber.type = el.type /\ fiber.key = el.key
        BY <3>3
    <3>5. fiber \in FiberRecords(V)
        BY <3>1, <3>2, <3>3 DEF FiberRecords
    <3> QED BY <3>4, <3>5
  <2>5. IsNew(fiber)
      BY <2>4 DEF IsNew
  <2> HIDE DEF fiber
  <2>6. alternate = fiber
      BY <2>5
  <2> HIDE DEF alternate
  <2> DEFINE stays == ~IsNew(alternate) /\ alternate.index >= acc.last
             here == [alternate EXCEPT !.index = newIdx]
  <2>8. p = [fiber |-> [here EXCEPT !.placed = track /\ ~stays],
             last |-> IF track /\ stays THEN alternate.index ELSE acc.last]
      BY DEF placeChild
  <2>9. ~stays
      BY <2>5, <2>6
  <2>10. /\ here \in FiberRecords(V) /\ here.id = 0 /\ here.type = el.type
         /\ here.key = el.key /\ here.index = newIdx
      BY <2>4, <2>6 DEF FiberRecords
  <2> HIDE DEF p, here, stays
  <2>11. w = [here EXCEPT !.placed = track /\ ~stays]
      BY <2>8
  <2>12. /\ w \in FiberRecords(V) /\ w.id = 0 /\ w.type = el.type
         /\ w.key = el.key /\ w.index = newIdx /\ w.placed = (track /\ ~stays)
    <3>1. (track /\ ~stays) \in BOOLEAN
        OBVIOUS
    <3> QED BY <2>10, <2>11, <3>1 DEF FiberRecords
  <2>13. p.last = IF track /\ Reuses(slot, el) /\ slot[1].index >= acc.last
                  THEN slot[1].index ELSE acc.last
      BY <1>2, <2>8, <2>9
  <2>14. Added(acc, slot, el, newIdx, track) =
            [acc EXCEPT !.work = Append(@, [fiber |-> w, el |-> el]), !.last = p.last]
      BY DEF Added, p, alternate, fiber
  <2>15. w.placed = (track /\ ~(Reuses(slot, el) /\ slot[1].index >= acc.last))
      BY <1>2, <2>9, <2>12
  <2> HIDE DEF w
  <2> QED BY <1>2, <2>12, <2>13, <2>14, <2>15 DEF IsAdded
<1> QED
    BY <1>1, <1>2

-----------------------------------------------------------------------------
(* What has been made of the old children and of the first n elements.     *)

\* The state of the two loops, of any length.
Accs(V) ==
    [n : Nat, existing : Seq(FiberRecords(V)), dels : Seq(FiberRecords(V)), last : Nat,
     work : Seq([fiber : FiberRecords(V), el : Elements(V)])]

\* The new child k is the old child f.
IsKept(acc, k, f) == acc.work[k].fiber.id = f.id
\* The new child k is an old one that is not moved.
Stays(acc, k) == ~IsNew(acc.work[k].fiber) /\ ~acc.work[k].fiber.placed

\* Every old child is in one place.
Accounted(acc, old) ==
    /\ Distinct(acc.existing) /\ ToSet(acc.existing) \subseteq ToSet(old)
    /\ Distinct(acc.dels) /\ ToSet(acc.dels) \subseteq ToSet(old)
    /\ \A k \in 1 .. Len(acc.work) :
           IsNew(acc.work[k].fiber) \/ \E f \in ToSet(old) : IsKept(acc, k, f)
    /\ \A j, k \in 1 .. Len(acc.work) :
           j # k /\ ~IsNew(acc.work[j].fiber) => acc.work[j].fiber.id # acc.work[k].fiber.id
    /\ \A f \in ToSet(old) :
           /\ f \in ToSet(acc.existing) => f \notin ToSet(acc.dels)
           /\ \A k \in 1 .. Len(acc.work) :
                  IsKept(acc, k, f) => f \notin ToSet(acc.existing) /\ f \notin ToSet(acc.dels)
           /\ \/ f \in ToSet(acc.existing) \/ f \in ToSet(acc.dels)
              \/ \E k \in 1 .. Len(acc.work) : IsKept(acc, k, f)

\* Every element but the holes has a child, in their order.
Covered(acc, n, els) ==
    /\ \A k \in 1 .. Len(acc.work) :
           LET w == acc.work[k]
           IN  /\ w.fiber.index \in 0 .. n - 1 /\ w.el = els[w.fiber.index + 1] /\ w.el # Hole
               /\ w.fiber.type = w.el.type /\ w.fiber.key = w.el.key
    /\ \A j, k \in 1 .. Len(acc.work) : j < k => acc.work[j].fiber.index < acc.work[k].fiber.index
    /\ \A m \in 1 .. n : els[m] # Hole => \E k \in 1 .. Len(acc.work) : acc.work[k].fiber.index = m - 1

\* A child is the old one with its element's key, if that has its type.
Matched(acc, n, old, els) ==
    /\ \A k \in 1 .. Len(acc.work) : \A f \in ToSet(old) :
           IsKept(acc, k, f) <=>
               /\ MapKey(f) = ElementKey(acc.work[k].el, acc.work[k].fiber.index)
               /\ f.type = acc.work[k].el.type
    /\ \A f \in ToSet(old) :
           \/ f \in ToSet(acc.existing)
           \/ \E m \in 1 .. n : els[m] # Hole /\ MapKey(f) = ElementKey(els[m], m - 1)

\* The children that stay are in their old order, and one that is moved was
\* before one that stays and is now behind it.
Moved(acc, old) ==
    /\ \A k \in 1 .. Len(acc.work) : IsNew(acc.work[k].fiber) => acc.work[k].fiber.placed
    /\ \A k \in 1 .. Len(acc.work) : \A f \in ToSet(old) :
           IsKept(acc, k, f) /\ Stays(acc, k) => f.index <= acc.last
    /\ \A j, k \in 1 .. Len(acc.work) : \A f, g \in ToSet(old) :
           j < k /\ Stays(acc, j) /\ Stays(acc, k) /\ IsKept(acc, j, f) /\ IsKept(acc, k, g)
               => f.index < g.index
    /\ \A k \in 1 .. Len(acc.work) : \A g \in ToSet(old) :
           IsKept(acc, k, g) /\ acc.work[k].fiber.placed =>
               \E j \in 1 .. k - 1 : \E f \in ToSet(old) :
                   Stays(acc, j) /\ IsKept(acc, j, f) /\ g.index < f.index
    /\ acc.last > 0 =>
           \E j \in 1 .. Len(acc.work) : \E f \in ToSet(old) :
               Stays(acc, j) /\ IsKept(acc, j, f) /\ f.index = acc.last

\* Element n gets the child w.  The existing children in gone are used up, those
\* in dead are deleted.
Takes(acc, next, n, w, gone, dead, els, track, V) ==
    LET matches(f) == MapKey(f) = ElementKey(els[n], n - 1)
        existing == ToSet(acc.existing)
    IN  /\ acc \in Accs(V) /\ next \in Accs(V) /\ w \in FiberRecords(V)
        /\ next.work = Append(acc.work, [fiber |-> w, el |-> els[n]])
        /\ els[n] # Hole /\ w.index = n - 1 /\ w.type = els[n].type /\ w.key = els[n].key
        /\ gone \subseteq existing /\ dead \subseteq gone /\ \A f \in gone : matches(f)
        /\ ToSet(next.existing) = existing \ gone /\ Distinct(next.existing)
        /\ ToSet(next.dels) = ToSet(acc.dels) \cup dead /\ Distinct(next.dels)
        /\ IF IsNew(w)
           THEN /\ dead = gone /\ \A f \in existing : ~(matches(f) /\ f.type = els[n].type)
                /\ w.placed = track /\ next.last = acc.last
           ELSE \E f \in existing :
                   /\ gone = {f} /\ dead = {} /\ w.id = f.id /\ f.type = els[n].type
                   /\ w.placed = (track /\ f.index < acc.last)
                   /\ next.last = IF track /\ f.index >= acc.last THEN f.index ELSE acc.last

\* One step of a loop adds one child at the end.
LEMMA TakenWork ==
    ASSUME NEW V, NEW els, NEW n \in 1 .. Len(els), NEW acc, NEW next, NEW w, NEW gone, NEW dead, NEW track,
           AreElements(els, V), Takes(acc, next, n, w, gone, dead, els, track, V)
    PROVE  /\ Len(acc.work) \in Nat /\ Len(next.work) = Len(acc.work) + 1
           /\ next.work[Len(acc.work) + 1] = [fiber |-> w, el |-> els[n]]
           /\ \A k \in 1 .. Len(acc.work) : next.work[k] = acc.work[k] /\ acc.work[k].fiber.id \in Nat
<1>1. acc.work \in Seq([fiber : FiberRecords(V), el : Elements(V)]) /\ w \in FiberRecords(V)
    BY DEF Takes, Accs
<1>2. els[n] \in Elements(V)
    BY DEF AreElements
<1>3. [fiber |-> w, el |-> els[n]] \in [fiber : FiberRecords(V), el : Elements(V)]
    BY <1>1, <1>2
<1>4. \A k \in 1 .. Len(acc.work) : acc.work[k].fiber \in FiberRecords(V)
  <2> DEFINE Item == [fiber : FiberRecords(V), el : Elements(V)]
  <2>1. \A x \in Item : x.fiber \in FiberRecords(V)
      OBVIOUS
  <2>2. acc.work \in Seq(Item)
      BY <1>1
  <2> HIDE DEF Item
  <2>3. \A k \in 1 .. Len(acc.work) : acc.work[k] \in Item
      BY <2>2
  <2> QED BY <2>1, <2>3
<1>5. \A k \in 1 .. Len(acc.work) : acc.work[k].fiber.id \in Nat
    BY <1>4 DEF FiberRecords
<1>6. next.work = Append(acc.work, [fiber |-> w, el |-> els[n]])
    BY DEF Takes
<1> QED
    BY <1>1, <1>3, <1>5, <1>6, AppendIs

\* The old children stay accounted for.
LEMMA TakenAccount ==
    ASSUME NEW V, NEW old, AreChildren(old, V), NEW els, AreElements(els, V), NEW n \in 1 .. Len(els),
           NEW acc, NEW next, NEW w, NEW gone, NEW dead, NEW track,
           Takes(acc, next, n, w, gone, dead, els, track, V), Accounted(acc, old)
    PROVE  Accounted(next, old)
<1> DEFINE size == Len(acc.work)
<1>1. /\ size \in Nat /\ Len(next.work) = size + 1
      /\ next.work[size + 1] = [fiber |-> w, el |-> els[n]]
      /\ \A k \in 1 .. size : next.work[k] = acc.work[k] /\ acc.work[k].fiber.id \in Nat
    BY TakenWork
<1>2. next.work[size + 1].fiber = w
    BY <1>1
<1>3. \A f \in ToSet(old) : f.id \in Nat \ {0} /\ \A g \in ToSet(old) : f.id = g.id => f = g
    BY MapKeysDiffer
<1>4. /\ ToSet(next.existing) = ToSet(acc.existing) \ gone /\ Distinct(next.existing)
      /\ ToSet(next.dels) = ToSet(acc.dels) \cup dead /\ Distinct(next.dels)
      /\ gone \subseteq ToSet(acc.existing) /\ dead \subseteq gone
    BY DEF Takes
<1>5. IF IsNew(w) THEN dead = gone
      ELSE \E f \in ToSet(acc.existing) : gone = {f} /\ dead = {} /\ w.id = f.id
    BY DEF Takes
<1>6. ToSet(acc.existing) \subseteq ToSet(old) /\ ToSet(acc.dels) \subseteq ToSet(old)
    BY DEF Accounted
<1>7. \A k \in 1 .. size + 1 : k \in 1 .. size \/ k = size + 1
    BY <1>1
<1>8. \A f \in ToSet(old) : \A k \in 1 .. size : IsKept(next, k, f) <=> IsKept(acc, k, f)
    BY <1>1 DEF IsKept
<1>9. \A f \in ToSet(old) : IsKept(next, size + 1, f) <=> ~IsNew(w) /\ f \in gone
  <2> SUFFICES ASSUME NEW f \in ToSet(old) PROVE w.id = f.id <=> ~IsNew(w) /\ f \in gone
      BY <1>2 DEF IsKept
  <2>1. CASE IsNew(w)
      BY <1>3, <2>1 DEF IsNew
  <2>2. CASE ~IsNew(w)
      BY <1>3, <1>5, <1>6, <2>2
  <2> QED BY <2>1, <2>2
<1> HIDE DEF size
<1>10. \A k \in 1 .. size + 1 : IsNew(next.work[k].fiber) \/ \E f \in ToSet(old) : IsKept(next, k, f)
  <2> SUFFICES ASSUME NEW k \in 1 .. size + 1 PROVE IsNew(next.work[k].fiber) \/ \E f \in ToSet(old) : IsKept(next, k, f)
      OBVIOUS
  <2>1. CASE k \in 1 .. size
      BY <2>1, <1>1, <1>8 DEF Accounted, size
  <2>2. CASE k = size + 1
      BY <2>2, <1>2, <1>4, <1>5, <1>6, <1>9
  <2> QED BY <2>1, <2>2, <1>7
<1>11. ASSUME NEW j \in 1 .. size + 1, NEW k \in 1 .. size + 1, j # k, ~IsNew(next.work[j].fiber)
       PROVE  next.work[j].fiber.id # next.work[k].fiber.id
  <2>1. CASE j \in 1 .. size /\ k \in 1 .. size
      BY <2>1, <1>1, <1>11 DEF Accounted, size
  <2>2. ASSUME NEW i \in 1 .. size, ~IsNew(w), acc.work[i].fiber.id = w.id PROVE FALSE
    <3>1. PICK f \in ToSet(acc.existing) : gone = {f} /\ w.id = f.id
        BY <2>2, <1>5
    <3>2. f \in ToSet(old) /\ IsKept(acc, i, f)
        BY <3>1, <2>2, <1>6 DEF IsKept
    <3> QED BY <3>1, <3>2 DEF Accounted, size
  <2>3. CASE j \in 1 .. size /\ k = size + 1
    <3>1. next.work[j].fiber = acc.work[j].fiber
        BY <2>3, <1>1
    <3>2. CASE IsNew(w)
        BY <3>1, <3>2, <1>2, <1>11, <2>3 DEF IsNew
    <3>3. CASE ~IsNew(w)
        BY <3>1, <3>3, <1>2, <2>2, <2>3
    <3> QED BY <3>2, <3>3
  <2>4. CASE j = size + 1 /\ k \in 1 .. size
    <3>1. next.work[k].fiber = acc.work[k].fiber /\ ~IsNew(w)
        BY <2>4, <1>1, <1>2, <1>11
    <3> QED BY <3>1, <1>2, <2>2, <2>4
  <2> QED BY <2>1, <2>3, <2>4, <1>7, <1>11
<1>12. ASSUME NEW f \in ToSet(old)
       PROVE  /\ f \in ToSet(next.existing) => f \notin ToSet(next.dels)
              /\ \A k \in 1 .. size + 1 :
                    IsKept(next, k, f) => f \notin ToSet(next.existing) /\ f \notin ToSet(next.dels)
              /\ \/ f \in ToSet(next.existing) \/ f \in ToSet(next.dels)
                 \/ \E k \in 1 .. size + 1 : IsKept(next, k, f)
  <2>1. /\ f \in ToSet(acc.existing) => f \notin ToSet(acc.dels)
        /\ \A k \in 1 .. size :
              IsKept(acc, k, f) => f \notin ToSet(acc.existing) /\ f \notin ToSet(acc.dels)
        /\ \/ f \in ToSet(acc.existing) \/ f \in ToSet(acc.dels)
           \/ \E k \in 1 .. size : IsKept(acc, k, f)
      BY DEF Accounted, size
  <2>2. f \in ToSet(next.existing) => f \notin ToSet(next.dels)
      BY <2>1, <1>4
  <2>3. ASSUME NEW k \in 1 .. size + 1, IsKept(next, k, f)
        PROVE  f \notin ToSet(next.existing) /\ f \notin ToSet(next.dels)
    <3>1. CASE k \in 1 .. size
        BY <3>1, <2>1, <2>3, <1>4, <1>8
    <3>2. CASE k = size + 1
      <4>1. ~IsNew(w) /\ f \in gone
          BY <3>2, <2>3, <1>9
      <4>2. dead = {}
          BY <4>1, <1>5
      <4> QED BY <4>1, <4>2, <2>1, <1>4
    <3> QED BY <3>1, <3>2, <1>7
  <2>4. f \in gone => f \in dead \/ IsKept(next, size + 1, f)
      BY <1>5, <1>9
  <2>5. size + 1 \in 1 .. size + 1 /\ 1 .. size \subseteq 1 .. size + 1
      BY <1>1 DEF size
  <2>6. \/ f \in ToSet(next.existing) \/ f \in ToSet(next.dels)
        \/ \E k \in 1 .. size + 1 : IsKept(next, k, f)
      BY <2>1, <2>4, <2>5, <1>4, <1>8
  <2> QED BY <2>2, <2>3, <2>6
<1>13. Len(next.work) = size + 1
    BY <1>1 DEF size
<1>14. /\ Distinct(next.existing) /\ ToSet(next.existing) \subseteq ToSet(old)
       /\ Distinct(next.dels) /\ ToSet(next.dels) \subseteq ToSet(old)
    BY <1>4, <1>6
<1> QED
    BY <1>10, <1>11, <1>12, <1>13, <1>14 DEF Accounted

\* The elements stay covered, in their order.
LEMMA TakenCover ==
    ASSUME NEW V, NEW els, AreElements(els, V), NEW n \in 1 .. Len(els),
           NEW acc, NEW next, NEW w, NEW gone, NEW dead, NEW track,
           Takes(acc, next, n, w, gone, dead, els, track, V), Covered(acc, n - 1, els)
    PROVE  Covered(next, n, els)
<1> DEFINE size == Len(acc.work)
<1>1. /\ size \in Nat /\ Len(next.work) = size + 1
      /\ next.work[size + 1] = [fiber |-> w, el |-> els[n]]
      /\ \A k \in 1 .. size : next.work[k] = acc.work[k] /\ acc.work[k].fiber.id \in Nat
    BY TakenWork
<1>2. next.work[size + 1].fiber = w /\ next.work[size + 1].el = els[n]
    BY <1>1
<1>3. n \in Nat \ {0} /\ w.index = n - 1 /\ (n - 1) + 1 = n
    BY DEF Takes
<1>4. els[n] # Hole /\ w.type = els[n].type /\ w.key = els[n].key
    BY DEF Takes
<1>5. \A k \in 1 .. size + 1 : k \in 1 .. size \/ k = size + 1
    BY <1>1
<1>6. \A k \in 1 .. size :
        LET v == acc.work[k]
        IN  /\ v.fiber.index \in 0 .. (n - 1) - 1 /\ v.el = els[v.fiber.index + 1] /\ v.el # Hole
            /\ v.fiber.type = v.el.type /\ v.fiber.key = v.el.key
    BY DEF Covered
<1> HIDE DEF size
<1>7. ASSUME NEW k \in 1 .. size + 1
      PROVE  LET v == next.work[k]
             IN  /\ v.fiber.index \in 0 .. n - 1 /\ v.el = els[v.fiber.index + 1] /\ v.el # Hole
                 /\ v.fiber.type = v.el.type /\ v.fiber.key = v.el.key
  <2>1. CASE k \in 1 .. size
    <3>1. next.work[k] = acc.work[k]
        BY <2>1, <1>1
    <3>2. \A i \in 0 .. (n - 1) - 1 : i \in 0 .. n - 1
        BY <1>3
    <3>3. LET v == acc.work[k]
          IN  /\ v.fiber.index \in 0 .. (n - 1) - 1 /\ v.el = els[v.fiber.index + 1] /\ v.el # Hole
              /\ v.fiber.type = v.el.type /\ v.fiber.key = v.el.key
        BY <2>1, <1>6
    <3> QED BY <3>1, <3>2, <3>3
  <2>2. CASE k = size + 1
    <3>1. n - 1 \in 0 .. n - 1
        BY <1>3
    <3> QED BY <3>1, <2>2, <1>2, <1>3, <1>4
  <2> QED BY <2>1, <2>2, <1>5
<1>8. ASSUME NEW j \in 1 .. size + 1, NEW k \in 1 .. size + 1, j < k
      PROVE  next.work[j].fiber.index < next.work[k].fiber.index
  <2>1. j \in 1 .. size
      BY <1>1, <1>8
  <2>2. CASE k \in 1 .. size
      BY <2>1, <2>2, <1>1, <1>8 DEF Covered, size
  <2>3. CASE k = size + 1
    <3>1. next.work[j].fiber = acc.work[j].fiber /\ next.work[k].fiber = w
        BY <2>1, <2>3, <1>1, <1>2
    <3>2. acc.work[j].fiber.index \in 0 .. (n - 1) - 1
        BY <2>1, <1>6
    <3>3. \A i \in 0 .. (n - 1) - 1 : i < n - 1
        BY <1>3
    <3> QED BY <3>1, <3>2, <3>3, <1>3
  <2> QED BY <2>2, <2>3, <1>5
<1>9. ASSUME NEW m \in 1 .. n, els[m] # Hole
      PROVE  \E k \in 1 .. size + 1 : next.work[k].fiber.index = m - 1
  <2>1. CASE m = n
    <3>1. size + 1 \in 1 .. size + 1
        BY <1>1
    <3> QED BY <3>1, <2>1, <1>2, <1>3
  <2>2. CASE m # n
    <3>1. m \in 1 .. n - 1
        BY <2>2, <1>3
    <3>2. PICK k \in 1 .. size : acc.work[k].fiber.index = m - 1
        BY <3>1, <1>9 DEF Covered, size
    <3>3. k \in 1 .. size + 1
        BY <1>1
    <3> QED BY <3>2, <3>3, <1>1
  <2> QED BY <2>1, <2>2
<1>10. Len(next.work) = size + 1
    BY <1>1 DEF size
<1> QED
    BY <1>7, <1>8, <1>9, <1>10 DEF Covered

\* The children are still the matching ones: no other element will look up an old
\* child that this one has used or deleted.
LEMMA TakenMatch ==
    ASSUME NEW V, NEW old, AreChildren(old, V), NEW els, AreElements(els, V), NEW n \in 1 .. Len(els),
           NEW acc, NEW next, NEW w, NEW gone, NEW dead, NEW track,
           Takes(acc, next, n, w, gone, dead, els, track, V), Accounted(acc, old), Matched(acc, n - 1, old, els)
    PROVE  Matched(next, n, old, els)
<1> DEFINE size == Len(acc.work)
           Key == ElementKey(els[n], n - 1)
<1>1. /\ size \in Nat /\ Len(next.work) = size + 1
      /\ next.work[size + 1] = [fiber |-> w, el |-> els[n]]
      /\ \A k \in 1 .. size : next.work[k] = acc.work[k] /\ acc.work[k].fiber.id \in Nat
    BY TakenWork
<1>2. next.work[size + 1].fiber = w /\ next.work[size + 1].el = els[n]
    BY <1>1
<1>3. \A f \in ToSet(old) :
        f.id \in Nat \ {0} /\ \A g \in ToSet(old) : f.id = g.id \/ MapKey(f) = MapKey(g) => f = g
    BY MapKeysDiffer
<1>4. /\ gone \subseteq ToSet(acc.existing) /\ ToSet(acc.existing) \subseteq ToSet(old)
      /\ ToSet(next.existing) = ToSet(acc.existing) \ gone
      /\ els[n] # Hole /\ w.index = n - 1
    BY DEF Takes, Accounted
<1>5. IF IsNew(w) THEN \A f \in ToSet(acc.existing) : ~(MapKey(f) = Key /\ f.type = els[n].type)
      ELSE \E f \in ToSet(acc.existing) : gone = {f} /\ w.id = f.id /\ f.type = els[n].type
    BY DEF Takes
<1>6. \A f \in gone : MapKey(f) = Key
    BY DEF Takes
<1>7. \A f \in ToSet(old) : f \in ToSet(acc.existing) \/ \E m \in 1 .. n - 1 : els[m] # Hole /\ MapKey(f) = ElementKey(els[m], m - 1)
    BY DEF Matched
<1>8. \A m \in 1 .. n - 1 : m \in 1 .. n /\ ElementKey(els[m], m - 1) # Key
  <2> SUFFICES ASSUME NEW m \in 1 .. n - 1 PROVE m \in 1 .. n /\ ElementKey(els[m], m - 1) # Key
      OBVIOUS
  <2>1. m \in 1 .. Len(els) /\ m # n /\ m \in 1 .. n
    <3>1. Len(els) \in Nat
        BY DEF AreElements
    <3> QED BY <3>1
  <2> QED BY <2>1, KeysDiffer
<1>9. \A f \in ToSet(old) : MapKey(f) = Key => f \in ToSet(acc.existing)
    BY <1>7, <1>8
<1> HIDE DEF size, Key
<1>10. ASSUME NEW f \in ToSet(old) PROVE w.id = f.id <=> MapKey(f) = Key /\ f.type = els[n].type
  <2>1. CASE IsNew(w)
      BY <2>1, <1>3, <1>5, <1>9 DEF IsNew
  <2>2. CASE ~IsNew(w)
    <3>1. PICK g \in ToSet(acc.existing) : gone = {g} /\ w.id = g.id /\ g.type = els[n].type
        BY <2>2, <1>5
    <3>2. g \in ToSet(old) /\ MapKey(g) = Key
        BY <3>1, <1>4, <1>6
    <3> QED BY <3>1, <3>2, <1>3
  <2> QED BY <2>1, <2>2
<1>11. ASSUME NEW k \in 1 .. size + 1, NEW f \in ToSet(old)
       PROVE  IsKept(next, k, f) <=>
                 /\ MapKey(f) = ElementKey(next.work[k].el, next.work[k].fiber.index)
                 /\ f.type = next.work[k].el.type
  <2>1. CASE k \in 1 .. size
    <3>1. next.work[k] = acc.work[k]
        BY <2>1, <1>1
    <3>2. IsKept(acc, k, f) <=>
                 /\ MapKey(f) = ElementKey(acc.work[k].el, acc.work[k].fiber.index)
                 /\ f.type = acc.work[k].el.type
        BY <2>1 DEF Matched, size
    <3> QED BY <3>1, <3>2 DEF IsKept
  <2>2. CASE k = size + 1
      BY <2>2, <1>2, <1>4, <1>10 DEF IsKept, Key
  <2> QED BY <2>1, <2>2, <1>1
<1>12. ASSUME NEW f \in ToSet(old)
       PROVE  \/ f \in ToSet(next.existing)
              \/ \E m \in 1 .. n : els[m] # Hole /\ MapKey(f) = ElementKey(els[m], m - 1)
  <2>1. n \in 1 .. n
      OBVIOUS
  <2>2. CASE f \in gone
      BY <2>1, <2>2, <1>4, <1>6 DEF Key
  <2>3. CASE f \notin gone
      BY <2>3, <1>4, <1>7, <1>8
  <2> QED BY <2>2, <2>3
<1>13. Len(next.work) = size + 1
    BY <1>1 DEF size
<1> QED
    BY <1>11, <1>12, <1>13 DEF Matched

\* What is moved still has to be.
LEMMA TakenMoves ==
    ASSUME NEW V, NEW old, AreChildren(old, V), NEW els, AreElements(els, V), NEW n \in 1 .. Len(els),
           NEW acc, NEW next, NEW w, NEW gone, NEW dead,
           Takes(acc, next, n, w, gone, dead, els, TRUE, V), Accounted(acc, old), Moved(acc, old)
    PROVE  Moved(next, old)
<1> DEFINE size == Len(acc.work)
<1>1. /\ size \in Nat /\ Len(next.work) = size + 1
      /\ next.work[size + 1] = [fiber |-> w, el |-> els[n]]
      /\ \A k \in 1 .. size : next.work[k] = acc.work[k] /\ acc.work[k].fiber.id \in Nat
    BY TakenWork
<1>2. next.work[size + 1].fiber = w
    BY <1>1
<1>3. \A f \in ToSet(old) :
        /\ f.id \in Nat \ {0} /\ f.index \in Nat
        /\ \A g \in ToSet(old) : f.id = g.id \/ f.index = g.index => f = g
    BY MapKeysDiffer
<1>4. ToSet(acc.existing) \subseteq ToSet(old) /\ acc.last \in Nat
    BY DEF Takes, Accounted, Accs
<1>5. IF IsNew(w) THEN w.placed = TRUE /\ next.last = acc.last
      ELSE \E f \in ToSet(acc.existing) :
              /\ w.id = f.id
              /\ w.placed = (f.index < acc.last)
              /\ next.last = IF f.index >= acc.last THEN f.index ELSE acc.last
    BY DEF Takes
<1>6. \A k \in 1 .. size : /\ Stays(next, k) <=> Stays(acc, k)
                           /\ \A f \in ToSet(old) : IsKept(next, k, f) <=> IsKept(acc, k, f)
    BY <1>1 DEF Stays, IsKept
<1>7. \A f \in ToSet(acc.existing) : \A k \in 1 .. size : ~IsKept(acc, k, f)
    BY <1>4 DEF Accounted
<1>8. acc.last <= next.last /\ next.last \in Nat
    BY <1>3, <1>4, <1>5
<1>9. \A k \in 1 .. size + 1 : k \in 1 .. size \/ k = size + 1
    BY <1>1
<1>10. /\ \A k \in 1 .. size : IsNew(acc.work[k].fiber) => acc.work[k].fiber.placed
       /\ \A k \in 1 .. size : \A f \in ToSet(old) :
              IsKept(acc, k, f) /\ Stays(acc, k) => f.index <= acc.last
       /\ \A j, k \in 1 .. size : \A f, g \in ToSet(old) :
              j < k /\ Stays(acc, j) /\ Stays(acc, k) /\ IsKept(acc, j, f) /\ IsKept(acc, k, g)
                  => f.index < g.index
       /\ \A k \in 1 .. size : \A g \in ToSet(old) :
              IsKept(acc, k, g) /\ acc.work[k].fiber.placed =>
                  \E j \in 1 .. k - 1 : \E f \in ToSet(old) :
                      Stays(acc, j) /\ IsKept(acc, j, f) /\ g.index < f.index
       /\ acc.last > 0 =>
              \E j \in 1 .. size : \E f \in ToSet(old) :
                  Stays(acc, j) /\ IsKept(acc, j, f) /\ f.index = acc.last
    BY DEF Moved
<1>11. Len(next.work) = size + 1
    BY <1>1
<1> HIDE DEF size
<1>12. \A f \in ToSet(old) : IsKept(next, size + 1, f) => ~IsNew(w) /\ w.id = f.id
    BY <1>2, <1>3 DEF IsKept, IsNew
<1>13. ASSUME NEW k \in 1 .. size + 1, IsNew(next.work[k].fiber) PROVE next.work[k].fiber.placed
  <2>1. CASE k \in 1 .. size
      BY <2>1, <1>1, <1>10, <1>13
  <2>2. CASE k = size + 1
      BY <2>2, <1>2, <1>5, <1>13
  <2> QED BY <2>1, <2>2, <1>9
<1>14. ASSUME NEW f \in ToSet(old), IsKept(next, size + 1, f)
       PROVE  /\ w.placed = (f.index < acc.last)
              /\ next.last = (IF f.index >= acc.last THEN f.index ELSE acc.last)
              /\ \A k \in 1 .. size : ~IsKept(acc, k, f)
  <2>1. PICK g \in ToSet(acc.existing) :
              /\ w.id = g.id
              /\ w.placed = (g.index < acc.last)
              /\ next.last = IF g.index >= acc.last THEN g.index ELSE acc.last
      BY <1>5, <1>12, <1>14
  <2>2. f = g
      BY <2>1, <1>3, <1>4, <1>12, <1>14
  <2> QED BY <2>1, <2>2, <1>7
<1>15. Stays(next, size + 1) <=> ~IsNew(w) /\ ~w.placed
    BY <1>2 DEF Stays
<1>16. ASSUME NEW k \in 1 .. size + 1, NEW f \in ToSet(old), IsKept(next, k, f), Stays(next, k)
       PROVE  f.index <= next.last
  <2>1. CASE k \in 1 .. size
    <3>1. f.index <= acc.last
        BY <2>1, <1>6, <1>10, <1>16
    <3> QED BY <3>1, <1>3, <1>4, <1>8
  <2>2. CASE k = size + 1
      BY <2>2, <1>3, <1>4, <1>14, <1>16
  <2> QED BY <2>1, <2>2, <1>9
<1>17. ASSUME NEW j \in 1 .. size + 1, NEW k \in 1 .. size + 1, NEW f \in ToSet(old), NEW g \in ToSet(old),
              j < k, Stays(next, j), Stays(next, k), IsKept(next, j, f), IsKept(next, k, g)
       PROVE  f.index < g.index
  <2>1. j \in 1 .. size
      BY <1>1, <1>17 DEF size
  <2>2. IsKept(acc, j, f) /\ Stays(acc, j)
      BY <2>1, <1>6, <1>17
  <2>3. CASE k \in 1 .. size
      BY <2>1, <2>2, <2>3, <1>6, <1>10, <1>17
  <2>4. CASE k = size + 1
    <3>1. f.index <= acc.last
        BY <2>1, <2>2, <1>10
    <3>2. ~(g.index < acc.last) /\ ~IsKept(acc, j, g)
        BY <2>1, <2>4, <1>14, <1>15, <1>17
    <3>3. f # g
        BY <2>2, <3>2
    <3> QED BY <3>1, <3>2, <3>3, <1>3, <1>4
  <2> QED BY <2>3, <2>4, <1>9
<1>18. ASSUME NEW k \in 1 .. size + 1, NEW g \in ToSet(old), IsKept(next, k, g), next.work[k].fiber.placed
       PROVE  \E j \in 1 .. k - 1 : \E f \in ToSet(old) :
                  Stays(next, j) /\ IsKept(next, j, f) /\ g.index < f.index
  <2>1. CASE k \in 1 .. size
    <3>1. PICK j \in 1 .. k - 1 : \E f \in ToSet(old) :
                Stays(acc, j) /\ IsKept(acc, j, f) /\ g.index < f.index
        BY <2>1, <1>1, <1>6, <1>10, <1>18
    <3>2. j \in 1 .. size
        BY <2>1, <1>1 DEF size
    <3> QED BY <3>1, <3>2, <1>6
  <2>2. CASE k = size + 1
    <3>1. g.index < acc.last
        BY <2>2, <1>2, <1>14, <1>18
    <3>2. acc.last > 0
        BY <3>1, <1>3, <1>4
    <3>3. PICK j \in 1 .. size : \E f \in ToSet(old) :
                Stays(acc, j) /\ IsKept(acc, j, f) /\ f.index = acc.last
        BY <3>2, <1>10
    <3>4. j \in 1 .. k - 1
        BY <2>2, <1>1 DEF size
    <3> QED BY <3>1, <3>3, <3>4, <1>6
  <2> QED BY <2>1, <2>2, <1>9
<1>19. ASSUME next.last > 0
       PROVE  \E j \in 1 .. size + 1 : \E f \in ToSet(old) :
                  Stays(next, j) /\ IsKept(next, j, f) /\ f.index = next.last
  <2>1. CASE next.last = acc.last /\ acc.last > 0
    <3>1. PICK j \in 1 .. size : \E f \in ToSet(old) :
                Stays(acc, j) /\ IsKept(acc, j, f) /\ f.index = acc.last
        BY <2>1, <1>10
    <3>2. j \in 1 .. size + 1
        BY <1>1 DEF size
    <3> QED BY <2>1, <3>1, <3>2, <1>6
  <2>2. CASE ~(next.last = acc.last /\ acc.last > 0)
    <3>1. PICK f \in ToSet(acc.existing) :
              /\ ~IsNew(w) /\ w.id = f.id
              /\ w.placed = (f.index < acc.last)
              /\ next.last = IF f.index >= acc.last THEN f.index ELSE acc.last
        BY <2>2, <1>5, <1>19
    <3>2. f.index >= acc.last /\ next.last = f.index
        BY <3>1, <2>2, <1>19
    <3>3. Stays(next, size + 1) /\ IsKept(next, size + 1, f)
      <4>1. ~(f.index < acc.last)
          BY <3>2, <1>3, <1>4
      <4> QED BY <3>1, <4>1, <1>2, <1>15 DEF IsKept
    <3>4. f \in ToSet(old) /\ size + 1 \in 1 .. size + 1
        BY <1>1, <1>4 DEF size
    <3> QED BY <3>2, <3>3, <3>4
  <2> QED BY <2>1, <2>2
<1> QED
    BY <1>11, <1>13, <1>16, <1>17, <1>18, <1>19 DEF Moved

\* What the first loop has left is in its order and not before the next element.
Ahead(acc) ==
    /\ \A i, j \in 1 .. Len(acc.existing) : i < j => acc.existing[i].index < acc.existing[j].index
    /\ \A i \in 1 .. Len(acc.existing) : acc.existing[i].index >= acc.n - 1

\* Concatenation with no element, and with one.
LEMMA ConcatNothing == ASSUME NEW S, NEW s \in Seq(S) PROVE s \o <<>> = s
OBVIOUS

LEMMA ConcatOne == ASSUME NEW S, NEW s \in Seq(S), NEW x \in S PROVE s \o <<x>> = Append(s, x)
OBVIOUS

\* What is still to be used is an old child, and no other has its place in the map.
LEMMA ExistingAre ==
    ASSUME NEW V, NEW old, AreChildren(old, V), NEW acc, Accounted(acc, old), NEW f \in ToSet(acc.existing)
    PROVE  /\ f \in ToSet(old) /\ f \in FiberRecords(V) /\ ~IsNew(f) /\ f.index \in Nat /\ f \notin ToSet(acc.dels)
           /\ \A g \in ToSet(acc.existing) : MapKey(f) = MapKey(g) => f = g
<1>1. f \in ToSet(old) /\ ToSet(acc.existing) \subseteq ToSet(old) /\ f \notin ToSet(acc.dels)
    BY DEF Accounted
<1>2. f \in FiberRecords(V) /\ f.id \in Nat \ {0} /\ f.index \in Nat
    BY <1>1, MapKeysDiffer
<1>3. \A g \in ToSet(acc.existing) : MapKey(f) = MapKey(g) => f = g
    BY <1>1, MapKeysDiffer
<1> QED
    BY <1>1, <1>2, <1>3 DEF IsNew

\* The first loop, at element n: it has stopped, or the element takes the old child
\* at its index, replaces it or is new.
LEMMA InStepIs ==
    ASSUME NEW V, Values(V), NEW old, AreChildren(old, V), NEW els, AreElements(els, V),
           NEW track \in BOOLEAN, NEW n \in 1 .. Len(els),
           NEW acc \in Accs(V), Accounted(acc, old), Ahead(acc), track \/ acc.existing = <<>>
    PROVE  LET next == InStep(acc, n, els, track)
           IN  \/ next = acc
               \/ /\ acc.n = n /\ next.n = n + 1 /\ next \in Accs(V) /\ Ahead(next)
                  /\ \E w, gone, dead : Takes(acc, next, n, w, gone, dead, els, track, V)
<1> DEFINE next == InStep(acc, n, els, track)
           el == els[n]
           h == Head(acc.existing)
           slot == IF h.index > n - 1 THEN <<>> ELSE <<h>>
           size == Len(acc.existing)
<1>1. CASE acc.n # n \/ acc.existing = <<>> \/ updateSlot(slot, el) = <<>>
    BY <1>1 DEF InStep
<1>2. CASE ~(acc.n # n \/ acc.existing = <<>> \/ updateSlot(slot, el) = <<>>)
  <2>1. /\ next = [Added(acc, slot, el, n - 1, track) EXCEPT
                      !.n = n + 1,
                      !.existing = IF slot = <<>> THEN @ ELSE Tail(@),
                      !.dels = @ \o Replaced(slot, el, track)]
      BY <1>2 DEF InStep
  <2> HIDE DEF next
  <2>2. acc.n = n /\ acc.existing # <<>> /\ track = TRUE /\ n \in Nat \ {0} /\ n - 1 \in Nat
      BY <1>2
  <2>3. el # Hole /\ el.key = IF slot = <<>> THEN NoKey ELSE slot[1].key
      BY <1>2 DEF updateSlot
  <2>4. el \in Elements(V)
      BY DEF AreElements
  <2>5. /\ acc.existing \in Seq(FiberRecords(V)) /\ acc.dels \in Seq(FiberRecords(V)) /\ acc.last \in Nat
        /\ acc.work \in Seq([fiber : FiberRecords(V), el : Elements(V)]) /\ DOMAIN acc.existing = 1 .. size
      BY DEF Accs
  <2>6. h = acc.existing[1] /\ 1 \in 1 .. size /\ size \in Nat \ {0} /\ h \in ToSet(acc.existing)
    <3>1. size \in Nat \ {0} /\ h = acc.existing[1]
        BY <2>2, <2>5
    <3>2. 1 \in 1 .. size
        BY <3>1
    <3> QED BY <3>1, <3>2, <2>5 DEF ToSet
  <2>7. /\ h \in ToSet(old) /\ h \in FiberRecords(V) /\ ~IsNew(h) /\ h.index \in Nat /\ h \notin ToSet(acc.dels)
        /\ \A g \in ToSet(acc.existing) : MapKey(h) = MapKey(g) => h = g
      BY <2>6, ExistingAre
  <2>8. h.index >= n - 1 /\ \A f \in ToSet(acc.existing) : f.index \in Nat /\ f.index >= h.index
    <3>1. h.index >= n - 1
        BY <2>2, <2>6 DEF Ahead
    <3>2. ASSUME NEW k \in 1 .. size PROVE acc.existing[k].index \in Nat /\ acc.existing[k].index >= h.index
      <4>1. acc.existing[k] \in ToSet(acc.existing)
          BY <2>5 DEF ToSet
      <4>2. acc.existing[k].index \in Nat
          BY <4>1, ExistingAre
      <4>3. k = 1 \/ 1 < k
          OBVIOUS
      <4> QED BY <4>2, <4>3, <2>6, <2>7 DEF Ahead
    <3> QED BY <3>1, <3>2, <2>5 DEF ToSet
  <2> HIDE DEF h, el, size
  <2>0. PICK w \in FiberRecords(V) :
            IsAdded(Added(acc, slot, el, n - 1, track), w, acc, slot, el, n - 1, track)
    <3>1. IsSlot(slot, el, V)
        BY <2>3, <2>7 DEF IsSlot
    <3>2. acc.last \in Nat /\ n - 1 \in Nat
        BY <2>2, <2>5
    <3> HIDE DEF slot
    <3> QED BY <3>1, <3>2, <2>4, AddedIs
  <2>9. /\ Added(acc, slot, el, n - 1, track) =
                   [acc EXCEPT !.work = Append(@, [fiber |-> w, el |-> el]),
                               !.last = IF track /\ Reuses(slot, el) /\ slot[1].index >= @
                                        THEN slot[1].index ELSE @]
        /\ w.type = el.type /\ w.key = el.key /\ w.index = n - 1
        /\ w.id = (IF Reuses(slot, el) THEN slot[1].id ELSE 0)
        /\ w.placed = (track /\ ~(Reuses(slot, el) /\ slot[1].index >= acc.last))
    <3> HIDE DEF slot
    <3> QED BY <2>0 DEF IsAdded
  <2> DEFINE last == IF track /\ Reuses(slot, el) /\ slot[1].index >= acc.last THEN slot[1].index ELSE acc.last
             existing == IF slot = <<>> THEN acc.existing ELSE Tail(acc.existing)
             dels == acc.dels \o Replaced(slot, el, track)
             work == Append(acc.work, [fiber |-> w, el |-> el])
  <2>10. next = [n |-> n + 1, existing |-> existing, dels |-> dels, last |-> last, work |-> work]
    <3> HIDE DEF slot
    <3>1. acc = [n |-> acc.n, existing |-> acc.existing, dels |-> acc.dels, last |-> acc.last, work |-> acc.work]
        BY DEF Accs
    <3>2. Added(acc, slot, el, n - 1, track) =
            [n |-> acc.n, existing |-> acc.existing, dels |-> acc.dels, last |-> last, work |-> work]
        BY <2>9, <3>1
    <3> DEFINE added == Added(acc, slot, el, n - 1, track)
    <3>3. added.existing = acc.existing /\ added.dels = acc.dels
        BY <3>2
    <3>4. next = [added EXCEPT !.n = n + 1, !.existing = existing, !.dels = dels]
        BY <2>1, <3>3
    <3>5. added = [n |-> acc.n, existing |-> acc.existing, dels |-> acc.dels, last |-> last, work |-> work]
        BY <3>2
    <3> HIDE DEF last, work, existing, dels, added
    <3> QED BY <3>4, <3>5
  <2>11. work \in Seq([fiber : FiberRecords(V), el : Elements(V)])
      BY <2>4, <2>5
  <2> DEFINE gone == IF slot = <<>> THEN {} ELSE {h}
             dead == IF slot # <<>> /\ h.type # el.type THEN {h} ELSE {}
  <2>12. slot # <<>> => slot = <<h>> /\ slot[1] = h /\ h.index = n - 1 /\ el.key = h.key /\ MapKey(h) = ElementKey(el, n - 1)
    <3>1. slot # <<>> => slot = <<h>> /\ slot[1] = h /\ ~(h.index > n - 1)
        OBVIOUS
    <3>2. slot # <<>> => h.index = n - 1 /\ el.key = h.key
        BY <3>1, <2>2, <2>3, <2>7, <2>8
    <3> QED BY <3>1, <3>2 DEF MapKey, ElementKey
  <2>13. slot = <<>> => h.index > n - 1 /\ el.key = NoKey
      BY <2>3
  <2> HIDE DEF slot
  <2>14. /\ existing \in Seq(FiberRecords(V)) /\ ToSet(existing) = ToSet(acc.existing) \ gone
         /\ Distinct(existing)
    <3>1. Distinct(acc.existing)
        BY DEF Accounted
    <3> QED BY <3>1, <2>2, <2>5, TailIs DEF h
  <2>15. Replaced(slot, el, track) = IF slot # <<>> /\ h.type # el.type THEN <<h>> ELSE <<>>
      BY <2>2, <2>12 DEF Replaced
  <2>16. /\ dels \in Seq(FiberRecords(V)) /\ ToSet(dels) = ToSet(acc.dels) \cup dead /\ Distinct(dels)
    <3>1. Distinct(acc.dels)
        BY DEF Accounted
    <3>2. CASE slot # <<>> /\ h.type # el.type
      <4>1. dels = Append(acc.dels, h)
          BY <3>2, <2>5, <2>7, <2>15, ConcatOne
      <4> QED BY <4>1, <3>1, <3>2, <2>5, <2>7, AppendIs
    <3>3. CASE ~(slot # <<>> /\ h.type # el.type)
      <4>1. dels = acc.dels
          BY <3>3, <2>5, <2>15, ConcatNothing
      <4> QED BY <4>1, <3>1, <3>3, <2>5
    <3> QED BY <3>2, <3>3
  <2>17. Reuses(slot, el) <=> slot # <<>> /\ h.type = el.type
      BY <2>12 DEF Reuses
  <2>18. last \in Nat /\ n + 1 \in Nat
      BY <2>2, <2>5, <2>7, <2>12, <2>17
  <2>19. next \in Accs(V)
    <3> HIDE DEF existing, dels, work, last
    <3> QED BY <2>10, <2>11, <2>14, <2>16, <2>18 DEF Accs
  <2>20. /\ next.n = n + 1 /\ next.existing = existing /\ next.dels = dels /\ next.last = last
         /\ next.work = work
    <3> HIDE DEF existing, dels, work, last
    <3> QED BY <2>10
  <2>21. Ahead(next)
    <3>1. CASE slot = <<>>
      <4>1. next.existing = acc.existing
          BY <3>1, <2>20
      <4>2. ASSUME NEW k \in 1 .. size PROVE acc.existing[k].index >= (n + 1) - 1
        <5>1. acc.existing[k] \in ToSet(acc.existing)
            BY <2>5 DEF ToSet
        <5> QED BY <5>1, <3>1, <2>2, <2>7, <2>8, <2>13
      <4> QED BY <4>1, <4>2, <2>20 DEF Ahead, size
    <3>2. CASE slot # <<>>
      <4>1. next.existing = Tail(acc.existing)
          BY <3>2, <2>20
      <4>2. Len(next.existing) = size - 1 /\ \A k \in 1 .. size - 1 : next.existing[k] = acc.existing[k + 1]
        <5>1. Distinct(acc.existing)
            BY DEF Accounted
        <5> QED BY <4>1, <5>1, <2>2, <2>5, TailIs DEF size
      <4>3. \A k \in 1 .. size - 1 : k + 1 \in 1 .. size /\ 1 < k + 1
          BY <2>6
      <4>4. ASSUME NEW k \in 1 .. size - 1 PROVE next.existing[k].index >= (n + 1) - 1
        <5>1. acc.existing[1].index < acc.existing[k + 1].index
            BY <4>3, <2>6 DEF Ahead, size
        <5>2. acc.existing[k + 1] \in ToSet(acc.existing)
            BY <4>3, <2>5 DEF ToSet
        <5>3. acc.existing[k + 1].index \in Nat
            BY <5>2, <2>8
        <5> QED BY <5>1, <5>3, <4>2, <2>2, <2>6, <2>7, <2>12, <3>2
      <4>5. ASSUME NEW i \in 1 .. size - 1, NEW j \in 1 .. size - 1, i < j
            PROVE  next.existing[i].index < next.existing[j].index
        <5>1. i + 1 \in 1 .. size /\ j + 1 \in 1 .. size /\ i + 1 < j + 1
            BY <4>3, <4>5
        <5>2. acc.existing[i + 1].index < acc.existing[j + 1].index
            BY <5>1 DEF Ahead, size
        <5> QED BY <5>2, <4>2
      <4> QED BY <4>2, <4>4, <4>5, <2>20 DEF Ahead
    <3> QED BY <3>1, <3>2
  <2>22. \A f \in ToSet(acc.existing) : f.type = el.type /\ MapKey(f) = ElementKey(el, n - 1) => Reuses(slot, el)
    <3> SUFFICES ASSUME NEW f \in ToSet(acc.existing), f.type = el.type, MapKey(f) = ElementKey(el, n - 1)
                 PROVE  Reuses(slot, el)
        OBVIOUS
    <3>1. CASE slot = <<>>
      <4>1. ElementKey(el, n - 1) = <<"index", n - 1>>
          BY <3>1, <2>13 DEF ElementKey
      <4>2. f.index = n - 1
        <5>1. "index" # "key"
            OBVIOUS
        <5> QED BY <4>1, <5>1 DEF MapKey
      <4> QED BY <4>2, <3>1, <2>2, <2>7, <2>8, <2>13
    <3>2. CASE slot # <<>>
        BY <3>2, <2>7, <2>12, <2>17
    <3> QED BY <3>1, <3>2
  <2>23. Takes(acc, next, n, w, gone, dead, els, track, V)
    <3>1. /\ gone \subseteq ToSet(acc.existing) /\ dead \subseteq gone
          /\ \A f \in gone : MapKey(f) = ElementKey(el, n - 1)
        BY <2>6, <2>12
    <3>2. IF IsNew(w)
          THEN /\ dead = gone
               /\ \A f \in ToSet(acc.existing) : ~(MapKey(f) = ElementKey(el, n - 1) /\ f.type = el.type)
               /\ w.placed = track /\ next.last = acc.last
          ELSE \E f \in ToSet(acc.existing) :
                  /\ gone = {f} /\ dead = {} /\ w.id = f.id /\ f.type = el.type
                  /\ w.placed = (track /\ f.index < acc.last)
                  /\ next.last = IF track /\ f.index >= acc.last THEN f.index ELSE acc.last
      <4>1. CASE Reuses(slot, el)
        <5>1. slot # <<>> /\ slot[1] = h /\ h.type = el.type
            BY <4>1, <2>12, <2>17
        <5>2. w.id = h.id /\ ~IsNew(w)
            BY <4>1, <5>1, <2>7, <2>9 DEF IsNew
        <5>3. ~(h.index >= acc.last) <=> h.index < acc.last
            BY <2>5, <2>7
        <5>4. w.placed = (track /\ h.index < acc.last)
            BY <4>1, <5>1, <5>3, <2>2, <2>9
        <5>5. next.last = IF track /\ h.index >= acc.last THEN h.index ELSE acc.last
            BY <4>1, <5>1, <2>20
        <5>6. gone = {h} /\ dead = {}
            BY <5>1
        <5> HIDE DEF gone, dead
        <5> QED BY <5>1, <5>2, <5>4, <5>5, <5>6, <2>6
      <4>2. CASE ~Reuses(slot, el)
        <5>1. IsNew(w)
            BY <4>2, <2>9 DEF IsNew
        <5>2. dead = gone
            BY <4>2, <2>17
        <5>3. w.placed = track /\ next.last = acc.last
            BY <4>2, <2>2, <2>9, <2>20
        <5> HIDE DEF gone, dead
        <5> QED BY <4>2, <5>1, <5>2, <5>3, <2>22
      <4> QED BY <4>1, <4>2
    <3> HIDE DEF gone, dead, existing, dels, work, last
    <3>3. next.work = Append(acc.work, [fiber |-> w, el |-> el])
        BY <2>20 DEF work
    <3> QED BY <3>1, <3>2, <3>3, <2>3, <2>9, <2>14, <2>16, <2>19, <2>20 DEF Takes, el
  <2> QED BY <2>2, <2>19, <2>20, <2>21, <2>23 DEF next
<1> QED
    BY <1>1, <1>2

\* The second loop, at an element that the first has left.
LEMMA ByKeyIs ==
    ASSUME NEW V, Values(V), NEW old, AreChildren(old, V), NEW els, AreElements(els, V),
           NEW track \in BOOLEAN, NEW n \in 1 .. Len(els), NEW acc \in Accs(V), Accounted(acc, old),
           n >= acc.n, els[n] # Hole
    PROVE  LET next == ByKey(acc, n, els, track)
           IN  /\ next \in Accs(V) /\ next.n = acc.n
               /\ \E w, gone, dead : Takes(acc, next, n, w, gone, dead, els, track, V)
<1> DEFINE next == ByKey(acc, n, els, track)
           el == els[n]
           found == updateFromMap(acc.existing, el, n - 1)
           at == CHOOSE k \in found : TRUE
           f == acc.existing[at]
           slot == IF found = {} THEN <<>> ELSE <<f>>
           reused == found # {} /\ slot[1].type = el.type
           size == Len(acc.existing)
<1>1. /\ acc.existing \in Seq(FiberRecords(V)) /\ acc.dels \in Seq(FiberRecords(V)) /\ acc.last \in Nat
      /\ acc.work \in Seq([fiber : FiberRecords(V), el : Elements(V)]) /\ DOMAIN acc.existing = 1 .. size
      /\ acc.n \in Nat /\ n \in Nat /\ n - 1 \in Nat
    BY DEF Accs
<1>2. next = [Added(acc, slot, el, n - 1, track) EXCEPT
                 !.existing = IF reused THEN RemoveAt(@, at) ELSE @]
  <2>1. ~(n < acc.n \/ els[n] = Hole)
      BY <1>1
  <2> QED BY <2>1 DEF ByKey
<1> HIDE DEF next
<1>3. el \in Elements(V)
    BY DEF AreElements
<1>4. \A g \in ToSet(acc.existing) :
         /\ g \in FiberRecords(V) /\ ~IsNew(g) /\ g.index \in Nat
         /\ \A h \in ToSet(acc.existing) : MapKey(g) = MapKey(h) => g = h
    BY ExistingAre
<1>5. found # {} =>
         /\ at \in 1 .. size /\ f \in ToSet(acc.existing) /\ MapKey(f) = ElementKey(el, n - 1)
         /\ slot = <<f>> /\ slot[1] = f /\ f.key = el.key
  <2> SUFFICES ASSUME found # {}
               PROVE  /\ at \in 1 .. size /\ f \in ToSet(acc.existing) /\ MapKey(f) = ElementKey(el, n - 1)
                      /\ slot = <<f>> /\ slot[1] = f /\ f.key = el.key
      OBVIOUS
  <2>1. at \in found
    <3> HIDE DEF found
    <3> QED OBVIOUS
  <2>2. at \in 1 .. size /\ MapKey(f) = ElementKey(el, n - 1)
    <3>1. \A k \in found : k \in 1 .. size /\ MapKey(acc.existing[k]) = ElementKey(el, n - 1)
        BY DEF updateFromMap
    <3> HIDE DEF found, at
    <3> QED BY <2>1, <3>1
  <2> HIDE DEF at, found
  <2>3. f \in ToSet(acc.existing)
      BY <2>2, <1>1 DEF ToSet
  <2>4. slot = <<f>> /\ slot[1] = f
      OBVIOUS
  <2>5. f.key = el.key
    <3>1. "index" # "key"
        OBVIOUS
    <3> QED BY <3>1, <2>2 DEF MapKey, ElementKey
  <2> QED BY <2>2, <2>3, <2>4, <2>5
<1>6. \A g \in ToSet(acc.existing) : MapKey(g) = ElementKey(el, n - 1) => found # {} /\ g = f
  <2> SUFFICES ASSUME NEW g \in ToSet(acc.existing), MapKey(g) = ElementKey(el, n - 1) PROVE found # {} /\ g = f
      OBVIOUS
  <2>1. PICK k \in 1 .. size : g = acc.existing[k]
      BY <1>1 DEF ToSet
  <2>2. k \in found
      BY <2>1 DEF updateFromMap
  <2> HIDE DEF found, at
  <2> QED BY <2>2, <1>4, <1>5
<1>7. found = {} => slot = <<>>
    OBVIOUS
<1> HIDE DEF at, f, slot, size, found
<1>8. Reuses(slot, el) <=> found # {} /\ f.type = el.type
  <2>1. slot # <<>> => found # {}
      BY <1>7
  <2>2. found # {} => slot # <<>>
      BY <1>5
  <2> QED BY <2>1, <2>2, <1>5 DEF Reuses
<1>9. reused <=> Reuses(slot, el)
    BY <1>5, <1>8
<1>10. PICK w \in FiberRecords(V) :
          IsAdded(Added(acc, slot, el, n - 1, track), w, acc, slot, el, n - 1, track)
  <2>1. IsSlot(slot, el, V)
      BY <1>4, <1>5, <1>7 DEF IsSlot
  <2> HIDE DEF el
  <2> QED BY <2>1, <1>1, <1>3, AddedIs
<1>11. /\ Added(acc, slot, el, n - 1, track) =
                 [acc EXCEPT !.work = Append(@, [fiber |-> w, el |-> el]),
                             !.last = IF track /\ Reuses(slot, el) /\ slot[1].index >= @
                                      THEN slot[1].index ELSE @]
       /\ w.type = el.type /\ w.key = el.key /\ w.index = n - 1
       /\ w.id = (IF Reuses(slot, el) THEN slot[1].id ELSE 0)
       /\ w.placed = (track /\ ~(Reuses(slot, el) /\ slot[1].index >= acc.last))
    BY <1>10 DEF IsAdded
<1> HIDE DEF reused
<1> DEFINE last == IF track /\ Reuses(slot, el) /\ slot[1].index >= acc.last THEN slot[1].index ELSE acc.last
           existing == IF reused THEN RemoveAt(acc.existing, at) ELSE acc.existing
           work == Append(acc.work, [fiber |-> w, el |-> el])
           gone == IF reused THEN {f} ELSE {}
<1>12. next = [n |-> acc.n, existing |-> existing, dels |-> acc.dels, last |-> last, work |-> work]
  <2>1. acc = [n |-> acc.n, existing |-> acc.existing, dels |-> acc.dels, last |-> acc.last, work |-> acc.work]
      BY DEF Accs
  <2> DEFINE added == Added(acc, slot, el, n - 1, track)
  <2>2. added = [n |-> acc.n, existing |-> acc.existing, dels |-> acc.dels, last |-> last, work |-> work]
      BY <1>11, <2>1
  <2>3. added.existing = acc.existing
      BY <2>2
  <2>4. next = [added EXCEPT !.existing = existing]
      BY <1>2, <2>3
  <2> HIDE DEF last, work, existing, added
  <2> QED BY <2>2, <2>4
<1>13. work \in Seq([fiber : FiberRecords(V), el : Elements(V)])
    BY <1>1, <1>3
<1>14. /\ existing \in Seq(FiberRecords(V)) /\ ToSet(existing) = ToSet(acc.existing) \ gone
       /\ Distinct(existing)
  <2>1. Distinct(acc.existing)
      BY DEF Accounted
  <2>2. CASE reused
    <3>1. at \in 1 .. Len(acc.existing) /\ acc.existing[at] = f
        BY <2>2, <1>5, <1>8, <1>9 DEF f, size
    <3> QED BY <2>1, <2>2, <3>1, <1>1, RemoveAtIs
  <2>3. CASE ~reused
      BY <2>1, <2>3, <1>1
  <2> QED BY <2>2, <2>3
<1>15. last \in Nat
    BY <1>1, <1>4, <1>5, <1>8
<1> HIDE DEF existing, work, last
<1>16. /\ next.n = acc.n /\ next.existing = existing /\ next.dels = acc.dels /\ next.last = last
       /\ next.work = work
    BY <1>12
<1>17. next \in Accs(V)
    BY <1>1, <1>12, <1>13, <1>14, <1>15 DEF Accs
<1>18. /\ gone \subseteq ToSet(acc.existing) /\ {} \subseteq gone
       /\ \A g \in gone : MapKey(g) = ElementKey(el, n - 1)
    BY <1>5, <1>8, <1>9
<1>19. IF IsNew(w)
       THEN /\ {} = gone
            /\ \A g \in ToSet(acc.existing) : ~(MapKey(g) = ElementKey(el, n - 1) /\ g.type = el.type)
            /\ w.placed = track /\ next.last = acc.last
       ELSE \E g \in ToSet(acc.existing) :
               /\ gone = {g} /\ {} = {} /\ w.id = g.id /\ g.type = el.type
               /\ w.placed = (track /\ g.index < acc.last)
               /\ next.last = IF track /\ g.index >= acc.last THEN g.index ELSE acc.last
  <2>1. CASE Reuses(slot, el)
    <3>1. slot[1] = f /\ f.type = el.type /\ f \in ToSet(acc.existing)
        BY <2>1, <1>5, <1>8
    <3>2. w.id = f.id /\ ~IsNew(w)
        BY <2>1, <3>1, <1>4, <1>11 DEF IsNew
    <3>3. ~(f.index >= acc.last) <=> f.index < acc.last
        BY <3>1, <1>1, <1>4
    <3>4. w.placed = (track /\ f.index < acc.last)
        BY <2>1, <3>1, <3>3, <1>11
    <3>5. next.last = IF track /\ f.index >= acc.last THEN f.index ELSE acc.last
        BY <2>1, <3>1, <1>16 DEF last
    <3>6. gone = {f}
        BY <2>1, <1>9
    <3> HIDE DEF gone
    <3> QED BY <3>1, <3>2, <3>4, <3>5, <3>6
  <2>2. CASE ~Reuses(slot, el)
    <3>1. IsNew(w)
        BY <2>2, <1>11 DEF IsNew
    <3>2. gone = {}
        BY <2>2, <1>9
    <3>3. w.placed = track /\ next.last = acc.last
        BY <2>2, <1>11, <1>16 DEF last
    <3>4. \A g \in ToSet(acc.existing) : ~(MapKey(g) = ElementKey(el, n - 1) /\ g.type = el.type)
        BY <2>2, <1>6, <1>8
    <3> HIDE DEF gone
    <3> QED BY <3>1, <3>2, <3>3, <3>4
  <2> QED BY <2>1, <2>2
<1>20. ToSet(next.dels) = ToSet(acc.dels) \cup {} /\ Distinct(next.dels)
    BY <1>16 DEF Accounted
<1>21. next.work = Append(acc.work, [fiber |-> w, el |-> el])
    BY <1>16 DEF work
<1> HIDE DEF gone
<1>22. Takes(acc, next, n, w, gone, {}, els, track, V)
    BY <1>11, <1>14, <1>16, <1>17, <1>18, <1>19, <1>20, <1>21 DEF Takes
<1> QED
    BY <1>16, <1>17, <1>22 DEF next

\* What both loops keep: acc is right for the first n elements.
Diffed(acc, n, old, els, track, V) ==
    /\ acc \in Accs(V) /\ Accounted(acc, old) /\ Covered(acc, n, els) /\ Matched(acc, n, old, els)
    /\ track => Moved(acc, old)
    /\ track \/ acc.existing = <<>>

\* It is right to begin with.
LEMMA NothingIsDiffed ==
    ASSUME NEW V, NEW old, AreChildren(old, V), NEW els, AreElements(els, V), NEW track \in BOOLEAN,
           track \/ old = <<>>
    PROVE  /\ Diffed(NothingDone(old), 0, old, els, track, V) /\ Ahead(NothingDone(old))
           /\ NothingDone(old).n = 1
<1> DEFINE acc == NothingDone(old)
<1>1. acc.n = 1 /\ acc.existing = old /\ acc.dels = <<>> /\ acc.work = <<>> /\ acc.last = 0
    BY DEF NothingDone
<1>2. old \in Seq(FiberRecords(V)) /\ Len(old) \in Nat
    BY DEF AreChildren
<1>3. acc \in Accs(V)
  <2>1. acc = [n |-> 1, existing |-> old, dels |-> <<>>, last |-> 0, work |-> <<>>]
      BY DEF NothingDone
  <2> DEFINE Item == [fiber : FiberRecords(V), el : Elements(V)]
  <2>2. <<>> \in Seq(FiberRecords(V)) /\ <<>> \in Seq(Item)
      OBVIOUS
  <2> HIDE DEF acc
  <2> QED BY <1>2, <2>1, <2>2 DEF Accs
<1> HIDE DEF acc
<1>4. Len(acc.work) = 0 /\ Len(acc.dels) = 0 /\ ToSet(acc.dels) = {}
    BY <1>1 DEF ToSet
<1>5. ASSUME NEW i \in 1 .. Len(old), NEW j \in 1 .. Len(old), old[i] = old[j] PROVE i = j
  <2>1. i = j \/ old[i].id # old[j].id
      BY DEF AreChildren
  <2> QED BY <1>5, <2>1
<1>6. Accounted(acc, old)
    BY <1>1, <1>4, <1>5 DEF Accounted, Distinct
<1>7. Covered(acc, 0, els)
    BY <1>4 DEF Covered
<1>8. Matched(acc, 0, old, els)
    BY <1>1, <1>4 DEF Matched
<1>9. Moved(acc, old)
    BY <1>1, <1>4 DEF Moved
<1>10. Ahead(acc)
  <2>1. ASSUME NEW i \in 1 .. Len(old) PROVE old[i].index >= 1 - 1
    <3>1. old[i] \in FiberRecords(V)
        BY <1>2
    <3>2. old[i].index \in Nat
        BY <3>1 DEF FiberRecords
    <3> QED BY <3>2
  <2> QED BY <1>1, <2>1 DEF Ahead, AreChildren
<1> QED
    BY <1>1, <1>3, <1>6, <1>7, <1>8, <1>9, <1>10 DEF Diffed, acc

\* It stays right with one more element.
LEMMA TakenDiffed ==
    ASSUME NEW V, NEW old, AreChildren(old, V), NEW els, AreElements(els, V), NEW n \in 1 .. Len(els),
           NEW acc, NEW next, NEW w, NEW gone, NEW dead, NEW track \in BOOLEAN,
           Takes(acc, next, n, w, gone, dead, els, track, V), Diffed(acc, n - 1, old, els, track, V)
    PROVE  Diffed(next, n, old, els, track, V)
<1>1. Accounted(acc, old) /\ Covered(acc, n - 1, els) /\ Matched(acc, n - 1, old, els) /\ (track => Moved(acc, old))
    BY DEF Diffed
<1>2. Accounted(next, old)
    BY <1>1, TakenAccount
<1>3. Covered(next, n, els)
    BY <1>1, TakenCover
<1>4. Matched(next, n, old, els)
    BY <1>1, TakenMatch
<1>5. track => Moved(next, old)
  <2>1. track => Takes(acc, next, n, w, gone, dead, els, TRUE, V)
      OBVIOUS
  <2> QED BY <1>1, <2>1, TakenMoves
<1>6. next \in Accs(V)
    BY DEF Takes
<1>7. track \/ next.existing = <<>>
  <2>1. CASE track
      BY <2>1
  <2>2. CASE ~track
    <3>1. acc.existing = <<>>
        BY <2>2 DEF Diffed
    <3>2. ToSet(acc.existing) = {}
        BY <3>1 DEF ToSet
    <3>3. ToSet(next.existing) = {}
        BY <3>2 DEF Takes
    <3>4. next.existing \in Seq(FiberRecords(V))
        BY <1>6 DEF Accs
    <3> DEFINE rest == next.existing
    <3>5. rest \in Seq(FiberRecords(V)) /\ ToSet(rest) = {}
        BY <3>3, <3>4
    <3> HIDE DEF rest
    <3>6. DOMAIN rest = 1 .. Len(rest) /\ Len(rest) \in Nat
        BY <3>5
    <3>7. 1 \notin DOMAIN rest
        BY <3>5 DEF ToSet
    <3>8. Len(rest) = 0
        BY <3>6, <3>7
    <3>9. rest = <<>>
        BY <3>5, <3>8
    <3> QED BY <3>9 DEF rest
  <2> QED BY <2>1, <2>2
<1> QED
    BY <1>2, <1>3, <1>4, <1>5, <1>6, <1>7 DEF Diffed

\* An element that is null changes nothing.
LEMMA HoleDiffed ==
    ASSUME NEW V, NEW old, NEW els, NEW n \in Nat \ {0}, NEW acc, NEW track,
           els[n] = Hole, Diffed(acc, n - 1, old, els, track, V)
    PROVE  Diffed(acc, n, old, els, track, V)
<1>1. \A i \in 0 .. (n - 1) - 1 : i \in 0 .. n - 1
    OBVIOUS
<1>2. \A m \in 1 .. n : m \in 1 .. n - 1 \/ m = n
    OBVIOUS
<1>3. \A m \in 1 .. n - 1 : m \in 1 .. n
    OBVIOUS
<1>4. Covered(acc, n, els)
  <2>1. Covered(acc, n - 1, els)
      BY DEF Diffed
  <2>2. \A k \in 1 .. Len(acc.work) : acc.work[k].fiber.index \in 0 .. n - 1
      BY <2>1, <1>1 DEF Covered
  <2>3. \A m \in 1 .. n : els[m] # Hole => \E k \in 1 .. Len(acc.work) : acc.work[k].fiber.index = m - 1
      BY <2>1, <1>2 DEF Covered
  <2> QED BY <2>1, <2>2, <2>3 DEF Covered
<1>5. Matched(acc, n, old, els)
    BY <1>3 DEF Diffed, Matched
<1> QED
    BY <1>4, <1>5 DEF Diffed

\* What the first loop leaves.
InStepped(V, old, els, track) ==
    {acc \in Accs(V) :
        /\ acc.n \in 1 .. Len(els) + 1
        /\ Diffed(acc, acc.n - 1, old, els, track, V) /\ Ahead(acc)}

\* The first loop keeps it right, step by step.
LEMMA InStepKeeps ==
    ASSUME NEW V, Values(V), NEW old, AreChildren(old, V), NEW els, AreElements(els, V),
           NEW track \in BOOLEAN, NEW n \in 1 .. Len(els), NEW acc \in InStepped(V, old, els, track)
    PROVE  InStep(acc, n, els, track) \in InStepped(V, old, els, track)
<1> DEFINE next == InStep(acc, n, els, track)
<1>1. /\ acc \in Accs(V) /\ Diffed(acc, acc.n - 1, old, els, track, V) /\ Ahead(acc)
      /\ Accounted(acc, old) /\ (track \/ acc.existing = <<>>)
    BY DEF InStepped, Diffed
<1>2. \/ next = acc
      \/ /\ acc.n = n /\ next.n = n + 1 /\ next \in Accs(V) /\ Ahead(next)
         /\ \E w, gone, dead : Takes(acc, next, n, w, gone, dead, els, track, V)
    BY <1>1, InStepIs
<1> HIDE DEF next
<1>3. CASE next = acc
    BY <1>3 DEF next
<1>4. CASE /\ acc.n = n /\ next.n = n + 1 /\ next \in Accs(V) /\ Ahead(next)
           /\ \E w, gone, dead : Takes(acc, next, n, w, gone, dead, els, track, V)
  <2>1. PICK w, gone, dead : Takes(acc, next, n, w, gone, dead, els, track, V)
      BY <1>4
  <2>2. Diffed(acc, n - 1, old, els, track, V)
      BY <1>1, <1>4
  <2>3. Diffed(next, n, old, els, track, V)
      BY <2>1, <2>2, TakenDiffed
  <2>4. Len(els) \in Nat
      BY DEF AreElements
  <2>5. next.n \in 1 .. Len(els) + 1 /\ next.n - 1 = n
      BY <1>4, <2>4
  <2>6. Diffed(next, next.n - 1, old, els, track, V)
      BY <2>3, <2>5
  <2> QED BY <1>4, <2>5, <2>6 DEF InStepped, next
<1> QED
    BY <1>2, <1>3, <1>4

\* The first loop.
LEMMA FirstLoop ==
    ASSUME NEW V, Values(V), NEW old, AreChildren(old, V), NEW els, AreElements(els, V),
           NEW track \in BOOLEAN, track \/ old = <<>>
    PROVE  Fold(LAMBDA acc, n : InStep(acc, n, els, track), NothingDone(old), Positions(els))
               \in InStepped(V, old, els, track)
<1> DEFINE n == Len(els)
           X == InStepped(V, old, els, track)
           s == NothingDone(old)
           Step1(t, i) == InStep(t, i, els, track)
           F == [i \in 1 .. n |-> [t \in X |-> Step1(t, i)]]
           Step(g) == [i \in 0 .. n |-> IF i = 0 THEN s ELSE Step1(g[i - 1], i)]
           after == CHOOSE g : g = Step(g)
<1>1. n \in Nat /\ Len(Positions(els)) = n /\ \A i \in 1 .. n : Positions(els)[i] = i
    BY DEF AreElements, Positions
<1>2. Fold(LAMBDA acc, i : InStep(acc, i, els, track), NothingDone(old), Positions(els)) = after[n]
  <2>1. ASSUME NEW g, NEW i \in 0 .. n
        PROVE  (IF i = 0 THEN s ELSE With(g[i - 1], LAMBDA a : InStep(a, Positions(els)[i], els, track)))
                  = IF i = 0 THEN s ELSE Step1(g[i - 1], i)
    <3>1. CASE i = 0
        BY <3>1
    <3>2. CASE i # 0
      <4>1. Positions(els)[i] = i
          BY <3>2, <1>1
      <4>2. With(g[i - 1], LAMBDA a : InStep(a, Positions(els)[i], els, track))
               = InStep(g[i - 1], Positions(els)[i], els, track)
          BY DEF With
      <4> QED BY <3>2, <4>1, <4>2
    <3> QED BY <3>1, <3>2
  <2>2. \A g : [i \in 0 .. n |->
                  IF i = 0 THEN s
                  ELSE With(g[i - 1], LAMBDA a : InStep(a, Positions(els)[i], els, track))] = Step(g)
      BY <2>1
  <2> HIDE DEF Step, s
  <2>3. Fold(LAMBDA acc, i : InStep(acc, i, els, track), s, Positions(els))
          = (CHOOSE g : g = [i \in 0 .. n |->
                  IF i = 0 THEN s
                  ELSE With(g[i - 1], LAMBDA a : InStep(a, Positions(els)[i], els, track))])[n]
      BY <1>1 DEF Fold, Stages
  <2> QED BY <2>2, <2>3 DEF s
<1>3. s \in X
  <2>1. /\ Diffed(s, 0, old, els, track, V) /\ Ahead(s) /\ s.n = 1
      BY NothingIsDiffed
  <2>2. s \in Accs(V)
      BY <2>1 DEF Diffed
  <2> HIDE DEF s
  <2>3. s.n \in 1 .. Len(els) + 1 /\ s.n - 1 = 0
      BY <1>1, <2>1
  <2> QED BY <2>1, <2>2, <2>3 DEF InStepped
<1>4. ASSUME NEW t \in X, NEW i \in 1 .. n PROVE Step1(t, i) \in X
    BY InStepKeeps
<1> HIDE DEF Step1, X, s
<1>5. F \in [1 .. n -> [X -> X]]
    BY <1>4
<1>6. PICK f : AreStages(f, X, s, n, F)
  <2> HIDE DEF F, n
  <2> QED BY <1>1, <1>3, <1>5, StagesExist
<1>7. f = Step(f)
  <2>0. f \in [0 .. n -> X] /\ f[0] = s /\ \A i \in 1 .. n : f[i] = F[i][f[i - 1]]
    <3> HIDE DEF F
    <3> QED BY <1>6 DEF AreStages
  <2>1. ASSUME NEW i \in 1 .. n PROVE f[i] = Step1(f[i - 1], i)
    <3>1. f[i - 1] \in X
      <4>1. i - 1 \in 0 .. n
          OBVIOUS
      <4> HIDE DEF F
      <4> QED BY <2>0, <4>1
    <3>2. F[i][f[i - 1]] = Step1(f[i - 1], i)
        BY <3>1
    <3> HIDE DEF F
    <3> QED BY <2>0, <3>2
  <2>2. \A i \in 0 .. n : i = 0 \/ i \in 1 .. n
      BY <1>1
  <2> HIDE DEF F
  <2>3. f = [i \in 0 .. n |-> f[i]]
      BY <2>0
  <2>5. ASSUME NEW i \in 0 .. n PROVE f[i] = IF i = 0 THEN s ELSE Step1(f[i - 1], i)
      BY <2>0, <2>1, <2>2
  <2> QED BY <2>3, <2>5
<1>8. after = Step(after)
  <2> HIDE DEF Step
  <2> QED BY <1>7
<1>9. after[0] = s /\ \A i \in 1 .. n : after[i] = Step1(after[i - 1], i)
  <2>1. \A g : Step(g)[0] = s /\ \A i \in 1 .. n : Step(g)[i] = Step1(g[i - 1], i)
      BY <1>1
  <2> HIDE DEF after, Step
  <2> QED BY <2>1, <1>8
<1> HIDE DEF after, F
<1> DEFINE P == {i \in 0 .. n : after[i] \in X}
<1>10. 0 \in P
    BY <1>1, <1>3, <1>9
<1>11. ASSUME NEW i \in 1 .. n, i - 1 \in P PROVE i \in P
    BY <1>4, <1>9, <1>11
<1>12. 0 .. n \subseteq P
  <2> HIDE DEF P, n
  <2> QED BY <1>1, <1>10, <1>11, Climb
<1>13. n \in 0 .. n
    BY <1>1
<1> QED
    BY <1>2, <1>12, <1>13 DEF X

\* The second loop: the elements that the first one has taken are left alone.
LEMMA SecondLoop ==
    ASSUME NEW V, Values(V), NEW old, AreChildren(old, V), NEW els, AreElements(els, V),
           NEW track \in BOOLEAN, NEW s \in InStepped(V, old, els, track)
    PROVE  Diffed(Fold(LAMBDA acc, n : ByKey(acc, n, els, track), s, Positions(els)), Len(els),
                  old, els, track, V)
<1> DEFINE n == Len(els)
           X == Accs(V)
           Step1(t, i) == ByKey(t, i, els, track)
           F == [i \in 1 .. n |-> [t \in X |-> IF Step1(t, i) \in X THEN Step1(t, i) ELSE t]]
           Step(g) == [i \in 0 .. n |-> IF i = 0 THEN s ELSE Step1(g[i - 1], i)]
           after == CHOOSE g : g = Step(g)
           done(i) == IF i < s.n THEN s.n - 1 ELSE i
           Good(t, i) == t \in X /\ t.n = s.n /\ Diffed(t, done(i), old, els, track, V)
<1>1. n \in Nat /\ Len(Positions(els)) = n /\ \A i \in 1 .. n : Positions(els)[i] = i
    BY DEF AreElements, Positions
<1>2. Fold(LAMBDA acc, i : ByKey(acc, i, els, track), s, Positions(els)) = after[n]
  <2>1. ASSUME NEW g, NEW i \in 0 .. n
        PROVE  (IF i = 0 THEN s ELSE With(g[i - 1], LAMBDA a : ByKey(a, Positions(els)[i], els, track)))
                  = IF i = 0 THEN s ELSE Step1(g[i - 1], i)
    <3>1. CASE i = 0
        BY <3>1
    <3>2. CASE i # 0
      <4>1. Positions(els)[i] = i
          BY <3>2, <1>1
      <4>2. With(g[i - 1], LAMBDA a : ByKey(a, Positions(els)[i], els, track))
               = ByKey(g[i - 1], Positions(els)[i], els, track)
          BY DEF With
      <4> QED BY <3>2, <4>1, <4>2
    <3> QED BY <3>1, <3>2
  <2>2. \A g : [i \in 0 .. n |->
                  IF i = 0 THEN s
                  ELSE With(g[i - 1], LAMBDA a : ByKey(a, Positions(els)[i], els, track))] = Step(g)
      BY <2>1
  <2> HIDE DEF Step
  <2>3. Fold(LAMBDA acc, i : ByKey(acc, i, els, track), s, Positions(els))
          = (CHOOSE g : g = [i \in 0 .. n |->
                  IF i = 0 THEN s
                  ELSE With(g[i - 1], LAMBDA a : ByKey(a, Positions(els)[i], els, track))])[n]
      BY <1>1 DEF Fold, Stages
  <2> QED BY <2>2, <2>3
<1>3. s \in X /\ s.n \in 1 .. n + 1 /\ Diffed(s, s.n - 1, old, els, track, V)
    BY DEF InStepped
<1>4. Good(s, 0)
    BY <1>1, <1>3
<1>5. ASSUME NEW t, NEW i \in 1 .. n, Good(t, i - 1) PROVE Good(Step1(t, i), i)
  <2>1. t \in X /\ t.n = s.n /\ Diffed(t, done(i - 1), old, els, track, V)
      BY <1>5
  <2> DEFINE next == Step1(t, i)
  <2>2. CASE i < s.n
    <3>1. next = t
        BY <2>1, <2>2 DEF ByKey
    <3>2. done(i) = done(i - 1)
        BY <2>2, <1>1, <1>3
    <3> HIDE DEF next, done
    <3> QED BY <2>1, <3>1, <3>2 DEF next
  <2>3. CASE ~(i < s.n) /\ els[i] = Hole
    <3>1. next = t
        BY <2>3 DEF ByKey
    <3>2. done(i - 1) = i - 1 /\ done(i) = i
        BY <2>3, <1>1, <1>3
    <3>3. Diffed(t, i, old, els, track, V)
        BY <2>1, <2>3, <3>2, HoleDiffed
    <3> HIDE DEF next, done
    <3> QED BY <2>1, <3>1, <3>2, <3>3 DEF next
  <2>4. CASE ~(i < s.n) /\ els[i] # Hole
    <3>1. done(i - 1) = i - 1 /\ done(i) = i
        BY <2>4, <1>1, <1>3
    <3>2. Accounted(t, old) /\ Diffed(t, i - 1, old, els, track, V)
        BY <2>1, <3>1 DEF Diffed
    <3>3. /\ next.n = t.n /\ next \in X
          /\ \E w, gone, dead : Takes(t, next, i, w, gone, dead, els, track, V)
      <4>1. t \in Accs(V) /\ i >= t.n /\ els[i] # Hole /\ i \in 1 .. Len(els)
          BY <1>3, <2>1, <2>4
      <4> HIDE DEF Good, n
      <4> QED BY <4>1, <3>2, ByKeyIs
    <3> HIDE DEF next, done
    <3>4. Diffed(next, i, old, els, track, V)
        BY <3>2, <3>3, TakenDiffed
    <3> QED BY <2>1, <3>1, <3>3, <3>4 DEF next
  <2> QED BY <2>2, <2>3, <2>4
<1>6. ASSUME NEW t, NEW i, Good(t, i) PROVE t \in X
    BY <1>6
<1> HIDE DEF Step1, X, Good
<1>7. F \in [1 .. n -> [X -> X]]
    OBVIOUS
<1>8. PICK f : AreStages(f, X, s, n, F)
  <2> HIDE DEF F, n
  <2> QED BY <1>1, <1>3, <1>7, StagesExist
<1>9. f \in [0 .. n -> X] /\ f[0] = s /\ \A i \in 1 .. n : f[i] = F[i][f[i - 1]]
  <2> HIDE DEF F
  <2> QED BY <1>8 DEF AreStages
<1>10. ASSUME NEW i \in 1 .. n, Good(f[i - 1], i - 1) PROVE f[i] = Step1(f[i - 1], i)
  <2>1. Good(Step1(f[i - 1], i), i)
      BY <1>5, <1>10
  <2>2. Step1(f[i - 1], i) \in X /\ f[i - 1] \in X
      BY <1>6, <1>10, <2>1
  <2>3. F[i][f[i - 1]] = Step1(f[i - 1], i)
      BY <2>2
  <2> HIDE DEF F
  <2> QED BY <1>9, <2>3
<1> HIDE DEF F
<1> DEFINE P == {i \in 0 .. n : Good(f[i], i)}
<1>11. 0 .. n \subseteq P
  <2>1. 0 \in P
      BY <1>1, <1>4, <1>9
  <2>2. ASSUME NEW i \in 1 .. n, i - 1 \in P PROVE i \in P
      BY <1>5, <1>10, <2>2
  <2> HIDE DEF P, n
  <2> QED BY <1>1, <2>1, <2>2, Climb
<1>12. \A i \in 1 .. n : f[i] = Step1(f[i - 1], i)
    BY <1>1, <1>10, <1>11
<1>13. f = Step(f)
  <2>1. f = [i \in 0 .. n |-> f[i]]
      BY <1>9
  <2>2. \A i \in 0 .. n : f[i] = IF i = 0 THEN s ELSE Step1(f[i - 1], i)
    <3>1. \A i \in 0 .. n : i = 0 \/ i \in 1 .. n
        BY <1>1
    <3> QED BY <3>1, <1>9, <1>12
  <2> QED BY <2>1, <2>2
<1>14. after = Step(after)
  <2> HIDE DEF Step
  <2> QED BY <1>13
<1>15. after[0] = s /\ \A i \in 1 .. n : after[i] = Step1(after[i - 1], i)
  <2>1. \A g : Step(g)[0] = s /\ \A i \in 1 .. n : Step(g)[i] = Step1(g[i - 1], i)
      BY <1>1
  <2> HIDE DEF after, Step
  <2> QED BY <2>1, <1>14
<1> HIDE DEF after, P
<1> DEFINE Q == {i \in 0 .. n : Good(after[i], i)}
<1>16. 0 .. n \subseteq Q
  <2>1. 0 \in Q
      BY <1>1, <1>4, <1>15
  <2>2. ASSUME NEW i \in 1 .. n, i - 1 \in Q PROVE i \in Q
    <3>1. Good(after[i - 1], i - 1)
        BY <2>2
    <3>2. Good(Step1(after[i - 1], i), i)
        BY <1>5, <3>1
    <3> QED BY <1>15, <3>2
  <2> HIDE DEF Q, n
  <2> QED BY <1>1, <2>1, <2>2, Climb
<1>17. Good(after[n], n)
    BY <1>1, <1>16
<1>18. done(n) = n
    BY <1>1, <1>3
<1> HIDE DEF done
<1> QED
    BY <1>2, <1>17, <1>18 DEF Good

-----------------------------------------------------------------------------
(* What an array of children becomes.                                      *)

\* The old child f is one of the children made.
KeptIn(work, f) == \E k \in 1 .. Len(work) : work[k].fiber.id = f.id

\* Every element but the holes has one child, in their order.
InOrderOf(work, els) ==
    /\ \A k \in 1 .. Len(work) :
           LET w == work[k]
           IN  /\ w.fiber.index \in 0 .. Len(els) - 1 /\ w.el = els[w.fiber.index + 1] /\ w.el # Hole
               /\ w.fiber.type = w.el.type /\ w.fiber.key = w.el.key
    /\ \A j, k \in 1 .. Len(work) : j < k => work[j].fiber.index < work[k].fiber.index
    /\ \A m \in 1 .. Len(els) : els[m] # Hole => \E k \in 1 .. Len(work) : work[k].fiber.index = m - 1

\* A child is the old child f exactly if f has the type of its element and its
\* key, or its place if neither has a key.
MatchedByKey(work, old) ==
    \A k \in 1 .. Len(work) : \A f \in ToSet(old) :
        work[k].fiber.id = f.id <=>
            MapKey(f) = ElementKey(work[k].el, work[k].fiber.index) /\ f.type = work[k].el.type

\* The id of a child that is not new is that of an old child, and of no other child.
OldOrNew(work, old) ==
    /\ \A k \in 1 .. Len(work) : IsNew(work[k].fiber) \/ \E f \in ToSet(old) : work[k].fiber.id = f.id
    /\ \A j, k \in 1 .. Len(work) :
           j # k /\ ~IsNew(work[j].fiber) => work[j].fiber.id # work[k].fiber.id

\* The old children that are not kept are deleted, once.
KeptOrDeleted(work, dels, old) ==
    /\ IsInjective(dels) /\ ToSet(dels) \subseteq ToSet(old)
    /\ \A f \in ToSet(old) : f \in ToSet(dels) <=> ~KeptIn(work, f)

\* A new child is placed.  The others are moved only where they have to be: those
\* that stay are in their old order, and one that moves was before one that stays
\* and is now behind it.
MovedAsNeeded(work, old) ==
    LET stays(k) == ~IsNew(work[k].fiber) /\ ~work[k].fiber.placed
        is(k, f) == work[k].fiber.id = f.id
    IN  /\ \A k \in 1 .. Len(work) : IsNew(work[k].fiber) => work[k].fiber.placed
        /\ \A j, k \in 1 .. Len(work) : \A f, g \in ToSet(old) :
               j < k /\ stays(j) /\ stays(k) /\ is(j, f) /\ is(k, g) => f.index < g.index
        /\ \A k \in 1 .. Len(work) : \A g \in ToSet(old) :
               is(k, g) /\ work[k].fiber.placed =>
                   \E j \in 1 .. k - 1 : \E f \in ToSet(old) : stays(j) /\ is(j, f) /\ g.index < f.index

\* What both loops leave, and the result made of it.
IsDiff(r, all, old, els, track, V) ==
    /\ Diffed(all, Len(els), old, els, track, V)
    /\ r.work = all.work
    /\ track => r.dels = all.dels \o all.existing

\* The result is made of an acc that is right for all the elements.
LEMMA ArrayIs ==
    ASSUME NEW V, Values(V), NEW old, AreChildren(old, V), NEW els, AreElements(els, V),
           NEW track \in BOOLEAN, track \/ old = <<>>
    PROVE  \E all : IsDiff(reconcileChildrenArray(old, els, track), all, old, els, track, V)
<1> DEFINE s == Fold(LAMBDA acc, n : InStep(acc, n, els, track), NothingDone(old), Positions(els))
           all == Fold(LAMBDA acc, n : ByKey(acc, n, els, track), s, Positions(els))
<1>1. s \in InStepped(V, old, els, track)
    BY FirstLoop
<1>2. reconcileChildrenArray(old, els, track) =
          [work |-> all.work, dels |-> all.dels \o (IF track THEN all.existing ELSE <<>>)]
    BY DEF reconcileChildrenArray
<1> HIDE DEF s
<1>3. Diffed(all, Len(els), old, els, track, V)
    BY <1>1, SecondLoop
<1> HIDE DEF all
<1> DEFINE r == reconcileChildrenArray(old, els, track)
<1>4. r.work = all.work /\ (track => r.dels = all.dels \o all.existing)
  <2> HIDE DEF r
  <2>1. r = [work |-> all.work, dels |-> all.dels \o (IF track THEN all.existing ELSE <<>>)]
      BY <1>2 DEF r
  <2> QED BY <2>1
<1> HIDE DEF r
<1>5. IsDiff(r, all, old, els, track, V)
    BY <1>3, <1>4 DEF IsDiff
<1> QED BY <1>5 DEF r

\* The children that an array makes are those of its elements, and the old ones
\* among them are those with the same key, or the same place, and type
\* (reconcileChildrenArray: the loop in step and the one through the map).
THEOREM ChildrenAreMatched ==
    ASSUME NEW V, Values(V), NEW old, AreChildren(old, V), NEW els, AreElements(els, V),
           NEW track \in BOOLEAN, track \/ old = <<>>
    PROVE  LET work == reconcileChildrenArray(old, els, track).work
           IN  /\ work \in Seq([fiber : FiberRecords(V), el : Elements(V)])
               /\ InOrderOf(work, els) /\ MatchedByKey(work, old) /\ OldOrNew(work, old)
<1>1. PICK all : IsDiff(reconcileChildrenArray(old, els, track), all, old, els, track, V)
    BY ArrayIs
<1>2. reconcileChildrenArray(old, els, track).work = all.work
    BY <1>1 DEF IsDiff
<1>3. /\ all \in Accs(V) /\ Accounted(all, old) /\ Covered(all, Len(els), els)
      /\ Matched(all, Len(els), old, els)
    BY <1>1 DEF IsDiff, Diffed
<1>4. all.work \in Seq([fiber : FiberRecords(V), el : Elements(V)])
    BY <1>3 DEF Accs
<1>5. InOrderOf(all.work, els)
    BY <1>3 DEF Covered, InOrderOf
<1>6. MatchedByKey(all.work, old)
    BY <1>3 DEF Matched, IsKept, MatchedByKey
<1>7. OldOrNew(all.work, old)
    BY <1>3 DEF Accounted, IsKept, OldOrNew
<1> QED
    BY <1>2, <1>4, <1>5, <1>6, <1>7

\* Two sequences without repetition and without a common element.
LEMMA ConcatIs ==
    ASSUME NEW S, NEW s \in Seq(S), NEW t \in Seq(S), Distinct(s), Distinct(t),
           \A x \in ToSet(s) : x \notin ToSet(t)
    PROVE  /\ s \o t \in Seq(S) /\ ToSet(s \o t) = ToSet(s) \cup ToSet(t) /\ Distinct(s \o t)
<1> DEFINE r == s \o t
           m == Len(s)
           n == Len(t)
<1>1. /\ m \in Nat /\ n \in Nat /\ DOMAIN s = 1 .. m /\ DOMAIN t = 1 .. n
      /\ r \in Seq(S) /\ Len(r) = m + n
      /\ \A i \in 1 .. m + n : r[i] = IF i <= m THEN s[i] ELSE t[i - m]
    BY ConcatProperties
<1>2. DOMAIN r = 1 .. m + n
    BY <1>1
<1> HIDE DEF r, m, n
<1>3. ASSUME NEW i \in 1 .. m + n
      PROVE  \/ i \in 1 .. m /\ r[i] = s[i] /\ s[i] \in ToSet(s)
             \/ i - m \in 1 .. n /\ i > m /\ r[i] = t[i - m] /\ t[i - m] \in ToSet(t)
  <2>1. CASE i <= m
    <3>1. i \in 1 .. m /\ r[i] = s[i]
        BY <2>1, <1>1
    <3> QED BY <3>1, <1>1 DEF ToSet
  <2>2. CASE ~(i <= m)
    <3>1. i - m \in 1 .. n /\ i > m /\ r[i] = t[i - m]
        BY <2>2, <1>1
    <3> QED BY <3>1, <1>1 DEF ToSet
  <2> QED BY <2>1, <2>2
<1>4. ToSet(r) = ToSet(s) \cup ToSet(t)
  <2>1. ASSUME NEW i \in 1 .. m PROVE s[i] \in ToSet(r)
    <3>1. i \in 1 .. m + n /\ r[i] = s[i]
        BY <1>1
    <3> QED BY <3>1, <1>2 DEF ToSet
  <2>2. ASSUME NEW i \in 1 .. n PROVE t[i] \in ToSet(r)
    <3>1. m + i \in 1 .. m + n /\ ~(m + i <= m) /\ (m + i) - m = i
        BY <1>1
    <3>2. r[m + i] = t[i]
        BY <3>1, <1>1
    <3> QED BY <3>1, <3>2, <1>2 DEF ToSet
  <2> QED BY <1>1, <1>2, <1>3, <2>1, <2>2 DEF ToSet
<1>5. ASSUME NEW i \in 1 .. m + n, NEW j \in 1 .. m + n, r[i] = r[j] PROVE i = j
  <2>1. CASE i \in 1 .. m /\ r[i] = s[i] /\ s[i] \in ToSet(s)
    <3>1. j \in 1 .. m /\ r[j] = s[j]
        BY <2>1, <1>3, <1>5
    <3> QED BY <2>1, <3>1, <1>5 DEF Distinct, m
  <2>2. CASE i - m \in 1 .. n /\ i > m /\ r[i] = t[i - m] /\ t[i - m] \in ToSet(t)
    <3>1. j - m \in 1 .. n /\ j > m /\ r[j] = t[j - m]
        BY <2>2, <1>3, <1>5
    <3>2. i - m = j - m
        BY <2>2, <3>1, <1>5 DEF Distinct, n
    <3> QED BY <3>2, <1>1
  <2> QED BY <2>1, <2>2, <1>3
<1> QED
    BY <1>1, <1>4, <1>5 DEF r, Distinct

\* Every old child either goes on as one of the new ones or is deleted, once
\* (reconcileChildrenArray: deleteRemainingChildren and the rest of the map).
THEOREM ChildrenAreKeptOrDeleted ==
    ASSUME NEW V, Values(V), NEW old, AreChildren(old, V), NEW els, AreElements(els, V)
    PROVE  LET r == reconcileChildrenArray(old, els, TRUE)
           IN  KeptOrDeleted(r.work, r.dels, old)
<1>1. PICK all : IsDiff(reconcileChildrenArray(old, els, TRUE), all, old, els, TRUE, V)
  <2>1. TRUE \in BOOLEAN
      OBVIOUS
  <2> QED BY <2>1, ArrayIs
<1> DEFINE r == reconcileChildrenArray(old, els, TRUE)
<1>2. r.work = all.work /\ r.dels = all.dels \o all.existing
    BY <1>1 DEF IsDiff
<1> HIDE DEF r
<1>3. all \in Accs(V) /\ Accounted(all, old)
    BY <1>1 DEF IsDiff, Diffed
<1>4. /\ all.dels \in Seq(FiberRecords(V)) /\ all.existing \in Seq(FiberRecords(V))
      /\ Distinct(all.dels) /\ Distinct(all.existing)
      /\ ToSet(all.dels) \subseteq ToSet(old) /\ ToSet(all.existing) \subseteq ToSet(old)
    BY <1>3 DEF Accs, Accounted
<1>5. \A x \in ToSet(all.dels) : x \notin ToSet(all.existing)
    BY <1>3, <1>4 DEF Accounted
<1>6. ToSet(r.dels) = ToSet(all.dels) \cup ToSet(all.existing) /\ IsInjective(r.dels)
  <2>1. /\ r.dels \in Seq(FiberRecords(V)) /\ Distinct(r.dels)
        /\ ToSet(r.dels) = ToSet(all.dels) \cup ToSet(all.existing)
      BY <1>2, <1>4, <1>5, ConcatIs
  <2> QED BY <2>1, SequenceElements DEF Distinct
<1>7. ASSUME NEW f \in ToSet(old)
      PROVE  (f \in ToSet(all.dels) \/ f \in ToSet(all.existing)) <=> ~KeptIn(all.work, f)
    BY <1>3 DEF Accounted, IsKept, KeptIn
<1>8. KeptOrDeleted(r.work, r.dels, old)
    BY <1>2, <1>4, <1>6, <1>7 DEF KeptOrDeleted
<1> QED
    BY <1>8 DEF r

\* A new child is placed, and an old one is moved only where it has to be
\* (placeChild and lastPlacedIndex).
THEOREM ChildrenAreMovedAsNeeded ==
    ASSUME NEW V, Values(V), NEW old, AreChildren(old, V), NEW els, AreElements(els, V)
    PROVE  MovedAsNeeded(reconcileChildrenArray(old, els, TRUE).work, old)
<1>1. PICK all : IsDiff(reconcileChildrenArray(old, els, TRUE), all, old, els, TRUE, V)
  <2>1. TRUE \in BOOLEAN
      OBVIOUS
  <2> QED BY <2>1, ArrayIs
<1>2. reconcileChildrenArray(old, els, TRUE).work = all.work
    BY <1>1 DEF IsDiff
<1>3. Moved(all, old)
    BY <1>1 DEF IsDiff, Diffed
<1>4. MovedAsNeeded(all.work, old)
    BY <1>3 DEF Moved, MovedAsNeeded, Stays, IsKept
<1> QED
    BY <1>2, <1>4

\* The children are what the next render takes for the old ones, once the new
\* among them have ids of their own: the order of the indexes and the difference
\* of the ids and keys go on from render to render.
THEOREM ChildrenAreChildrenAgain ==
    ASSUME NEW V, Values(V), NEW old, AreChildren(old, V), NEW els, AreElements(els, V),
           NEW track \in BOOLEAN, track \/ old = <<>>,
           NEW kids \in Seq(FiberRecords(V)),
           LET work == reconcileChildrenArray(old, els, track).work
           IN  /\ Len(kids) = Len(work)
               /\ \A k \in 1 .. Len(work) :
                      /\ kids[k].index = work[k].fiber.index /\ kids[k].key = work[k].fiber.key
                      /\ IF IsNew(work[k].fiber)
                         THEN /\ ~IsNew(kids[k]) /\ \A f \in ToSet(old) : f.id # kids[k].id
                              /\ \A j \in 1 .. Len(work) : j # k => kids[j].id # kids[k].id
                         ELSE kids[k].id = work[k].fiber.id
    PROVE  AreChildren(kids, V)
<1> DEFINE work == reconcileChildrenArray(old, els, track).work
<1>1. /\ work \in Seq([fiber : FiberRecords(V), el : Elements(V)])
      /\ InOrderOf(work, els) /\ OldOrNew(work, old)
    BY ChildrenAreMatched
<1>2. /\ Len(kids) = Len(work)
      /\ \A k \in 1 .. Len(work) :
             /\ kids[k].index = work[k].fiber.index /\ kids[k].key = work[k].fiber.key
             /\ IF IsNew(work[k].fiber)
                THEN ~IsNew(kids[k]) /\ \A j \in 1 .. Len(work) : j # k => kids[j].id # kids[k].id
                ELSE kids[k].id = work[k].fiber.id
    OBVIOUS
<1> HIDE DEF work
<1>3. Len(work) \in Nat
    BY <1>1
<1>4. \A k \in 1 .. Len(kids) : ~IsNew(kids[k])
    BY <1>2 DEF IsNew
<1>5. \A i, j \in 1 .. Len(kids) : i < j => kids[i].index < kids[j].index
    BY <1>1, <1>2 DEF InOrderOf
<1>6. ASSUME NEW i \in 1 .. Len(kids), NEW j \in 1 .. Len(kids), i # j
      PROVE  kids[i].id # kids[j].id
  <2>1. CASE IsNew(work[i].fiber)
      BY <2>1, <1>2, <1>6
  <2>2. CASE IsNew(work[j].fiber)
      BY <2>2, <1>2, <1>6
  <2>3. CASE ~IsNew(work[i].fiber) /\ ~IsNew(work[j].fiber)
      BY <2>3, <1>1, <1>2, <1>6 DEF OldOrNew
  <2> QED BY <2>1, <2>2, <2>3
<1>7. ASSUME NEW i \in 1 .. Len(kids), NEW j \in 1 .. Len(kids), i # j
      PROVE  kids[i].key = NoKey \/ kids[i].key # kids[j].key
  <2> DEFINE I == kids[i].index
             J == kids[j].index
  <2>1. I \in 0 .. Len(els) - 1 /\ J \in 0 .. Len(els) - 1 /\ Len(els) \in Nat
    <3>1. \A k \in 1 .. Len(kids) : kids[k].index \in 0 .. Len(els) - 1
        BY <1>1, <1>2 DEF InOrderOf
    <3>2. Len(els) \in Nat
        BY DEF AreElements
    <3> QED BY <3>1, <3>2
  <2>2. kids[i].key = els[I + 1].key /\ kids[j].key = els[J + 1].key
    <3>1. ASSUME NEW k \in 1 .. Len(work)
          PROVE  work[k].fiber.key = els[work[k].fiber.index + 1].key
        BY <1>1 DEF InOrderOf
    <3>2. ASSUME NEW k \in 1 .. Len(work) PROVE kids[k].key = els[kids[k].index + 1].key
      <4>1. kids[k].index = work[k].fiber.index /\ kids[k].key = work[k].fiber.key
          BY <1>2
      <4> QED BY <3>1, <4>1
    <3> QED BY <1>2, <3>2
  <2>3. I # J
    <3>1. i < j \/ j < i
        BY <1>3, <1>2, <1>7
    <3> QED BY <3>1, <1>5, <2>1
  <2> HIDE DEF I, J
  <2>4. I + 1 \in 1 .. Len(els) /\ J + 1 \in 1 .. Len(els) /\ I + 1 # J + 1
      BY <2>1, <2>3
  <2> QED BY <2>2, <2>4 DEF AreElements
<1> QED
    BY <1>4, <1>5, <1>6, <1>7 DEF AreChildren

\* The one child of a single element is an old child of its type, the first with
\* its key, or a new one, and all the other old children are deleted, once
\* (reconcileSingleElement and reconcileSingleTextNode).
THEOREM SingleChildIsKeptOrDeleted ==
    ASSUME NEW V, NEW old, AreChildren(old, V), NEW el
    PROVE  LET r == reconcileSingleElement(old, el, TRUE)
               w == r.work[1].fiber
           IN  /\ Len(r.work) = 1 /\ r.work[1].el = el /\ w.type = el.type
               /\ IsNew(w) <=> w.placed
               /\ IsNew(w) \/ \E f \in ToSet(old) : w.id = f.id
               /\ KeptOrDeleted(r.work, r.dels, old)
<1> DEFINE r == reconcileSingleElement(old, el, TRUE)
           candidates == {i \in 1 .. Len(old) : IF el.type = "#text" THEN i = 1 ELSE old[i].key = el.key}
           reused == {i \in candidates : old[i].type = el.type /\ \A j \in candidates : i <= j}
           at == CHOOSE i \in reused : TRUE
           fiber == IF reused = {} THEN [createFiber(el) EXCEPT !.placed = TRUE] ELSE useFiber(old[at])
           dels == IF reused = {} THEN old ELSE RemoveAt(old, at)
<1>1. r = [work |-> <<[fiber |-> fiber, el |-> el]>>, dels |-> dels]
    BY DEF reconcileSingleElement
<1>2. r.work[1].fiber = fiber /\ r.work[1].el = el /\ Len(r.work) = 1 /\ r.dels = dels
  <2> HIDE DEF fiber, dels, r
  <2> QED BY <1>1
<1>3. old \in Seq(FiberRecords(V)) /\ DOMAIN old = 1 .. Len(old)
    BY DEF AreChildren
<1>4. \A f \in ToSet(old) : f.id \in Nat \ {0} /\ \A g \in ToSet(old) : f.id = g.id => f = g
    BY MapKeysDiffer
<1>5. Distinct(old)
  <2>1. \A i, j \in 1 .. Len(old) : i # j => old[i].id # old[j].id
      BY DEF AreChildren
  <2> QED BY <2>1 DEF Distinct
<1> HIDE DEF r
<1>6. ASSUME NEW f \in ToSet(old) PROVE KeptIn(r.work, f) <=> fiber.id = f.id
  <2> HIDE DEF fiber
  <2> QED BY <1>2 DEF KeptIn
<1>7. CASE reused = {}
  <2>1. fiber.id = 0 /\ fiber.placed = TRUE /\ fiber.type = el.type /\ dels = old
      BY <1>7 DEF createFiber
  <2> HIDE DEF fiber, dels
  <2>2. IsInjective(old)
      BY <1>3, <1>5, SequenceElements DEF Distinct
  <2>3. KeptOrDeleted(r.work, r.dels, old)
      BY <1>2, <1>4, <1>6, <2>1, <2>2 DEF KeptOrDeleted
  <2> QED BY <1>2, <2>1, <2>3 DEF IsNew, r
<1>8. CASE reused # {}
  <2>1. at \in reused
      BY <1>8
  <2> HIDE DEF at
  <2>2. at \in 1 .. Len(old) /\ old[at].type = el.type
      BY <2>1
  <2>3. old[at] \in ToSet(old) /\ old[at] \in FiberRecords(V)
      BY <1>3, <2>2 DEF ToSet
  <2>4. fiber.id = old[at].id /\ fiber.placed = FALSE /\ fiber.type = el.type
      BY <1>8, <2>2, <2>3 DEF useFiber, FiberRecords
  <2>5. ToSet(dels) = ToSet(old) \ {old[at]} /\ IsInjective(dels)
    <3>1. /\ dels \in Seq(FiberRecords(V)) /\ Distinct(dels)
          /\ ToSet(dels) = ToSet(old) \ {old[at]}
        BY <1>3, <1>5, <1>8, <2>2, RemoveAtIs
    <3> HIDE DEF dels
    <3> QED BY <3>1, SequenceElements DEF Distinct
  <2> HIDE DEF fiber, dels, reused
  <2>6. KeptOrDeleted(r.work, r.dels, old)
      BY <1>2, <1>4, <1>6, <2>3, <2>4, <2>5 DEF KeptOrDeleted
  <2>7. ~IsNew(fiber)
      BY <1>4, <2>3, <2>4 DEF IsNew
  <2>8. \E f \in ToSet(old) : fiber.id = f.id
      BY <2>3, <2>4
  <2>9. IsNew(fiber) <=> fiber.placed
      BY <2>4, <2>7
  <2> QED BY <1>2, <2>4, <2>6, <2>8, <2>9 DEF r
<1> QED
    BY <1>7, <1>8
=============================================================================
