-------------------------- MODULE UpdateQueueProofs --------------------------
(***************************************************************************)
(* Proofs about module UpdateQueue, for any expiration times, any number   *)
(* of updates and captured errors, and any number of list nodes, whether   *)
(* updater functions make updates or not.                                  *)
(*                                                                         *)
(* What the store of list nodes holds is told in sequences: Ring(store,    *)
(* last, q) says that the circular list that ends with last is q, Line     *)
(* says it of the open list that the loop builds.  Lemmas tell what each   *)
(* change of links does to them (RingAppend, RingJoin, LineAppend,         *)
(* LineClose ...), that a store that agrees on a list has that list        *)
(* (RingFrame, LineFrame), and that New is in none of them (NewIs).        *)
(*                                                                         *)
(* On top of that are the updates in the lists.  Between two loops, the    *)
(* base state, the base queue and the new updates are all updates there    *)
(* are, in their order (Account), and those that were seen are the ones in *)
(* the base state and some that the queue has a Sync copy of (Queued).  In *)
(* the loop, four things take their place: the base state, the new base    *)
(* queue, the part of the base queue that was not looked at, and the new   *)
(* updates (Split, Working).  One lemma for each thing the code does to    *)
(* them: QueuedMore, QueuedCapture, QueuedJoin, BeginKeeps, SkipKeeps,     *)
(* RebaseKeeps, ApplyKeeps, PushKeeps, JoinKeeps, CloseKeeps.              *)
(*                                                                         *)
(* The invariant IInv says this of the queues of current and of the work   *)
(* in progress, with the same new updates, as long as list is not spoilt;  *)
(* each action keeps it.  What the runs check of UpdateQueue follows.      *)
(* Walk and Fold are functions from an interval, and what they return is   *)
(* shown with NoSmallest in place of an induction.                         *)
(***************************************************************************)
EXTENDS UpdateQueue, SequenceTheorems, WellFoundedInduction, FiniteSetTheorems, TLAPS

\* A set of numbers that has none without a smaller one is empty: induction
\* without an operator.
LEMMA NoSmallest ==
    ASSUME NEW S \in SUBSET Nat,
           \A n \in S : \E m \in S : m < n
    PROVE  S = {}
<1> SUFFICES ASSUME S # {} PROVE FALSE
    OBVIOUS
<1>1. PICK x \in S : \A y \in S : ~ (<<y, x>> \in OpToRel(<, Nat))
    <2> HIDE DEF IsWellFoundedOn
    <2> QED BY NatLessThanWellFounded, WFMin, Zenon
<1>2. PICK y \in S : y < x
    OBVIOUS
<1> QED
    BY <1>1, <1>2 DEF OpToRel

-----------------------------------------------------------------------------
(* Lists *)

Stores ==
    [Nodes -> [of : 0 .. MaxUpdates, time : Times \cup {NoWork}, callback : BOOLEAN,
               next : Nodes \cup {Null}]]

\* The node behind n.
After(store, n) == IF n = Null THEN Null ELSE store[n].next

\* The nodes are numbers, and null is none of them.
LEMMA NodesAre == Nodes \subseteq Nat /\ Null \notin Nodes /\ Nodes = 1 .. MaxNodes /\ MaxNodes \in Nat
BY BoundsAssumption DEF Nodes, Null

\* Behind a node is a node, or nothing.
LEMMA AfterType ==
    ASSUME NEW store \in Stores, NEW n \in Nodes \cup {Null}
    PROVE  After(store, n) \in Nodes \cup {Null}
BY DEF After, Stores

\* Walk visits a node and then, again and again, the one behind.
LEMMA WalkIs ==
    ASSUME NEW store \in Stores, NEW n \in Nodes \cup {Null}
    PROVE  Walk(store, n) = [i \in Nodes |-> IF i = 1 THEN n ELSE After(store, Walk(store, n)[i - 1])]
           /\ Walk(store, n) \in [Nodes -> Nodes \cup {Null}]
<1> DEFINE next == [m \in Nodes \cup {Null} |-> IF m = Null THEN Null ELSE store[m].next]
           Is(f, k) == f = [i \in 1 .. k |-> IF i = 1 THEN n ELSE next[f[i - 1]]]
           Bad == {k \in Nat : ~ \E f : Is(f, k)}
           at == CHOOSE f : Is(f, MaxNodes)
<1>1. ASSUME NEW k \in Bad PROVE \E m \in Bad : m < k
  <2>1. k # 0
    <3>1. Is([i \in 1 .. 0 |-> n], 0)
        OBVIOUS
    <3> QED BY <3>1
  <2>2. k - 1 \in Nat /\ k - 1 < k
        BY <2>1
  <2>3. SUFFICES ASSUME NEW f, Is(f, k - 1) PROVE \E h : Is(h, k)
    <3> HIDE DEF Is
    <3> QED BY <2>2
  <2> HIDE DEF next
  <2> DEFINE g == [i \in 1 .. k |-> IF i = k THEN IF k = 1 THEN n ELSE next[f[k - 1]] ELSE f[i]]
  <2>4. \A i \in 1 .. k : g[i] = IF i = 1 THEN n ELSE next[g[i - 1]]
    <3> TAKE i \in 1 .. k
    <3>1. CASE i = k
        BY <2>1, <3>1
    <3>2. CASE i # k
        <4>1. i \in 1 .. (k - 1) /\ (i = 1 \/ i - 1 \in 1 .. (k - 1))
            BY <3>2
        <4>2. f[i] = IF i = 1 THEN n ELSE next[f[i - 1]]
            BY <2>3, <4>1
        <4>3. g[i] = f[i] /\ (i # 1 => g[i - 1] = f[i - 1])
            BY <3>2, <4>1
        <4> QED BY <4>2, <4>3
    <3> QED BY <3>1, <3>2
  <2>5. Is(g, k)
    <3> HIDE DEF g
    <3>1. g = [i \in 1 .. k |-> g[i]]
        BY DEF g
    <3> QED BY <2>4, <3>1
  <2> QED BY <2>5
<1>2. \E f : Is(f, MaxNodes)
  <2> HIDE DEF Is
  <2> QED BY <1>1, NoSmallest, NodesAre
<1>3. Is(at, MaxNodes)
  <2> HIDE DEF Is
  <2> QED BY <1>2
<1>4. Walk(store, n) = [i \in Nodes |-> at[i]]
    BY DEF Walk, Nodes
<1> HIDE DEF at
<1>5. Walk(store, n) = at
    BY <1>3, <1>4, NodesAre
<1>6. at = [i \in Nodes |-> IF i = 1 THEN n ELSE next[at[i - 1]]]
    BY <1>3, NodesAre
<1>7. at \in [Nodes -> Nodes \cup {Null}]
  <2>1. next \in [Nodes \cup {Null} -> Nodes \cup {Null}]
      BY DEF Stores
  <2> HIDE DEF next
  <2> DEFINE Off == {i \in Nodes : at[i] \notin Nodes \cup {Null}}
  <2>2. ASSUME NEW i \in Off PROVE \E m \in Off : m < i
    <3>1. i # 1 /\ at[i] = next[at[i - 1]] /\ i - 1 \in Nodes
        BY <1>6, NodesAre
    <3>2. i - 1 \in Off
        BY <2>1, <3>1
    <3> QED BY <3>1, <3>2, NodesAre
  <2>3. Off \in SUBSET Nat /\ \A i \in Off : \E m \in Off : m < i
      BY <2>2, NodesAre
  <2>4. Off = {}
    <3> HIDE DEF Off
    <3> QED BY <2>3, NoSmallest
  <2> QED BY <1>6, <2>4
<1>8. \A i \in Nodes : i # 1 => next[at[i - 1]] = After(store, at[i - 1])
    BY <1>7, NodesAre DEF After
<1> HIDE DEF next
<1>9. at = [i \in Nodes |-> IF i = 1 THEN n ELSE After(store, at[i - 1])]
    BY <1>6, <1>8
<1> QED BY <1>5, <1>7, <1>9

\* Different nodes, each the next of the one before.
Path(store, s) ==
    /\ s \in Seq(Nodes)
    /\ \A i, k \in 1 .. Len(s) : s[i] = s[k] => i = k
    /\ \A i \in 1 .. Len(s) - 1 : store[s[i]].next = s[i + 1]

\* The circular list s ends with last.
Ring(store, last, s) ==
    /\ Path(store, s)
    /\ last = Null => s = <<>>
    /\ last # Null => s # <<>> /\ s[Len(s)] = last /\ store[last].next = s[1]

\* The open list s goes from first to last.
Line(store, first, last, s) ==
    /\ Path(store, s)
    /\ last = Null => s = <<>>
    /\ last # Null => s # <<>> /\ s[Len(s)] = last /\ s[1] = first

\* Nodes are not in a list twice, so it has no more nodes than there are.
LEMMA PathLength ==
    ASSUME NEW store, NEW s, Path(store, s)
    PROVE  Len(s) \in Nat /\ Len(s) <= MaxNodes
<1>1. Len(s) \in Nat /\ s \in [1 .. Len(s) -> 1 .. MaxNodes]
    BY NodesAre DEF Path
<1>2. IsFiniteSet(1 .. Len(s)) /\ Cardinality(1 .. Len(s)) = Len(s)
    BY <1>1, FS_Interval
<1>3. IsFiniteSet(1 .. MaxNodes) /\ Cardinality(1 .. MaxNodes) = MaxNodes
    BY NodesAre, FS_Interval
<1>4. SUFFICES ASSUME MaxNodes < Len(s) PROVE FALSE
    BY <1>1, NodesAre
<1>5. \E x, y \in 1 .. Len(s) : x # y /\ s[x] = s[y]
    BY <1>1, <1>2, <1>3, <1>4, FS_PigeonHole
<1> QED BY <1>5 DEF Path

\* A walk that begins in a list follows it.
LEMMA WalkFollows ==
    ASSUME NEW store \in Stores, NEW s, Path(store, s), NEW n \in Nodes \cup {Null}, NEW d \in {0, 1},
           s # <<>>, d = 0 => s[1] = n, d = 1 => After(store, n) = s[1]
    PROVE  \A i \in 1 .. Len(s) : i + d <= MaxNodes => Walk(store, n)[i + d] = s[i]
<1> DEFINE w == Walk(store, n)
           Bad == {i \in 1 .. Len(s) : i + d <= MaxNodes /\ w[i + d] # s[i]}
<1>1. Len(s) \in Nat /\ s \in Seq(Nodes)
    BY PathLength DEF Path
<1>2. \A i \in Nodes : w[i] = IF i = 1 THEN n ELSE After(store, w[i - 1])
    BY WalkIs
<1> HIDE DEF w
<1>3. ASSUME NEW i \in Bad PROVE \E m \in Bad : m < i
  <2>1. i + d \in Nodes
      BY NodesAre
  <2>2. i # 1
    <3>1. ASSUME i = 1 PROVE w[i + d] = s[i]
      <4>1. CASE d = 0
          BY <1>2, <2>1, <3>1, <4>1
      <4>2. CASE d = 1
          <5>1. w[1] = n /\ w[2] = After(store, w[1])
              BY <1>2, <2>1, <3>1, <4>2, NodesAre
          <5> QED BY <3>1, <4>2, <5>1
      <4> QED BY <4>1, <4>2
    <3> QED BY <3>1
  <2>3. w[i + d] = After(store, w[i + d - 1])
      BY <1>2, <2>1, <2>2
  <2>4. i - 1 \in 1 .. Len(s) - 1 /\ (i - 1) + 1 = i /\ s[i - 1] \in Nodes
      BY <1>1, <2>2
  <2>5. store[s[i - 1]].next = s[i]
      BY <2>4 DEF Path
  <2>6. After(store, s[i - 1]) = s[i]
      BY <2>4, <2>5, NodesAre DEF After
  <2>7. w[i + d - 1] # s[i - 1]
      BY <2>3, <2>6
  <2>8. i - 1 \in Bad /\ i - 1 < i
      BY <1>1, <2>1, <2>4, <2>7, NodesAre
  <2> QED BY <2>8
<1>4. Bad \in SUBSET Nat /\ \A i \in Bad : \E m \in Bad : m < i
    BY <1>1, <1>3
<1>5. Bad = {}
  <2> HIDE DEF Bad
  <2> QED BY <1>4, NoSmallest
<1> QED BY <1>5 DEF w

\* List reads a circular list.
LEMMA ListIs ==
    ASSUME NEW store \in Stores, NEW last \in Nodes \cup {Null}, NEW s, Ring(store, last, s)
    PROVE  List(store, last) = s
<1>1. CASE last = Null
    BY <1>1 DEF List, Ring
<1>2. CASE last # Null
  <2> DEFINE w == Walk(store, store[last].next)
             S == {i \in Nodes : w[i] = last}
  <2>1. Path(store, s) /\ s # <<>> /\ s[Len(s)] = last /\ store[last].next = s[1]
      BY <1>2 DEF Ring
  <2>2. Len(s) \in Nat /\ Len(s) <= MaxNodes /\ s \in Seq(Nodes) /\ Len(s) # 0
      BY <2>1, PathLength DEF Path
  <2>3. s[1] \in Nodes \cup {Null}
      BY <2>2
  <2>4. \A i \in 1 .. Len(s) : w[i] = s[i]
    <3>1. \A i \in 1 .. Len(s) : i + 0 <= MaxNodes => Walk(store, s[1])[i + 0] = s[i]
        BY <2>1, <2>3, WalkFollows
    <3> QED BY <2>1, <2>2, <3>1, NodesAre
  <2>5. w \in [Nodes -> Nodes \cup {Null}]
      BY <2>1, <2>3, WalkIs
  <2> HIDE DEF w
  <2>6. Len(s) \in S /\ \A i \in S : Len(s) <= i
    <3>1. Len(s) \in S
        BY <2>1, <2>2, <2>4, NodesAre
    <3>2. ASSUME NEW i \in S, i < Len(s) PROVE FALSE
        BY <2>1, <2>2, <2>4, <3>2, NodesAre DEF Path
    <3> QED BY <2>2, <3>1, <3>2, NodesAre
  <2>7. Min(S) = Len(s)
    <3> HIDE DEF S
    <3>1. \A x \in S : (\A y \in S : x <= y) => x = Len(s)
      <4>1. S \subseteq Nat
          BY NodesAre DEF S
      <4> QED BY <2>6, <4>1, <2>2
    <3> QED BY <2>6, <3>1 DEF Min
  <2>8. List(store, last) = SubSeq(w, 1, Len(s))
      BY <1>2, <2>7 DEF List, w
  <2>9. w \in Seq(Nodes \cup {Null}) /\ Len(w) = MaxNodes
      BY <2>5, NodesAre
  <2>10. SubSeq(w, 1, Len(s)) = s
      BY <2>2, <2>4, <2>9
  <2> QED BY <2>8, <2>10
<1> QED BY <1>1, <1>2

\* A list that no link of has changed is the same list.
LEMMA PathFrame ==
    ASSUME NEW store, NEW store2, NEW s, Path(store, s),
           \A i \in 1 .. Len(s) - 1 : store2[s[i]].next = store[s[i]].next
    PROVE  Path(store2, s)
BY DEF Path

\* A circular list whose links are the same is the same list.
LEMMA RingFrame ==
    ASSUME NEW store, NEW store2, NEW last, NEW s, Ring(store, last, s),
           \A n \in ToSet(s) : store2[n].next = store[n].next
    PROVE  Ring(store2, last, s)
<1>1. Path(store, s) /\ Len(s) \in Nat /\ s \in Seq(Nodes)
    BY PathLength DEF Ring, Path
<1>2. \A i \in 1 .. Len(s) : store2[s[i]].next = store[s[i]].next
    BY <1>1 DEF ToSet
<1>3. Path(store2, s)
    BY <1>1, <1>2, PathFrame
<1>4. last # Null => s # <<>> /\ s[Len(s)] = last /\ store2[last].next = s[1]
    BY <1>1, <1>2 DEF Ring
<1> QED BY <1>3, <1>4 DEF Ring

\* The same for an open list; what its last node links to does not matter.
LEMMA LineFrame ==
    ASSUME NEW store, NEW store2, NEW first, NEW last, NEW s, Line(store, first, last, s),
           \A n \in ToSet(s) : n # last => store2[n].next = store[n].next
    PROVE  Line(store2, first, last, s)
<1>1. Path(store, s) /\ Len(s) \in Nat /\ s \in Seq(Nodes)
    BY PathLength DEF Line, Path
<1>2. ASSUME NEW i \in 1 .. Len(s) - 1 PROVE store2[s[i]].next = store[s[i]].next
  <2>1. s[i] \in ToSet(s) /\ s[i] # s[Len(s)]
      BY <1>1 DEF ToSet, Path
  <2>2. s # <<>>
      BY <1>1
  <2> QED BY <2>1, <2>2 DEF Line
<1>3. Path(store2, s)
    BY <1>1, <1>2, PathFrame
<1> QED BY <1>3 DEF Line

\* Every node of a list is visited from its last node, or its first.
LEMMA RingCovered ==
    ASSUME NEW store \in Stores, NEW last \in Nodes, NEW s, Ring(store, last, s)
    PROVE  ToSet(s) \subseteq ToSet(Walk(store, last))
<1>1. Path(store, s) /\ s # <<>> /\ s[Len(s)] = last /\ After(store, last) = s[1]
    BY NodesAre DEF Ring, After
<1>2. Len(s) \in Nat /\ Len(s) <= MaxNodes /\ s \in Seq(Nodes)
    BY <1>1, PathLength DEF Path
<1> DEFINE w == Walk(store, last)
<1>3. \A i \in 1 .. Len(s) : i + 1 <= MaxNodes => w[i + 1] = s[i]
    BY <1>1, WalkFollows
<1>4. w[1] = last /\ DOMAIN w = Nodes
  <2>1. 1 \in Nodes
      BY <1>1, <1>2, NodesAre
  <2> QED BY <2>1, WalkIs
<1> HIDE DEF w
<1>5. ASSUME NEW i \in 1 .. Len(s) PROVE s[i] \in ToSet(w)
  <2>1. CASE i = Len(s)
      BY <1>1, <1>2, <1>4, <2>1, NodesAre DEF ToSet
  <2>2. CASE i # Len(s)
    <3>1. i + 1 \in Nodes /\ i + 1 <= MaxNodes
        BY <1>2, <2>2, NodesAre
    <3> QED BY <1>3, <1>4, <3>1 DEF ToSet
  <2> QED BY <2>1, <2>2
<1> QED BY <1>2, <1>5 DEF ToSet, w

\* The same for an open list, from its first node.
LEMMA LineCovered ==
    ASSUME NEW store \in Stores, NEW first \in Nodes, NEW last \in Nodes, NEW s,
           Line(store, first, last, s)
    PROVE  ToSet(s) \subseteq ToSet(Walk(store, first))
<1>1. Path(store, s) /\ s # <<>> /\ s[1] = first
    BY NodesAre DEF Line
<1>2. Len(s) \in Nat /\ Len(s) <= MaxNodes /\ s \in Seq(Nodes)
    BY <1>1, PathLength DEF Path
<1>3. \A i \in 1 .. Len(s) : i + 0 <= MaxNodes => Walk(store, first)[i + 0] = s[i]
    BY <1>1, WalkFollows
<1>4. DOMAIN Walk(store, first) = Nodes
    BY WalkIs
<1>5. \A i \in 1 .. Len(s) : i \in Nodes /\ Walk(store, first)[i] = s[i]
    BY <1>2, <1>3, NodesAre
<1> QED BY <1>2, <1>4, <1>5 DEF ToSet

\* The links inside the list s are the same.
LinksKept(store, store2, s) == \A i \in 1 .. Len(s) - 1 : store2[s[i]].next = store[s[i]].next

\* The last node of s is followed by n.
EndsAt(store, s, n) == s # <<>> => store[s[Len(s)]].next = n

\* One more node behind the last one, or before the first.
LEMMA PathAppend ==
    ASSUME NEW store, NEW store2, NEW s, Path(store, s), NEW n \in Nodes \ ToSet(s),
           LinksKept(store, store2, s), EndsAt(store2, s, n)
    PROVE  /\ Path(store2, Append(s, n)) /\ ToSet(Append(s, n)) = ToSet(s) \cup {n}
           /\ Len(Append(s, n)) = Len(s) + 1 /\ Append(s, n)[Len(s) + 1] = n
           /\ \A i \in 1 .. Len(s) : Append(s, n)[i] = s[i]
<1> DEFINE t == Append(s, n)
<1>1. s \in Seq(Nodes) /\ Len(s) \in Nat
    BY PathLength DEF Path
<1>2. /\ t \in Seq(Nodes) /\ Len(t) = Len(s) + 1 /\ t[Len(s) + 1] = n
      /\ \A i \in 1 .. Len(s) : t[i] = s[i]
    BY <1>1
<1> HIDE DEF t
<1>3. \A i \in 1 .. Len(s) : s[i] # n
    BY <1>1 DEF ToSet
<1>4. \A i, k \in 1 .. Len(t) : t[i] = t[k] => i = k
  <2> TAKE i, k \in 1 .. Len(t)
  <2>1. (i \in 1 .. Len(s) \/ i = Len(s) + 1) /\ (k \in 1 .. Len(s) \/ k = Len(s) + 1)
      BY <1>1, <1>2
  <2> QED BY <1>2, <1>3, <2>1 DEF Path
<1>5. \A i \in 1 .. Len(t) - 1 : store2[t[i]].next = t[i + 1]
  <2> TAKE i \in 1 .. Len(t) - 1
  <2>1. CASE i = Len(s)
    <3>1. s # <<>>
        BY <1>1, <2>1
    <3>2. t[i] = s[Len(s)] /\ t[i + 1] = n
        BY <1>1, <1>2, <2>1
    <3> QED BY <3>1, <3>2 DEF EndsAt
  <2>2. CASE i # Len(s)
    <3>1. i \in 1 .. Len(s) - 1 /\ i \in 1 .. Len(s) /\ i + 1 \in 1 .. Len(s)
        BY <1>1, <1>2, <2>2
    <3>2. t[i] = s[i] /\ t[i + 1] = s[i + 1]
        BY <1>2, <3>1
    <3> QED BY <3>1, <3>2 DEF Path, LinksKept
  <2> QED BY <2>1, <2>2
<1>6. ToSet(t) = ToSet(s) \cup {n}
  <2>1. DOMAIN t = 1 .. Len(s) + 1 /\ DOMAIN s = 1 .. Len(s)
      BY <1>1, <1>2
  <2>2. \A x : x \in ToSet(t) <=> \E i \in 1 .. Len(s) + 1 : t[i] = x
      BY <2>1 DEF ToSet
  <2>3. \A x : x \in ToSet(s) <=> \E i \in 1 .. Len(s) : s[i] = x
      BY <2>1 DEF ToSet
  <2>4. \A i \in 1 .. Len(s) + 1 : i \in 1 .. Len(s) \/ i = Len(s) + 1
      BY <1>1
  <2>5. Len(s) + 1 \in 1 .. Len(s) + 1 /\ 1 .. Len(s) \subseteq 1 .. Len(s) + 1
      BY <1>1
  <2>6. ToSet(t) \subseteq ToSet(s) \cup {n}
      BY <1>2, <2>2, <2>3, <2>4
  <2>7. ToSet(s) \cup {n} \subseteq ToSet(t)
      BY <1>2, <2>2, <2>3, <2>5
  <2> QED BY <2>6, <2>7
<1>7. Path(store2, t)
    BY <1>2, <1>4, <1>5 DEF Path
<1> QED BY <1>2, <1>6, <1>7 DEF t

\* Two lists one behind the other.
LEMMA PathJoin ==
    ASSUME NEW store, NEW store2, NEW q, NEW p, Path(store, q), Path(store, p),
           ToSet(q) \cap ToSet(p) = {}, q # <<>>, p # <<>>,
           LinksKept(store, store2, q), LinksKept(store, store2, p), EndsAt(store2, q, p[1])
    PROVE  /\ Path(store2, q \o p) /\ q \o p # <<>> /\ ToSet(q \o p) = ToSet(q) \cup ToSet(p)
           /\ Len(q \o p) = Len(q) + Len(p)
           /\ \A i \in 1 .. Len(q) : (q \o p)[i] = q[i]
           /\ \A i \in 1 .. Len(p) : (q \o p)[Len(q) + i] = p[i]
<1> DEFINE t == q \o p
<1>1. /\ q \in Seq(Nodes) /\ Len(q) \in Nat /\ p \in Seq(Nodes) /\ Len(p) \in Nat
      /\ Len(q) # 0 /\ Len(p) # 0
    BY PathLength DEF Path
<1>2. /\ t \in Seq(Nodes) /\ Len(t) = Len(q) + Len(p) /\ t # <<>>
      /\ \A i \in 1 .. Len(q) : t[i] = q[i]
      /\ \A i \in 1 .. Len(p) : t[Len(q) + i] = p[i]
    BY <1>1
<1> HIDE DEF t
<1>3. \A i \in 1 .. Len(t) : i \in 1 .. Len(q) \/ (i - Len(q) \in 1 .. Len(p) /\ i = Len(q) + (i - Len(q)))
    BY <1>1, <1>2
<1>4. \A i \in 1 .. Len(q), k \in 1 .. Len(p) : q[i] # p[k]
  <2>1. DOMAIN q = 1 .. Len(q) /\ DOMAIN p = 1 .. Len(p)
      BY <1>1
  <2> QED BY <2>1 DEF ToSet
<1>5. \A i, k \in 1 .. Len(t) : t[i] = t[k] => i = k
  <2> TAKE i, k \in 1 .. Len(t)
  <2>1. CASE i \in 1 .. Len(q) /\ k \in 1 .. Len(q)
      BY <1>2, <2>1 DEF Path
  <2>2. CASE i \notin 1 .. Len(q) /\ k \notin 1 .. Len(q)
    <3>1. /\ i - Len(q) \in 1 .. Len(p) /\ t[i] = p[i - Len(q)]
          /\ k - Len(q) \in 1 .. Len(p) /\ t[k] = p[k - Len(q)]
        BY <1>2, <1>3, <2>2
    <3>2. t[i] = t[k] => i - Len(q) = k - Len(q)
        BY <3>1 DEF Path
    <3> QED BY <1>1, <1>2, <3>2
  <2>3. CASE i \in 1 .. Len(q) /\ k \notin 1 .. Len(q)
    <3>1. t[i] = q[i] /\ k - Len(q) \in 1 .. Len(p) /\ t[k] = p[k - Len(q)]
        BY <1>2, <1>3, <2>3
    <3> QED BY <1>4, <2>3, <3>1
  <2>4. CASE i \notin 1 .. Len(q) /\ k \in 1 .. Len(q)
    <3>1. t[k] = q[k] /\ i - Len(q) \in 1 .. Len(p) /\ t[i] = p[i - Len(q)]
        BY <1>2, <1>3, <2>4
    <3> QED BY <1>4, <2>4, <3>1
  <2> QED BY <2>1, <2>2, <2>3, <2>4
<1>6. \A i \in 1 .. Len(t) - 1 : store2[t[i]].next = t[i + 1]
  <2> TAKE i \in 1 .. Len(t) - 1
  <2>1. CASE i \in 1 .. Len(q) - 1
    <3>1. i \in 1 .. Len(q) /\ i + 1 \in 1 .. Len(q)
        BY <1>1, <2>1
    <3>2. t[i] = q[i] /\ t[i + 1] = q[i + 1]
        BY <1>2, <3>1
    <3> QED BY <2>1, <3>2 DEF Path, LinksKept
  <2>2. CASE i = Len(q)
    <3>1. t[i] = q[Len(q)] /\ t[i + 1] = p[1]
        BY <1>1, <1>2, <2>2
    <3> QED BY <3>1 DEF EndsAt
  <2>3. CASE i \notin 1 .. Len(q)
    <3> DEFINE k == i - Len(q)
    <3>1. k \in 1 .. Len(p) - 1 /\ k \in 1 .. Len(p) /\ k + 1 \in 1 .. Len(p)
          /\ i = Len(q) + k /\ i + 1 = Len(q) + (k + 1)
        BY <1>1, <1>2, <2>3
    <3> HIDE DEF k
    <3>2. t[i] = p[k] /\ t[i + 1] = p[k + 1]
        BY <1>2, <3>1
    <3> QED BY <3>1, <3>2 DEF Path, LinksKept
  <2> QED BY <1>1, <2>1, <2>2, <2>3
<1>7. ToSet(t) = ToSet(q) \cup ToSet(p)
  <2>1. DOMAIN t = 1 .. Len(t) /\ DOMAIN q = 1 .. Len(q) /\ DOMAIN p = 1 .. Len(p)
      BY <1>1, <1>2
  <2>2. ToSet(t) \subseteq ToSet(q) \cup ToSet(p)
    <3>1. ASSUME NEW i \in 1 .. Len(t) PROVE t[i] \in ToSet(q) \cup ToSet(p)
      <4>1. CASE i \in 1 .. Len(q)
          BY <1>2, <2>1, <4>1 DEF ToSet
      <4>2. CASE i \notin 1 .. Len(q)
        <5>1. i - Len(q) \in 1 .. Len(p) /\ t[i] = p[i - Len(q)]
            BY <1>2, <1>3, <4>2
        <5> QED BY <2>1, <5>1 DEF ToSet
      <4> QED BY <4>1, <4>2
    <3> QED BY <2>1, <3>1 DEF ToSet
  <2>3. ToSet(q) \subseteq ToSet(t)
    <3>1. \A i \in 1 .. Len(q) : i \in 1 .. Len(t) /\ t[i] = q[i]
        BY <1>1, <1>2
    <3> QED BY <2>1, <3>1 DEF ToSet
  <2>4. ToSet(p) \subseteq ToSet(t)
    <3>1. \A i \in 1 .. Len(p) : Len(q) + i \in 1 .. Len(t) /\ t[Len(q) + i] = p[i]
        BY <1>1, <1>2
    <3> QED BY <2>1, <3>1 DEF ToSet
  <2> QED BY <2>2, <2>3, <2>4
<1> QED BY <1>2, <1>5, <1>6, <1>7 DEF Path, t

\* The empty list is a list.
LEMMA EmptyPath == ASSUME NEW store PROVE Path(store, <<>>) /\ ToSet(<<>>) = {}
<1>1. <<>> \in Seq(Nodes) /\ Len(<<>>) = 0 /\ DOMAIN <<>> = {}
    OBVIOUS
<1> QED BY <1>1 DEF Path, ToSet

\* One node is a list.
LEMMA SinglePath == ASSUME NEW store, NEW n \in Nodes PROVE Path(store, <<n>>) /\ ToSet(<<n>>) = {n}
<1>1. <<n>> \in Seq(Nodes) /\ Len(<<n>>) = 1 /\ DOMAIN <<n>> = 1 .. 1 /\ <<n>>[1] = n
    OBVIOUS
<1>2. \A i \in 1 .. 1 : i = 1
    OBVIOUS
<1>3. ToSet(<<n>>) = {n}
    BY <1>1, <1>2 DEF ToSet
<1> QED BY <1>1, <1>2, <1>3 DEF Path

\* The last node of a list is in it, and one of the nodes.
LEMMA LastIn ==
    ASSUME NEW store, NEW s, Path(store, s), s # <<>>
    PROVE  s[Len(s)] \in ToSet(s) /\ s[1] \in ToSet(s) /\ ToSet(s) \subseteq Nodes
           /\ Len(s) \in 1 .. Len(s) /\ 1 \in 1 .. Len(s)
<1>1. s \in Seq(Nodes) /\ Len(s) \in Nat /\ Len(s) # 0 /\ DOMAIN s = 1 .. Len(s)
    BY PathLength DEF Path
<1> QED BY <1>1 DEF ToSet

\* The links of the nodes in S are the same; n was put behind last, which may be
\* null; the ends of two lists were exchanged; last is followed by n.
Kept(store, store2, S) == \A m \in S : store2[m].next = store[m].next
Linked(store, store2, last, n) ==
    /\ last # Null => store2[last].next = n /\ store2[n].next = store[last].next
    /\ last = Null => store2[n].next = n
Swapped(store, store2, lastQ, lastP) ==
    store2[lastQ].next = store[lastP].next /\ store2[lastP].next = store[lastQ].next
Followed(store, last, n) == last # Null => store[last].next = n

\* What is done to the links: a node goes behind the last one of a circular list,
\* or before its first; a list goes behind another; an open list is continued, or closed.
LEMMA RingAppend ==
    ASSUME NEW store, NEW store2, NEW last, NEW s, Ring(store, last, s),
           NEW n \in Nodes \ ToSet(s),
           Kept(store, store2, ToSet(s) \ {last}), Linked(store, store2, last, n)
    PROVE  Ring(store2, n, Append(s, n)) /\ ToSet(Append(s, n)) = ToSet(s) \cup {n}
<1>1. Path(store, s) /\ Len(s) \in Nat /\ s \in Seq(Nodes) /\ DOMAIN s = 1 .. Len(s)
    BY PathLength DEF Ring, Path
<1> USE DEF Kept, Linked, Swapped, Followed
<1>2. last = Null <=> s = <<>>
    BY DEF Ring
<1>3. s # <<>> => s[Len(s)] = last /\ store2[last].next = n /\ store2[n].next = s[1]
    BY <1>2 DEF Ring
<1>4. LinksKept(store, store2, s)
  <2> SUFFICES ASSUME NEW i \in 1 .. Len(s) - 1 PROVE store2[s[i]].next = store[s[i]].next
      BY DEF LinksKept
  <2>1. s[i] \in ToSet(s) /\ s[i] # s[Len(s)] /\ s # <<>>
      BY <1>1 DEF ToSet, Path
  <2> QED BY <1>3, <2>1
<1> DEFINE t == Append(s, n)
<1>5. /\ Path(store2, t) /\ ToSet(t) = ToSet(s) \cup {n}
      /\ Len(t) = Len(s) + 1 /\ t[Len(s) + 1] = n /\ \A i \in 1 .. Len(s) : t[i] = s[i]
  <2>1. EndsAt(store2, s, n)
      BY <1>3 DEF EndsAt
  <2> QED BY <1>1, <1>4, <2>1, PathAppend
<1> HIDE DEF t
<1>6. t[Len(t)] = n /\ t # <<>> /\ t[1] = IF s = <<>> THEN n ELSE s[1]
    BY <1>1, <1>5
<1> QED BY <1>2, <1>3, <1>5, <1>6, NodesAre DEF Ring, t

\* A node put behind the last one of a circular list is its new first one.
LEMMA RingPrepend ==
    ASSUME NEW store, NEW store2, NEW last, NEW s, Ring(store, last, s),
           NEW n \in Nodes \ ToSet(s),
           Kept(store, store2, ToSet(s) \ {last}), Linked(store, store2, last, n)
    PROVE  /\ Ring(store2, IF last = Null THEN n ELSE last, <<n>> \o s)
           /\ ToSet(<<n>> \o s) = ToSet(s) \cup {n}
           /\ Len(<<n>> \o s) = Len(s) + 1 /\ (<<n>> \o s)[1] = n
           /\ \A i \in 1 .. Len(s) : (<<n>> \o s)[i + 1] = s[i]
<1>1. Path(store, s) /\ Len(s) \in Nat /\ s \in Seq(Nodes) /\ DOMAIN s = 1 .. Len(s)
    BY PathLength DEF Ring, Path
<1> USE DEF Kept, Linked, Swapped, Followed
<1>2. last = Null <=> s = <<>>
    BY DEF Ring
<1>3. CASE s = <<>>
  <2>1. <<n>> \o s = <<n>>
      BY <1>3
  <2>2. Ring(store2, n, <<n>>)
    <3>1. <<n>>[Len(<<n>>)] = n /\ <<n>> # <<>> /\ <<n>>[1] = n
        OBVIOUS
    <3> QED BY <1>2, <1>3, <3>1, SinglePath, NodesAre DEF Ring
  <2> QED BY <1>2, <1>3, <2>1, <2>2, SinglePath, EmptyPath
<1>4. CASE s # <<>>
  <2>1. s[Len(s)] = last /\ store2[last].next = n /\ store2[n].next = s[1] /\ last # Null
      BY <1>2, <1>4 DEF Ring
  <2>2. LinksKept(store, store2, s)
    <3> SUFFICES ASSUME NEW i \in 1 .. Len(s) - 1 PROVE store2[s[i]].next = store[s[i]].next
        BY DEF LinksKept
    <3>1. s[i] \in ToSet(s) /\ s[i] # s[Len(s)]
        BY <1>1 DEF ToSet, Path
    <3> QED BY <2>1, <3>1
  <2>3. /\ Path(store, <<n>>) /\ ToSet(<<n>>) = {n} /\ <<n>> # <<>>
        /\ Len(<<n>>) = 1 /\ <<n>>[1] = n /\ ToSet(<<n>>) \cap ToSet(s) = {}
      BY SinglePath
  <2>4. /\ Path(store2, <<n>> \o s) /\ <<n>> \o s # <<>> /\ ToSet(<<n>> \o s) = {n} \cup ToSet(s)
        /\ Len(<<n>> \o s) = 1 + Len(s)
        /\ \A i \in 1 .. 1 : (<<n>> \o s)[i] = <<n>>[i]
        /\ \A i \in 1 .. Len(s) : (<<n>> \o s)[1 + i] = s[i]
    <3> DEFINE one == <<n>>
    <3>1. /\ Path(store, one) /\ ToSet(one) = {n} /\ one # <<>>
          /\ Len(one) = 1 /\ one[1] = n /\ ToSet(one) \cap ToSet(s) = {}
        BY <2>3
    <3> HIDE DEF one
    <3>2. EndsAt(store2, one, s[1])
        BY <2>1, <3>1 DEF EndsAt
    <3>3. LinksKept(store, store2, one)
        BY <3>1 DEF LinksKept
    <3>4. /\ Path(store2, one \o s) /\ one \o s # <<>> /\ ToSet(one \o s) = ToSet(one) \cup ToSet(s)
          /\ Len(one \o s) = Len(one) + Len(s)
          /\ \A i \in 1 .. Len(one) : (one \o s)[i] = one[i]
          /\ \A i \in 1 .. Len(s) : (one \o s)[Len(one) + i] = s[i]
      <4>1. Path(store, one) /\ Path(store, s) /\ ToSet(one) \cap ToSet(s) = {} /\ one # <<>> /\ s # <<>>
          BY <1>1, <1>4, <3>1
      <4> QED BY <2>2, <3>2, <3>3, <4>1, PathJoin
    <3> QED BY <3>1, <3>4 DEF one
  <2> DEFINE t == <<n>> \o s
  <2> HIDE DEF t
  <2>5. Len(t) = Len(s) + 1 /\ t[1] = n /\ \A i \in 1 .. Len(s) : t[i + 1] = s[i]
      BY <1>1, <2>3, <2>4 DEF t
  <2>6. t[Len(t)] = last
      BY <1>1, <1>4, <2>1, <2>5
  <2>7. Ring(store2, last, t)
      BY <2>1, <2>4, <2>5, <2>6 DEF Ring, t
  <2> QED BY <2>1, <2>4, <2>5, <2>7 DEF t
<1> QED BY <1>3, <1>4

\* One list behind another.
Cat(q, p) == q \o p
Joins(t, q, p) ==
    /\ Len(t) = Len(q) + Len(p) /\ ToSet(t) = ToSet(q) \cup ToSet(p)
    /\ \A i \in 1 .. Len(q) : t[i] = q[i]
    /\ \A i \in 1 .. Len(p) : t[Len(q) + i] = p[i]

\* A node of a list that is not the last one.
LEMMA NotLast ==
    ASSUME NEW store, NEW s, Path(store, s), NEW i \in 1 .. Len(s) - 1
    PROVE  s[i] \in ToSet(s) /\ s[i] # s[Len(s)]
<1>1. Len(s) \in Nat /\ s \in Seq(Nodes)
    BY PathLength DEF Path
<1>2. i \in 1 .. Len(s) /\ Len(s) \in 1 .. Len(s) /\ i # Len(s)
    BY <1>1
<1>3. s[i] \in ToSet(s)
    BY <1>1, <1>2 DEF ToSet
<1>4. s[i] # s[Len(s)]
    BY <1>2 DEF Path
<1> QED BY <1>3, <1>4

\* Two circular lists whose last nodes exchange their links are one list.
LEMMA RingJoin ==
    ASSUME NEW store, NEW store2, NEW lastQ \in Nodes, NEW lastP \in Nodes, NEW q, NEW p,
           Ring(store, lastQ, q), Ring(store, lastP, p), ToSet(q) \cap ToSet(p) = {},
           Swapped(store, store2, lastQ, lastP),
           Kept(store, store2, ToSet(q) \ {lastQ}), Kept(store, store2, ToSet(p) \ {lastP})
    PROVE  /\ Ring(store2, lastP, Cat(q, p)) /\ ToSet(Cat(q, p)) = ToSet(q) \cup ToSet(p)
           /\ Joins(Cat(q, p), q, p)
<1>1. /\ Path(store, q) /\ Len(q) \in Nat /\ q \in Seq(Nodes) /\ DOMAIN q = 1 .. Len(q)
      /\ Path(store, p) /\ Len(p) \in Nat /\ p \in Seq(Nodes) /\ DOMAIN p = 1 .. Len(p)
    BY PathLength DEF Ring, Path
<1> USE DEF Kept, Linked, Swapped, Followed
<1>2. /\ q # <<>> /\ q[Len(q)] = lastQ /\ store2[lastQ].next = p[1]
      /\ p # <<>> /\ p[Len(p)] = lastP /\ store2[lastP].next = q[1]
    BY NodesAre DEF Ring
<1>0. lastQ \in ToSet(q) /\ lastP \in ToSet(p)
    BY <1>1, <1>2, LastIn
<1>3. LinksKept(store, store2, q)
  <2> SUFFICES ASSUME NEW i \in 1 .. Len(q) - 1 PROVE store2[q[i]].next = store[q[i]].next
      BY DEF LinksKept
  <2>1. q[i] \in ToSet(q) /\ q[i] # q[Len(q)] /\ lastP \in ToSet(p)
      BY <1>0, <1>1, NotLast
  <2> QED BY <1>2, <2>1
<1>4. LinksKept(store, store2, p)
  <2> SUFFICES ASSUME NEW i \in 1 .. Len(p) - 1 PROVE store2[p[i]].next = store[p[i]].next
      BY DEF LinksKept
  <2>1. p[i] \in ToSet(p) /\ p[i] # p[Len(p)] /\ lastQ \in ToSet(q)
      BY <1>0, <1>1, NotLast
  <2> QED BY <1>2, <2>1
<1>5. /\ Path(store2, q \o p) /\ q \o p # <<>> /\ ToSet(q \o p) = ToSet(q) \cup ToSet(p)
      /\ Len(q \o p) = Len(q) + Len(p)
      /\ \A i \in 1 .. Len(q) : (q \o p)[i] = q[i]
      /\ \A i \in 1 .. Len(p) : (q \o p)[Len(q) + i] = p[i]
  <2>1. EndsAt(store2, q, p[1])
      BY <1>2 DEF EndsAt
  <2> QED BY <1>1, <1>2, <1>3, <1>4, <2>1, PathJoin
<1> DEFINE t == q \o p
<1> HIDE DEF t
<1>6. t[1] = q[1] /\ t[Len(t)] = p[Len(p)]
  <2>1. 1 \in 1 .. Len(q) /\ Len(p) \in 1 .. Len(p)
      BY <1>1, <1>2
  <2> QED BY <1>5, <2>1 DEF t
<1> QED BY <1>2, <1>5, <1>6, NodesAre DEF Ring, Cat, Joins, t

\* A node put behind the last one of an open list is its new last one.
LEMMA LineAppend ==
    ASSUME NEW store, NEW store2, NEW first, NEW last, NEW s, Line(store, first, last, s),
           NEW n \in Nodes \ ToSet(s),
           Kept(store, store2, ToSet(s) \ {last}), Followed(store2, last, n)
    PROVE  /\ Line(store2, IF last = Null THEN n ELSE first, n, Append(s, n))
           /\ ToSet(Append(s, n)) = ToSet(s) \cup {n}
<1>1. Path(store, s) /\ Len(s) \in Nat /\ s \in Seq(Nodes) /\ DOMAIN s = 1 .. Len(s)
    BY PathLength DEF Line, Path
<1> USE DEF Kept, Linked, Swapped, Followed
<1>2. last = Null <=> s = <<>>
    BY DEF Line
<1>3. s # <<>> => s[Len(s)] = last /\ store2[last].next = n /\ s[1] = first
    BY <1>2 DEF Line
<1>4. LinksKept(store, store2, s)
  <2> SUFFICES ASSUME NEW i \in 1 .. Len(s) - 1 PROVE store2[s[i]].next = store[s[i]].next
      BY DEF LinksKept
  <2>1. s[i] \in ToSet(s) /\ s[i] # s[Len(s)] /\ s # <<>>
      BY <1>1 DEF ToSet, Path
  <2> QED BY <1>3, <2>1
<1> DEFINE t == Append(s, n)
<1>5. /\ Path(store2, t) /\ ToSet(t) = ToSet(s) \cup {n}
      /\ Len(t) = Len(s) + 1 /\ t[Len(s) + 1] = n /\ \A i \in 1 .. Len(s) : t[i] = s[i]
  <2>1. EndsAt(store2, s, n)
      BY <1>3 DEF EndsAt
  <2> QED BY <1>1, <1>4, <2>1, PathAppend
<1> HIDE DEF t
<1>6. t[Len(t)] = n /\ t # <<>> /\ t[1] = IF s = <<>> THEN n ELSE s[1]
    BY <1>1, <1>5
<1> QED BY <1>2, <1>3, <1>5, <1>6, NodesAre DEF Line, t

\* An open list whose last node links to the first one is a circular list.
LEMMA LineClose ==
    ASSUME NEW store, NEW store2, NEW first, NEW last, NEW s, Line(store, first, last, s),
           Kept(store, store2, ToSet(s) \ {last}), Followed(store2, last, first)
    PROVE  Ring(store2, last, s)
<1>1. Path(store, s) /\ Len(s) \in Nat /\ s \in Seq(Nodes) /\ DOMAIN s = 1 .. Len(s)
    BY PathLength DEF Line, Path
<1> USE DEF Kept, Linked, Swapped, Followed
<1>2. last = Null <=> s = <<>>
    BY DEF Line
<1>3. s # <<>> => s[Len(s)] = last /\ store2[last].next = s[1]
    BY <1>2 DEF Line
<1>4. ASSUME NEW i \in 1 .. Len(s) - 1 PROVE store2[s[i]].next = store[s[i]].next
  <2>1. s[i] \in ToSet(s) /\ s[i] # s[Len(s)] /\ s # <<>>
      BY <1>1 DEF ToSet, Path
  <2> QED BY <1>3, <2>1
<1>5. Path(store2, s)
    BY <1>1, <1>4, PathFrame
<1> QED BY <1>2, <1>3, <1>5 DEF Ring

-----------------------------------------------------------------------------
(* Updates *)

\* The update number u, if it is not a captured error.
One(u) == {u} \ {Capture}

\* The updates in a state, and those that a set of nodes stands for; the ones
\* whose time is Sync; the part of the list q from the k-th node on.
MadeIn(s) == {s[i] : i \in 1 .. Len(s)} \ {Capture}
Of(store, S) == {store[m].of : m \in S} \ {Capture}
Synced(store, S) == Of(store, {m \in S : store[m].time = Sync})
From(q, k) == {q[i] : i \in k .. Len(q)}

\* In the order they were made.
Increasing(s) == \A i, k \in 1 .. Len(s) : i < k /\ s[i] # Capture /\ s[k] # Capture => s[i] < s[k]
Ordered(store, s) ==
    \A i, k \in 1 .. Len(s) :
        i < k /\ store[s[i]].of # Capture /\ store[s[k]].of # Capture => store[s[i]].of < store[s[k]].of
Before(A, B) == \A a \in A, b \in B : a < b

\* Nodes of real updates, whose callbacks were not called yet.
Sound(store, S) == \A m \in S : store[m].time \in Times /\ store[m].callback

\* Nothing in the list, or the set, is more urgent than t, except for copies of
\* updates that were shown, behind the first one.
Marked(store, s, t) ==
    \A i \in 1 .. Len(s) : store[s[i]].time <= t \/ (i > 1 /\ store[s[i]].time = Sync)
AllMarked(store, S, t) == \A m \in S : store[m].time <= t

\* The nodes in S are the same, but for their links.
Same(store, store2, S) ==
    \A m \in S : /\ store2[m].of = store[m].of /\ store2[m].time = store[m].time
                 /\ store2[m].callback = store[m].callback

\* The updates of two sets of nodes.
LEMMA OfUnion ==
    ASSUME NEW store, NEW S, NEW T, NEW U, U = S \cup T
    PROVE  /\ Of(store, U) = Of(store, S) \cup Of(store, T)
           /\ Synced(store, U) = Synced(store, S) \cup Synced(store, T)
BY DEF Of, Synced

\* The update of one node.
LEMMA OfOne ==
    ASSUME NEW store, NEW m
    PROVE  /\ Of(store, {m}) = One(store[m].of)
           /\ Synced(store, {m}) = IF store[m].time = Sync THEN One(store[m].of) ELSE {}
<1>1. Of(store, {m}) = One(store[m].of)
    BY DEF Of, One
<1>2. Synced(store, {m}) = IF store[m].time = Sync THEN One(store[m].of) ELSE {}
    BY DEF Of, One, Synced
<1> QED BY <1>1, <1>2

\* No nodes, no updates.
LEMMA OfNone ==
    ASSUME NEW store
    PROVE  Of(store, {}) = {} /\ Synced(store, {}) = {}
BY DEF Of, Synced

\* The updates with time Sync are updates.
LEMMA SyncedIn ==
    ASSUME NEW store, NEW S
    PROVE  Synced(store, S) \subseteq Of(store, S)
BY DEF Of, Synced

\* Fewer nodes stand for fewer updates.
LEMMA OfSubset ==
    ASSUME NEW store, NEW S, NEW T, S \subseteq T
    PROVE  Of(store, S) \subseteq Of(store, T) /\ Synced(store, S) \subseteq Synced(store, T)
<1>1. Of(store, S) \subseteq Of(store, T)
    BY DEF Of
<1>2. Synced(store, S) \subseteq Synced(store, T)
    BY DEF Of, Synced
<1> QED BY <1>1, <1>2

\* The numbers of updates stay in their bound.
LEMMA OfType ==
    ASSUME NEW store \in Stores, NEW S \in SUBSET Nodes
    PROVE  Of(store, S) \subseteq 1 .. MaxUpdates
<1>1. \A m \in S : store[m].of \in 0 .. MaxUpdates
    BY DEF Stores
<1>2. \A m \in S : store[m].of # Capture => store[m].of \in 1 .. MaxUpdates
    BY <1>1, BoundsAssumption DEF Capture
<1> QED BY <1>2 DEF Of

\* Nodes that differ in their links only stand for the same updates.
LEMMA SameOf ==
    ASSUME NEW store, NEW store2, NEW S, Same(store, store2, S)
    PROVE  /\ Of(store2, S) = Of(store, S) /\ Synced(store2, S) = Synced(store, S)
           /\ Sound(store, S) => Sound(store2, S)
           /\ \A t : AllMarked(store, S, t) => AllMarked(store2, S, t)
           /\ \A T \in SUBSET S : /\ Of(store2, T) = Of(store, T) /\ Synced(store2, T) = Synced(store, T)
                                  /\ Same(store, store2, T)
<1>1. \A T \in SUBSET S : Of(store2, T) = Of(store, T)
    BY DEF Of, Same
<1>2. \A T \in SUBSET S : Synced(store2, T) = Synced(store, T)
  <2> TAKE T \in SUBSET S
  <2>1. {m \in T : store2[m].time = Sync} = {m \in T : store[m].time = Sync}
      BY DEF Same
  <2>2. {m \in T : store[m].time = Sync} \in SUBSET S
      OBVIOUS
  <2> QED BY <1>1, <2>1, <2>2 DEF Synced
<1>3. Sound(store, S) => Sound(store2, S)
    BY DEF Sound, Same
<1>4. \A t : AllMarked(store, S, t) => AllMarked(store2, S, t)
    BY DEF AllMarked, Same
<1>5. \A T \in SUBSET S : Same(store, store2, T)
    BY DEF Same
<1>6. S \in SUBSET S
    OBVIOUS
<1> QED BY <1>1, <1>2, <1>3, <1>4, <1>5, <1>6

\* Lists of such nodes are in the same order and as urgent.
LEMMA SameList ==
    ASSUME NEW store, NEW store2, NEW s \in Seq(Nodes), Same(store, store2, ToSet(s))
    PROVE  /\ Ordered(store, s) => Ordered(store2, s)
           /\ \A t : Marked(store, s, t) => Marked(store2, s, t)
<1>1. \A i \in 1 .. Len(s) : store2[s[i]].of = store[s[i]].of /\ store2[s[i]].time = store[s[i]].time
  <2>1. DOMAIN s = 1 .. Len(s)
      OBVIOUS
  <2> QED BY <2>1 DEF Same, ToSet
<1> QED BY <1>1 DEF Ordered, Marked

\* The parts of a list.
LEMMA FromIs ==
    ASSUME NEW q \in Seq(Nodes), NEW k \in 1 .. Len(q)
    PROVE  From(q, k) = {q[k]} \cup From(q, k + 1) /\ From(q, k) \subseteq ToSet(q)
           /\ From(q, k + 1) \subseteq From(q, k) /\ q[k] \in ToSet(q)
<1>1. Len(q) \in Nat /\ DOMAIN q = 1 .. Len(q) /\ k \in Nat
    OBVIOUS
<1>2. k .. Len(q) = {k} \cup ((k + 1) .. Len(q)) /\ k .. Len(q) \subseteq 1 .. Len(q)
    BY <1>1
<1> HIDE DEF From
<1>3. From(q, k) = {q[k]} \cup From(q, k + 1)
    BY <1>2 DEF From
<1>4. From(q, k) \subseteq ToSet(q) /\ q[k] \in ToSet(q)
    BY <1>1, <1>2 DEF From, ToSet
<1> QED BY <1>3, <1>4

\* From its first node on, a list is all of itself, and behind its last there is
\* nothing.
LEMMA FromEnds ==
    ASSUME NEW q \in Seq(Nodes)
    PROVE  From(q, 1) = ToSet(q) /\ From(q, Len(q) + 1) = {}
<1>1. Len(q) \in Nat /\ DOMAIN q = 1 .. Len(q)
    OBVIOUS
<1>2. (Len(q) + 1) .. Len(q) = {}
    BY <1>1
<1> QED BY <1>1, <1>2 DEF From, ToSet

\* A node of a list does not occur again behind itself.
LEMMA NotBehind ==
    ASSUME NEW store, NEW q, Path(store, q), NEW k \in 1 .. Len(q)
    PROVE  q[k] \notin From(q, k + 1)
<1>1. Len(q) \in Nat
    BY PathLength
<1>2. ASSUME NEW i \in (k + 1) .. Len(q) PROVE q[i] # q[k]
    BY <1>1 DEF Path
<1> QED BY <1>2 DEF From

\* In an ordered list, the k-th update was made before those behind it.
LEMMA OrderedHead ==
    ASSUME NEW store, NEW q \in Seq(Nodes), Ordered(store, q), NEW k \in 1 .. Len(q)
    PROVE  Before(One(store[q[k]].of), Of(store, From(q, k + 1)))
<1>1. ASSUME NEW i \in (k + 1) .. Len(q), store[q[i]].of # Capture, store[q[k]].of # Capture
      PROVE  store[q[k]].of < store[q[i]].of
  <2>1. i \in 1 .. Len(q) /\ k < i
      OBVIOUS
  <2> QED BY <1>1, <2>1 DEF Ordered
<1>2. \A b \in Of(store, From(q, k + 1)) : \E i \in (k + 1) .. Len(q) : b = store[q[i]].of /\ b # Capture
    BY DEF Of, From
<1> QED BY <1>1, <1>2 DEF Before, One

\* An update made after all others may go to the end.
LEMMA OrderedAppend ==
    ASSUME NEW store, NEW s \in Seq(Nodes), NEW n \in Nodes, Ordered(store, s),
           Before(Of(store, ToSet(s)), One(store[n].of))
    PROVE  Ordered(store, Append(s, n))
<1>1. Len(s) \in Nat /\ DOMAIN s = 1 .. Len(s)
    OBVIOUS
<1> DEFINE t == Append(s, n)
<1>2. Len(t) = Len(s) + 1 /\ t[Len(s) + 1] = n /\ \A i \in 1 .. Len(s) : t[i] = s[i]
    OBVIOUS
<1> HIDE DEF t
<1>3. \A i \in 1 .. Len(s) : store[s[i]].of # Capture => store[s[i]].of \in Of(store, ToSet(s))
    BY <1>1 DEF Of, ToSet
<1>4. SUFFICES ASSUME NEW i \in 1 .. Len(t), NEW k \in 1 .. Len(t), i < k,
                      store[t[i]].of # Capture, store[t[k]].of # Capture
               PROVE  store[t[i]].of < store[t[k]].of
    BY DEF Ordered, t
<1>5. i \in 1 .. Len(s) /\ t[i] = s[i]
    BY <1>1, <1>2, <1>4
<1>6. CASE k = Len(s) + 1
    BY <1>2, <1>3, <1>4, <1>5, <1>6 DEF Before, One
<1>7. CASE k # Len(s) + 1
  <2>1. k \in 1 .. Len(s)
      BY <1>1, <1>2, <1>7
  <2> QED BY <1>2, <1>4, <1>5, <2>1 DEF Ordered
<1> QED BY <1>6, <1>7

\* Two ordered lists, one before the other, are one ordered list.
LEMMA OrderedJoin ==
    ASSUME NEW store, NEW q \in Seq(Nodes), NEW p \in Seq(Nodes), NEW t, Ordered(store, q), Ordered(store, p),
           Before(Of(store, ToSet(q)), Of(store, ToSet(p))),
           Joins(t, q, p)
    PROVE  Ordered(store, t)
<1> USE DEF Joins
<1>1. Len(q) \in Nat /\ DOMAIN q = 1 .. Len(q) /\ Len(p) \in Nat /\ DOMAIN p = 1 .. Len(p)
    OBVIOUS
<1>2. \A i \in 1 .. Len(q) : store[q[i]].of # Capture => store[q[i]].of \in Of(store, ToSet(q))
    BY <1>1 DEF Of, ToSet
<1>3. \A i \in 1 .. Len(p) : store[p[i]].of # Capture => store[p[i]].of \in Of(store, ToSet(p))
    BY <1>1 DEF Of, ToSet
<1>4. SUFFICES ASSUME NEW i \in 1 .. Len(t), NEW k \in 1 .. Len(t), i < k,
                      store[t[i]].of # Capture, store[t[k]].of # Capture
               PROVE  store[t[i]].of < store[t[k]].of
    BY DEF Ordered
<1>5. \A j \in 1 .. Len(t) : j \in 1 .. Len(q) \/ (j - Len(q) \in 1 .. Len(p) /\ Len(q) + (j - Len(q)) = j)
    BY <1>1
<1>6. CASE k \in 1 .. Len(q)
  <2>1. i \in 1 .. Len(q) /\ t[i] = q[i] /\ t[k] = q[k]
      BY <1>1, <1>4, <1>6
  <2> QED BY <1>4, <1>6, <2>1 DEF Ordered
<1>7. CASE k \notin 1 .. Len(q) /\ i \in 1 .. Len(q)
  <2>1. t[i] = q[i] /\ k - Len(q) \in 1 .. Len(p) /\ t[k] = p[k - Len(q)]
      BY <1>5, <1>7
  <2> QED BY <1>2, <1>3, <1>4, <1>7, <2>1 DEF Before
<1>8. CASE k \notin 1 .. Len(q) /\ i \notin 1 .. Len(q)
  <2>1. /\ i - Len(q) \in 1 .. Len(p) /\ t[i] = p[i - Len(q)]
        /\ k - Len(q) \in 1 .. Len(p) /\ t[k] = p[k - Len(q)]
      BY <1>5, <1>8
  <2>2. i - Len(q) < k - Len(q)
      BY <1>1, <1>4
  <2> QED BY <1>4, <2>1, <2>2 DEF Ordered
<1> QED BY <1>6, <1>7, <1>8

\* A captured error may go to the front.
LEMMA OrderedPrepend ==
    ASSUME NEW store, NEW s \in Seq(Nodes), NEW n, NEW t, Ordered(store, s), store[n].of = Capture,
           Len(t) = Len(s) + 1, t[1] = n, \A i \in 1 .. Len(s) : t[i + 1] = s[i]
    PROVE  Ordered(store, t)
<1>1. Len(s) \in Nat
    OBVIOUS
<1>2. SUFFICES ASSUME NEW i \in 1 .. Len(t), NEW k \in 1 .. Len(t), i < k,
                      store[t[i]].of # Capture, store[t[k]].of # Capture
               PROVE  store[t[i]].of < store[t[k]].of
    BY DEF Ordered
<1>3. i # 1 /\ k # 1
    BY <1>2
<1>4. /\ i - 1 \in 1 .. Len(s) /\ (i - 1) + 1 = i /\ k - 1 \in 1 .. Len(s) /\ (k - 1) + 1 = k
      /\ i - 1 < k - 1
    BY <1>1, <1>2, <1>3
<1>5. t[i] = s[i - 1] /\ t[k] = s[k - 1]
    BY <1>4
<1> QED BY <1>2, <1>4, <1>5 DEF Ordered

\* The empty list is ordered and not urgent.
LEMMA OrderedNone == ASSUME NEW store PROVE Ordered(store, <<>>) /\ \A t : Marked(store, <<>>, t)
BY DEF Ordered, Marked

\* A fiber that is marked for a list and for one more node is marked for both.
LEMMA MarkedAppend ==
    ASSUME NEW store, NEW s \in Seq(Nodes), NEW n \in Nodes, NEW t \in Nat, NEW t2 \in Nat, t <= t2,
           Marked(store, s, t), \A m \in ToSet(s) : store[m].time \in Nat,
           store[n].time \in Nat, store[n].time <= t2 \/ (s # <<>> /\ store[n].time = Sync)
    PROVE  Marked(store, Append(s, n), t2)
<1>1. Len(s) \in Nat /\ DOMAIN s = 1 .. Len(s)
    OBVIOUS
<1> DEFINE r == Append(s, n)
<1>2. Len(r) = Len(s) + 1 /\ r[Len(s) + 1] = n /\ \A i \in 1 .. Len(s) : r[i] = s[i]
    OBVIOUS
<1> HIDE DEF r
<1>3. SUFFICES ASSUME NEW i \in 1 .. Len(r)
               PROVE  store[r[i]].time <= t2 \/ (i > 1 /\ store[r[i]].time = Sync)
    BY DEF Marked, r
<1>4. CASE i = Len(s) + 1
  <2>1. s # <<>> => i > 1
      BY <1>1, <1>4
  <2> QED BY <1>2, <1>4, <2>1
<1>5. CASE i # Len(s) + 1
  <2>1. i \in 1 .. Len(s) /\ r[i] = s[i] /\ s[i] \in ToSet(s)
      BY <1>1, <1>2, <1>5 DEF ToSet
  <2>2. store[s[i]].time \in Nat
      BY <2>1
  <2> QED BY <2>1, <2>2 DEF Marked
<1> QED BY <1>4, <1>5

\* A fiber marked as more urgent is still marked.
LEMMA MarkedMore ==
    ASSUME NEW store, NEW s \in Seq(Nodes), NEW t \in Nat, NEW t2 \in Nat, t <= t2,
           Marked(store, s, t), \A m \in ToSet(s) : store[m].time \in Nat
    PROVE  Marked(store, s, t2)
<1>1. \A i \in 1 .. Len(s) : store[s[i]].time \in Nat
  <2>1. DOMAIN s = 1 .. Len(s)
      OBVIOUS
  <2> QED BY <2>1 DEF ToSet
<1> QED BY <1>1 DEF Marked

\* A fiber marked for two lists is marked for one behind the other.
LEMMA MarkedJoin ==
    ASSUME NEW store, NEW q \in Seq(Nodes), NEW p \in Seq(Nodes), NEW t, NEW e,
           Marked(store, q, e), AllMarked(store, ToSet(p), e),
           Joins(t, q, p)
    PROVE  Marked(store, t, e)
<1> USE DEF Joins
<1>1. Len(q) \in Nat /\ DOMAIN q = 1 .. Len(q) /\ Len(p) \in Nat /\ DOMAIN p = 1 .. Len(p)
    OBVIOUS
<1>2. SUFFICES ASSUME NEW i \in 1 .. Len(t)
               PROVE  store[t[i]].time <= e \/ (i > 1 /\ store[t[i]].time = Sync)
    BY DEF Marked
<1>3. CASE i \in 1 .. Len(q)
    BY <1>3 DEF Marked
<1>4. CASE i \notin 1 .. Len(q)
  <2>1. i - Len(q) \in 1 .. Len(p) /\ Len(q) + (i - Len(q)) = i
      BY <1>1, <1>4
  <2>2. t[i] = p[i - Len(q)]
      BY <2>1
  <2>3. p[i - Len(q)] \in ToSet(p)
      BY <1>1, <2>1 DEF ToSet
  <2> QED BY <2>2, <2>3 DEF AllMarked
<1> QED BY <1>3, <1>4

\* A state after one more update.
LEMMA MadeAppend ==
    ASSUME NEW s \in Seq(Nat), NEW u \in Nat
    PROVE  /\ MadeIn(Append(s, u)) = MadeIn(s) \cup One(u)
           /\ Append(s, u) \in Seq(Nat)
           /\ Increasing(s) /\ Before(MadeIn(s), One(u)) => Increasing(Append(s, u))
<1>1. Len(s) \in Nat
    OBVIOUS
<1> DEFINE t == Append(s, u)
<1>2. Len(t) = Len(s) + 1 /\ t[Len(s) + 1] = u /\ \A i \in 1 .. Len(s) : t[i] = s[i]
    OBVIOUS
<1> HIDE DEF t
<1>3. \A i \in 1 .. Len(t) : i \in 1 .. Len(s) \/ i = Len(s) + 1
    BY <1>1, <1>2
<1>4. MadeIn(t) = MadeIn(s) \cup One(u)
  <2>1. Len(s) + 1 \in 1 .. Len(t) /\ 1 .. Len(s) \subseteq 1 .. Len(t)
      BY <1>1, <1>2
  <2>2. MadeIn(t) \subseteq MadeIn(s) \cup One(u)
      BY <1>2, <1>3 DEF MadeIn, One
  <2>3. MadeIn(s) \subseteq MadeIn(t)
      BY <1>2, <2>1 DEF MadeIn
  <2>4. One(u) \subseteq MadeIn(t)
      BY <1>2, <2>1 DEF MadeIn, One
  <2> QED BY <2>2, <2>3, <2>4
<1>5. ASSUME Increasing(s), Before(MadeIn(s), One(u)) PROVE Increasing(t)
  <2> SUFFICES ASSUME NEW i \in 1 .. Len(t), NEW k \in 1 .. Len(t), i < k, t[i] # Capture, t[k] # Capture
               PROVE  t[i] < t[k]
      BY DEF Increasing
  <2>1. i \in 1 .. Len(s)
      BY <1>1, <1>2
  <2>2. t[i] = s[i] /\ s[i] \in MadeIn(s)
      BY <1>2, <2>1 DEF MadeIn
  <2>3. CASE k = Len(s) + 1
      BY <1>2, <1>5, <2>2, <2>3 DEF Before, One
  <2>4. CASE k # Len(s) + 1
    <3>1. k \in 1 .. Len(s)
        BY <1>3, <2>4
    <3> QED BY <1>2, <1>5, <2>1, <3>1 DEF Increasing
  <2> QED BY <2>3, <2>4
<1>6. t \in Seq(Nat)
    BY DEF t
<1> QED BY <1>4, <1>5, <1>6 DEF t

\* The first state has no updates.
LEMMA MadeNone == MadeIn(<<>>) = {} /\ Increasing(<<>>)
<1>1. 1 .. Len(<<>>) = {}
    OBVIOUS
<1> QED BY <1>1 DEF MadeIn, Increasing

-----------------------------------------------------------------------------
(* Steps on the nodes *)

Updated == [of : 0 .. MaxUpdates, time : Times \cup {NoWork}, callback : BOOLEAN, next : Nodes \cup {Null}]

\* The node is a new one, and what is in use has not changed but for its links.
LEMMA InsertAfterIs ==
    ASSUME NEW store \in Stores, NEW last \in Nodes \cup {Null}, NEW n \in Nodes, n # last,
           NEW update \in Updated
    PROVE  LET store2 == InsertAfter(store, last, n, update)
           IN  /\ store2 \in Stores
               /\ store2[n].of = update.of /\ store2[n].time = update.time
               /\ store2[n].callback = update.callback
               /\ Same(store, store2, Nodes \ {n})
               /\ Kept(store, store2, Nodes \ {n, last}) /\ Linked(store, store2, last, n)
<1> DEFINE store2 == InsertAfter(store, last, n, update)
<1>1. CASE last = Null
  <2>1. store2 = [store EXCEPT ![n] = [update EXCEPT !.next = n]]
      BY <1>1 DEF InsertAfter
  <2>2. [update EXCEPT !.next = n] \in Updated
      BY DEF Updated
  <2> DEFINE r == [update EXCEPT !.next = n]
  <2>3. r.of = update.of /\ r.time = update.time /\ r.callback = update.callback /\ r.next = n
      BY DEF Updated
  <2> HIDE DEF r, store2
  <2>4. store2 = [store EXCEPT ![n] = r]
      BY <2>1 DEF r
  <2>5. store2 \in Stores
      BY <2>2, <2>4 DEF Stores, Updated, r
  <2>6. store2[n] = r /\ \A m \in Nodes \ {n} : store2[m] = store[m]
      BY <2>4 DEF Stores
  <2> QED BY <1>1, <2>3, <2>5, <2>6 DEF Same, Kept, Linked, store2
<1>2. CASE last # Null
  <2> DEFINE r == [update EXCEPT !.next = store[last].next]
             old == [store[last] EXCEPT !.next = n]
  <2>1. store2 = [[store EXCEPT ![n] = r] EXCEPT ![last] = [@ EXCEPT !.next = n]]
      BY <1>2 DEF InsertAfter
  <2>2. store[last] \in Updated /\ last \in Nodes
      BY <1>2 DEF Stores, Updated
  <2>3. /\ r \in Updated /\ r.of = update.of /\ r.time = update.time /\ r.callback = update.callback
        /\ r.next = store[last].next
      BY <2>2 DEF Updated
  <2>4. /\ old \in Updated /\ old.of = store[last].of /\ old.time = store[last].time
        /\ old.callback = store[last].callback /\ old.next = n
      BY <2>2 DEF Updated
  <2> HIDE DEF r, store2
  <2>5. store2 = [[store EXCEPT ![n] = r] EXCEPT ![last] = old]
      BY <2>1, <2>2 DEF Stores
  <2> HIDE DEF old
  <2>6. store2 \in Stores
      BY <2>3, <2>4, <2>5, <2>2 DEF Stores, Updated
  <2>7. store2[n] = r /\ store2[last] = old /\ \A m \in Nodes \ {n, last} : store2[m] = store[m]
      BY <2>2, <2>5 DEF Stores
  <2>8. Same(store, store2, Nodes \ {n})
      BY <2>4, <2>7 DEF Same
  <2> QED BY <1>2, <2>3, <2>4, <2>6, <2>7, <2>8 DEF store2, Kept, Linked
<1> QED BY <1>1, <1>2

\* One link is changed.
Link(store, last, n) == [store EXCEPT ![last].next = n]

\* A link that changes changes no update and no other link.
LEMMA LinkIs ==
    ASSUME NEW store \in Stores, NEW last \in Nodes, NEW n \in Nodes \cup {Null}
    PROVE  /\ Link(store, last, n) \in Stores /\ Same(store, Link(store, last, n), Nodes)
           /\ Link(store, last, n)[last].next = n
           /\ Kept(store, Link(store, last, n), Nodes \ {last})
<1> DEFINE store2 == Link(store, last, n)
           old == [store[last] EXCEPT !.next = n]
<1>1. store[last] \in Updated
    BY DEF Stores, Updated
<1>2. /\ old \in Updated /\ old.of = store[last].of /\ old.time = store[last].time
      /\ old.callback = store[last].callback /\ old.next = n
    BY <1>1 DEF Updated
<1>3. store2 = [store EXCEPT ![last] = old]
    BY DEF Stores, Link
<1> HIDE DEF old, store2
<1>4. store2 \in Stores
    BY <1>2, <1>3 DEF Stores, Updated
<1>5. store2[last] = old /\ \A m \in Nodes \ {last} : store2[m] = store[m]
    BY <1>3 DEF Stores
<1>6. Same(store, store2, Nodes)
    BY <1>2, <1>5 DEF Same
<1> QED BY <1>2, <1>4, <1>5, <1>6 DEF Kept, store2

\* One node is put in place of another that nobody refers to.
LEMMA PutIs ==
    ASSUME NEW store \in Stores, NEW n \in Nodes, NEW r \in Updated
    PROVE  LET store2 == [store EXCEPT ![n] = r]
           IN  /\ store2 \in Stores /\ store2[n] = r
               /\ \A m \in Nodes \ {n} : store2[m] = store[m]
               /\ Same(store, store2, Nodes \ {n})
<1> DEFINE store2 == [store EXCEPT ![n] = r]
<1> HIDE DEF store2
<1>1. store2 \in Stores /\ store2[n] = r /\ \A m \in Nodes \ {n} : store2[m] = store[m]
    BY DEF Stores, Updated, store2
<1>2. Same(store, store2, Nodes \ {n})
    BY <1>1 DEF Same
<1> QED BY <1>1, <1>2 DEF store2

\* What holds of some nodes holds of fewer.
LEMMA SameSubset ==
    ASSUME NEW store, NEW store2, NEW S, NEW T, Same(store, store2, T), S \subseteq T
    PROVE  Same(store, store2, S)
BY DEF Same

\* Two changes of links only are one.
LEMMA SameTrans ==
    ASSUME NEW store, NEW store2, NEW store3, NEW S, Same(store, store2, S), Same(store2, store3, S)
    PROVE  Same(store, store3, S)
BY DEF Same

\* The smallest element of a set of nodes.
LEMMA NewIs ==
    ASSUME CanAllocate
    PROVE  New \in Nodes /\ New \notin InUse
<1> DEFINE S == Nodes \ InUse
<1> HIDE DEF S
<1>1. S \in SUBSET Nat /\ S # {}
    BY NodesAre DEF CanAllocate, S
<1>2. \E x \in S : \A y \in S : x <= y
  <2> SUFFICES ASSUME \A x \in S : \E y \in S : ~(x <= y) PROVE FALSE
      OBVIOUS
  <2>1. \A x \in S : \E y \in S : y < x
      BY <1>1
  <2> QED BY <1>1, <2>1, NoSmallest
<1>3. Min(S) \in S
    BY <1>2 DEF Min
<1>4. New = Min(S)
    BY DEF New, S
<1> QED BY <1>3, <1>4 DEF S

\* What Collect keeps.
LEMMA CollectIs ==
    ASSUME NEW store \in Stores, NEW q \in Nodes \cup {Null}, pending \in Nodes \cup {Null},
           NEW s, Ring(store, q, s), NEW p, Ring(store, pending, p)
    PROVE  LET store2 == Collect(store, q)
           IN  /\ store2 \in Stores
               /\ Same(store, store2, ToSet(s) \cup ToSet(p))
               /\ Kept(store, store2, ToSet(s) \cup ToSet(p))
<1> DEFINE store2 == Collect(store, q)
           used == UNION {ToSet(Walk(store, n)) : n \in {q, pending} \ {Null}}
<1>1. store2 = [n \in Nodes |-> IF n \in used THEN store[n] ELSE Blank]
    BY DEF Collect
<1>2. Blank \in Updated
    BY BoundsAssumption DEF Blank, Updated, Capture, NoWork, Null
<1>3. ToSet(s) \subseteq used
  <2>1. CASE q = Null
      BY <2>1, EmptyPath DEF Ring
  <2>2. CASE q # Null
      BY <2>2, RingCovered
  <2> QED BY <2>1, <2>2
<1>4. ToSet(p) \subseteq used
  <2>1. CASE pending = Null
      BY <2>1, EmptyPath DEF Ring
  <2>2. CASE pending # Null
      BY <2>2, RingCovered
  <2> QED BY <2>1, <2>2
<1>5. ToSet(s) \subseteq Nodes /\ ToSet(p) \subseteq Nodes
  <2>1. s \in Seq(Nodes) /\ p \in Seq(Nodes)
      BY DEF Ring, Path
  <2> QED BY <2>1 DEF ToSet
<1> HIDE DEF used, store2
<1>6. store2 \in Stores
    BY <1>1, <1>2 DEF Stores, Updated
<1>7. \A m \in ToSet(s) \cup ToSet(p) : store2[m] = store[m]
    BY <1>1, <1>3, <1>4, <1>5
<1>8. Same(store, store2, ToSet(s) \cup ToSet(p))
    BY <1>7 DEF Same
<1> QED BY <1>6, <1>7, <1>8 DEF store2, Kept

-----------------------------------------------------------------------------
(* A queue between two loops *)

\* A base state, the base queue q that ends with last, and the new updates p are
\* all updates that were made, in their order; those that were seen are the ones
\* in the base state and some of which the queue has a Sync copy.
Account(store, base, q, p, top) ==
    /\ Increasing(base) /\ Ordered(store, q) /\ Ordered(store, p)
    /\ Before(MadeIn(base), Of(store, ToSet(q)) \cup Of(store, ToSet(p)))
    /\ Before(Of(store, ToSet(q)), Of(store, ToSet(p)))
    /\ MadeIn(base) \cup Of(store, ToSet(q)) \cup Of(store, ToSet(p)) = 1 .. top

Queued(store, base, last, seen, q, p, top) ==
    /\ Ring(store, last, q) /\ Sound(store, ToSet(q)) /\ ToSet(q) \cap ToSet(p) = {}
    /\ Account(store, base, q, p, top)
    /\ MadeIn(base) \subseteq seen /\ seen \subseteq MadeIn(base) \cup Synced(store, ToSet(q))

Due(store, q, p, time) == Marked(store, q, time) /\ AllMarked(store, ToSet(p), time)

\* A circular list is a sequence of nodes, and empty only when null refers to it.
LEMMA RingType ==
    ASSUME NEW store, NEW last, NEW q, Ring(store, last, q)
    PROVE  q \in Seq(Nodes) /\ ToSet(q) \subseteq Nodes /\ (last = Null => q = <<>> /\ ToSet(q) = {})
           /\ (last # Null => last \in ToSet(q) /\ q # <<>>)
<1>1. q \in Seq(Nodes) /\ Path(store, q)
    BY DEF Ring, Path
<1>2. ToSet(q) \subseteq Nodes
    BY <1>1 DEF ToSet
<1>3. last = Null => q = <<>> /\ ToSet(q) = {}
    BY EmptyPath DEF Ring
<1>4. last # Null => last \in ToSet(q) /\ q # <<>>
    BY <1>1, LastIn DEF Ring
<1> QED BY <1>1, <1>2, <1>3, <1>4

\* Nodes that are not in the queue do not matter.
LEMMA QueuedFrame ==
    ASSUME NEW store, NEW store2, NEW base, NEW last, NEW seen, NEW q, NEW p, NEW top,
           Queued(store, base, last, seen, q, p, top), p \in Seq(Nodes),
           Same(store, store2, ToSet(q) \cup ToSet(p)),
           Kept(store, store2, ToSet(q))
    PROVE  /\ Queued(store2, base, last, seen, q, p, top)
           /\ \A t : Due(store, q, p, t) => Due(store2, q, p, t)
<1>1. Ring(store2, last, q)
    BY RingFrame DEF Queued, Kept
<1>2. Same(store, store2, ToSet(q)) /\ Same(store, store2, ToSet(p))
    BY SameSubset
<1>3. /\ Of(store2, ToSet(q)) = Of(store, ToSet(q)) /\ Synced(store2, ToSet(q)) = Synced(store, ToSet(q))
      /\ Sound(store2, ToSet(q)) /\ Of(store2, ToSet(p)) = Of(store, ToSet(p))
    BY <1>2, SameOf DEF Queued
<1>4. q \in Seq(Nodes)
    BY RingType DEF Queued
<1>5. Ordered(store2, q) /\ Ordered(store2, p)
    BY <1>2, <1>4, SameList DEF Queued, Account
<1>6. Account(store2, base, q, p, top)
    BY <1>3, <1>5 DEF Queued, Account
<1>7. ASSUME NEW t, Due(store, q, p, t) PROVE Due(store2, q, p, t)
    BY <1>2, <1>4, <1>7, SameOf, SameList DEF Due
<1> QED BY <1>1, <1>3, <1>6, <1>7 DEF Queued

\* A new update.
LEMMA QueuedMore ==
    ASSUME NEW store, NEW store2, NEW base, NEW last, NEW seen, NEW q, NEW p, NEW top \in Nat,
           Queued(store, base, last, seen, q, p, top), p \in Seq(Nodes), NEW n \in Nodes,
           NEW p2, p2 = Append(p, n), ToSet(p2) = ToSet(p) \cup {n},
           n \notin ToSet(q) \cup ToSet(p), Same(store, store2, ToSet(q) \cup ToSet(p)),
           Kept(store, store2, ToSet(q)), store2[n].of = top + 1
    PROVE  Queued(store2, base, last, seen, q, p2, top + 1)
<1>1. Queued(store2, base, last, seen, q, p, top)
    BY QueuedFrame
<1> DEFINE OB == MadeIn(base)
           OQ == Of(store2, ToSet(q))
           OP == Of(store2, ToSet(p))
<1>2. Of(store2, ToSet(p2)) = OP \cup {top + 1} /\ One(store2[n].of) = {top + 1}
  <2>1. Of(store2, ToSet(p2)) = OP \cup One(top + 1)
    <3>1. Of(store2, ToSet(p2)) = OP \cup Of(store2, {n})
        BY OfUnion
    <3>2. Of(store2, {n}) = One(store2[n].of)
        BY OfOne
    <3> QED BY <3>1, <3>2
  <2>2. One(top + 1) = {top + 1}
      BY DEF One, Capture
  <2> QED BY <2>1, <2>2
<1>3. OB \cup OQ \cup OP = 1 .. top /\ Before(OB, OQ \cup OP) /\ Before(OQ, OP)
    BY <1>1 DEF Queued, Account
<1>4. Ordered(store2, p2)
  <2>1. Before(OP, One(store2[n].of))
      BY <1>2, <1>3 DEF Before
  <2>2. Ordered(store2, p)
      BY <1>1 DEF Queued, Account
  <2> QED BY <2>1, <2>2, OrderedAppend
<1> HIDE DEF OB, OQ, OP
<1>5. OB \cup OQ \cup (OP \cup {top + 1}) = 1 .. (top + 1)
    BY <1>3
<1>6. Before(OB, OQ \cup (OP \cup {top + 1})) /\ Before(OQ, OP \cup {top + 1})
    BY <1>3 DEF Before
<1>7. Account(store2, base, q, p2, top + 1)
    BY <1>1, <1>2, <1>4, <1>5, <1>6 DEF Queued, Account, OB, OQ, OP
<1>8. ToSet(q) \cap ToSet(p2) = {}
    BY <1>1 DEF Queued
<1> QED BY <1>1, <1>7, <1>8 DEF Queued

\* A captured error, in front.
LEMMA QueuedCapture ==
    ASSUME NEW store, NEW store2, NEW base, NEW last, NEW seen, NEW q, NEW p, NEW top,
           Queued(store, base, last, seen, q, p, top), p \in Seq(Nodes), NEW n \in Nodes,
           n \notin ToSet(q) \cup ToSet(p), Same(store, store2, ToSet(q) \cup ToSet(p)),
           Kept(store, store2, ToSet(q) \ {last}), Linked(store, store2, last, n),
           store2[n].of = Capture, store2[n].time \in Times, store2[n].callback
    PROVE  \E q2 : /\ Queued(store2, base, IF last = Null THEN n ELSE last, seen, q2, p, top)
                   /\ ToSet(q2) = ToSet(q) \cup {n}
<1> DEFINE q2 == <<n>> \o q
           last2 == IF last = Null THEN n ELSE last
<1>1. q \in Seq(Nodes) /\ Ring(store, last, q)
    BY RingType DEF Queued
<1>2. /\ Ring(store2, last2, q2) /\ ToSet(q2) = ToSet(q) \cup {n}
      /\ Len(q2) = Len(q) + 1 /\ q2[1] = n /\ \A i \in 1 .. Len(q) : q2[i + 1] = q[i]
  <2>1. n \in Nodes \ ToSet(q)
      OBVIOUS
  <2> QED BY <1>1, <2>1, RingPrepend
<1> HIDE DEF q2, last2
<1>3. Same(store, store2, ToSet(q)) /\ Same(store, store2, ToSet(p))
    BY SameSubset
<1>4. /\ Of(store2, ToSet(q)) = Of(store, ToSet(q)) /\ Synced(store2, ToSet(q)) = Synced(store, ToSet(q))
      /\ Sound(store2, ToSet(q)) /\ Of(store2, ToSet(p)) = Of(store, ToSet(p))
    BY <1>3, SameOf DEF Queued
<1>5. Of(store2, {n}) = {} /\ Synced(store2, {n}) = {}
  <2>1. One(store2[n].of) = {}
      BY DEF One
  <2>2. Of(store2, {n}) = {}
      BY <2>1, OfOne
  <2> QED BY <2>2, SyncedIn
<1>6. Of(store2, ToSet(q2)) = Of(store, ToSet(q)) /\ Synced(store2, ToSet(q2)) = Synced(store, ToSet(q))
  <2>1. /\ Of(store2, ToSet(q2)) = Of(store2, ToSet(q)) \cup Of(store2, {n})
        /\ Synced(store2, ToSet(q2)) = Synced(store2, ToSet(q)) \cup Synced(store2, {n})
    <3> DEFINE N == {n}
    <3> HIDE DEF N
    <3>1. ToSet(q2) = ToSet(q) \cup N
        BY <1>2 DEF N
    <3>2. /\ Of(store2, ToSet(q2)) = Of(store2, ToSet(q)) \cup Of(store2, N)
          /\ Synced(store2, ToSet(q2)) = Synced(store2, ToSet(q)) \cup Synced(store2, N)
        BY <3>1 DEF Of, Synced
    <3> QED BY <3>2 DEF N
  <2> QED BY <1>2, <1>4, <1>5, <2>1
<1>7. Ordered(store2, q2) /\ Ordered(store2, p)
  <2>1. Ordered(store2, q) /\ Ordered(store2, p)
      BY <1>1, <1>3, SameList DEF Queued, Account
  <2> QED BY <1>1, <1>2, <2>1, OrderedPrepend
<1>8. Sound(store2, ToSet(q2))
    BY <1>2, <1>4 DEF Sound
<1>9. Account(store2, base, q2, p, top)
    BY <1>4, <1>6, <1>7 DEF Queued, Account
<1>10. Queued(store2, base, last2, seen, q2, p, top)
    BY <1>2, <1>6, <1>8, <1>9 DEF Queued
<1> QED BY <1>2, <1>10 DEF last2

\* The new updates go to the end of the base queue.
Joined(store, last, new) ==
    IF new # Null /\ last # Null
    THEN [store EXCEPT ![last].next = store[new].next, ![new].next = store[last].next]
    ELSE store

\* Two nodes exchange their links.
LEMMA JoinedIs ==
    ASSUME NEW store \in Stores, NEW last \in Nodes, NEW new \in Nodes, last # new
    PROVE  LET store2 == [store EXCEPT ![last].next = store[new].next, ![new].next = store[last].next]
           IN  /\ store2 \in Stores /\ Same(store, store2, Nodes)
               /\ Swapped(store, store2, last, new) /\ Kept(store, store2, Nodes \ {last, new})
<1> DEFINE store1 == [store EXCEPT ![last].next = store[new].next]
           store2 == [store1 EXCEPT ![new].next = store[last].next]
<1>1. store[new].next \in Nodes \cup {Null} /\ store[last].next \in Nodes \cup {Null}
    BY DEF Stores
<1>2. /\ store1 \in Stores /\ Same(store, store1, Nodes) /\ store1[last].next = store[new].next
      /\ Kept(store, store1, Nodes \ {last})
  <2> HIDE DEF store1
  <2>1. store1 = Link(store, last, store[new].next)
      BY DEF store1, Link
  <2> QED BY <1>1, <2>1, LinkIs
<1> HIDE DEF store1
<1>3. /\ store2 \in Stores /\ Same(store1, store2, Nodes) /\ store2[new].next = store[last].next
      /\ Kept(store1, store2, Nodes \ {new})
  <2> HIDE DEF store2
  <2>1. store2 = Link(store1, new, store[last].next)
      BY DEF store2, Link
  <2> QED BY <1>1, <1>2, <2>1, LinkIs
<1> HIDE DEF store2
<1>4. Same(store, store2, Nodes)
    BY <1>2, <1>3, SameTrans
<1>5. Swapped(store, store2, last, new) /\ Kept(store, store2, Nodes \ {last, new})
    BY <1>2, <1>3 DEF Kept, Swapped
<1> QED BY <1>3, <1>4, <1>5 DEF store1, store2

\* The base queue with the new updates behind it holds what both held.
LEMMA QueuedJoin ==
    ASSUME NEW store \in Stores, NEW base, NEW last \in Nodes \cup {Null}, NEW seen, NEW q, NEW p, NEW top,
           NEW new \in Nodes \cup {Null},
           Queued(store, base, last, seen, q, p, top), Ring(store, new, p), Sound(store, ToSet(p))
    PROVE  LET store2 == Joined(store, last, new)
           IN  /\ store2 \in Stores /\ Same(store, store2, Nodes)
               /\ \E q2 : /\ Queued(store2, base, IF new # Null THEN new ELSE last, seen, q2, <<>>, top)
                          /\ ToSet(q2) = ToSet(q) \cup ToSet(p)
                          /\ \A t : Due(store, q, p, t) => Due(store2, q2, <<>>, t)
<1> DEFINE store2 == Joined(store, last, new)
           last2 == IF new # Null THEN new ELSE last
<1>1. /\ q \in Seq(Nodes) /\ Ring(store, last, q) /\ ToSet(q) \subseteq Nodes
      /\ p \in Seq(Nodes) /\ ToSet(p) \subseteq Nodes /\ ToSet(q) \cap ToSet(p) = {}
    BY RingType DEF Queued
<1>2. ToSet(<<>>) = {} /\ Of(store2, {}) = {} /\ Synced(store2, {}) = {} /\ Ordered(store2, <<>>)
      /\ \A t : Marked(store2, <<>>, t) /\ AllMarked(store2, {}, t)
  <2>1. ToSet(<<>>) = {}
      BY EmptyPath
  <2>2. \A t : AllMarked(store2, {}, t)
      BY DEF AllMarked
  <2> QED BY <2>1, <2>2, OfNone, OrderedNone
<1>3. /\ store2 \in Stores /\ Same(store, store2, Nodes)
      /\ \E q2 : /\ Ring(store2, last2, q2) /\ ToSet(q2) = ToSet(q) \cup ToSet(p)
                 /\ Ordered(store2, q2) /\ \A t : Due(store, q, p, t) => Marked(store2, q2, t)
  <2>1. Same(store, store, Nodes)
      BY DEF Same
  <2>2. CASE new = Null
    <3>1. store2 = store /\ last2 = last /\ p = <<>> /\ ToSet(p) = {}
        BY <2>2, RingType DEF Joined
    <3> QED BY <1>1, <2>1, <3>1 DEF Queued, Account, Due
  <2>3. CASE new # Null /\ last = Null
    <3>1. store2 = store /\ last2 = new /\ q = <<>> /\ ToSet(q) = {}
        BY <2>3, <1>1, RingType DEF Joined
    <3>2. \A t : Due(store, q, p, t) => Marked(store, p, t)
        BY <1>1 DEF Due, AllMarked, Marked, ToSet
    <3> QED BY <1>1, <2>1, <3>1, <3>2 DEF Queued, Account
  <2>4. CASE new # Null /\ last # Null
    <3>1. last \in ToSet(q) /\ new \in ToSet(p) /\ last # new /\ last \in Nodes /\ new \in Nodes
        BY <1>1, <2>4, RingType
    <3>2. /\ store2 \in Stores /\ Same(store, store2, Nodes)
          /\ Swapped(store, store2, last, new) /\ Kept(store, store2, Nodes \ {last, new})
      <4>1. store2 = [store EXCEPT ![last].next = store[new].next, ![new].next = store[last].next]
          BY <2>4 DEF Joined
      <4> HIDE DEF store2
      <4> QED BY <3>1, <4>1, JoinedIs
    <3> HIDE DEF store2
    <3> DEFINE q2 == Cat(q, p)
    <3>3. Kept(store, store2, ToSet(q) \ {last}) /\ Kept(store, store2, ToSet(p) \ {new})
        BY <1>1, <3>1, <3>2 DEF Kept
    <3>4. /\ Ring(store2, new, q2) /\ ToSet(q2) = ToSet(q) \cup ToSet(p)
          /\ Joins(q2, q, p)
      <4>1. Ring(store, last, q) /\ Ring(store, new, p) /\ ToSet(q) \cap ToSet(p) = {}
            /\ last \in Nodes /\ new \in Nodes
          BY <1>1, <3>1
      <4> QED BY <3>2, <3>3, <4>1, RingJoin
    <3> HIDE DEF q2
    <3>5. Same(store, store2, ToSet(q)) /\ Same(store, store2, ToSet(p))
        BY <1>1, <3>2, SameSubset
    <3>6. Of(store2, ToSet(q)) = Of(store, ToSet(q)) /\ Of(store2, ToSet(p)) = Of(store, ToSet(p))
        BY <3>5, SameOf
    <3>7. Ordered(store2, q) /\ Ordered(store2, p) /\ Before(Of(store2, ToSet(q)), Of(store2, ToSet(p)))
        BY <1>1, <3>5, <3>6, SameList DEF Queued, Account
    <3>8. Ordered(store2, q2)
        BY <1>1, <3>4, <3>7, OrderedJoin
    <3>9. ASSUME NEW t, Due(store, q, p, t) PROVE Marked(store2, q2, t)
      <4>1. Marked(store2, q, t) /\ AllMarked(store2, ToSet(p), t)
          BY <1>1, <3>5, <3>9, SameOf, SameList DEF Due
      <4> QED BY <1>1, <3>4, <4>1, MarkedJoin
    <3>10. last2 = new
        BY <2>4
    <3> QED BY <3>2, <3>4, <3>8, <3>9, <3>10
  <2> QED BY <2>2, <2>3, <2>4
<1> HIDE DEF store2, last2
<1>4. PICK q2 : /\ Ring(store2, last2, q2) /\ ToSet(q2) = ToSet(q) \cup ToSet(p)
                /\ Ordered(store2, q2) /\ \A t : Due(store, q, p, t) => Marked(store2, q2, t)
    BY <1>3
<1>5. Same(store, store2, ToSet(q)) /\ Same(store, store2, ToSet(p))
    BY <1>1, <1>3, SameSubset
<1>6. /\ Of(store2, ToSet(q)) = Of(store, ToSet(q)) /\ Of(store2, ToSet(p)) = Of(store, ToSet(p))
      /\ Synced(store2, ToSet(q)) = Synced(store, ToSet(q)) /\ Sound(store2, ToSet(q))
      /\ Sound(store2, ToSet(p))
    BY <1>5, SameOf DEF Queued
<1>7. /\ Of(store2, ToSet(q2)) = Of(store, ToSet(q)) \cup Of(store, ToSet(p))
      /\ Synced(store, ToSet(q)) \subseteq Synced(store2, ToSet(q2))
  <2>1. /\ Of(store2, ToSet(q2)) = Of(store2, ToSet(q)) \cup Of(store2, ToSet(p))
        /\ Synced(store2, ToSet(q2)) = Synced(store2, ToSet(q)) \cup Synced(store2, ToSet(p))
      BY <1>4, OfUnion
  <2> QED BY <1>4, <1>6, <2>1
<1>8. Sound(store2, ToSet(q2))
    BY <1>4, <1>6 DEF Sound
<1>9. Account(store2, base, q2, <<>>, top)
  <2>1. Before(Of(store2, ToSet(q2)), {})
      BY DEF Before
  <2> QED BY <1>2, <1>4, <1>7, <2>1 DEF Queued, Account
<1>10. Queued(store2, base, last2, seen, q2, <<>>, top)
  <2>1. ToSet(q2) \cap ToSet(<<>>) = {}
      BY <1>2
  <2> QED BY <1>4, <1>7, <1>8, <1>9, <2>1 DEF Queued
<1>11. \A t : Due(store, q, p, t) => Due(store2, q2, <<>>, t)
    BY <1>2, <1>4 DEF Due
<1> QED BY <1>3, <1>4, <1>10, <1>11 DEF store2, last2

-----------------------------------------------------------------------------
(* A queue inside the loop *)

\* A base state, the new base queue n, the part of the base queue q from the k-th
\* node on, and the new updates p are all updates that were made, in their order.
Split(store, base, n, q, k, p, top) ==
    /\ Increasing(base) /\ Ordered(store, n) /\ Ordered(store, q) /\ Ordered(store, p)
    /\ Before(MadeIn(base), Of(store, ToSet(n)) \cup Of(store, From(q, k)) \cup Of(store, ToSet(p)))
    /\ Before(Of(store, ToSet(n)), Of(store, From(q, k)) \cup Of(store, ToSet(p)))
    /\ Before(Of(store, ToSet(q)), Of(store, ToSet(p))) /\ Of(store, ToSet(q)) \subseteq 1 .. top
    /\ MadeIn(base) \cup Of(store, ToSet(n)) \cup Of(store, From(q, k)) \cup Of(store, ToSet(p)) = 1 .. top

\* The lists, which share no node that is still to be looked at.
Lists3(store, l, effects, q, n, p, k) ==
    /\ Ring(store, l.baseQueue, q) /\ Line(store, l.newFirst, l.newLast, n)
    /\ q # <<>> /\ l.first = q[1]
    /\ Sound(store, ToSet(q)) /\ Sound(store, ToSet(n)) /\ Sound(store, ToSet(effects))
    /\ ToSet(q) \cap ToSet(p) = {} /\ ToSet(n) \cap (ToSet(q) \cup ToSet(p)) = {}
    /\ ToSet(effects) \cap (From(q, k) \cup ToSet(n) \cup ToSet(p)) = {}
    /\ Marked(store, n, l.newTime)

\* The updates in them.  While an updater function runs, the copy of its update
\* is in the new base queue already, if there is one.
Rest(n, k, mode) == IF mode = "reducer" /\ n # <<>> THEN k + 1 ELSE k
Base(l, n) == IF n = <<>> THEN l.newState ELSE l.newBaseState

Numbers(store, l, seen, q, n, p, k, mode, top) ==
    /\ Split(store, Base(l, n), n, q, Rest(n, k, mode), p, top)
    /\ Increasing(l.newState)
    /\ Before(MadeIn(l.newState), Of(store, From(q, k)) \cup Of(store, ToSet(p)))
    /\ MadeIn(l.newState) \subseteq seen
    /\ seen \subseteq MadeIn(l.newState) \cup Synced(store, From(q, k))
    /\ n # <<>> =>
         /\ MadeIn(l.newBaseState) \subseteq seen
         /\ MadeIn(l.newState) \subseteq MadeIn(l.newBaseState) \cup Synced(store, ToSet(n))
         /\ mode = "reducer" =>
              store[n[Len(n)]].time = Sync /\ store[n[Len(n)]].of = store[q[k]].of

Working(store, l, seen, effects, q, n, p, k, mode, top) ==
    Lists3(store, l, effects, q, n, p, k) /\ Numbers(store, l, seen, q, n, p, k, mode, top)

\* An open list is a sequence of nodes, and empty only when null refers to it.
LEMMA LineType ==
    ASSUME NEW store, NEW first, NEW last, NEW n, Line(store, first, last, n)
    PROVE  n \in Seq(Nodes) /\ ToSet(n) \subseteq Nodes /\ Path(store, n) /\ (last = Null <=> n = <<>>)
           /\ (n = <<>> => ToSet(n) = {})
           /\ (n # <<>> => last \in ToSet(n) /\ n[Len(n)] = last)
<1>1. n \in Seq(Nodes) /\ Path(store, n)
    BY DEF Line, Path
<1>2. ToSet(n) \subseteq Nodes
    BY <1>1 DEF ToSet
<1>3. last = Null <=> n = <<>>
    BY DEF Line
<1>4. n # <<>> => last \in ToSet(n) /\ n[Len(n)] = last
    BY <1>1, <1>3, LastIn DEF Line
<1> QED BY <1>1, <1>2, <1>3, <1>4, EmptyPath

\* N is a new node behind those in n.
Cloned(store, store2, l, l2, effects, q, n, n2, p, N) ==
    /\ n2 = Append(n, N) /\ N \in Nodes /\ N \notin ToSet(q) \cup ToSet(n) \cup ToSet(p) \cup ToSet(effects)
    /\ Same(store, store2, ToSet(q) \cup ToSet(n) \cup ToSet(p) \cup ToSet(effects))
    /\ Kept(store, store2, ToSet(q)) /\ Kept(store, store2, ToSet(n) \ {l.newLast})
    /\ Followed(store2, l.newLast, N)
    /\ store2[N].time \in Times /\ store2[N].callback /\ Marked(store2, n2, l2.newTime)
    /\ l2.baseQueue = l.baseQueue /\ l2.first = l.first /\ l2.newLast = N
    /\ l2.newFirst = IF l.newLast = Null THEN N ELSE l.newFirst

\* A copy of the k-th update goes to the end of the new base queue.
LEMMA CloneLists ==
    ASSUME NEW store, NEW store2, NEW l, NEW l2, NEW effects, NEW q, NEW n, NEW p, NEW k \in 1 .. Len(q),
           Lists3(store, l, effects, q, n, p, k), NEW N, NEW n2,
           Cloned(store, store2, l, l2, effects, q, n, n2, p, N)
    PROVE  Lists3(store2, l2, effects, q, n2, p, k) /\ ToSet(n2) = ToSet(n) \cup {N} /\ n2 # <<>>
           /\ n2[Len(n2)] = N
<1> USE DEF Cloned
<1>1. n \in Seq(Nodes) /\ Line(store, l.newFirst, l.newLast, n)
    BY LineType DEF Lists3
<1>2. Line(store2, l2.newFirst, N, n2) /\ ToSet(n2) = ToSet(n) \cup {N}
  <2>1. N \in Nodes \ ToSet(n)
      OBVIOUS
  <2> QED BY <1>1, <2>1, LineAppend
<1>3. Ring(store2, l2.baseQueue, q)
    BY RingFrame DEF Lists3, Kept
<1>4. Same(store, store2, ToSet(q)) /\ Same(store, store2, ToSet(n)) /\ Same(store, store2, ToSet(effects))
    BY DEF Same
<1>5. Sound(store2, ToSet(q)) /\ Sound(store2, ToSet(n)) /\ Sound(store2, ToSet(effects))
    BY <1>4, SameOf DEF Lists3
<1>6. Sound(store2, ToSet(n2))
    BY <1>2, <1>5 DEF Sound
<1>7. From(q, k) \subseteq ToSet(q)
  <2>1. q \in Seq(Nodes)
      BY RingType DEF Lists3
  <2> QED BY <2>1, FromIs
<1>8. n2 # <<>> /\ n2[Len(n2)] = N
    BY <1>1, <1>2, LineType, NodesAre
<1> HIDE DEF Lists3
<1>9. /\ q # <<>> /\ l2.first = q[1]
      /\ ToSet(q) \cap ToSet(p) = {} /\ ToSet(n2) \cap (ToSet(q) \cup ToSet(p)) = {}
      /\ ToSet(effects) \cap (From(q, k) \cup ToSet(n2) \cup ToSet(p)) = {}
    BY <1>2, <1>7 DEF Lists3
<1> QED BY <1>2, <1>3, <1>5, <1>6, <1>8, <1>9 DEF Lists3

\* The lists stay as they are when the loop goes on.
LEMMA ListsNext ==
    ASSUME NEW store, NEW l, NEW effects, NEW q, NEW n, NEW p, NEW k \in 1 .. Len(q),
           Lists3(store, l, effects, q, n, p, k)
    PROVE  Lists3(store, l, effects, q, n, p, k + 1)
<1>1. q \in Seq(Nodes)
    BY RingType DEF Lists3
<1>2. From(q, k + 1) \subseteq From(q, k)
    BY <1>1, FromIs
<1> QED BY <1>2 DEF Lists3

\* The updates stay all there when the k-th one is copied.
LEMMA CloneSplit ==
    ASSUME NEW store, NEW store2, NEW base, NEW q \in Seq(Nodes), NEW n \in Seq(Nodes), NEW p \in Seq(Nodes),
           NEW k \in 1 .. Len(q), NEW top,
           Split(store, base, n, q, k, p, top), NEW N \in Nodes, NEW n2, n2 = Append(n, N),
           ToSet(n2) = ToSet(n) \cup {N},
           Same(store, store2, ToSet(q) \cup ToSet(n) \cup ToSet(p)),
           store2[N].of = store[q[k]].of
    PROVE  Split(store2, base, n2, q, k + 1, p, top)
<1>1. Same(store, store2, ToSet(q)) /\ Same(store, store2, ToSet(n)) /\ Same(store, store2, ToSet(p))
    BY DEF Same
<1>2. /\ From(q, k) = {q[k]} \cup From(q, k + 1) /\ From(q, k) \subseteq ToSet(q) /\ q[k] \in ToSet(q)
      /\ From(q, k + 1) \subseteq ToSet(q)
    BY FromIs
<1>3. /\ Of(store2, ToSet(q)) = Of(store, ToSet(q)) /\ Of(store2, ToSet(n)) = Of(store, ToSet(n))
      /\ Of(store2, ToSet(p)) = Of(store, ToSet(p))
      /\ Of(store2, From(q, k + 1)) = Of(store, From(q, k + 1))
    BY <1>1, <1>2, SameOf
<1>4. Ordered(store, q) /\ Ordered(store, n) /\ Ordered(store, p)
    BY DEF Split
<1>5. Ordered(store2, q) /\ Ordered(store2, n) /\ Ordered(store2, p)
    BY <1>1, <1>4, SameList
<1> DEFINE U == One(store[q[k]].of)
           A == MadeIn(base)
           B == Of(store, ToSet(n))
           C == Of(store, From(q, k + 1))
           D == Of(store, ToSet(p))
           E == Of(store, ToSet(q))
<1>6. Of(store, From(q, k)) = U \cup C
  <2>1. Of(store, {q[k]}) = U
      BY OfOne
  <2> DEFINE K == {q[k]}
  <2> HIDE DEF K
  <2>2. From(q, k) = K \cup From(q, k + 1)
      BY <1>2 DEF K
  <2>3. Of(store, From(q, k)) = Of(store, K) \cup Of(store, From(q, k + 1))
      BY <2>2 DEF Of
  <2> QED BY <2>1, <2>3 DEF K
<1>7. Before(U, C)
    BY <1>4, OrderedHead
<1>8. U \subseteq E
    BY <1>2 DEF One, Of
<1>9. Of(store2, ToSet(n2)) = B \cup U
  <2>1. Of(store2, {N}) = U
      BY OfOne
  <2> DEFINE K == {N}
  <2> HIDE DEF K
  <2>2. ToSet(n2) = ToSet(n) \cup K
      BY DEF K
  <2>3. Of(store2, ToSet(n2)) = Of(store2, ToSet(n)) \cup Of(store2, K)
      BY <2>2 DEF Of
  <2> QED BY <1>3, <2>1, <2>3 DEF K
<1>10. /\ Before(A, B \cup (U \cup C) \cup D) /\ Before(B, (U \cup C) \cup D) /\ Before(E, D)
       /\ E \subseteq 1 .. top /\ A \cup B \cup (U \cup C) \cup D = 1 .. top
    BY <1>6 DEF Split
<1>11. Ordered(store2, n2)
  <2>1. Before(Of(store2, ToSet(n)), One(store2[N].of))
      BY <1>3, <1>10 DEF Before
  <2> QED BY <1>5, <2>1, OrderedAppend
<1> HIDE DEF U, A, B, C, D, E
<1>12. /\ Before(A, (B \cup U) \cup C \cup D) /\ Before(B \cup U, C \cup D) /\ Before(E, D)
       /\ A \cup (B \cup U) \cup C \cup D = 1 .. top
    BY <1>7, <1>8, <1>10 DEF Before
<1>13. Increasing(base)
    BY DEF Split
<1> QED BY <1>3, <1>5, <1>9, <1>11, <1>12, <1>13 DEF Split, A, B, C, D, E

\* The part of a list from a node on is that node and the part behind it.
LEMMA FromSplit ==
    ASSUME NEW store, NEW q \in Seq(Nodes), NEW k \in 1 .. Len(q)
    PROVE  /\ Of(store, From(q, k)) = One(store[q[k]].of) \cup Of(store, From(q, k + 1))
           /\ Synced(store, From(q, k)) \subseteq One(store[q[k]].of) \cup Synced(store, From(q, k + 1))
           /\ store[q[k]].time # Sync => Synced(store, From(q, k)) = Synced(store, From(q, k + 1))
<1> DEFINE K == {q[k]}
<1>1. Of(store, K) = One(store[q[k]].of)
      /\ Synced(store, K) = IF store[q[k]].time = Sync THEN One(store[q[k]].of) ELSE {}
    BY OfOne
<1> HIDE DEF K
<1>2. From(q, k) = K \cup From(q, k + 1)
    BY FromIs DEF K
<1>3. Of(store, From(q, k)) = Of(store, K) \cup Of(store, From(q, k + 1))
    BY <1>2 DEF Of
<1>4. Synced(store, From(q, k)) = Synced(store, K) \cup Synced(store, From(q, k + 1))
    BY <1>2 DEF Of, Synced
<1> QED BY <1>1, <1>3, <1>4

\* The k-th update is skipped: a copy of it stays.
LEMMA SkipKeeps ==
    ASSUME NEW store, NEW store2, NEW l, NEW l2, NEW seen, NEW effects, NEW q, NEW n, NEW p, NEW k \in 1 .. Len(q),
           NEW top, Working(store, l, seen, effects, q, n, p, k, "update", top),
           p \in Seq(Nodes), NEW N, NEW n2,
           Cloned(store, store2, l, l2, effects, q, n, n2, p, N),
           store2[N].of = store[q[k]].of, store[q[k]].time # Sync,
           l2.newState = l.newState, l2.newBaseState = IF l.newLast = Null THEN l.newState ELSE l.newBaseState
    PROVE  Working(store2, l2, seen, effects, q, n2, p, k + 1, "update", top)
<1>1. Lists3(store, l, effects, q, n, p, k) /\ Numbers(store, l, seen, q, n, p, k, "update", top)
    BY DEF Working
<1>2. /\ Lists3(store2, l2, effects, q, n2, p, k) /\ ToSet(n2) = ToSet(n) \cup {N} /\ n2 # <<>>
  <2>1. Lists3(store2, l2, effects, q, n2, p, k)
      BY <1>1, CloneLists
  <2>2. ToSet(n2) = ToSet(n) \cup {N}
      BY <1>1, CloneLists
  <2>3. n2 # <<>>
      BY <2>2, EmptyPath
  <2> QED BY <2>1, <2>2, <2>3
<1>3. Lists3(store2, l2, effects, q, n2, p, k + 1)
    BY <1>2, ListsNext
<1>4. q \in Seq(Nodes) /\ n \in Seq(Nodes) /\ (l.newLast = Null <=> n = <<>>)
    BY <1>1, RingType, LineType DEF Lists3
<1>5. Split(store, Base(l, n), n, q, k, p, top)
    BY <1>1 DEF Numbers, Rest
<1>6. Same(store, store2, ToSet(q) \cup ToSet(n) \cup ToSet(p)) /\ N \in Nodes /\ n2 = Append(n, N)
    BY DEF Same, Cloned
<1>7. Split(store2, Base(l, n), n2, q, k + 1, p, top)
    BY <1>2, <1>4, <1>5, <1>6, CloneSplit
<1>8. Base(l, n) = Base(l2, n2) /\ Base(l, n) = l2.newBaseState
    BY <1>2, <1>4 DEF Base
<1>9. Same(store, store2, ToSet(q)) /\ Same(store, store2, ToSet(n)) /\ Same(store, store2, ToSet(p))
    BY DEF Same, Cloned
<1>10. From(q, k + 1) \subseteq ToSet(q) /\ From(q, k + 1) \subseteq From(q, k)
    BY <1>4, FromIs
<1>11. /\ Of(store2, ToSet(p)) = Of(store, ToSet(p))
       /\ Of(store2, From(q, k + 1)) = Of(store, From(q, k + 1))
       /\ Synced(store2, From(q, k + 1)) = Synced(store, From(q, k + 1))
       /\ Synced(store2, ToSet(n)) = Synced(store, ToSet(n))
    BY <1>9, <1>10, SameOf
<1>12. Synced(store2, ToSet(n)) \subseteq Synced(store2, ToSet(n2))
    BY <1>2, OfSubset
<1>13. /\ Synced(store, From(q, k)) = Synced(store, From(q, k + 1))
       /\ Of(store, From(q, k + 1)) \subseteq Of(store, From(q, k))
  <2>1. Of(store, From(q, k + 1)) \subseteq Of(store, From(q, k))
      BY <1>10, OfSubset
  <2>2. Synced(store, From(q, k)) = Synced(store, From(q, k + 1))
      BY <1>4, FromSplit
  <2> QED BY <2>1, <2>2
<1>14. Before(MadeIn(l2.newState), Of(store2, From(q, k + 1)) \cup Of(store2, ToSet(p)))
    BY <1>1, <1>11, <1>13 DEF Numbers, Before
<1>15. MadeIn(l2.newBaseState) \subseteq seen
    BY <1>1, <1>4 DEF Numbers
<1>16. MadeIn(l2.newState) \subseteq MadeIn(l2.newBaseState) \cup Synced(store2, ToSet(n2))
    BY <1>1, <1>4, <1>11, <1>12 DEF Numbers
<1>17. Rest(n2, k + 1, "update") = k + 1
    BY DEF Rest
<1>18. Numbers(store2, l2, seen, q, n2, p, k + 1, "update", top)
    BY <1>1, <1>7, <1>8, <1>11, <1>13, <1>14, <1>15, <1>16, <1>17 DEF Numbers
<1> QED BY <1>3, <1>18 DEF Working

\* The k-th update is applied behind a skipped one: a Sync copy of it stays.
LEMMA RebaseKeeps ==
    ASSUME NEW store, NEW store2, NEW l, NEW l2, NEW seen, NEW effects, NEW q, NEW n, NEW p, NEW k \in 1 .. Len(q),
           NEW top, Working(store, l, seen, effects, q, n, p, k, "update", top),
           p \in Seq(Nodes), NEW N, NEW n2, n # <<>>,
           Cloned(store, store2, l, l2, effects, q, n, n2, p, N),
           store2[N].of = store[q[k]].of, store2[N].time = Sync,
           l2.newState = l.newState, l2.newBaseState = l.newBaseState
    PROVE  Working(store2, l2, seen, effects, q, n2, p, k, "reducer", top)
<1>1. Lists3(store, l, effects, q, n, p, k) /\ Numbers(store, l, seen, q, n, p, k, "update", top)
    BY DEF Working
<1>2. q \in Seq(Nodes) /\ n \in Seq(Nodes) /\ (l.newLast = Null <=> n = <<>>)
    BY <1>1, RingType, LineType DEF Lists3
<1>3. /\ Lists3(store2, l2, effects, q, n2, p, k) /\ ToSet(n2) = ToSet(n) \cup {N} /\ n2 # <<>>
      /\ n2[Len(n2)] = N
    BY <1>1, CloneLists
<1>4. Split(store, Base(l, n), n, q, k, p, top)
    BY <1>1 DEF Numbers, Rest
<1>5. Same(store, store2, ToSet(q) \cup ToSet(n) \cup ToSet(p)) /\ N \in Nodes /\ n2 = Append(n, N)
    BY DEF Same, Cloned
<1>6. Split(store2, Base(l, n), n2, q, k + 1, p, top)
    BY <1>2, <1>3, <1>4, <1>5, CloneSplit
<1>7. Base(l, n) = Base(l2, n2)
    BY <1>3 DEF Base
<1>8. Same(store, store2, ToSet(q)) /\ Same(store, store2, ToSet(n)) /\ Same(store, store2, ToSet(p))
    BY DEF Same, Cloned
<1>9. From(q, k) \subseteq ToSet(q) /\ q[k] \in ToSet(q)
    BY <1>2, FromIs
<1>10. /\ Of(store2, ToSet(p)) = Of(store, ToSet(p))
       /\ Of(store2, From(q, k)) = Of(store, From(q, k))
       /\ Synced(store2, From(q, k)) = Synced(store, From(q, k))
       /\ Synced(store2, ToSet(n)) = Synced(store, ToSet(n))
    BY <1>8, <1>9, SameOf
<1>11. Synced(store2, ToSet(n)) \subseteq Synced(store2, ToSet(n2))
    BY <1>3, OfSubset
<1>12. Before(MadeIn(l2.newState), Of(store2, From(q, k)) \cup Of(store2, ToSet(p)))
    BY <1>1, <1>10 DEF Numbers
<1>13. MadeIn(l2.newState) \subseteq MadeIn(l2.newBaseState) \cup Synced(store2, ToSet(n2))
    BY <1>1, <1>10, <1>11 DEF Numbers
<1>14. store2[n2[Len(n2)]].time = Sync /\ store2[n2[Len(n2)]].of = store2[q[k]].of
    BY <1>3, <1>8, <1>9 DEF Same
<1>15. Rest(n2, k, "reducer") = k + 1
    BY <1>3 DEF Rest
<1>16. Numbers(store2, l2, seen, q, n2, p, k, "reducer", top)
    BY <1>1, <1>6, <1>7, <1>10, <1>12, <1>13, <1>14, <1>15 DEF Numbers
<1> QED BY <1>3, <1>16 DEF Working

\* The updater function of the k-th update returns.
LEMMA ApplyKeeps ==
    ASSUME NEW store, NEW l, NEW l2, NEW seen, NEW effects \in Seq(Nodes), NEW q, NEW n, NEW p, NEW k \in 1 .. Len(q),
           NEW top, Working(store, l, seen, effects, q, n, p, k, "reducer", top),
           NEW seen2, seen2 = seen \cup One(store[q[k]].of),
           l.newState \in Seq(Nat), store[q[k]].of \in Nat,
           l2.baseQueue = l.baseQueue, l2.first = l.first, l2.newLast = l.newLast, l2.newFirst = l.newFirst,
           l2.newState = Append(l.newState, store[q[k]].of), l2.newBaseState = l.newBaseState,
           l2.newTime = l.newTime
    PROVE  Working(store, l2, seen2, Append(effects, q[k]), q, n, p, k + 1, "update", top)
<1> DEFINE u == store[q[k]].of
           effects2 == Append(effects, q[k])
<1> HIDE DEF u, effects2
<1>1. Lists3(store, l, effects, q, n, p, k) /\ Numbers(store, l, seen, q, n, p, k, "reducer", top)
    BY DEF Working
<1>2. /\ q \in Seq(Nodes) /\ n \in Seq(Nodes) /\ Path(store, q) /\ q[k] \in Nodes
      /\ (n # <<>> => n[Len(n)] \in ToSet(n))
  <2>1. q \in Seq(Nodes) /\ n \in Seq(Nodes) /\ Path(store, q) /\ (n # <<>> => n[Len(n)] \in ToSet(n))
      BY <1>1, RingType, LineType DEF Lists3, Ring
  <2> QED BY <2>1
<1>3. /\ From(q, k + 1) \subseteq From(q, k) /\ q[k] \in ToSet(q) /\ q[k] \notin From(q, k + 1)
    BY <1>2, FromIs, NotBehind
<1>4. ToSet(effects2) = ToSet(effects) \cup {q[k]}
  <2> DEFINE m == q[k]
  <2> HIDE DEF m
  <2>1. m \in Nodes /\ effects2 = Append(effects, m)
      BY <1>2 DEF m, effects2
  <2>2. /\ Len(effects) \in Nat /\ DOMAIN effects = 1 .. Len(effects) /\ DOMAIN effects2 = 1 .. (Len(effects) + 1)
        /\ effects2[Len(effects) + 1] = m /\ \A i \in 1 .. Len(effects) : effects2[i] = effects[i]
      BY <2>1
  <2>3. ToSet(effects2) \subseteq ToSet(effects) \cup {m}
      BY <2>2 DEF ToSet
  <2>4. m \in ToSet(effects2)
    <3>1. Len(effects) + 1 \in 1 .. (Len(effects) + 1)
        BY <2>2
    <3> QED BY <2>2, <3>1 DEF ToSet
  <2>5. ToSet(effects) \subseteq ToSet(effects2)
    <3>1. \A i \in 1 .. Len(effects) : i \in 1 .. (Len(effects) + 1)
        BY <2>2
    <3> QED BY <2>2, <3>1 DEF ToSet
  <2> QED BY <2>3, <2>4, <2>5 DEF m
<1>5. Lists3(store, l2, effects2, q, n, p, k + 1)
  <2>1. Sound(store, ToSet(effects2))
      BY <1>1, <1>3, <1>4 DEF Lists3, Sound
  <2>2. ToSet(effects2) \cap (From(q, k + 1) \cup ToSet(n) \cup ToSet(p)) = {}
      BY <1>1, <1>3, <1>4 DEF Lists3
  <2> QED BY <1>1, <2>1, <2>2 DEF Lists3
<1> DEFINE S == MadeIn(l.newState)
           S2 == MadeIn(l2.newState)
           C == Of(store, From(q, k + 1))
           D == Of(store, ToSet(p))
           Y == Synced(store, From(q, k + 1))
<1>6. /\ Of(store, From(q, k)) = One(u) \cup C
      /\ Synced(store, From(q, k)) \subseteq One(u) \cup Y
    BY <1>2, FromSplit DEF u
<1>7. Before(S, (One(u) \cup C) \cup D) /\ Increasing(l.newState) /\ S \subseteq seen
      /\ seen \subseteq S \cup (One(u) \cup Y)
    BY <1>1, <1>6 DEF Numbers
<1>8. S2 = S \cup One(u) /\ Increasing(l2.newState)
  <2>1. Before(S, One(u))
      BY <1>7 DEF Before
  <2>2. u \in Nat /\ l2.newState = Append(l.newState, u)
      BY DEF u
  <2> QED BY <1>7, <2>1, <2>2, MadeAppend
<1>9. Before(One(u), C) /\ Before(One(u), D)
  <2>1. Ordered(store, q) /\ Before(Of(store, ToSet(q)), D)
      BY <1>1 DEF Numbers, Split
  <2>2. Before(One(u), C)
      BY <1>2, <2>1, OrderedHead DEF u
  <2>3. One(u) \subseteq Of(store, ToSet(q))
      BY <1>3 DEF One, Of, u
  <2> QED BY <2>1, <2>2, <2>3 DEF Before
<1>10. Before(S2, C \cup D)
    BY <1>7, <1>8, <1>9 DEF Before
<1>11. S2 \subseteq seen2 /\ seen2 \subseteq S2 \cup Y
    BY <1>7, <1>8 DEF u
<1>12. Split(store, Base(l2, n), n, q, k + 1, p, top)
  <2>1. CASE n # <<>>
      BY <1>1, <2>1 DEF Numbers, Rest, Base
  <2>2. CASE n = <<>>
    <3>1. Split(store, l.newState, n, q, k, p, top)
        BY <1>1, <2>2 DEF Numbers, Rest, Base
    <3>2. Of(store, ToSet(n)) = {}
        BY <2>2, EmptyPath, OfNone
    <3>3. S \cup (One(u) \cup C) \cup D = 1 .. top
        BY <1>6, <3>1, <3>2 DEF Split
    <3>4. S2 \cup {} \cup C \cup D = 1 .. top
        BY <1>8, <3>3
    <3>5. Before(S2, {} \cup C \cup D) /\ Before({}, C \cup D)
        BY <1>10 DEF Before
    <3>6. Base(l2, n) = l2.newState
        BY <2>2 DEF Base
    <3> QED BY <1>8, <3>1, <3>2, <3>4, <3>5, <3>6 DEF Split
  <2> QED BY <2>1, <2>2
<1>13. n # <<>> => /\ MadeIn(l2.newBaseState) \subseteq seen2
                   /\ S2 \subseteq MadeIn(l2.newBaseState) \cup Synced(store, ToSet(n))
  <2> SUFFICES ASSUME n # <<>>
               PROVE /\ MadeIn(l2.newBaseState) \subseteq seen2
                     /\ S2 \subseteq MadeIn(l2.newBaseState) \cup Synced(store, ToSet(n))
      OBVIOUS
  <2>1. /\ MadeIn(l.newBaseState) \subseteq seen /\ S \subseteq MadeIn(l.newBaseState) \cup Synced(store, ToSet(n))
        /\ store[n[Len(n)]].time = Sync /\ store[n[Len(n)]].of = u
      BY <1>1 DEF Numbers, u
  <2>2. One(u) \subseteq Synced(store, ToSet(n))
      BY <1>2, <2>1 DEF One, Synced, Of
  <2> QED BY <1>8, <2>1, <2>2
<1>14. Rest(n, k + 1, "update") = k + 1
    BY DEF Rest
<1>15. Numbers(store, l2, seen2, q, n, p, k + 1, "update", top)
    BY <1>8, <1>10, <1>11, <1>12, <1>13, <1>14 DEF Numbers
<1> QED BY <1>5, <1>15 DEF Working, effects2

\* An update is made while the loop runs.
Pushed(store, store2, effects, q, n, p, p2, N, top) ==
    /\ p2 = Append(p, N) /\ ToSet(p2) = ToSet(p) \cup {N}
    /\ N \in Nodes /\ N \notin ToSet(q) \cup ToSet(n) \cup ToSet(p) \cup ToSet(effects)
    /\ Same(store, store2, ToSet(q) \cup ToSet(n) \cup ToSet(p) \cup ToSet(effects))
    /\ Kept(store, store2, ToSet(q)) /\ Kept(store, store2, ToSet(n))
    /\ store2[N].of = top + 1

\* The lists of the loop are not touched by an update made meanwhile.
LEMMA PushKeeps ==
    ASSUME NEW store, NEW store2, NEW l, NEW seen, NEW effects, NEW q, NEW n, NEW p, NEW k \in 1 .. Len(q),
           NEW mode, NEW top \in Nat, Working(store, l, seen, effects, q, n, p, k, mode, top),
           p \in Seq(Nodes), NEW N, NEW p2, Pushed(store, store2, effects, q, n, p, p2, N, top)
    PROVE  Working(store2, l, seen, effects, q, n, p2, k, mode, top + 1)
<1>1. Lists3(store, l, effects, q, n, p, k) /\ Numbers(store, l, seen, q, n, p, k, mode, top)
    BY DEF Working
<1>2. /\ q \in Seq(Nodes) /\ n \in Seq(Nodes) /\ ToSet(q) \subseteq Nodes /\ Ring(store, l.baseQueue, q)
      /\ Line(store, l.newFirst, l.newLast, n)
      /\ (n # <<>> => n[Len(n)] \in ToSet(n))
    BY <1>1, RingType, LineType DEF Lists3
<1>3. /\ Same(store, store2, ToSet(q)) /\ Same(store, store2, ToSet(n)) /\ Same(store, store2, ToSet(p))
      /\ Same(store, store2, ToSet(effects))
    BY DEF Same, Pushed
<1> DEFINE K == Rest(n, k, mode)
<1>4. /\ From(q, k) \subseteq ToSet(q) /\ From(q, K) \subseteq ToSet(q) /\ q[k] \in ToSet(q)
    BY <1>2, FromIs DEF Rest
<1>5. /\ Of(store2, ToSet(q)) = Of(store, ToSet(q)) /\ Of(store2, ToSet(n)) = Of(store, ToSet(n))
      /\ Of(store2, ToSet(p)) = Of(store, ToSet(p))
      /\ Of(store2, From(q, k)) = Of(store, From(q, k)) /\ Of(store2, From(q, K)) = Of(store, From(q, K))
      /\ Synced(store2, From(q, k)) = Synced(store, From(q, k))
      /\ Synced(store2, ToSet(n)) = Synced(store, ToSet(n))
      /\ Sound(store2, ToSet(q)) /\ Sound(store2, ToSet(n)) /\ Sound(store2, ToSet(effects))
    BY <1>1, <1>3, <1>4, SameOf DEF Lists3
<1>6. Ordered(store2, q) /\ Ordered(store2, n) /\ Ordered(store2, p) /\ Marked(store2, n, l.newTime)
  <2>1. Ordered(store, q) /\ Ordered(store, n) /\ Ordered(store, p) /\ Marked(store, n, l.newTime)
      BY <1>1 DEF Numbers, Split, Lists3
  <2> QED BY <1>2, <1>3, <2>1, SameList
<1>7. Ring(store2, l.baseQueue, q)
    BY <1>2, RingFrame DEF Pushed, Kept
<1>8. Line(store2, l.newFirst, l.newLast, n)
    BY <1>2, LineFrame DEF Pushed, Kept
<1>9. Lists3(store2, l, effects, q, n, p2, k)
  <2>1. /\ ToSet(q) \cap ToSet(p2) = {} /\ ToSet(n) \cap (ToSet(q) \cup ToSet(p2)) = {}
        /\ ToSet(effects) \cap (From(q, k) \cup ToSet(n) \cup ToSet(p2)) = {}
      BY <1>1 DEF Lists3, Pushed
  <2> QED BY <1>1, <1>5, <1>6, <1>7, <1>8, <2>1 DEF Lists3
<1> DEFINE A == MadeIn(Base(l, n))
           B == Of(store, ToSet(n))
           C == Of(store, From(q, K))
           C2 == Of(store, From(q, k))
           D == Of(store, ToSet(p))
           E == Of(store, ToSet(q))
           S == MadeIn(l.newState)
<1>10. Of(store2, ToSet(p2)) = D \cup {top + 1}
  <2> DEFINE M == {N}
  <2>1. Of(store2, M) = One(store2[N].of)
      BY OfOne
  <2> HIDE DEF M
  <2>2. ToSet(p2) = ToSet(p) \cup M
      BY DEF Pushed, M
  <2>3. Of(store2, ToSet(p2)) = Of(store2, ToSet(p)) \cup Of(store2, M)
      BY <2>2 DEF Of
  <2>4. One(store2[N].of) = {top + 1}
      BY DEF One, Pushed, Capture
  <2> QED BY <1>5, <2>1, <2>3, <2>4
<1>11. /\ Before(A, B \cup C \cup D) /\ Before(B, C \cup D) /\ Before(E, D) /\ A \cup B \cup C \cup D = 1 .. top
       /\ Before(S, C2 \cup D)
    BY <1>1 DEF Numbers, Split
<1>12. E \subseteq 1 .. top /\ S \subseteq 1 .. top
  <2>1. E \subseteq 1 .. top
      BY <1>1 DEF Numbers, Split
  <2>2. CASE n = <<>>
    <3>1. S = A
        BY <2>2 DEF Base
    <3> QED BY <1>11, <2>1, <3>1
  <2>3. CASE n # <<>>
    <3>1. S \subseteq A \cup Synced(store, ToSet(n))
        BY <1>1, <2>3 DEF Numbers, Base
    <3>2. Synced(store, ToSet(n)) \subseteq B
        BY SyncedIn
    <3> QED BY <1>11, <2>1, <3>1, <3>2
  <2> QED BY <2>2, <2>3
<1>13. Ordered(store2, p2)
  <2>1. Before(Of(store2, ToSet(p)), One(store2[N].of))
    <3>1. One(store2[N].of) = {top + 1} /\ D \subseteq 1 .. top
        BY <1>11 DEF One, Pushed, Capture
    <3> QED BY <1>5, <3>1 DEF Before
  <2> QED BY <1>6, <2>1, OrderedAppend DEF Pushed
<1> HIDE DEF A, B, C, C2, D, E, S
<1>14. /\ Before(A, B \cup C \cup (D \cup {top + 1})) /\ Before(B, C \cup (D \cup {top + 1}))
       /\ Before(E, D \cup {top + 1}) /\ A \cup B \cup C \cup (D \cup {top + 1}) = 1 .. (top + 1)
       /\ Before(S, C2 \cup (D \cup {top + 1})) /\ E \subseteq 1 .. (top + 1)
  <2>1. /\ \A a \in A \cup B \cup E \cup S : a \in 1 .. top
      BY <1>11, <1>12
  <2>2. \A a \in A \cup B \cup E \cup S : a < top + 1
      BY <2>1
  <2>3. A \cup B \cup C \cup (D \cup {top + 1}) = 1 .. (top + 1)
      BY <1>11
  <2>4. E \subseteq 1 .. (top + 1)
      BY <1>12
  <2> QED BY <1>11, <2>2, <2>3, <2>4 DEF Before
<1>15. Split(store2, Base(l, n), n, q, K, p2, top + 1)
  <2>1. Increasing(Base(l, n))
      BY <1>1 DEF Numbers, Split
  <2> QED BY <1>5, <1>6, <1>10, <1>13, <1>14, <2>1 DEF Split, A, B, C, D, E
<1>16. n # <<>> /\ mode = "reducer" =>
         store2[n[Len(n)]].time = Sync /\ store2[n[Len(n)]].of = store2[q[k]].of
  <2> SUFFICES ASSUME n # <<>>, mode = "reducer"
               PROVE  store2[n[Len(n)]].time = Sync /\ store2[n[Len(n)]].of = store2[q[k]].of
      OBVIOUS
  <2>1. store[n[Len(n)]].time = Sync /\ store[n[Len(n)]].of = store[q[k]].of
      BY <1>1 DEF Numbers
  <2> QED BY <1>2, <1>3, <1>4, <2>1 DEF Same
<1>17. Numbers(store2, l, seen, q, n, p2, k, mode, top + 1)
    BY <1>1, <1>5, <1>10, <1>14, <1>15, <1>16 DEF Numbers, S, C2
<1> QED BY <1>9, <1>17 DEF Working

\* The node behind the k-th.
LEMMA RingNext ==
    ASSUME NEW store, NEW last, NEW q, Ring(store, last, q), q # <<>>, NEW k \in 1 .. Len(q)
    PROVE  /\ k < Len(q) => /\ k + 1 \in 1 .. Len(q) /\ store[q[k]].next = q[k + 1]
                           /\ store[q[k]].next # q[1]
           /\ k = Len(q) => store[q[k]].next = q[1]
<1>1. Path(store, q) /\ Len(q) \in Nat
    BY PathLength DEF Ring
<1>2. CASE k < Len(q)
  <2>1. k \in 1 .. Len(q) - 1 /\ k + 1 \in 1 .. Len(q) /\ 1 \in 1 .. Len(q) /\ k + 1 # 1
      BY <1>1, <1>2
  <2>2. store[q[k]].next = q[k + 1] /\ q[k + 1] # q[1]
      BY <1>1, <2>1 DEF Path
  <2> QED BY <1>2, <2>1, <2>2
<1>3. CASE k = Len(q)
    BY <1>3 DEF Ring
<1> QED BY <1>1, <1>2, <1>3

\* Updater functions have made updates: the loop goes on with them.
LEMMA JoinKeeps ==
    ASSUME NEW store \in Stores, NEW l, NEW l2, NEW seen, NEW effects, NEW q, NEW n, NEW p, NEW top,
           NEW last \in Nodes, NEW new \in Nodes, last = l.baseQueue, ToSet(effects) \subseteq Nodes,
           Working(store, l, seen, effects, q, n, p, Len(q) + 1, "update", top), Ring(store, new, p),
           Sound(store, ToSet(p)),
           l2.baseQueue = new, l2.first = l.first, l2.newFirst = l.newFirst, l2.newLast = l.newLast,
           l2.newState = l.newState, l2.newBaseState = l.newBaseState, l2.newTime = l.newTime
    PROVE  LET store2 == Joined(store, last, new)
           IN  /\ store2 \in Stores /\ Same(store, store2, Nodes)
               /\ Working(store2, l2, seen, effects, Cat(q, p), n, <<>>, Len(q) + 1, "update", top)
               /\ Len(q) + 1 \in 1 .. Len(Cat(q, p)) /\ Cat(q, p)[Len(q) + 1] = store[new].next
<1> DEFINE store2 == Joined(store, last, new)
           t == Cat(q, p)
           K == Len(q) + 1
<1>1. Lists3(store, l, effects, q, n, p, K) /\ Numbers(store, l, seen, q, n, p, K, "update", top)
    BY DEF Working
<1>2. /\ q \in Seq(Nodes) /\ p \in Seq(Nodes) /\ n \in Seq(Nodes) /\ Ring(store, last, q)
      /\ Line(store, l.newFirst, l.newLast, n) /\ ToSet(q) \subseteq Nodes /\ ToSet(p) \subseteq Nodes
      /\ last \in ToSet(q) /\ new \in ToSet(p) /\ p # <<>> /\ ToSet(q) \cap ToSet(p) = {}
      /\ ToSet(n) \subseteq Nodes /\ ToSet(n) \cap (ToSet(q) \cup ToSet(p)) = {}
  <2>1. Ring(store, last, q) /\ Line(store, l.newFirst, l.newLast, n)
      BY <1>1 DEF Lists3
  <2>2. last # Null /\ new # Null
      BY NodesAre
  <2>3. ToSet(q) \cap ToSet(p) = {} /\ ToSet(n) \cap (ToSet(q) \cup ToSet(p)) = {}
      BY <1>1 DEF Lists3
  <2> QED BY <2>1, <2>2, <2>3, RingType, LineType
<1>3. /\ store2 \in Stores /\ Same(store, store2, Nodes)
      /\ Swapped(store, store2, last, new) /\ Kept(store, store2, Nodes \ {last, new})
  <2>1. last # new
      BY <1>2
  <2>2. store2 = [store EXCEPT ![last].next = store[new].next, ![new].next = store[last].next]
      BY NodesAre DEF Joined
  <2> HIDE DEF store2
  <2> QED BY <2>1, <2>2, JoinedIs
<1> HIDE DEF store2, t
<1>4. Ring(store2, new, t) /\ ToSet(t) = ToSet(q) \cup ToSet(p) /\ Joins(t, q, p)
  <2>1. Kept(store, store2, ToSet(q) \ {last}) /\ Kept(store, store2, ToSet(p) \ {new})
      BY <1>2, <1>3 DEF Kept
  <2>2. Ring(store, last, q) /\ Ring(store, new, p) /\ ToSet(q) \cap ToSet(p) = {}
      BY <1>2
  <2> DEFINE c == Cat(q, p)
  <2>3. Ring(store2, new, c)
      BY <1>3, <2>1, <2>2, RingJoin
  <2>4. Joins(c, q, p)
      BY <1>3, <2>1, <2>2, RingJoin
  <2> QED BY <2>3, <2>4 DEF t, Joins
<1>5. /\ Len(q) \in Nat /\ Len(p) \in Nat /\ Len(p) # 0 /\ Len(t) = Len(q) + Len(p)
      /\ \A i \in 1 .. Len(p) : t[Len(q) + i] = p[i]
      /\ \A i \in 1 .. Len(q) : t[i] = q[i]
    BY <1>2, <1>4 DEF Joins
<1>6. K \in 1 .. Len(t) /\ t[K] = store[new].next /\ t[1] = q[1] /\ t # <<>>
  <2>1. 1 \in 1 .. Len(p) /\ 1 \in 1 .. Len(q) /\ K \in 1 .. Len(t)
    <3>1. Len(q) # 0
        BY <1>1, <1>2 DEF Lists3
    <3> QED BY <1>5, <3>1
  <2>2. store[new].next = p[1]
      BY NodesAre DEF Ring
  <2>3. t # <<>>
      BY <1>5
  <2> QED BY <1>5, <2>1, <2>2, <2>3
<1>7. From(t, K) = ToSet(p) /\ From(q, K) = {}
  <2>1. From(q, K) = {}
      BY <1>2, FromEnds
  <2>2. \A i \in K .. Len(t) : i - Len(q) \in 1 .. Len(p) /\ t[i] = p[i - Len(q)]
    <3> TAKE i \in K .. Len(t)
    <3>1. i - Len(q) \in 1 .. Len(p) /\ Len(q) + (i - Len(q)) = i
        BY <1>5
    <3> QED BY <1>5, <3>1
  <2>3. DOMAIN p = 1 .. Len(p)
      BY <1>2
  <2>4. From(t, K) \subseteq ToSet(p)
      BY <2>2, <2>3 DEF From, ToSet
  <2>5. \A i \in 1 .. Len(p) : Len(q) + i \in K .. Len(t) /\ t[Len(q) + i] = p[i]
      BY <1>5
  <2>6. ToSet(p) \subseteq From(t, K)
      BY <2>3, <2>5 DEF From, ToSet
  <2> QED BY <2>1, <2>4, <2>6
<1>8. /\ Same(store, store2, ToSet(q)) /\ Same(store, store2, ToSet(n)) /\ Same(store, store2, ToSet(p))
      /\ Same(store, store2, ToSet(effects))
    BY <1>2, <1>3 DEF Same
<1> DEFINE A == MadeIn(Base(l, n))
           B == Of(store, ToSet(n))
           D == Of(store, ToSet(p))
           E == Of(store, ToSet(q))
           S == MadeIn(l.newState)
<1>9. /\ Of(store2, ToSet(q)) = E /\ Of(store2, ToSet(n)) = B /\ Of(store2, ToSet(p)) = D
      /\ Synced(store2, ToSet(n)) = Synced(store, ToSet(n))
      /\ Sound(store2, ToSet(q)) /\ Sound(store2, ToSet(n)) /\ Sound(store2, ToSet(p))
      /\ Sound(store2, ToSet(effects))
    BY <1>1, <1>8, SameOf DEF Lists3
<1>10. Ordered(store2, q) /\ Ordered(store2, n) /\ Ordered(store2, p) /\ Marked(store2, n, l.newTime)
  <2>1. Ordered(store, q) /\ Ordered(store, n) /\ Ordered(store, p) /\ Marked(store, n, l.newTime)
      BY <1>1 DEF Numbers, Split, Lists3
  <2> QED BY <1>2, <1>8, <2>1, SameList
<1>11. Line(store2, l.newFirst, l.newLast, n)
  <2>1. \A m \in ToSet(n) : store2[m].next = store[m].next
      BY <1>2, <1>3 DEF Kept
  <2> QED BY <1>2, <2>1, LineFrame
<1>12. ToSet(<<>>) = {} /\ Of(store2, {}) = {} /\ Ordered(store2, <<>>)
    BY EmptyPath, OfNone, OrderedNone
<1>13. Lists3(store2, l2, effects, t, n, <<>>, K)
  <2>1. Sound(store2, ToSet(t))
      BY <1>4, <1>9 DEF Sound
  <2>2. /\ ToSet(t) \cap ToSet(<<>>) = {} /\ ToSet(n) \cap (ToSet(t) \cup ToSet(<<>>)) = {}
        /\ ToSet(effects) \cap (From(t, K) \cup ToSet(n) \cup ToSet(<<>>)) = {}
      BY <1>1, <1>2, <1>4, <1>7, <1>12 DEF Lists3
  <2>3. t # <<>> /\ l2.first = t[1]
      BY <1>1, <1>6 DEF Lists3
  <2> QED BY <1>4, <1>9, <1>10, <1>11, <2>1, <2>2, <2>3 DEF Lists3
<1>14. /\ Before(A, B \cup {} \cup D) /\ Before(B, {} \cup D) /\ Before(E, D) /\ E \subseteq 1 .. top
       /\ A \cup B \cup {} \cup D = 1 .. top /\ Before(S, {} \cup D)
       /\ S \subseteq seen /\ seen \subseteq S
  <2>1. Of(store, From(q, K)) = {} /\ Synced(store, From(q, K)) = {}
      BY <1>7, OfNone
  <2>2. Rest(n, K, "update") = K
      BY DEF Rest
  <2> QED BY <1>1, <2>1, <2>2 DEF Numbers, Split
<1>15. Of(store2, From(t, K)) = D /\ Of(store2, ToSet(t)) = E \cup D
  <2>1. Of(store2, ToSet(t)) = Of(store2, ToSet(q)) \cup Of(store2, ToSet(p))
      BY <1>4 DEF Of
  <2> QED BY <1>7, <1>9, <2>1
<1>16. Ordered(store2, t)
    BY <1>2, <1>4, <1>9, <1>10, <1>14, OrderedJoin
<1> HIDE DEF A, B, D, E, S
<1>17. /\ Before(A, B \cup D \cup {}) /\ Before(B, D \cup {}) /\ Before(E \cup D, {}) /\ E \cup D \subseteq 1 .. top
       /\ A \cup B \cup D \cup {} = 1 .. top /\ Before(S, D \cup {})
    BY <1>14 DEF Before
<1>18. Split(store2, Base(l2, n), n, t, Rest(n, K, "update"), <<>>, top)
  <2>1. Increasing(Base(l, n))
      BY <1>1 DEF Numbers, Split
  <2>2. Base(l2, n) = Base(l, n) /\ Rest(n, K, "update") = K
      BY DEF Base, Rest
  <2>3. Split(store2, Base(l, n), n, t, K, <<>>, top)
      BY <1>9, <1>10, <1>12, <1>15, <1>16, <1>17, <2>1 DEF Split, A, B, D, E
  <2> QED BY <2>2, <2>3
<1>19. Numbers(store2, l2, seen, t, n, <<>>, K, "update", top)
  <2>1. Before(MadeIn(l2.newState), Of(store2, From(t, K)) \cup Of(store2, ToSet(<<>>)))
      BY <1>12, <1>15, <1>17 DEF S
  <2>2. MadeIn(l2.newState) \subseteq seen /\ seen \subseteq MadeIn(l2.newState) \cup Synced(store2, From(t, K))
      BY <1>14 DEF S
  <2> QED BY <1>1, <1>9, <1>18, <2>1, <2>2 DEF Numbers
<1>20. Working(store2, l2, seen, effects, t, n, <<>>, K, "update", top)
    BY <1>13, <1>19 DEF Working
<1> QED BY <1>3, <1>6, <1>20 DEF store2, t

\* The end of the loop.
LEMMA CloseKeeps ==
    ASSUME NEW store \in Stores, NEW l, NEW seen, NEW effects, NEW q, NEW n, NEW top,
           l.newFirst \in Nodes \cup {Null}, l.newLast \in Nodes \cup {Null}, ToSet(effects) \subseteq Nodes,
           Working(store, l, seen, effects, q, n, <<>>, Len(q) + 1, "update", top)
    PROVE  LET store2 == CloseList(store, l)
           IN  /\ store2 \in Stores /\ Same(store, store2, Nodes) /\ Kept(store, store2, Nodes \ ToSet(n))
               /\ Queued(store2, Base(l, n), l.newLast, seen, n, <<>>, top)
               /\ Due(store2, n, <<>>, l.newTime) /\ Sound(store2, ToSet(effects))
               /\ ToSet(effects) \cap (ToSet(n) \cup ToSet(<<>>)) = {}
               /\ Increasing(l.newState) /\ MadeIn(l.newState) = seen
               /\ (l.newLast = Null <=> n = <<>>)
<1> DEFINE store2 == CloseList(store, l)
           K == Len(q) + 1
<1>1. Lists3(store, l, effects, q, n, <<>>, K) /\ Numbers(store, l, seen, q, n, <<>>, K, "update", top)
    BY DEF Working
<1>2. /\ q \in Seq(Nodes) /\ n \in Seq(Nodes) /\ Line(store, l.newFirst, l.newLast, n)
      /\ ToSet(n) \subseteq Nodes /\ (l.newLast = Null <=> n = <<>>)
      /\ (n # <<>> => l.newLast \in ToSet(n))
  <2>1. Line(store, l.newFirst, l.newLast, n) /\ Ring(store, l.baseQueue, q)
      BY <1>1 DEF Lists3
  <2> QED BY <2>1, RingType, LineType
<1>3. /\ store2 \in Stores /\ Same(store, store2, Nodes) /\ Kept(store, store2, Nodes \ ToSet(n))
      /\ Ring(store2, l.newLast, n)
  <2>1. CASE l.newLast = Null
    <3>1. store2 = store
        BY <2>1 DEF CloseList
    <3>2. Kept(store, store2, ToSet(n) \ {l.newLast}) /\ Followed(store2, l.newLast, l.newFirst)
        BY <2>1, <3>1 DEF Kept, Followed
    <3>3. Ring(store2, l.newLast, n)
        BY <1>2, <3>2, LineClose
    <3> QED BY <3>1, <3>3 DEF Same, Kept
  <2>2. CASE l.newLast # Null
    <3>1. store2 = Link(store, l.newLast, l.newFirst) /\ l.newLast \in Nodes
        BY <2>2 DEF CloseList, Link
    <3> HIDE DEF store2
    <3>2. /\ store2 \in Stores /\ Same(store, store2, Nodes) /\ store2[l.newLast].next = l.newFirst
          /\ Kept(store, store2, Nodes \ {l.newLast})
        BY <3>1, LinkIs
    <3>3. Kept(store, store2, ToSet(n) \ {l.newLast}) /\ Followed(store2, l.newLast, l.newFirst)
        BY <1>2, <3>2 DEF Kept, Followed
    <3>4. Ring(store2, l.newLast, n)
        BY <1>2, <3>3, LineClose
    <3>5. Kept(store, store2, Nodes \ ToSet(n))
        BY <1>2, <2>2, <3>2 DEF Kept
    <3> QED BY <3>2, <3>4, <3>5
  <2> QED BY <2>1, <2>2
<1> HIDE DEF store2
<1>4. Same(store, store2, ToSet(n)) /\ Same(store, store2, ToSet(effects))
    BY <1>2, <1>3 DEF Same
<1> DEFINE A == MadeIn(Base(l, n))
           B == Of(store, ToSet(n))
           S == MadeIn(l.newState)
<1>5. /\ Of(store2, ToSet(n)) = B
      /\ Synced(store2, ToSet(n)) = Synced(store, ToSet(n))
      /\ Sound(store2, ToSet(n)) /\ Sound(store2, ToSet(effects))
    BY <1>1, <1>4, SameOf DEF Lists3
<1>6. Ordered(store2, n) /\ Marked(store2, n, l.newTime)
  <2>1. Ordered(store, n) /\ Marked(store, n, l.newTime)
      BY <1>1 DEF Numbers, Split, Lists3
  <2> QED BY <1>2, <1>4, <2>1, SameList
<1>7. ToSet(<<>>) = {} /\ Of(store2, {}) = {} /\ Of(store, {}) = {} /\ Synced(store, {}) = {}
      /\ Ordered(store2, <<>>)
    BY EmptyPath, OfNone, OrderedNone
<1>8. From(q, K) = {}
    BY <1>2, FromEnds
<1>9. Increasing(Base(l, n)) /\ A \cup B \cup {} \cup {} = 1 .. top /\ Before(A, B \cup {} \cup {})
  <2>1. Rest(n, K, "update") = K
      BY DEF Rest
  <2>2. Split(store, Base(l, n), n, q, K, <<>>, top)
      BY <1>1, <2>1 DEF Numbers
  <2> QED BY <1>7, <1>8, <2>2 DEF Split
<1>10. Increasing(l.newState) /\ S = seen
    BY <1>1, <1>7, <1>8 DEF Numbers
<1>11. A \subseteq seen /\ seen \subseteq A \cup Synced(store, ToSet(n))
  <2>1. CASE n = <<>>
      BY <1>10, <2>1 DEF Base
  <2>2. CASE n # <<>>
      BY <1>1, <1>10, <2>2 DEF Base, Numbers
  <2> QED BY <2>1, <2>2
<1>12. Account(store2, Base(l, n), n, <<>>, top)
  <2>1. Before(A, B \cup {}) /\ Before(B, {}) /\ A \cup B \cup {} = 1 .. top
      BY <1>9 DEF Before
  <2> QED BY <1>5, <1>6, <1>7, <1>9, <2>1 DEF Account
<1>13. Queued(store2, Base(l, n), l.newLast, seen, n, <<>>, top)
  <2>1. ToSet(n) \cap ToSet(<<>>) = {}
      BY <1>7
  <2> QED BY <1>3, <1>5, <1>11, <1>12, <2>1 DEF Queued
<1>14. Due(store2, n, <<>>, l.newTime)
    BY <1>6, <1>7 DEF Due, AllMarked
<1>15. ToSet(effects) \cap (ToSet(n) \cup ToSet(<<>>)) = {}
    BY <1>1, <1>7 DEF Lists3
<1> QED BY <1>2, <1>3, <1>5, <1>10, <1>13, <1>14, <1>15 DEF store2

\* The beginning of the loop.
LEMMA BeginKeeps ==
    ASSUME NEW store, NEW l, NEW base, NEW last, NEW seen, NEW effects, NEW q, NEW top,
           Queued(store, base, last, seen, q, <<>>, top), Sound(store, ToSet(effects)),
           ToSet(effects) \cap ToSet(q) = {}, q # <<>>,
           l.baseQueue = last, l.first = q[1], l.newFirst = Null, l.newLast = Null,
           l.newState = base
    PROVE  Working(store, l, seen, effects, q, <<>>, <<>>, 1, "update", top)
<1>1. q \in Seq(Nodes)
    BY RingType DEF Queued
<1>2. From(q, 1) = ToSet(q)
    BY <1>1, FromEnds
<1>3. /\ ToSet(<<>>) = {} /\ Of(store, {}) = {} /\ Ordered(store, <<>>) /\ Marked(store, <<>>, l.newTime)
      /\ Path(store, <<>>) /\ Sound(store, {})
    BY EmptyPath, OfNone, OrderedNone DEF Sound
<1>4. Line(store, l.newFirst, l.newLast, <<>>)
    BY <1>3 DEF Line
<1>5. Lists3(store, l, effects, q, <<>>, <<>>, 1)
    BY <1>2, <1>3, <1>4 DEF Lists3, Queued
<1>6. Rest(<<>>, 1, "update") = 1 /\ Base(l, <<>>) = base
    BY DEF Rest, Base
<1>7. Split(store, base, <<>>, q, 1, <<>>, top)
    BY <1>2, <1>3 DEF Queued, Account, Split, Before
<1>8. Before(MadeIn(base), Of(store, ToSet(q)) \cup {})
    BY DEF Queued, Account, Before
<1>9. Numbers(store, l, seen, q, <<>>, <<>>, 1, "update", top)
    BY <1>2, <1>3, <1>6, <1>7, <1>8 DEF Numbers, Queued, Account
<1> QED BY <1>5, <1>9 DEF Working

-----------------------------------------------------------------------------
(* The invariant *)

Fibers ==
    [baseState : Seq(Nat), baseQueue : Nodes \cup {Null}, effects : Seq(Nodes),
     memoizedState : Seq(Nat), expirationTime : Times \cup {NoWork}]
Loops ==
    [update : Nodes \cup {Null}, first : Nodes \cup {Null}, baseQueue : Nodes \cup {Null},
     newState : Seq(Nat), newTime : Times \cup {NoWork}, newBaseState : Seq(Nat),
     newFirst : Nodes \cup {Null}, newLast : Nodes \cup {Null}]

Types ==
    /\ node \in Stores /\ pending \in Nodes \cup {Null}
    /\ current \in Fibers /\ wip \in Fibers /\ loop \in Loops
    /\ current.effects = <<>>
    /\ pc \in Phases /\ list \in Lists
    /\ pc # "idle" => renderTime \in Times
    /\ inserted \in Nat /\ captured \in Nat
    /\ calls \in [1 .. MaxUpdates -> Nat]

\* Before the loop begins, either nothing has happened to the list, or an error
\* was captured; in the loop, a clean list is the one the loop is in.
PhaseInv ==
    /\ pc = "idle" => list # "touched"
    /\ pc \in {"update", "reducer"} /\ list = "clean" =>
         pending = Null /\ current.baseQueue = loop.baseQueue
    /\ pc = "begin" => \/ list = "clean" /\ wip = current
                       \/ list = "touched" /\ wip.baseQueue # Null /\ wip.expirationTime >= renderTime

\* What is on the screen.
ShownInv ==
    /\ Increasing(current.memoizedState) /\ MadeIn(current.memoizedState) \subseteq 1 .. inserted
    /\ \A u \in 1 .. MaxUpdates : calls[u] > 0 <=> u \in MadeIn(current.memoizedState)

\* What is on the screen or will be when the callbacks in effects are called.
Seen(store, effects) == MadeIn(current.memoizedState) \cup Of(store, ToSet(effects))

NewInv(p) == Ring(node, pending, p) /\ Sound(node, ToSet(p))

CurrentIs(store, p) ==
    list = "clean" =>
      \E c : /\ Queued(store, current.baseState, current.baseQueue, MadeIn(current.memoizedState), c, p, inserted)
             /\ Due(store, c, p, current.expirationTime)

WorkIs(q, p) ==
    /\ Queued(node, wip.baseState, wip.baseQueue, Seen(node, wip.effects), q, p, inserted)
    /\ Sound(node, ToSet(wip.effects))
    /\ ToSet(wip.effects) \cap (ToSet(q) \cup ToSet(p)) = {}
    /\ pc = "rendered" =>
         /\ Increasing(wip.memoizedState) /\ MadeIn(wip.memoizedState) = Seen(node, wip.effects)
         /\ Due(node, q, p, wip.expirationTime)

LoopIs(q, n, k, p) ==
    /\ loop.update = q[k]
    /\ Working(node, loop, Seen(node, wip.effects), wip.effects, q, n, p, k, pc, inserted)

ListsInv ==
    \E p : /\ NewInv(p)
           /\ CurrentIs(node, p)
           /\ pc \in {"begin", "rendered"} => \E q : WorkIs(q, p)
           /\ pc \in {"update", "reducer"} => \E q, n : \E k \in 1 .. Len(q) : LoopIs(q, n, k, p)

IInv == list # "spoilt" => Types /\ PhaseInv /\ ShownInv /\ ListsInv

-----------------------------------------------------------------------------

\* A store has one circular list with a given last node.
LEMMA RingUnique ==
    ASSUME NEW store \in Stores, NEW last \in Nodes \cup {Null}, NEW s, NEW t,
           Ring(store, last, s), Ring(store, last, t)
    PROVE  s = t
<1>1. List(store, last) = s
    BY ListIs
<1>2. List(store, last) = t
    BY ListIs
<1> QED BY <1>1, <1>2

\* The new node is in no list, and nobody will call its callback.
LEMMA Fresh ==
    ASSUME Types, CanAllocate
    PROVE  /\ New \in Nodes /\ New \notin ToSet(wip.effects)
           /\ \A s : Ring(node, pending, s) => New \notin ToSet(s)
           /\ \A s : Ring(node, current.baseQueue, s) => New \notin ToSet(s)
           /\ \A s : Ring(node, wip.baseQueue, s) => New \notin ToSet(s)
           /\ \A s : Ring(node, loop.baseQueue, s) => New \notin ToSet(s)
           /\ \A s : Line(node, loop.newFirst, loop.newLast, s) => New \notin ToSet(s)
           /\ New # pending /\ New # wip.baseQueue /\ New # loop.newLast /\ New # loop.baseQueue
<1> DEFINE R == Roots \ {Null}
<1>1. New \in Nodes /\ New \notin InUse
    BY NewIs
<1>2. New \notin ToSet(wip.effects) /\ \A m \in R : New \notin ToSet(Walk(node, m))
    BY <1>1 DEF InUse
<1>3. /\ node \in Stores
      /\ \A m \in {pending, current.baseQueue, wip.baseQueue, loop.baseQueue, loop.newFirst, loop.newLast} :
            m \in Nodes \cup {Null} /\ (m # Null => m \in R /\ m \in Nodes)
    BY DEF Types, Fibers, Loops, Roots
<1> HIDE DEF R
<1>4. \A m \in {pending, current.baseQueue, wip.baseQueue, loop.baseQueue} : \A s :
         Ring(node, m, s) => New \notin ToSet(s)
  <2> SUFFICES ASSUME NEW m \in {pending, current.baseQueue, wip.baseQueue, loop.baseQueue}, NEW s,
                      Ring(node, m, s)
               PROVE  New \notin ToSet(s)
      OBVIOUS
  <2>1. CASE m = Null
    <3>1. ToSet(s) = {}
        BY <2>1, RingType
    <3> QED BY <3>1
  <2>2. CASE m # Null
    <3>1. m \in R /\ m \in Nodes
        BY <1>3, <2>2
    <3>2. ToSet(s) \subseteq ToSet(Walk(node, m))
        BY <1>3, <3>1, RingCovered
    <3> QED BY <1>2, <3>1, <3>2
  <2> QED BY <2>1, <2>2
<1>5. \A s : Line(node, loop.newFirst, loop.newLast, s) => New \notin ToSet(s)
  <2> SUFFICES ASSUME NEW s, Line(node, loop.newFirst, loop.newLast, s) PROVE New \notin ToSet(s)
      OBVIOUS
  <2>1. CASE s = <<>>
    <3>1. ToSet(s) = {}
        BY <2>1, EmptyPath
    <3> QED BY <3>1
  <2>2. CASE s # <<>>
    <3>1. loop.newLast # Null /\ loop.newFirst = s[1] /\ ToSet(s) \subseteq Nodes /\ s[1] \in ToSet(s)
        BY <2>2, LineType, LastIn DEF Line
    <3>2. loop.newLast \in Nodes /\ loop.newFirst \in Nodes /\ loop.newFirst \in R
        BY <1>3, <3>1, NodesAre
    <3>3. ToSet(s) \subseteq ToSet(Walk(node, loop.newFirst))
        BY <1>3, <3>2, LineCovered
    <3> QED BY <1>2, <3>2, <3>3
  <2> QED BY <2>1, <2>2
<1>6. ASSUME NEW m \in {pending, wip.baseQueue, loop.newLast, loop.baseQueue} PROVE New # m
  <2>1. CASE m = Null
      BY <1>1, <2>1, NodesAre
  <2>2. CASE m # Null
    <3>1. m \in R /\ m \in Nodes
        BY <1>3, <2>2
    <3>2. Walk(node, m)[1] = m /\ 1 \in DOMAIN Walk(node, m)
      <4>1. 1 \in Nodes
          BY <3>1, NodesAre
      <4> QED BY <1>3, <3>1, <4>1, WalkIs
    <3>3. m \in ToSet(Walk(node, m))
        BY <3>2 DEF ToSet
    <3> QED BY <1>2, <3>1, <3>3
  <2> QED BY <2>1, <2>2
<1> QED BY <1>1, <1>2, <1>4, <1>5, <1>6

\* One more update: what is due when the fiber is marked with its time, too.
LEMMA DueMore ==
    ASSUME NEW store, NEW store2, NEW q \in Seq(Nodes), NEW p, NEW p2, NEW N, NEW t \in Nat, NEW time \in Nat,
           Due(store, q, p, t), ToSet(p2) = ToSet(p) \cup {N},
           Same(store, store2, ToSet(q) \cup ToSet(p)), store2[N].time = time,
           Sound(store, ToSet(q)), Sound(store, ToSet(p))
    PROVE  Due(store2, q, p2, Later(t, time))
<1>1. Later(t, time) \in Nat /\ t <= Later(t, time) /\ time <= Later(t, time)
    BY DEF Later
<1>2. Same(store, store2, ToSet(q)) /\ Same(store, store2, ToSet(p))
    BY DEF Same
<1>3. \A m \in ToSet(q) \cup ToSet(p) : store2[m].time \in Nat
    BY TimesAssumption DEF Same, Sound
<1>4. Marked(store2, q, t) /\ AllMarked(store2, ToSet(p), t)
    BY <1>2, SameList, SameOf DEF Due
<1>5. Marked(store2, q, Later(t, time))
    BY <1>1, <1>3, <1>4, MarkedMore
<1>6. AllMarked(store2, ToSet(p2), Later(t, time))
  <2> SUFFICES ASSUME NEW m \in ToSet(p2) PROVE store2[m].time <= Later(t, time)
      BY DEF AllMarked
  <2>1. CASE m = N
      BY <1>1, <2>1
  <2>2. CASE m \in ToSet(p)
    <3>1. store2[m].time <= t /\ store2[m].time \in Nat
        BY <1>3, <1>4, <2>2 DEF AllMarked
    <3> QED BY <1>1, <3>1
  <2> QED BY <2>1, <2>2
<1> QED BY <1>5, <1>6 DEF Due

\* enqueueUpdate keeps the invariant.
LEMMA EnqueueKeeps ==
    ASSUME IInv, list # "spoilt", NEW time \in Times, enqueueUpdate(time)
    PROVE  IInv'
<1>1. Types /\ PhaseInv /\ ShownInv /\ ListsInv
    BY DEF IInv
<1>2. /\ inserted + captured < MaxUpdates /\ CanAllocate /\ inserted' = inserted + 1
      /\ pending' = New
      /\ current' = [current EXCEPT !.expirationTime = Later(@, time)]
      /\ wip' = IF pc = "idle" THEN wip ELSE [wip EXCEPT !.expirationTime = Later(@, time)]
      /\ pc \in {"idle", "begin", "rendered", "reducer"}
      /\ pc = "reducer" => Touched
      /\ pc # "reducer" => list' = list
      /\ UNCHANGED <<pc, renderTime, loop, captured, calls>>
    BY DEF enqueueUpdate
<1> DEFINE update == [of |-> inserted + 1, time |-> time, callback |-> TRUE, next |-> Null]
<1>3. /\ inserted \in Nat /\ captured \in Nat /\ inserted + 1 \in 0 .. MaxUpdates /\ node \in Stores
      /\ pending \in Nodes \cup {Null} /\ current \in Fibers /\ wip \in Fibers /\ time \in Nat
    BY <1>1, <1>2, BoundsAssumption, TimesAssumption DEF Types
<1>4. update \in Updated
    BY <1>3 DEF Updated
<1>5. PICK p : /\ NewInv(p)
               /\ CurrentIs(node, p)
               /\ pc \in {"begin", "rendered"} => \E q : WorkIs(q, p)
               /\ pc \in {"update", "reducer"} => \E q, n : \E k \in 1 .. Len(q) : LoopIs(q, n, k, p)
    BY <1>1 DEF ListsInv
<1>6. New \in Nodes /\ New # pending /\ New \notin ToSet(p) /\ New \notin ToSet(wip.effects)
    BY <1>1, <1>2, <1>5, Fresh DEF NewInv
<1>7. /\ node' \in Stores
      /\ node'[New].of = inserted + 1 /\ node'[New].time = time /\ node'[New].callback
      /\ Same(node, node', Nodes \ {New})
      /\ Kept(node, node', Nodes \ {New, pending}) /\ Linked(node, node', pending, New)
  <2> DEFINE store2 == InsertAfter(node, pending, New, update)
  <2>1. node' = store2
      BY DEF enqueueUpdate
  <2>2. update.of = inserted + 1 /\ update.time = time /\ update.callback
      OBVIOUS
  <2> HIDE DEF update
  <2>3. /\ store2 \in Stores
        /\ store2[New].of = update.of /\ store2[New].time = update.time
        /\ store2[New].callback = update.callback
        /\ Same(node, store2, Nodes \ {New})
        /\ Kept(node, store2, Nodes \ {New, pending}) /\ Linked(node, store2, pending, New)
      BY <1>3, <1>4, <1>6, InsertAfterIs
  <2> HIDE DEF store2
  <2> QED BY <2>1, <2>2, <2>3
<1> HIDE DEF update
<1>22. PICK p2 : p2 = Append(p, New)
    OBVIOUS
<1>8. p \in Seq(Nodes) /\ ToSet(p) \subseteq Nodes /\ Ring(node, pending, p) /\ Sound(node, ToSet(p))
    BY <1>5, RingType DEF NewInv
<1>9. Ring(node', New, p2) /\ ToSet(p2) = ToSet(p) \cup {New}
  <2>1. Kept(node, node', ToSet(p) \ {pending})
      BY <1>6, <1>7, <1>8 DEF Kept
  <2>2. New \in Nodes \ ToSet(p)
      BY <1>6
  <2> QED BY <1>7, <1>8, <1>22, <2>1, <2>2, RingAppend
<1>10. NewInv(p2)'
  <2>1. Same(node, node', ToSet(p))
      BY <1>6, <1>7, <1>8 DEF Same
  <2>2. Sound(node', ToSet(p))
      BY <1>8, <2>1, SameOf
  <2>3. Sound(node', ToSet(p2))
      BY <1>7, <1>9, <2>2 DEF Sound
  <2> QED BY <1>2, <1>9, <2>3 DEF NewInv
<1>11. /\ current' \in Fibers /\ wip' \in Fibers
       /\ current'.expirationTime = Later(current.expirationTime, time)
       /\ current'.baseState = current.baseState /\ current'.baseQueue = current.baseQueue
       /\ current'.memoizedState = current.memoizedState /\ current'.effects = current.effects
       /\ wip'.baseState = wip.baseState /\ wip'.baseQueue = wip.baseQueue
       /\ wip'.memoizedState = wip.memoizedState /\ wip'.effects = wip.effects
       /\ pc # "idle" => wip'.expirationTime = Later(wip.expirationTime, time)
    BY <1>2, <1>3 DEF Fibers, Later
<1>12. /\ \A t \in Times \cup {NoWork} : t \in Nat
       /\ current.expirationTime \in Times \cup {NoWork} /\ wip.expirationTime \in Times \cup {NoWork}
    BY <1>3, TimesAssumption DEF Fibers, NoWork
\* a queue that ends with last takes one more update
<1>13. ASSUME NEW base, NEW last, NEW seen, NEW q, Queued(node, base, last, seen, q, p, inserted),
              New \notin ToSet(q)
       PROVE  /\ Queued(node', base, last, seen, q, p2, inserted + 1)
              /\ \A t \in Nat : Due(node, q, p, t) => Due(node', q, p2, Later(t, time))
  <2>1. q \in Seq(Nodes) /\ ToSet(q) \subseteq Nodes /\ ToSet(q) \cap ToSet(p) = {}
      BY <1>13, RingType DEF Queued
  <2>2. Same(node, node', ToSet(q) \cup ToSet(p))
      BY <1>6, <1>7, <1>8, <1>13, <2>1 DEF Same
  <2>3. pending \notin ToSet(q)
      BY <1>8, <2>1, NodesAre, RingType
  <2>4. Kept(node, node', ToSet(q))
      BY <1>7, <1>13, <2>1, <2>3 DEF Kept
  <2>5. New \notin ToSet(q) \cup ToSet(p)
      BY <1>6, <1>13
  <2>6. p2 = Append(p, New)
      BY <1>22
  <2>7. Queued(node', base, last, seen, q, p2, inserted + 1)
      BY <1>3, <1>6, <1>7, <1>8, <1>9, <1>13, <2>2, <2>4, <2>5, <2>6, QueuedMore
  <2>8. Sound(node, ToSet(q))
      BY <1>13 DEF Queued
  <2>9. \A t \in Nat : Due(node, q, p, t) => Due(node', q, p2, Later(t, time))
      BY <1>3, <1>7, <1>8, <1>9, <2>1, <2>2, <2>8, DueMore
  <2> QED BY <2>7, <2>9
<1>14. CurrentIs(node, p2)'
  <2> SUFFICES ASSUME list' = "clean"
               PROVE  \E c : /\ Queued(node', current'.baseState, current'.baseQueue,
                                       MadeIn(current'.memoizedState), c, p2, inserted')
                             /\ Due(node', c, p2, current'.expirationTime)
      BY DEF CurrentIs
  <2>1. list = "clean"
      BY <1>2 DEF Touched
  <2>2. PICK c : /\ Queued(node, current.baseState, current.baseQueue, MadeIn(current.memoizedState), c, p, inserted)
                 /\ Due(node, c, p, current.expirationTime)
      BY <1>5, <2>1 DEF CurrentIs
  <2>3. New \notin ToSet(c)
      BY <1>1, <1>2, <2>2, Fresh DEF Queued
  <2>4. Queued(node', current.baseState, current.baseQueue, MadeIn(current.memoizedState), c, p2, inserted + 1)
      BY <1>13, <2>2, <2>3
  <2>5. Due(node', c, p2, Later(current.expirationTime, time))
      BY <1>12, <1>13, <2>2, <2>3
  <2> QED BY <1>2, <1>11, <2>4, <2>5
<1>15. Seen(node, wip.effects)' = Seen(node, wip.effects) /\ Same(node, node', ToSet(wip.effects))
  <2>1. ToSet(wip.effects) \subseteq Nodes
      BY <1>3 DEF Fibers, ToSet
  <2>2. Same(node, node', ToSet(wip.effects))
      BY <1>6, <1>7, <2>1 DEF Same
  <2>3. Of(node', ToSet(wip.effects)) = Of(node, ToSet(wip.effects))
      BY <2>2, SameOf
  <2> QED BY <1>11, <2>2, <2>3 DEF Seen
<1>16. ASSUME pc \in {"begin", "rendered"} PROVE \E q : WorkIs(q, p2)'
  <2>1. PICK q : WorkIs(q, p)
      BY <1>5, <1>16
  <2>2. New \notin ToSet(q)
      BY <1>1, <1>2, <2>1, Fresh DEF Queued, WorkIs
  <2>3. Queued(node', wip.baseState, wip.baseQueue, Seen(node, wip.effects), q, p2, inserted + 1)
      BY <1>13, <2>1, <2>2 DEF WorkIs
  <2>4. pc = "rendered" => Due(node', q, p2, Later(wip.expirationTime, time))
      BY <1>12, <1>13, <2>1, <2>2 DEF WorkIs
  <2>5. Sound(node', ToSet(wip.effects))
      BY <1>15, <2>1, SameOf DEF WorkIs
  <2>6. ToSet(wip.effects) \cap (ToSet(q) \cup ToSet(p2)) = {}
      BY <1>6, <1>9, <2>1 DEF WorkIs
  <2>7. WorkIs(q, p2)'
      BY <1>2, <1>11, <1>15, <1>16, <2>1, <2>3, <2>4, <2>5, <2>6 DEF WorkIs
  <2> QED BY <2>7
<1>17. ASSUME pc = "reducer" PROVE \E q, n : \E k \in 1 .. Len(q) : LoopIs(q, n, k, p2)'
  <2>1. PICK q, n : \E k \in 1 .. Len(q) : LoopIs(q, n, k, p)
      BY <1>5, <1>17
  <2>2. PICK k \in 1 .. Len(q) : LoopIs(q, n, k, p)
      BY <2>1
  <2>3. Working(node, loop, Seen(node, wip.effects), wip.effects, q, n, p, k, pc, inserted)
      BY <2>2 DEF LoopIs
  <2>4. /\ Ring(node, loop.baseQueue, q) /\ Line(node, loop.newFirst, loop.newLast, n)
        /\ ToSet(q) \cap ToSet(p) = {} /\ ToSet(n) \cap (ToSet(q) \cup ToSet(p)) = {}
      BY <2>3 DEF Working, Lists3
  <2>5. New \notin ToSet(q) /\ New \notin ToSet(n)
      BY <1>1, <1>2, <2>4, Fresh
  <2>6. ToSet(q) \subseteq Nodes /\ ToSet(n) \subseteq Nodes /\ ToSet(wip.effects) \subseteq Nodes
    <3>1. ToSet(wip.effects) \subseteq Nodes
        BY <1>3 DEF Fibers, ToSet
    <3> QED BY <2>4, <3>1, RingType, LineType
  <2>7. pending \notin ToSet(q) /\ pending \notin ToSet(n)
      BY <1>8, <2>4, <2>6, NodesAre, RingType
  <2>8. Same(node, node', ToSet(q) \cup ToSet(n) \cup ToSet(p) \cup ToSet(wip.effects))
      BY <1>6, <1>7, <1>8, <2>5, <2>6 DEF Same
  <2>9. Kept(node, node', ToSet(q)) /\ Kept(node, node', ToSet(n))
      BY <1>7, <2>5, <2>6, <2>7 DEF Kept
  <2>10. Pushed(node, node', wip.effects, q, n, p, p2, New, inserted)
      BY <1>6, <1>7, <1>9, <1>22, <2>5, <2>8, <2>9 DEF Pushed
  <2>11. Working(node', loop, Seen(node, wip.effects), wip.effects, q, n, p2, k, pc, inserted + 1)
      BY <1>3, <1>8, <2>3, <2>10, PushKeeps
  <2>12. LoopIs(q, n, k, p2)'
      BY <1>2, <1>11, <1>15, <2>2, <2>11 DEF LoopIs
  <2> QED BY <2>12
<1>18. ListsInv'
    BY <1>2, <1>10, <1>14, <1>16, <1>17 DEF ListsInv
<1>19. Types'
    BY <1>1, <1>2, <1>6, <1>7, <1>11 DEF Types, Touched, Lists
<1>20. PhaseInv'
  <2>1. pc = "begin" => \/ list' = "clean" /\ wip' = current'
                        \/ list' = "touched" /\ wip'.baseQueue # Null /\ wip'.expirationTime >= renderTime
    <3> SUFFICES ASSUME pc = "begin"
                 PROVE  \/ list' = "clean" /\ wip' = current'
                        \/ list' = "touched" /\ wip'.baseQueue # Null /\ wip'.expirationTime >= renderTime
        OBVIOUS
    <3>1. CASE list = "clean" /\ wip = current
      <4>1. list' = "clean"
          BY <1>2, <3>1
      <4> DEFINE e == Later(wip.expirationTime, time)
      <4> HIDE DEF e
      <4>2. wip' = [wip EXCEPT !.expirationTime = e]
          BY <1>2 DEF e
      <4>3. current' = [current EXCEPT !.expirationTime = e]
          BY <1>2, <3>1 DEF e
      <4>4. wip' = current'
        <5>1. [wip EXCEPT !.expirationTime = e] = [current EXCEPT !.expirationTime = e]
            BY <3>1
        <5> QED BY <4>2, <4>3, <5>1
      <4> QED BY <4>1, <4>4
    <3>2. CASE list = "touched" /\ wip.baseQueue # Null /\ wip.expirationTime >= renderTime
      <4>1. renderTime \in Nat
          BY <1>1, <1>12 DEF Types
      <4> QED BY <1>2, <1>3, <1>11, <1>12, <3>2, <4>1 DEF Later
    <3> QED BY <1>1, <3>1, <3>2 DEF PhaseInv
  <2>2. pc = "reducer" => list' # "clean"
      BY <1>2 DEF Touched
  <2>3. pc = "idle" => list' # "touched"
      BY <1>1, <1>2 DEF PhaseInv
  <2> QED BY <1>2, <2>1, <2>2, <2>3 DEF PhaseInv
<1>21. ShownInv'
    BY <1>1, <1>2, <1>3, <1>11 DEF ShownInv
<1> QED BY <1>18, <1>19, <1>20, <1>21 DEF IInv

-----------------------------------------------------------------------------
(* A render begins *)

\* No callbacks wait: what is seen is what is on the screen.
LEMMA NoEffects ==
    ASSUME NEW store
    PROVE  ToSet(<<>>) = {} /\ Sound(store, ToSet(<<>>)) /\ Seen(store, <<>>) = MadeIn(current.memoizedState)
BY EmptyPath, OfNone DEF Sound, Seen

\* createWorkInProgress keeps the invariant.
LEMMA CreateKeeps ==
    ASSUME IInv, list # "spoilt", NEW time \in Times, createWorkInProgress(time)
    PROVE  IInv'
<1>1. Types /\ PhaseInv /\ ShownInv /\ ListsInv
    BY DEF IInv
<1>2. /\ pc = "idle" /\ pc' = "begin" /\ renderTime' = time /\ wip' = current
      /\ node' = node /\ pending' = pending /\ current' = current /\ loop' = loop /\ list' = list
      /\ inserted' = inserted /\ captured' = captured /\ calls' = calls
    BY DEF createWorkInProgress
<1>3. list = "clean" /\ current.effects = <<>>
    BY <1>1, <1>2 DEF PhaseInv, Types, Lists
<1>4. PICK p : NewInv(p) /\ CurrentIs(node, p)
    BY <1>1 DEF ListsInv
<1>5. PICK c : Queued(node, current.baseState, current.baseQueue, MadeIn(current.memoizedState), c, p, inserted)
    BY <1>3, <1>4 DEF CurrentIs
<1>6. NewInv(p)' /\ CurrentIs(node, p)'
    BY <1>2, <1>4 DEF NewInv, CurrentIs
<1>7. WorkIs(c, p)'
  <2>1. Seen(node, wip.effects)' = MadeIn(current.memoizedState)
      BY <1>2, <1>3, NoEffects DEF Seen
  <2>2. Sound(node, ToSet(wip.effects))' /\ (ToSet(wip.effects) \cap (ToSet(c) \cup ToSet(p)))' = {}
      BY <1>2, <1>3, NoEffects
  <2> QED BY <1>2, <1>5, <2>1, <2>2 DEF WorkIs
<1>8. ListsInv'
    BY <1>2, <1>6, <1>7 DEF ListsInv
<1>9. Types'
    BY <1>1, <1>2 DEF Types, Phases
<1>10. PhaseInv' /\ ShownInv'
    BY <1>1, <1>2, <1>3 DEF PhaseInv, ShownInv
<1> QED BY <1>8, <1>9, <1>10 DEF IInv

\* A render that bails out keeps the invariant.
LEMMA BailoutKeeps ==
    ASSUME IInv, list # "spoilt", bailout
    PROVE  IInv'
<1>1. Types /\ PhaseInv /\ ShownInv /\ ListsInv
    BY DEF IInv
<1>2. /\ pc = "begin" /\ wip.expirationTime < renderTime /\ pc' = "rendered"
      /\ renderTime' = renderTime /\ wip' = wip
      /\ node' = node /\ pending' = pending /\ current' = current /\ loop' = loop /\ list' = list
      /\ inserted' = inserted /\ captured' = captured /\ calls' = calls
    BY DEF bailout
<1>3. list = "clean" /\ wip = current /\ wip.effects = <<>>
  <2>1. wip.expirationTime \in Nat /\ renderTime \in Nat
    <3>1. wip.expirationTime \in Times \cup {NoWork} /\ renderTime \in Times
        BY <1>1, <1>2 DEF Types, Fibers
    <3>2. Times \cup {NoWork} \subseteq Nat
        BY TimesAssumption DEF NoWork
    <3> QED BY <3>1, <3>2
  <2>2. ~(wip.expirationTime >= renderTime)
      BY <1>2, <2>1
  <2> QED BY <1>1, <1>2, <2>2 DEF PhaseInv, Types
<1>4. PICK p : NewInv(p) /\ CurrentIs(node, p)
    BY <1>1 DEF ListsInv
<1>5. PICK c : /\ Queued(node, current.baseState, current.baseQueue, MadeIn(current.memoizedState), c, p, inserted)
               /\ Due(node, c, p, current.expirationTime)
    BY <1>3, <1>4 DEF CurrentIs
<1>6. NewInv(p)' /\ CurrentIs(node, p)'
    BY <1>2, <1>4 DEF NewInv, CurrentIs
<1>7. WorkIs(c, p)'
  <2>1. Seen(node, wip.effects)' = MadeIn(current.memoizedState)
      BY <1>2, <1>3, NoEffects DEF Seen
  <2>2. Sound(node, ToSet(wip.effects))' /\ (ToSet(wip.effects) \cap (ToSet(c) \cup ToSet(p)))' = {}
      BY <1>2, <1>3, NoEffects
  <2>3. Increasing(wip.memoizedState)
      BY <1>1, <1>3 DEF ShownInv
  <2> QED BY <1>2, <1>3, <1>5, <2>1, <2>2, <2>3 DEF WorkIs
<1>8. ListsInv'
    BY <1>2, <1>6, <1>7 DEF ListsInv
<1>9. Types'
    BY <1>1, <1>2 DEF Types, Phases
<1>10. PhaseInv' /\ ShownInv'
    BY <1>1, <1>2 DEF PhaseInv, ShownInv
<1> QED BY <1>8, <1>9, <1>10 DEF IInv

\* The new updates go to the end of both base queues, and the loop begins.
LEMMA ProcessKeeps ==
    ASSUME IInv, list # "spoilt", processUpdateQueue
    PROVE  IInv'
<1>1. Types /\ PhaseInv /\ ShownInv /\ ListsInv
    BY DEF IInv
<1> DEFINE base == IF pending # Null THEN pending ELSE wip.baseQueue
           next == node'[base].next
<1>2. /\ pc = "begin" /\ pending' = Null
      /\ current' = IF pending = Null THEN current ELSE [current EXCEPT !.baseQueue = pending]
      /\ wip' = [wip EXCEPT !.expirationTime = NoWork]
      /\ renderTime' = renderTime /\ list' = list
      /\ inserted' = inserted /\ captured' = captured /\ calls' = calls
    BY DEF processUpdateQueue, TransferToCurrent
<1>3. wip \in Fibers /\ current \in Fibers /\ node \in Stores /\ pending \in Nodes \cup {Null}
    BY <1>1 DEF Types
<1>4. [wip EXCEPT !.expirationTime = NoWork].baseQueue = wip.baseQueue
      /\ [wip EXCEPT !.expirationTime = NoWork].baseState = wip.baseState
    BY <1>3 DEF Fibers
<1>5. node' = Joined(node, wip.baseQueue, pending)
    BY <1>4 DEF processUpdateQueue, Joined
<1>6. \/ base = Null /\ pc' = "rendered" /\ loop' = loop
      \/ /\ base # Null /\ pc' = "update"
         /\ loop' = [NoLoop EXCEPT !.update = next, !.first = next,
                                   !.baseQueue = base, !.newState = wip.baseState]
    BY <1>4 DEF processUpdateQueue
<1>7. PICK p : NewInv(p) /\ CurrentIs(node, p) /\ \E q : WorkIs(q, p)
    BY <1>1, <1>2 DEF ListsInv
<1>8. PICK q : WorkIs(q, p)
    BY <1>7
<1>9. wip.baseQueue \in Nodes \cup {Null} /\ current.baseQueue \in Nodes \cup {Null}
    BY <1>3 DEF Fibers
<1> HIDE DEF base, next
<1>10. node' \in Stores /\ Same(node, node', Nodes)
    BY <1>3, <1>5, <1>7, <1>8, <1>9, QueuedJoin DEF NewInv, WorkIs
<1>11. PICK q2 : Queued(node', wip.baseState, base, Seen(node, wip.effects), q2, <<>>, inserted)
                 /\ ToSet(q2) = ToSet(q) \cup ToSet(p)
  <2>1. /\ Queued(node, wip.baseState, wip.baseQueue, Seen(node, wip.effects), q, p, inserted)
        /\ Ring(node, pending, p) /\ Sound(node, ToSet(p))
      BY <1>7, <1>8 DEF NewInv, WorkIs
  <2> DEFINE last == wip.baseQueue
             seen == Seen(node, wip.effects)
  <2> HIDE DEF seen, last
  <2>2. \E q2 : /\ Queued(Joined(node, last, pending), wip.baseState, IF pending # Null THEN pending ELSE last,
                          seen, q2, <<>>, inserted)
                /\ ToSet(q2) = ToSet(q) \cup ToSet(p)
                /\ \A t : Due(node, q, p, t) => Due(Joined(node, last, pending), q2, <<>>, t)
    <3>1. Queued(node, wip.baseState, last, seen, q, p, inserted) /\ last \in Nodes \cup {Null}
        BY <1>9, <2>1 DEF seen, last
    <3> QED BY <1>3, <2>1, <3>1, QueuedJoin
  <2> USE DEF seen, last
  <2>3. \E q2 : /\ Queued(node', wip.baseState, base, Seen(node, wip.effects), q2, <<>>, inserted)
                /\ ToSet(q2) = ToSet(q) \cup ToSet(p)
      BY <1>5, <2>2, Zenon DEF base
  <2> QED BY <2>3
<1>12. /\ wip' \in Fibers /\ wip'.baseState = wip.baseState /\ wip'.baseQueue = wip.baseQueue
       /\ wip'.effects = wip.effects /\ wip'.memoizedState = wip.memoizedState
       /\ current' \in Fibers /\ current'.baseState = current.baseState /\ current'.effects = current.effects
       /\ current'.memoizedState = current.memoizedState
       /\ current'.expirationTime = current.expirationTime
       /\ current'.baseQueue = IF pending # Null THEN pending ELSE current.baseQueue
    BY <1>2, <1>3 DEF Fibers
<1>13. list = "clean" => wip = current /\ current'.baseQueue = base /\ wip.effects = <<>>
    BY <1>1, <1>2, <1>12 DEF PhaseInv, Types, base
<1>14. NewInv(<<>>)'
  <2>1. Ring(node', Null, <<>>)
      BY EmptyPath DEF Ring
  <2> QED BY <1>2, <2>1, EmptyPath DEF NewInv, Sound
<1>15. CurrentIs(node, <<>>)'
  <2> SUFFICES ASSUME list = "clean"
               PROVE  \E c : /\ Queued(node', current'.baseState, current'.baseQueue,
                                       MadeIn(current'.memoizedState), c, <<>>, inserted')
                             /\ Due(node', c, <<>>, current'.expirationTime)
      BY <1>2 DEF CurrentIs
  <2>1. PICK c : /\ Queued(node, current.baseState, current.baseQueue, MadeIn(current.memoizedState), c, p, inserted)
                 /\ Due(node, c, p, current.expirationTime)
      BY <1>7 DEF CurrentIs
  <2>2. node' = Joined(node, current.baseQueue, pending)
      BY <1>5, <1>13
  <2>3. Ring(node, pending, p) /\ Sound(node, ToSet(p))
      BY <1>7 DEF NewInv
  <2>4. PICK c2 : /\ Queued(node', current.baseState, IF pending # Null THEN pending ELSE current.baseQueue,
                            MadeIn(current.memoizedState), c2, <<>>, inserted)
                  /\ Due(node', c2, <<>>, current.expirationTime)
      BY <1>3, <1>9, <2>1, <2>2, <2>3, QueuedJoin
  <2> QED BY <1>2, <1>12, <2>4
<1>16. Seen(node, wip.effects)' = Seen(node, wip.effects) /\ Sound(node', ToSet(wip.effects))
       /\ ToSet(wip.effects) \cap (ToSet(q2) \cup ToSet(<<>>)) = {}
  <2>1. ToSet(wip.effects) \subseteq Nodes
      BY <1>3 DEF Fibers, ToSet
  <2>2. Same(node, node', ToSet(wip.effects))
      BY <1>10, <2>1, SameSubset
  <2>3. /\ Of(node', ToSet(wip.effects)) = Of(node, ToSet(wip.effects))
        /\ Sound(node', ToSet(wip.effects))
      BY <1>8, <2>2, SameOf DEF WorkIs
  <2>4. ToSet(wip.effects) \cap (ToSet(q2) \cup ToSet(<<>>)) = {}
      BY <1>8, <1>11, EmptyPath DEF WorkIs
  <2> QED BY <1>12, <2>3, <2>4 DEF Seen
<1>17. CASE base = Null
  <2>1. pc' = "rendered" /\ loop' = loop /\ wip.baseQueue = Null /\ pending = Null
      BY <1>6, <1>17, <1>3, NodesAre DEF base
  <2>2. list = "clean" /\ wip = current /\ wip.effects = <<>>
      BY <1>1, <1>2, <1>13, <2>1 DEF PhaseInv
  <2>3. q2 = <<>>
      BY <1>11, <1>17, RingType DEF Queued
  <2>4. Due(node', q2, <<>>, NoWork)
    <3>1. Marked(node', <<>>, NoWork)
        BY OrderedNone
    <3> QED BY <2>3, <3>1, EmptyPath DEF Due, AllMarked
  <2>5. Increasing(wip.memoizedState) /\ MadeIn(wip.memoizedState) = Seen(node, wip.effects)
      BY <1>1, <2>2, NoEffects DEF ShownInv
  <2>6. wip'.expirationTime = NoWork /\ wip'.baseQueue = base
      BY <1>2, <1>3, <1>17, <2>1, <1>12 DEF Fibers
  <2>7. WorkIs(q2, <<>>)'
      BY <1>2, <1>11, <1>12, <1>16, <2>1, <2>4, <2>5, <2>6 DEF WorkIs
  <2>8. ListsInv'
      BY <1>14, <1>15, <2>1, <2>7 DEF ListsInv
  <2>9. Types'
      BY <1>1, <1>2, <1>10, <1>12, <2>1 DEF Types, Phases
  <2>10. PhaseInv'
      BY <1>1, <1>2, <2>1 DEF PhaseInv
  <2>11. ShownInv'
      BY <1>1, <1>2, <1>12 DEF ShownInv
  <2> QED BY <2>8, <2>9, <2>10, <2>11 DEF IInv
<1>18. CASE base # Null
  <2>1. pc' = "update" /\ base \in Nodes
        /\ loop' = [NoLoop EXCEPT !.update = next, !.first = next, !.baseQueue = base, !.newState = wip.baseState]
      BY <1>3, <1>6, <1>9, <1>18 DEF base
  <2>2. q2 # <<>> /\ next = q2[1] /\ Len(q2) \in Nat /\ 1 \in 1 .. Len(q2)
    <3>1. Ring(node', base, q2)
        BY <1>11 DEF Queued
    <3>2. q2 # <<>> /\ Path(node', q2) /\ next = q2[1]
        BY <1>18, <3>1 DEF Ring, next
    <3> QED BY <3>2, PathLength, LastIn
  <2>3. /\ loop'.update = next /\ loop'.first = next /\ loop'.baseQueue = base /\ loop'.newState = wip.baseState
        /\ loop'.newFirst = Null /\ loop'.newLast = Null /\ loop'.newTime = NoWork /\ loop'.newBaseState = <<>>
      BY <2>1 DEF NoLoop
  <2>4. Working(node', loop', Seen(node, wip.effects), wip.effects, q2, <<>>, <<>>, 1, "update", inserted)
    <3>1. ToSet(wip.effects) \cap ToSet(q2) = {}
        BY <1>16
    <3> QED BY <1>11, <1>16, <2>2, <2>3, <3>1, BeginKeeps
  <2>5. LoopIs(q2, <<>>, 1, <<>>)'
      BY <1>2, <1>12, <1>16, <2>1, <2>2, <2>3, <2>4 DEF LoopIs
  <2>6. ListsInv'
      BY <1>14, <1>15, <2>1, <2>2, <2>5 DEF ListsInv
  <2>7. loop' \in Loops
    <3>1. next \in Nodes \cup {Null} /\ wip.baseState \in Seq(Nat)
        BY <1>3, <1>10, <2>1 DEF Stores, Fibers, next
    <3>2. <<>> \in Seq(Nat)
        OBVIOUS
    <3> QED BY <2>1, <3>1, <3>2 DEF Loops, NoLoop
  <2>8. Types'
      BY <1>1, <1>2, <1>10, <1>12, <2>1, <2>7 DEF Types, Phases
  <2>9. PhaseInv'
      BY <1>1, <1>2, <1>13, <2>1, <2>3 DEF PhaseInv
  <2>10. ShownInv'
      BY <1>1, <1>2, <1>12 DEF ShownInv
  <2> QED BY <2>6, <2>8, <2>9, <2>10 DEF IInv
<1> QED BY <1>17, <1>18

-----------------------------------------------------------------------------
(* The loop *)

\* Which update is looked at is not a matter of the lists.
LEMMA WorkingOther ==
    ASSUME NEW store, NEW l, NEW l2, NEW seen, NEW effects, NEW q, NEW n, NEW p, NEW k, NEW mode, NEW top,
           Working(store, l, seen, effects, q, n, p, k, mode, top),
           l2.baseQueue = l.baseQueue, l2.first = l.first, l2.newFirst = l.newFirst, l2.newLast = l.newLast,
           l2.newState = l.newState, l2.newBaseState = l.newBaseState, l2.newTime = l.newTime
    PROVE  Working(store, l2, seen, effects, q, n, p, k, mode, top)
<1>1. Lists3(store, l2, effects, q, n, p, k)
    BY DEF Working, Lists3
<1>2. Base(l2, n) = Base(l, n)
    BY DEF Base
<1>3. Numbers(store, l2, seen, q, n, p, k, mode, top)
    BY <1>2 DEF Working, Numbers
<1> QED BY <1>1, <1>3 DEF Working

\* What follows an update keeps the invariant: the next update, those that updater
\* functions made, or the end of the loop.
LEMMA NextKeeps ==
    ASSUME Types, PhaseInv, ShownInv, list # "spoilt", pc \in {"update", "reducer"},
           NEW store \in Stores, NEW l \in Loops, NEW w \in Fibers, nextUpdate(store, l, w),
           UNCHANGED <<current, renderTime, list, inserted, captured, calls>>,
           NEW q, NEW n, NEW p, NEW k \in 1 .. Len(q),
           Working(store, l, Seen(store, w.effects), w.effects, q, n, p, k + 1, "update", inserted),
           l.update = q[k], l.baseQueue = loop.baseQueue,
           Ring(store, pending, p), Sound(store, ToSet(p)), CurrentIs(store, p)
    PROVE  IInv'
<1> DEFINE next == store[l.update].next
           seen == Seen(store, w.effects)
<1>1. /\ current' = current /\ renderTime' = renderTime /\ list' = list /\ inserted' = inserted
      /\ captured' = captured /\ calls' = calls
    OBVIOUS
<1>2. /\ Ring(store, l.baseQueue, q) /\ l.first = q[1] /\ q # <<>> /\ Len(q) \in Nat
      /\ Line(store, l.newFirst, l.newLast, n) /\ ToSet(n) \cap ToSet(q) = {}
  <2>1. Ring(store, l.baseQueue, q) /\ l.first = q[1] /\ q # <<>>
        /\ Line(store, l.newFirst, l.newLast, n) /\ ToSet(n) \cap ToSet(q) = {}
      BY DEF Working, Lists3
  <2> QED BY <2>1, PathLength DEF Ring
<1>3. /\ l.newFirst \in Nodes \cup {Null} /\ l.newLast \in Nodes \cup {Null}
      /\ l.baseQueue \in Nodes \cup {Null} /\ l.newState \in Seq(Nat) /\ l.newBaseState \in Seq(Nat)
      /\ l.newTime \in Times \cup {NoWork} /\ pending \in Nodes \cup {Null}
    BY DEF Loops, Types
<1>4. ToSet(w.effects) \subseteq Nodes
    BY DEF Fibers, ToSet
<1>5. ShownInv'
    BY <1>1 DEF ShownInv
<1>6. CASE next # l.first
  <2>1. /\ node' = store /\ loop' = [l EXCEPT !.update = next] /\ wip' = w /\ pc' = "update"
        /\ pending' = pending
      BY <1>6 DEF nextUpdate
  <2>2. k + 1 \in 1 .. Len(q) /\ next = q[k + 1]
    <3>1. k # Len(q)
        BY <1>2, <1>6, RingNext
    <3>2. k < Len(q)
        BY <1>2, <3>1
    <3> QED BY <1>2, <3>2, RingNext
  <2>3. /\ loop'.update = next /\ loop'.baseQueue = l.baseQueue /\ loop'.first = l.first
        /\ loop'.newFirst = l.newFirst /\ loop'.newLast = l.newLast /\ loop'.newState = l.newState
        /\ loop'.newBaseState = l.newBaseState /\ loop'.newTime = l.newTime
      BY <2>1 DEF Loops
  <2>4. Working(store, loop', seen, w.effects, q, n, p, k + 1, "update", inserted)
      BY <2>3, WorkingOther
  <2>5. LoopIs(q, n, k + 1, p)'
      BY <1>1, <2>1, <2>2, <2>3, <2>4 DEF LoopIs, Seen
  <2>6. NewInv(p)' /\ CurrentIs(node, p)'
      BY <1>1, <2>1 DEF NewInv, CurrentIs
  <2>7. ListsInv'
      BY <2>1, <2>2, <2>5, <2>6 DEF ListsInv
  <2>8. Types'
    <3>1. next \in Nodes
        BY <2>2, <1>2 DEF Ring, Path
    <3>2. loop' \in Loops
        BY <2>1, <3>1 DEF Loops
    <3> QED BY <1>1, <2>1, <3>2 DEF Types, Phases
  <2>9. PhaseInv'
      BY <1>1, <2>1, <2>3 DEF PhaseInv
  <2> QED BY <1>5, <2>7, <2>8, <2>9 DEF IInv
<1>7. CASE next = l.first
  <2>1. k = Len(q)
    <3>1. ~(k < Len(q))
        BY <1>2, <1>7, RingNext
    <3> QED BY <1>2, <3>1
  <2>2. Working(store, l, seen, w.effects, q, n, p, Len(q) + 1, "update", inserted)
      BY <2>1
  <2>3. CASE pending # Null
    <3>1. /\ node' = [store EXCEPT ![l.baseQueue].next = store[pending].next, ![pending].next = l.first]
          /\ loop' = [l EXCEPT !.update = store[pending].next, !.baseQueue = pending]
          /\ wip' = [w EXCEPT !.baseQueue = pending] /\ pending' = Null /\ pc' = "update"
        BY <1>7, <2>3 DEF nextUpdate
    <3>2. l.baseQueue \in Nodes /\ pending \in Nodes /\ l.first = store[l.baseQueue].next /\ list # "clean"
        BY <1>2, <1>3, <2>3 DEF Ring, PhaseInv
    <3>3. node' = Joined(store, l.baseQueue, pending)
        BY <3>1, <3>2, NodesAre DEF Joined
    <3>4. /\ loop'.update = store[pending].next /\ loop'.baseQueue = pending /\ loop'.first = l.first
          /\ loop'.newFirst = l.newFirst /\ loop'.newLast = l.newLast /\ loop'.newState = l.newState
          /\ loop'.newBaseState = l.newBaseState /\ loop'.newTime = l.newTime
        BY <3>1 DEF Loops
    <3>5. wip' \in Fibers /\ wip'.effects = w.effects
        BY <1>3, <3>1 DEF Fibers
    <3> DEFINE t == Cat(q, p)
               K == Len(q) + 1
    <3>6. /\ node' \in Stores /\ Same(store, node', Nodes)
          /\ Working(node', loop', seen, w.effects, t, n, <<>>, K, "update", inserted)
          /\ K \in 1 .. Len(t) /\ t[K] = store[pending].next
      <4> DEFINE last == l.baseQueue
      <4> HIDE DEF last
      <4>1. last = l.baseQueue /\ last \in Nodes /\ node' = Joined(store, last, pending)
          BY <3>2, <3>3 DEF last
      <4> HIDE DEF seen
      <4> QED BY <1>4, <2>2, <3>2, <3>4, <4>1, JoinKeeps
    <3> HIDE DEF t, K
    <3>7. Seen(node, wip.effects)' = seen
      <4>1. Same(store, node', ToSet(w.effects))
          BY <1>4, <3>6, SameSubset
      <4>2. Of(node', ToSet(w.effects)) = Of(store, ToSet(w.effects))
          BY <4>1, SameOf
      <4> QED BY <1>1, <3>5, <4>2 DEF Seen
    <3>8. LoopIs(t, n, K, <<>>)'
        BY <1>1, <3>1, <3>4, <3>5, <3>6, <3>7 DEF LoopIs
    <3>9. NewInv(<<>>)' /\ CurrentIs(node, <<>>)'
      <4>1. Ring(node', Null, <<>>) /\ Sound(node', ToSet(<<>>))
          BY EmptyPath DEF Ring, Sound
      <4> QED BY <1>1, <3>1, <3>2, <4>1 DEF NewInv, CurrentIs
    <3>10. ListsInv'
        BY <3>1, <3>6, <3>8, <3>9 DEF ListsInv
    <3>11. Types'
      <4>1. store[pending].next \in Nodes \cup {Null}
          BY <3>2 DEF Stores
      <4>2. loop' \in Loops
          BY <1>3, <3>1, <4>1 DEF Loops
      <4> QED BY <1>1, <3>1, <3>5, <3>6, <4>2 DEF Types, Phases
    <3>12. PhaseInv'
        BY <1>1, <3>1, <3>2 DEF PhaseInv
    <3> QED BY <1>5, <3>10, <3>11, <3>12 DEF IInv
  <2>4. CASE pending = Null
    <3>1. /\ node' = CloseList(store, l)
          /\ wip' = [w EXCEPT !.baseState = IF l.newLast = Null THEN l.newState ELSE l.newBaseState,
                              !.baseQueue = l.newLast, !.expirationTime = l.newTime,
                              !.memoizedState = l.newState]
          /\ loop' = NoLoop /\ pc' = "rendered" /\ pending' = Null
        BY <1>7, <2>4 DEF nextUpdate
    <3>2. p = <<>>
        BY <2>4, RingType
    <3>3. /\ node' \in Stores /\ Same(store, node', Nodes) /\ Kept(store, node', Nodes \ ToSet(n))
          /\ Queued(node', Base(l, n), l.newLast, seen, n, <<>>, inserted)
          /\ Due(node', n, <<>>, l.newTime) /\ Sound(node', ToSet(w.effects))
          /\ ToSet(w.effects) \cap (ToSet(n) \cup ToSet(<<>>)) = {}
          /\ Increasing(l.newState) /\ MadeIn(l.newState) = seen
          /\ (l.newLast = Null <=> n = <<>>)
      <4> DEFINE effects == w.effects
                 store2 == CloseList(store, l)
      <4> HIDE DEF seen
      <4>1. Working(store, l, seen, effects, q, n, <<>>, Len(q) + 1, "update", inserted)
          BY <2>2, <3>2
      <4>2. ToSet(effects) \subseteq Nodes /\ l.newFirst \in Nodes \cup {Null} /\ l.newLast \in Nodes \cup {Null}
          BY <1>3, <1>4
      <4> HIDE DEF effects
      <4>3. /\ store2 \in Stores /\ Same(store, store2, Nodes) /\ Kept(store, store2, Nodes \ ToSet(n))
            /\ Queued(store2, Base(l, n), l.newLast, seen, n, <<>>, inserted)
            /\ Due(store2, n, <<>>, l.newTime) /\ Sound(store2, ToSet(effects))
            /\ ToSet(effects) \cap (ToSet(n) \cup ToSet(<<>>)) = {}
            /\ Increasing(l.newState) /\ MadeIn(l.newState) = seen
          BY <4>1, <4>2, CloseKeeps
      <4>4. l.newLast = Null <=> n = <<>>
          BY <1>2, LineType
      <4> QED BY <3>1, <4>3, <4>4 DEF effects
    <3>4. /\ wip' \in Fibers /\ wip'.effects = w.effects /\ wip'.baseState = Base(l, n)
          /\ wip'.baseQueue = l.newLast /\ wip'.expirationTime = l.newTime /\ wip'.memoizedState = l.newState
        BY <1>3, <3>1, <3>3 DEF Fibers, Base
    <3>5. Seen(node, wip.effects)' = seen
      <4>1. Same(store, node', ToSet(w.effects))
          BY <1>4, <3>3, SameSubset
      <4>2. Of(node', ToSet(w.effects)) = Of(store, ToSet(w.effects))
          BY <4>1, SameOf
      <4> QED BY <1>1, <3>4, <4>2 DEF Seen
    <3>6. WorkIs(n, <<>>)'
        BY <1>1, <3>1, <3>3, <3>4, <3>5 DEF WorkIs
    <3>7. NewInv(<<>>)'
      <4>1. Ring(node', Null, <<>>) /\ Sound(node', ToSet(<<>>))
          BY EmptyPath DEF Ring, Sound
      <4> QED BY <3>1, <4>1 DEF NewInv
    <3>8. CurrentIs(node, <<>>)'
      <4> SUFFICES ASSUME list = "clean"
                   PROVE  \E c : /\ Queued(node', current.baseState, current.baseQueue,
                                           MadeIn(current.memoizedState), c, <<>>, inserted)
                                 /\ Due(node', c, <<>>, current.expirationTime)
          BY <1>1 DEF CurrentIs
      <4>1. PICK c : /\ Queued(store, current.baseState, current.baseQueue,
                               MadeIn(current.memoizedState), c, <<>>, inserted)
                     /\ Due(store, c, <<>>, current.expirationTime)
          BY <3>2 DEF CurrentIs
      <4>2. current.baseQueue = l.baseQueue
          BY DEF PhaseInv
      <4>3. c = q
        <5>1. Ring(store, l.baseQueue, c)
            BY <4>1, <4>2 DEF Queued
        <5> QED BY <1>2, <1>3, <5>1, RingUnique
      <4>4. ToSet(q) \subseteq Nodes
          BY <1>2, RingType
      <4>5. Kept(store, node', ToSet(c))
          BY <1>2, <3>3, <4>3, <4>4 DEF Kept
      <4>6. Same(store, node', ToSet(c) \cup ToSet(<<>>)) /\ <<>> \in Seq(Nodes)
        <5>1. ToSet(c) \cup ToSet(<<>>) \subseteq Nodes
            BY <4>3, <4>4, EmptyPath
        <5> QED BY <3>3, <5>1, SameSubset
      <4> QED BY <4>1, <4>5, <4>6, QueuedFrame
    <3>9. ListsInv'
        BY <3>1, <3>6, <3>7, <3>8 DEF ListsInv
    <3>10. Types'
      <4>1. loop' \in Loops
        <5>1. <<>> \in Seq(Nat)
            OBVIOUS
        <5> QED BY <3>1, <5>1 DEF Loops, NoLoop
      <4> QED BY <1>1, <3>1, <3>3, <3>4, <4>1 DEF Types, Phases
    <3>11. PhaseInv'
        BY <1>1, <3>1 DEF PhaseInv
    <3> QED BY <1>5, <3>9, <3>10, <3>11 DEF IInv
  <2> QED BY <2>3, <2>4
<1> QED BY <1>6, <1>7

\* The nodes of a sequence with one more at its end.
LEMMA ToSetAppend ==
    ASSUME NEW s \in Seq(Nodes), NEW m \in Nodes
    PROVE  ToSet(Append(s, m)) = ToSet(s) \cup {m} /\ Append(s, m) \in Seq(Nodes)
<1> DEFINE t == Append(s, m)
<1>1. /\ Len(s) \in Nat /\ DOMAIN s = 1 .. Len(s) /\ DOMAIN t = 1 .. (Len(s) + 1)
      /\ t[Len(s) + 1] = m /\ \A i \in 1 .. Len(s) : t[i] = s[i]
    OBVIOUS
<1> HIDE DEF t
<1>2. Len(s) + 1 \in 1 .. (Len(s) + 1) /\ 1 .. Len(s) \subseteq 1 .. (Len(s) + 1)
    BY <1>1
<1>3. \A i \in 1 .. (Len(s) + 1) : i \in 1 .. Len(s) \/ i = Len(s) + 1
    BY <1>1
<1>4. ToSet(t) \subseteq ToSet(s) \cup {m}
    BY <1>1, <1>3 DEF ToSet
<1>5. ToSet(s) \cup {m} \subseteq ToSet(t)
    BY <1>1, <1>2 DEF ToSet
<1>6. t \in Seq(Nodes)
    BY DEF t
<1> QED BY <1>4, <1>5, <1>6 DEF t

\* The node of the copy, behind the last node of the new base queue.
LEMMA CloneIs ==
    ASSUME Types, loop.update \in Nodes, NEW time \in Times, New \in Nodes, New # loop.newLast
    PROVE  /\ WithClone(time) \in Stores /\ WithClone(time)[New].of = node[loop.update].of
           /\ WithClone(time)[New].time = time
           /\ WithClone(time)[New].callback = node[loop.update].callback
           /\ Same(node, WithClone(time), Nodes \ {New})
           /\ Kept(node, WithClone(time), Nodes \ {New, loop.newLast})
           /\ Followed(WithClone(time), loop.newLast, New)
<1> DEFINE clone == [node[loop.update] EXCEPT !.time = time, !.next = Null]
           store1 == [node EXCEPT ![New] = clone]
<1>1. node \in Stores /\ node[loop.update] \in Updated /\ loop.newLast \in Nodes \cup {Null}
    BY DEF Types, Stores, Updated, Loops
<1>2. /\ clone \in Updated /\ clone.of = node[loop.update].of /\ clone.time = time
      /\ clone.callback = node[loop.update].callback
    BY <1>1 DEF Updated
<1>3. /\ loop.newLast = Null => WithClone(time) = store1
      /\ loop.newLast # Null => WithClone(time) = Link(store1, loop.newLast, New)
  <2>1. loop.newLast # Null => WithClone(time) = [node EXCEPT ![New] = clone, ![loop.newLast].next = New]
      BY DEF WithClone
  <2>2. loop.newLast = Null => WithClone(time) = store1
      BY DEF WithClone
  <2> HIDE DEF clone
  <2> QED BY <2>1, <2>2 DEF Link
<1> HIDE DEF clone
<1>4. /\ store1 \in Stores /\ store1[New] = clone
      /\ \A m \in Nodes \ {New} : store1[m] = node[m]
      /\ Same(node, store1, Nodes \ {New})
    BY <1>1, <1>2, PutIs
<1> HIDE DEF store1
<1>5. CASE loop.newLast = Null
  <2>1. Kept(node, store1, Nodes \ {New, loop.newLast})
      BY <1>4 DEF Kept
  <2> QED BY <1>2, <1>3, <1>4, <1>5, <2>1 DEF Followed
<1>6. CASE loop.newLast # Null
  <2> DEFINE store2 == Link(store1, loop.newLast, New)
             last == loop.newLast
  <2>7. last \in Nodes
      BY <1>1, <1>6
  <2>1. /\ store2 \in Stores /\ Same(store1, store2, Nodes) /\ store2[loop.newLast].next = New
        /\ Kept(store1, store2, Nodes \ {loop.newLast})
    <3> HIDE DEF last
    <3>1. /\ Link(store1, last, New) \in Stores /\ Same(store1, Link(store1, last, New), Nodes)
          /\ Link(store1, last, New)[last].next = New /\ Kept(store1, Link(store1, last, New), Nodes \ {last})
        BY <1>4, <2>7, LinkIs
    <3> QED BY <3>1 DEF last
  <2> HIDE DEF store2
  <2>2. Same(node, store2, Nodes \ {New})
      BY <1>4, <2>1 DEF Same
  <2>3. store2[New].of = clone.of /\ store2[New].time = clone.time /\ store2[New].callback = clone.callback
      BY <1>4, <2>1 DEF Same
  <2>4. Kept(node, store2, Nodes \ {New, loop.newLast})
      BY <1>4, <2>1 DEF Kept
  <2>5. Followed(store2, loop.newLast, New)
      BY <2>1 DEF Followed
  <2>6. WithClone(time) = store2
      BY <1>3, <1>6 DEF store2
  <2> QED BY <1>2, <2>1, <2>2, <2>3, <2>4, <2>5, <2>6
<1> QED BY <1>5, <1>6

\* Where the new base queue, the base queue and the new updates are.
LEMMA LoopLists ==
    ASSUME Types, NEW q, NEW n, NEW p, NEW k \in 1 .. Len(q), LoopIs(q, n, k, p), NewInv(p)
    PROVE  /\ q \in Seq(Nodes) /\ n \in Seq(Nodes) /\ p \in Seq(Nodes) /\ ToSet(q) \subseteq Nodes
           /\ ToSet(n) \subseteq Nodes /\ ToSet(p) \subseteq Nodes
           /\ Ring(node, loop.baseQueue, q) /\ Line(node, loop.newFirst, loop.newLast, n)
           /\ ToSet(q) \cap ToSet(p) = {} /\ ToSet(n) \cap (ToSet(q) \cup ToSet(p)) = {}
           /\ loop.update = q[k] /\ q[k] \in ToSet(q) /\ q[k] \in Nodes
           /\ Sound(node, ToSet(q)) /\ Sound(node, ToSet(n)) /\ Marked(node, n, loop.newTime)
           /\ (loop.newLast = Null <=> n = <<>>) /\ (loop.newLast # Null => loop.newLast \in ToSet(n))
           /\ wip.effects \in Seq(Nodes) /\ ToSet(wip.effects) \subseteq Nodes
<1>1. /\ Ring(node, loop.baseQueue, q) /\ Line(node, loop.newFirst, loop.newLast, n)
      /\ ToSet(q) \cap ToSet(p) = {} /\ ToSet(n) \cap (ToSet(q) \cup ToSet(p)) = {}
      /\ Sound(node, ToSet(q)) /\ Sound(node, ToSet(n)) /\ Marked(node, n, loop.newTime)
      /\ loop.update = q[k]
    BY DEF LoopIs, Working, Lists3
<1>2. Ring(node, pending, p)
    BY DEF NewInv
<1>3. /\ q \in Seq(Nodes) /\ n \in Seq(Nodes) /\ p \in Seq(Nodes) /\ ToSet(q) \subseteq Nodes
      /\ ToSet(n) \subseteq Nodes /\ ToSet(p) \subseteq Nodes
    BY <1>1, <1>2, RingType, LineType
<1>4. (loop.newLast = Null <=> n = <<>>) /\ (n # <<>> => loop.newLast \in ToSet(n))
    BY <1>1, LineType
<1>5. q[k] \in ToSet(q)
    BY <1>3, FromIs
<1>6. wip.effects \in Seq(Nodes) /\ ToSet(wip.effects) \subseteq Nodes
    BY DEF Types, Fibers, ToSet
<1> QED BY <1>1, <1>3, <1>4, <1>5, <1>6

\* New is a copy of the k-th update, and the lists are the same otherwise.
Apart(store2, q, n, k, p, time) ==
    /\ New \in Nodes /\ New \notin ToSet(q) \cup ToSet(n) \cup ToSet(p) \cup ToSet(wip.effects)
    /\ Same(node, store2, ToSet(q) \cup ToSet(n) \cup ToSet(p) \cup ToSet(wip.effects))
    /\ Kept(node, store2, ToSet(q)) /\ Kept(node, store2, ToSet(n) \ {loop.newLast})
    /\ Followed(store2, loop.newLast, New) /\ store2 \in Stores
    /\ store2[New].of = node[q[k]].of /\ store2[New].time = time /\ store2[New].callback
    /\ Ring(store2, pending, p) /\ Sound(store2, ToSet(p)) /\ CurrentIs(store2, p)
    /\ Seen(store2, wip.effects) = Seen(node, wip.effects)

\* A copy of an update is put where nothing else refers to.
LEMMA CloneApart ==
    ASSUME Types, PhaseInv, CanAllocate, pc \in {"update", "reducer"}, NEW q, NEW n, NEW p, NEW k \in 1 .. Len(q),
           LoopIs(q, n, k, p), NewInv(p), CurrentIs(node, p), NEW time \in Times
    PROVE  Apart(WithClone(time), q, n, k, p, time)
<1> SUFFICES ASSUME NEW store2, store2 = WithClone(time) PROVE Apart(store2, q, n, k, p, time)
    OBVIOUS
<1>1. /\ q \in Seq(Nodes) /\ n \in Seq(Nodes) /\ p \in Seq(Nodes) /\ ToSet(q) \subseteq Nodes
      /\ ToSet(n) \subseteq Nodes /\ ToSet(p) \subseteq Nodes /\ ToSet(wip.effects) \subseteq Nodes
      /\ Ring(node, loop.baseQueue, q) /\ Line(node, loop.newFirst, loop.newLast, n)
      /\ ToSet(q) \cap ToSet(p) = {} /\ ToSet(n) \cap (ToSet(q) \cup ToSet(p)) = {}
      /\ loop.update = q[k] /\ q[k] \in ToSet(q) /\ q[k] \in Nodes /\ Sound(node, ToSet(q))
      /\ (loop.newLast # Null => loop.newLast \in ToSet(n))
    BY LoopLists
<1>2. Ring(node, pending, p) /\ Sound(node, ToSet(p))
    BY DEF NewInv
<1>3. New \in Nodes /\ New \notin ToSet(wip.effects) /\ New \notin ToSet(p) /\ New \notin ToSet(q)
      /\ New \notin ToSet(n) /\ New # loop.newLast
    BY <1>1, <1>2, Fresh
<1>4. /\ store2 \in Stores /\ store2[New].of = node[q[k]].of /\ store2[New].time = time
      /\ store2[New].callback = node[q[k]].callback
      /\ Same(node, store2, Nodes \ {New}) /\ Kept(node, store2, Nodes \ {New, loop.newLast})
      /\ Followed(store2, loop.newLast, New)
  <2>1. loop.update \in Nodes
      BY <1>1
  <2> QED BY <1>1, <1>3, <2>1, CloneIs
<1>5. node[q[k]].callback
    BY <1>1 DEF Sound
<1>6. Same(node, store2, ToSet(q) \cup ToSet(n) \cup ToSet(p) \cup ToSet(wip.effects))
  <2>1. ToSet(q) \cup ToSet(n) \cup ToSet(p) \cup ToSet(wip.effects) \subseteq Nodes \ {New}
      BY <1>1, <1>3
  <2> QED BY <1>4, <2>1, SameSubset
<1>7. loop.newLast \notin ToSet(q) /\ loop.newLast \notin ToSet(p)
    BY <1>1, NodesAre
<1>8. Kept(node, store2, ToSet(q)) /\ Kept(node, store2, ToSet(n) \ {loop.newLast}) /\ Kept(node, store2, ToSet(p))
    BY <1>1, <1>3, <1>4, <1>7 DEF Kept
<1>9. Ring(store2, pending, p)
    BY <1>2, <1>8, RingFrame DEF Kept
<1>10. Sound(store2, ToSet(p)) /\ Of(store2, ToSet(wip.effects)) = Of(node, ToSet(wip.effects))
  <2>1. Same(node, store2, ToSet(p)) /\ Same(node, store2, ToSet(wip.effects))
      BY <1>6 DEF Same
  <2> QED BY <1>2, <2>1, SameOf
<1>11. CurrentIs(store2, p)
  <2> SUFFICES ASSUME list = "clean"
               PROVE  \E c : /\ Queued(store2, current.baseState, current.baseQueue,
                                       MadeIn(current.memoizedState), c, p, inserted)
                             /\ Due(store2, c, p, current.expirationTime)
      BY DEF CurrentIs
  <2>1. PICK c : /\ Queued(node, current.baseState, current.baseQueue,
                           MadeIn(current.memoizedState), c, p, inserted)
                 /\ Due(node, c, p, current.expirationTime)
      BY DEF CurrentIs
  <2>2. current.baseQueue = loop.baseQueue
      BY DEF PhaseInv
  <2>3. c = q
    <3>1. Ring(node, loop.baseQueue, c)
        BY <2>1, <2>2 DEF Queued
    <3>2. node \in Stores /\ loop.baseQueue \in Nodes \cup {Null}
        BY DEF Types, Loops
    <3> QED BY <1>1, <3>1, <3>2, RingUnique
  <2>4. Same(node, store2, ToSet(c) \cup ToSet(p)) /\ Kept(node, store2, ToSet(c))
      BY <1>6, <1>8, <2>3 DEF Same
  <2> QED BY <1>1, <2>1, <2>4, QueuedFrame
<1> QED BY <1>3, <1>4, <1>5, <1>6, <1>8, <1>9, <1>10, <1>11 DEF Seen, Apart

\* skipUpdate keeps the invariant.
LEMMA SkipStepKeeps ==
    ASSUME IInv, list # "spoilt", skipUpdate
    PROVE  IInv'
<1>1. Types /\ PhaseInv /\ ShownInv /\ ListsInv
    BY DEF IInv
<1>2. PICK p : /\ NewInv(p) /\ CurrentIs(node, p)
               /\ pc \in {"update", "reducer"} => \E q, n : \E k \in 1 .. Len(q) : LoopIs(q, n, k, p)
    BY <1>1 DEF ListsInv
<1>3. pc = "update" /\ CanAllocate /\ node[loop.update].time < renderTime
      /\ UNCHANGED <<current, renderTime, list, inserted, captured, calls>>
    BY DEF skipUpdate
<1>4. PICK q, n : \E k \in 1 .. Len(q) : LoopIs(q, n, k, p)
    BY <1>2, <1>3
<1>5. PICK k \in 1 .. Len(q) : LoopIs(q, n, k, p)
    BY <1>4
<1> DEFINE time == node[loop.update].time
           l2 == [loop EXCEPT !.newLast = New,
                      !.newFirst = IF loop.newLast = Null THEN New ELSE @,
                      !.newBaseState = IF loop.newLast = Null THEN loop.newState ELSE @,
                      !.newTime = Remaining(node[loop.update].time)]
<1>6. nextUpdate(WithClone(time), l2, wip)
    BY DEF skipUpdate
<1>7. PICK store2 : store2 = WithClone(time)
    OBVIOUS
<1>8. /\ q \in Seq(Nodes) /\ n \in Seq(Nodes) /\ p \in Seq(Nodes)
      /\ loop.update = q[k] /\ q[k] \in ToSet(q) /\ Sound(node, ToSet(q)) /\ Sound(node, ToSet(n))
      /\ Marked(node, n, loop.newTime) /\ ToSet(n) \subseteq Nodes
    BY <1>1, <1>2, <1>5, LoopLists
<1>9. time \in Times /\ time \in Nat /\ time # Sync /\ node[q[k]].time = time
  <2>1. time \in Times /\ renderTime \in Times
      BY <1>1, <1>3, <1>8 DEF Types, Sound
  <2>2. time \in Nat /\ renderTime \in Nat /\ Sync \in Nat /\ renderTime <= Sync
      BY <2>1, TimesAssumption
  <2>3. time < renderTime /\ node[q[k]].time = time
      BY <1>3, <1>8
  <2> HIDE DEF time
  <2>4. time # Sync
      BY <2>2, <2>3
  <2> QED BY <2>1, <2>2, <2>3, <2>4
<1> HIDE DEF time
<1>10. /\ New \in Nodes /\ New \notin ToSet(q) \cup ToSet(n) \cup ToSet(p) \cup ToSet(wip.effects)
       /\ Same(node, store2, ToSet(q) \cup ToSet(n) \cup ToSet(p) \cup ToSet(wip.effects))
       /\ Kept(node, store2, ToSet(q)) /\ Kept(node, store2, ToSet(n) \ {loop.newLast})
       /\ Followed(store2, loop.newLast, New) /\ store2 \in Stores
       /\ store2[New].of = node[q[k]].of /\ store2[New].time = time /\ store2[New].callback
       /\ Ring(store2, pending, p) /\ Sound(store2, ToSet(p)) /\ CurrentIs(store2, p)
       /\ Seen(store2, wip.effects) = Seen(node, wip.effects)
  <2>1. pc \in {"update", "reducer"}
      BY <1>3
  <2>2. Apart(WithClone(time), q, n, k, p, time)
      BY <1>1, <1>2, <1>3, <1>5, <1>9, <2>1, CloneApart
  <2> QED BY <1>7, <2>2 DEF Apart
<1>11. /\ loop \in Loops /\ loop.newTime \in Nat /\ loop.newTime \in Times \cup {NoWork}
       /\ loop.newState \in Seq(Nat) /\ loop.newBaseState \in Seq(Nat)
  <2>1. loop \in Loops
      BY <1>1 DEF Types
  <2>2. Times \cup {NoWork} \subseteq Nat
      BY TimesAssumption DEF NoWork
  <2> QED BY <2>1, <2>2 DEF Loops
<1>12. /\ l2.newTime = Later(loop.newTime, time) /\ l2.baseQueue = loop.baseQueue /\ l2.first = loop.first
       /\ l2.newLast = New /\ l2.newFirst = IF loop.newLast = Null THEN New ELSE loop.newFirst
       /\ l2.newState = loop.newState /\ l2.update = loop.update
       /\ l2.newBaseState = IF loop.newLast = Null THEN loop.newState ELSE loop.newBaseState
    BY <1>11 DEF Loops, Remaining, time
<1>13. Later(loop.newTime, time) \in Times \cup {NoWork} /\ Later(loop.newTime, time) \in Nat
       /\ loop.newTime <= Later(loop.newTime, time) /\ time <= Later(loop.newTime, time)
    BY <1>9, <1>11 DEF Later
<1>14. l2 \in Loops
  <2>1. l2.newTime \in Times \cup {NoWork}
      BY <1>12, <1>13
  <2>2. [loop EXCEPT !.newLast = New,
                      !.newFirst = IF loop.newLast = Null THEN New ELSE @,
                      !.newBaseState = IF loop.newLast = Null THEN loop.newState ELSE @,
                      !.newTime = l2.newTime] \in Loops
      BY <1>10, <1>11, <2>1 DEF Loops
  <2> QED BY <1>11, <2>2 DEF Loops
<1> HIDE DEF l2
<1>22. PICK n2 : n2 = Append(n, New)
    OBVIOUS
<1>15. Marked(store2, n2, l2.newTime)
  <2>1. Same(node, store2, ToSet(n))
      BY <1>10 DEF Same
  <2>2. Marked(store2, n, loop.newTime) /\ Sound(store2, ToSet(n))
      BY <1>8, <2>1, SameList, SameOf
  <2>3. \A m \in ToSet(n) : store2[m].time \in Nat
      BY <2>2, TimesAssumption DEF Sound
  <2> QED BY <1>8, <1>9, <1>10, <1>11, <1>12, <1>13, <1>22, <2>2, <2>3, MarkedAppend
<1>16. Cloned(node, store2, loop, l2, wip.effects, q, n, n2, p, New)
    BY <1>9, <1>10, <1>12, <1>15, <1>22 DEF Cloned
<1>17. Working(node, loop, Seen(node, wip.effects), wip.effects, q, n, p, k, "update", inserted)
    BY <1>3, <1>5 DEF LoopIs
<1>18. Working(store2, l2, Seen(node, wip.effects), wip.effects, q, n2, p, k + 1, "update", inserted)
  <2>1. store2[New].of = node[q[k]].of /\ node[q[k]].time # Sync
      BY <1>9, <1>10
  <2> QED BY <1>8, <1>12, <1>16, <1>17, <2>1, SkipKeeps
<1>19. wip \in Fibers
    BY <1>1 DEF Types
<1>20. /\ nextUpdate(store2, l2, wip) /\ l2.update = q[k] /\ l2.baseQueue = loop.baseQueue
       /\ Working(store2, l2, Seen(store2, wip.effects), wip.effects, q, n2, p, k + 1, "update", inserted)
       /\ pc \in {"update", "reducer"}
    BY <1>3, <1>6, <1>7, <1>8, <1>10, <1>12, <1>18
<1> QED BY <1>1, <1>3, <1>10, <1>14, <1>19, <1>20, NextKeeps

\* The loop itself goes on where it is: nothing but the nodes, the local variables
\* and the phase may have changed.
LEMMA LoopStays ==
    ASSUME Types, PhaseInv, ShownInv, list # "spoilt", pc = "update", pc' = "reducer",
           UNCHANGED <<pending, current, wip, renderTime, list, inserted, captured, calls>>,
           NEW q, NEW n, NEW p, NEW k \in 1 .. Len(q),
           node' \in Stores, loop' \in Loops, loop'.baseQueue = loop.baseQueue, loop'.update = q[k],
           Working(node', loop', Seen(node', wip.effects), wip.effects, q, n, p, k, "reducer", inserted),
           Ring(node', pending, p), Sound(node', ToSet(p)), CurrentIs(node', p)
    PROVE  IInv'
<1>1. /\ pending' = pending /\ current' = current /\ wip' = wip /\ renderTime' = renderTime /\ list' = list
      /\ inserted' = inserted /\ captured' = captured /\ calls' = calls
    OBVIOUS
<1>2. LoopIs(q, n, k, p)'
    BY <1>1 DEF LoopIs, Seen
<1>3. NewInv(p)' /\ CurrentIs(node, p)'
    BY <1>1 DEF NewInv, CurrentIs
<1>4. ListsInv'
    BY <1>2, <1>3 DEF ListsInv
<1>5. Types'
    BY <1>1 DEF Types, Phases
<1>6. PhaseInv' /\ ShownInv'
    BY <1>1 DEF PhaseInv, ShownInv
<1> QED BY <1>4, <1>5, <1>6 DEF IInv

\* applyUpdate keeps the invariant.
LEMMA ApplyStepKeeps ==
    ASSUME IInv, list # "spoilt", applyUpdate
    PROVE  IInv'
<1>1. Types /\ PhaseInv /\ ShownInv /\ ListsInv
    BY DEF IInv
<1>2. PICK p : /\ NewInv(p) /\ CurrentIs(node, p)
               /\ pc \in {"update", "reducer"} => \E q, n : \E k \in 1 .. Len(q) : LoopIs(q, n, k, p)
    BY <1>1 DEF ListsInv
<1>3. pc = "update" /\ Rebase /\ pc' = "reducer"
      /\ UNCHANGED <<pending, current, wip, renderTime, list, inserted, captured, calls>>
    BY DEF applyUpdate
<1>4. PICK q, n : \E k \in 1 .. Len(q) : LoopIs(q, n, k, p)
    BY <1>2, <1>3
<1>5. PICK k \in 1 .. Len(q) : LoopIs(q, n, k, p)
    BY <1>4
<1>6. /\ q \in Seq(Nodes) /\ n \in Seq(Nodes) /\ p \in Seq(Nodes)
      /\ loop.update = q[k] /\ Sound(node, ToSet(n))
      /\ Marked(node, n, loop.newTime) /\ ToSet(n) \subseteq Nodes
      /\ (loop.newLast = Null <=> n = <<>>)
    BY <1>1, <1>2, <1>5, LoopLists
<1>7. Working(node, loop, Seen(node, wip.effects), wip.effects, q, n, p, k, "update", inserted)
    BY <1>3, <1>5 DEF LoopIs
<1>8. /\ loop \in Loops /\ loop.newTime \in Nat
  <2>1. loop \in Loops
      BY <1>1 DEF Types
  <2>2. Times \cup {NoWork} \subseteq Nat
      BY TimesAssumption DEF NoWork
  <2> QED BY <2>1, <2>2 DEF Loops
<1>9. CASE loop.newLast = Null
  <2>1. node' = node /\ loop' = loop
      BY <1>3, <1>9 DEF Rebase
  <2>2. Rest(n, k, "reducer") = Rest(n, k, "update") /\ n = <<>>
      BY <1>6, <1>9 DEF Rest
  <2>3. Working(node, loop, Seen(node, wip.effects), wip.effects, q, n, p, k, "reducer", inserted)
      BY <1>7, <2>2 DEF Working, Numbers
  <2>4. Ring(node, pending, p) /\ Sound(node, ToSet(p)) /\ node \in Stores
      BY <1>1, <1>2 DEF NewInv, Types
  <2> QED BY <1>1, <1>2, <1>3, <1>6, <1>8, <2>1, <2>3, <2>4, LoopStays
<1>10. CASE loop.newLast # Null
  <2>1. CanAllocate /\ node' = WithClone(Sync) /\ loop' = [loop EXCEPT !.newLast = New]
      BY <1>3, <1>10 DEF Rebase, RebasedTime
  <2>2. Apart(WithClone(Sync), q, n, k, p, Sync)
    <3>1. pc \in {"update", "reducer"} /\ Sync \in Times
        BY <1>3, TimesAssumption
    <3> QED BY <1>1, <1>2, <1>5, <2>1, <3>1, CloneApart
  <2>3. /\ New \in Nodes /\ New \notin ToSet(q) \cup ToSet(n) \cup ToSet(p) \cup ToSet(wip.effects)
        /\ Same(node, node', ToSet(q) \cup ToSet(n) \cup ToSet(p) \cup ToSet(wip.effects))
        /\ Kept(node, node', ToSet(q)) /\ Kept(node, node', ToSet(n) \ {loop.newLast})
        /\ Followed(node', loop.newLast, New) /\ node' \in Stores
        /\ node'[New].of = node[q[k]].of /\ node'[New].time = Sync /\ node'[New].callback
        /\ Ring(node', pending, p) /\ Sound(node', ToSet(p)) /\ CurrentIs(node', p)
        /\ Seen(node', wip.effects) = Seen(node, wip.effects)
      BY <2>1, <2>2 DEF Apart
  <2>4. /\ loop' \in Loops /\ loop'.newTime = loop.newTime /\ loop'.baseQueue = loop.baseQueue
        /\ loop'.first = loop.first
        /\ loop'.newLast = New /\ loop'.newFirst = loop.newFirst
        /\ loop'.newState = loop.newState /\ loop'.update = loop.update
        /\ loop'.newBaseState = loop.newBaseState
      BY <1>8, <2>1, <2>3 DEF Loops
  <2>10. PICK n2 : n2 = Append(n, New)
      OBVIOUS
  <2>5. Marked(node', n2, loop'.newTime)
    <3>1. Same(node, node', ToSet(n))
        BY <2>3 DEF Same
    <3>2. Marked(node', n, loop.newTime) /\ Sound(node', ToSet(n))
        BY <1>6, <3>1, SameList, SameOf
    <3>3. \A m \in ToSet(n) : node'[m].time \in Nat
        BY <3>2, TimesAssumption DEF Sound
    <3>4. node'[New].time \in Nat /\ n # <<>> /\ node'[New].time = Sync /\ loop.newTime <= loop.newTime
        BY <1>6, <1>8, <1>10, <2>3, TimesAssumption
    <3> QED BY <1>6, <1>8, <2>3, <2>4, <2>10, <3>2, <3>3, <3>4, MarkedAppend
  <2>6. Cloned(node, node', loop, loop', wip.effects, q, n, n2, p, New)
    <3>1. Sync \in Times
        BY TimesAssumption
    <3> QED BY <1>10, <2>3, <2>4, <2>5, <2>10, <3>1 DEF Cloned
  <2>7. Working(node', loop', Seen(node, wip.effects), wip.effects, q, n2, p, k, "reducer", inserted)
    <3>1. n # <<>> /\ node'[New].of = node[q[k]].of /\ node'[New].time = Sync
        BY <1>6, <1>10, <2>3
    <3> QED BY <1>6, <1>7, <2>4, <2>6, <3>1, RebaseKeeps
  <2>8. /\ Working(node', loop', Seen(node', wip.effects), wip.effects, q, n2, p, k, "reducer", inserted)
        /\ loop'.update = q[k]
      BY <1>6, <2>3, <2>4, <2>7
  <2> QED BY <1>1, <1>3, <2>3, <2>4, <2>8, LoopStays
<1> QED BY <1>9, <1>10

\* reducerReturns keeps the invariant.
LEMMA ReturnKeeps ==
    ASSUME IInv, list # "spoilt", reducerReturns
    PROVE  IInv'
<1>1. Types /\ PhaseInv /\ ShownInv /\ ListsInv
    BY DEF IInv
<1>2. PICK p : /\ NewInv(p) /\ CurrentIs(node, p)
               /\ pc \in {"update", "reducer"} => \E q, n : \E k \in 1 .. Len(q) : LoopIs(q, n, k, p)
    BY <1>1 DEF ListsInv
<1> DEFINE l2 == [loop EXCEPT !.newState = Append(@, node[loop.update].of)]
           w2 == [wip EXCEPT !.effects = Effects]
<1>3. pc = "reducer" /\ nextUpdate(node, l2, w2)
      /\ UNCHANGED <<current, renderTime, list, inserted, captured, calls>>
    BY DEF reducerReturns
<1>4. PICK q, n : \E k \in 1 .. Len(q) : LoopIs(q, n, k, p)
    BY <1>2, <1>3
<1>5. PICK k \in 1 .. Len(q) : LoopIs(q, n, k, p)
    BY <1>4
<1>6. /\ loop.update = q[k] /\ q[k] \in ToSet(q) /\ q[k] \in Nodes /\ Sound(node, ToSet(q))
      /\ wip.effects \in Seq(Nodes) /\ ToSet(wip.effects) \subseteq Nodes
    BY <1>1, <1>2, <1>5, LoopLists
<1>7. Working(node, loop, Seen(node, wip.effects), wip.effects, q, n, p, k, "reducer", inserted)
    BY <1>3, <1>5 DEF LoopIs
<1>8. loop \in Loops /\ wip \in Fibers /\ node \in Stores
    BY <1>1 DEF Types
<1>9. Effects = Append(wip.effects, q[k])
    BY <1>6 DEF Effects, Sound
<1>10. ToSet(Effects) = ToSet(wip.effects) \cup {q[k]} /\ Effects \in Seq(Nodes)
    BY <1>6, <1>9, ToSetAppend
<1>11. w2 \in Fibers /\ w2.effects = Effects
    BY <1>8, <1>10 DEF Fibers
<1>12. node[q[k]].of \in Nat /\ loop.newState \in Seq(Nat)
    BY <1>6, <1>8, BoundsAssumption DEF Stores, Loops
<1>13. /\ l2 \in Loops /\ l2.newTime = loop.newTime /\ l2.baseQueue = loop.baseQueue /\ l2.first = loop.first
       /\ l2.newLast = loop.newLast /\ l2.newFirst = loop.newFirst
       /\ l2.newState = Append(loop.newState, node[q[k]].of) /\ l2.update = loop.update
       /\ l2.newBaseState = loop.newBaseState
  <2> DEFINE u == node[loop.update].of
             s == Append(loop.newState, u)
  <2>1. s \in Seq(Nat) /\ l2 = [loop EXCEPT !.newState = s]
      BY <1>6, <1>8, <1>12 DEF Loops
  <2>2. s = Append(loop.newState, node[q[k]].of)
      BY <1>6
  <2> HIDE DEF s, u, l2
  <2> QED BY <1>8, <2>1, <2>2 DEF Loops
<1>14. Seen(node, Effects) = Seen(node, wip.effects) \cup One(node[q[k]].of)
  <2> DEFINE K == {q[k]}
  <2>1. Of(node, K) = One(node[q[k]].of)
      BY OfOne
  <2> HIDE DEF K
  <2>2. ToSet(Effects) = ToSet(wip.effects) \cup K
      BY <1>10 DEF K
  <2>3. Of(node, ToSet(Effects)) = Of(node, ToSet(wip.effects)) \cup Of(node, K)
      BY <2>2 DEF Of
  <2> QED BY <2>1, <2>3 DEF Seen
<1> HIDE DEF l2, w2
<1>15. Working(node, l2, Seen(node, w2.effects), w2.effects, q, n, p, k + 1, "update", inserted)
  <2> DEFINE seen2 == Seen(node, Effects)
  <2>1. seen2 = Seen(node, wip.effects) \cup One(node[q[k]].of)
      BY <1>14
  <2> HIDE DEF seen2
  <2>2. Working(node, l2, seen2, Append(wip.effects, q[k]), q, n, p, k + 1, "update", inserted)
      BY <1>6, <1>7, <1>12, <1>13, <2>1, ApplyKeeps
  <2> QED BY <1>9, <1>11, <2>2 DEF seen2
<1>16. Ring(node, pending, p) /\ Sound(node, ToSet(p))
    BY <1>2 DEF NewInv
<1>17. l2.update = q[k] /\ l2.baseQueue = loop.baseQueue /\ pc \in {"update", "reducer"}
    BY <1>3, <1>6, <1>13
<1> QED BY <1>1, <1>2, <1>3, <1>8, <1>11, <1>13, <1>15, <1>16, <1>17, NextKeeps

\* A captured error goes to the front of the queue of the work in progress.
LEMMA CaptureKeeps ==
    ASSUME IInv, list # "spoilt", enqueueCapturedUpdate
    PROVE  IInv'
<1>1. Types /\ PhaseInv /\ ShownInv /\ ListsInv
    BY DEF IInv
<1>2. /\ pc = "rendered" /\ CanAllocate /\ captured' = captured + 1
      /\ wip' = [wip EXCEPT !.baseQueue = IF @ = Null THEN New ELSE @, !.expirationTime = renderTime]
      /\ pc' = "begin" /\ list' = "touched" /\ pending' = pending /\ current' = current
      /\ renderTime' = renderTime /\ loop' = loop /\ inserted' = inserted /\ calls' = calls
    BY DEF enqueueCapturedUpdate, Touched
<1>3. PICK p : NewInv(p) /\ \E q : WorkIs(q, p)
    BY <1>1, <1>2 DEF ListsInv
<1>4. PICK q : WorkIs(q, p)
    BY <1>3
<1> DEFINE update == [of |-> Capture, time |-> renderTime, callback |-> TRUE, next |-> Null]
<1>5. /\ node \in Stores /\ wip \in Fibers /\ wip.baseQueue \in Nodes \cup {Null} /\ renderTime \in Times
      /\ captured \in Nat
    BY <1>1, <1>2 DEF Types, Fibers
<1>6. update \in Updated
    BY <1>5, BoundsAssumption DEF Updated, Capture
<1>7. /\ Ring(node, pending, p) /\ Sound(node, ToSet(p))
      /\ Queued(node, wip.baseState, wip.baseQueue, Seen(node, wip.effects), q, p, inserted)
      /\ Ring(node, wip.baseQueue, q) /\ ToSet(q) \cap ToSet(p) = {}
      /\ Sound(node, ToSet(wip.effects)) /\ ToSet(wip.effects) \cap (ToSet(q) \cup ToSet(p)) = {}
    BY <1>3, <1>4 DEF NewInv, WorkIs, Queued
<1>8. /\ p \in Seq(Nodes) /\ ToSet(p) \subseteq Nodes /\ q \in Seq(Nodes) /\ ToSet(q) \subseteq Nodes
      /\ (wip.baseQueue # Null => wip.baseQueue \in ToSet(q))
    BY <1>7, RingType
<1>9. /\ New \in Nodes /\ New # wip.baseQueue /\ New \notin ToSet(p) /\ New \notin ToSet(q)
      /\ New \notin ToSet(wip.effects)
    BY <1>1, <1>2, <1>7, Fresh
<1>10. /\ node' \in Stores
       /\ node'[New].of = Capture /\ node'[New].time = renderTime /\ node'[New].callback
       /\ Same(node, node', Nodes \ {New})
       /\ Kept(node, node', Nodes \ {New, wip.baseQueue}) /\ Linked(node, node', wip.baseQueue, New)
  <2> DEFINE store2 == InsertAfter(node, wip.baseQueue, New, update)
  <2>1. node' = store2
      BY DEF enqueueCapturedUpdate
  <2>2. update.of = Capture /\ update.time = renderTime /\ update.callback
      OBVIOUS
  <2> HIDE DEF update
  <2>3. /\ store2 \in Stores
        /\ store2[New].of = update.of /\ store2[New].time = update.time
        /\ store2[New].callback = update.callback
        /\ Same(node, store2, Nodes \ {New})
        /\ Kept(node, store2, Nodes \ {New, wip.baseQueue}) /\ Linked(node, store2, wip.baseQueue, New)
      BY <1>5, <1>6, <1>9, InsertAfterIs
  <2> HIDE DEF store2
  <2> QED BY <2>1, <2>2, <2>3
<1> HIDE DEF update
<1>11. ToSet(wip.effects) \subseteq Nodes
    BY <1>5 DEF Fibers, ToSet
<1>12. /\ Same(node, node', ToSet(q) \cup ToSet(p)) /\ Same(node, node', ToSet(p))
       /\ Same(node, node', ToSet(wip.effects))
    BY <1>8, <1>9, <1>10, <1>11 DEF Same
<1>13. Kept(node, node', ToSet(p)) /\ Kept(node, node', ToSet(q) \ {wip.baseQueue})
  <2>1. wip.baseQueue \notin ToSet(p)
      BY <1>7, <1>8, NodesAre
  <2> QED BY <1>8, <1>9, <1>10, <2>1 DEF Kept
<1>14. PICK q2 : /\ Queued(node', wip.baseState, IF wip.baseQueue = Null THEN New ELSE wip.baseQueue,
                           Seen(node, wip.effects), q2, p, inserted)
                 /\ ToSet(q2) = ToSet(q) \cup {New}
  <2> DEFINE N == New
             last == wip.baseQueue
             seen == Seen(node, wip.effects)
  <2>1. /\ N \in Nodes /\ N \notin ToSet(q) \cup ToSet(p)
        /\ Queued(node, wip.baseState, last, seen, q, p, inserted)
        /\ Kept(node, node', ToSet(q) \ {last}) /\ Linked(node, node', last, N)
        /\ node'[N].of = Capture /\ node'[N].time \in Times /\ node'[N].callback
      BY <1>5, <1>7, <1>9, <1>10, <1>13
  <2> HIDE DEF N, last, seen
  <2>2. \E t : /\ Queued(node', wip.baseState, IF last = Null THEN N ELSE last, seen, t, p, inserted)
               /\ ToSet(t) = ToSet(q) \cup {N}
      BY <1>8, <1>12, <2>1, QueuedCapture
  <2> QED BY <2>2 DEF N, last, seen
<1>15. /\ wip' \in Fibers /\ wip'.baseState = wip.baseState /\ wip'.effects = wip.effects
       /\ wip'.baseQueue = (IF wip.baseQueue = Null THEN New ELSE wip.baseQueue)
       /\ wip'.expirationTime = renderTime
    BY <1>2, <1>5, <1>9 DEF Fibers
<1>16. Seen(node, wip.effects)' = Seen(node, wip.effects) /\ Sound(node', ToSet(wip.effects))
    BY <1>2, <1>7, <1>12, <1>15, SameOf DEF Seen
<1>17. WorkIs(q2, p)'
  <2>1. ToSet(wip.effects) \cap (ToSet(q2) \cup ToSet(p)) = {}
      BY <1>7, <1>9, <1>14
  <2> QED BY <1>2, <1>14, <1>15, <1>16, <2>1 DEF WorkIs
<1>18. NewInv(p)'
  <2>1. Ring(node', pending, p)
      BY <1>7, <1>13, RingFrame DEF Kept
  <2>2. Sound(node', ToSet(p))
      BY <1>7, <1>12, SameOf
  <2> QED BY <1>2, <2>1, <2>2 DEF NewInv
<1>19. CurrentIs(node, p)'
    BY <1>2 DEF CurrentIs
<1>20. ListsInv'
    BY <1>2, <1>17, <1>18, <1>19 DEF ListsInv
<1>21. Types'
    BY <1>1, <1>2, <1>5, <1>10, <1>15 DEF Types, Phases, Lists
<1>22. PhaseInv'
  <2>1. wip'.baseQueue # Null
      BY <1>9, <1>15, NodesAre
  <2>2. renderTime \in Nat
      BY <1>5, TimesAssumption
  <2>3. wip'.expirationTime >= renderTime'
      BY <1>2, <1>15, <2>2
  <2> QED BY <1>2, <2>1, <2>3 DEF PhaseInv
<1>23. ShownInv'
    BY <1>1, <1>2 DEF ShownInv
<1> QED BY <1>20, <1>21, <1>22, <1>23 DEF IInv

-----------------------------------------------------------------------------
(* A render ends *)

\* Counting up to a limit tells none from some.
LEMMA MinIs ==
    ASSUME NEW x \in Nat
    PROVE  Min({CallLimit, x}) \in Nat /\ (Min({CallLimit, x}) > 0 <=> x > 0)
<1> DEFINE m == IF x <= 2 THEN x ELSE 2
<1>1. m \in {2, x} /\ \A y \in {2, x} : m <= y
    OBVIOUS
<1>2. \A z \in {2, x} : (\A y \in {2, x} : z <= y) => z = m
    OBVIOUS
<1>3. Min({2, x}) = m
  <2> DEFINE S == {2, x}
  <2> HIDE DEF S, m
  <2>1. m \in S /\ (\A y \in S : m <= y) /\ \A z \in S : (\A y \in S : z <= y) => z = m
      BY <1>1, <1>2 DEF S
  <2>2. Min(S) = CHOOSE z \in S : \A y \in S : z <= y
      BY DEF Min
  <2>3. Min(S) = m
      BY <2>1, <2>2
  <2> QED BY <2>3 DEF S
<1> QED BY <1>3 DEF CallLimit

\* The callbacks that are called are those of the updates shown now and not before.
LEMMA CallsAre ==
    ASSUME Types, ShownInv, NEW called, called = ToSet(wip.effects), NEW calls2,
           calls2 = [u \in DOMAIN calls |->
                       Min({CallLimit, calls[u] + Cardinality({n \in called : node[n].of = u})})]
    PROVE  /\ calls2 \in [1 .. MaxUpdates -> Nat]
           /\ \A u \in 1 .. MaxUpdates : calls2[u] > 0 <=> u \in Seen(node, wip.effects)
<1>1. called \subseteq Nodes /\ IsFiniteSet(Nodes)
  <2>1. ToSet(wip.effects) \subseteq Nodes
      BY DEF Types, Fibers, ToSet
  <2>2. IsFiniteSet(1 .. MaxNodes)
      BY NodesAre, FS_Interval
  <2> QED BY <2>1, <2>2, NodesAre
<1> DEFINE H(u) == {n \in called : node[n].of = u}
<1>2. \A u : Cardinality(H(u)) \in Nat /\ (Cardinality(H(u)) > 0 <=> H(u) # {})
  <2> TAKE u
  <2> DEFINE S == H(u)
  <2>1. IsFiniteSet(S)
    <3>1. S \subseteq Nodes
        BY <1>1
    <3> HIDE DEF S
    <3> QED BY <1>1, <3>1, FS_Subset
  <2> HIDE DEF S
  <2>2. Cardinality(S) \in Nat /\ (Cardinality(S) = 0 <=> S = {})
      BY <2>1, FS_CardinalityType, FS_EmptySet
  <2>3. Cardinality(S) > 0 <=> S # {}
      BY <2>2
  <2> QED BY <2>2, <2>3 DEF S
<1>3. \A u \in 1 .. MaxUpdates : H(u) # {} <=> u \in Of(node, ToSet(wip.effects))
    BY DEF Of, Capture
<1> DEFINE x(u) == calls[u] + Cardinality(H(u))
<1>4. calls \in [1 .. MaxUpdates -> Nat] /\ DOMAIN calls = 1 .. MaxUpdates
    BY DEF Types
<1>5. ASSUME NEW u \in 1 .. MaxUpdates
      PROVE  calls2[u] \in Nat /\ (calls2[u] > 0 <=> u \in Seen(node, wip.effects))
  <2> DEFINE c == Cardinality(H(u))
             y == calls[u] + c
  <2>1. calls2[u] = Min({CallLimit, y})
      BY <1>4
  <2>2. calls[u] \in Nat /\ c \in Nat /\ (c > 0 <=> H(u) # {})
      BY <1>2, <1>4
  <2> HIDE DEF c, H
  <2>3. y \in Nat /\ (y > 0 <=> calls[u] > 0 \/ c > 0)
      BY <2>2
  <2> HIDE DEF y
  <2>4. calls2[u] \in Nat /\ (calls2[u] > 0 <=> y > 0)
      BY <2>1, <2>3, MinIs
  <2>5. calls[u] > 0 <=> u \in MadeIn(current.memoizedState)
      BY DEF ShownInv
  <2>6. c > 0 <=> u \in Of(node, ToSet(wip.effects))
      BY <1>3, <2>2
  <2> QED BY <2>3, <2>4, <2>5, <2>6 DEF Seen
<1> HIDE DEF H
<1>6. calls2 \in [1 .. MaxUpdates -> Nat]
  <2>1. DOMAIN calls2 = 1 .. MaxUpdates /\ calls2 = [u \in 1 .. MaxUpdates |-> calls2[u]]
      BY <1>4
  <2> QED BY <1>5, <2>1
<1> QED BY <1>5, <1>6

\* commitUpdateQueue keeps the invariant.
LEMMA CommitKeeps ==
    ASSUME IInv, list # "spoilt", commitUpdateQueue
    PROVE  IInv'
<1>1. Types /\ PhaseInv /\ ShownInv /\ ListsInv
    BY DEF IInv
<1> DEFINE called == {n \in ToSet(wip.effects) : node[n].callback}
           store1 == [n \in Nodes |-> IF n \in called THEN [node[n] EXCEPT !.callback = FALSE] ELSE node[n]]
<1>2. /\ pc = "rendered" /\ pc' = "idle" /\ renderTime' = NoWork
      /\ node' = Collect(store1, wip.baseQueue)
      /\ current' = [wip EXCEPT !.effects = <<>>] /\ wip' = EmptyFiber
      /\ list' = IF list = "touched" THEN "clean" ELSE list
      /\ pending' = pending /\ loop' = loop /\ inserted' = inserted /\ captured' = captured
    BY DEF commitUpdateQueue
<1>3. calls' = [u \in DOMAIN calls |->
                  Min({CallLimit, calls[u] + Cardinality({n \in called : node[n].of = u})})]
    BY DEF commitUpdateQueue
<1>4. PICK p : NewInv(p) /\ \E q : WorkIs(q, p)
    BY <1>1, <1>2 DEF ListsInv
<1>5. PICK q : WorkIs(q, p)
    BY <1>4
<1>6. /\ Ring(node, pending, p) /\ Sound(node, ToSet(p))
      /\ Queued(node, wip.baseState, wip.baseQueue, Seen(node, wip.effects), q, p, inserted)
      /\ Due(node, q, p, wip.expirationTime) /\ Ring(node, wip.baseQueue, q)
      /\ Sound(node, ToSet(wip.effects)) /\ ToSet(wip.effects) \cap (ToSet(q) \cup ToSet(p)) = {}
      /\ Increasing(wip.memoizedState) /\ MadeIn(wip.memoizedState) = Seen(node, wip.effects)
    BY <1>2, <1>4, <1>5 DEF NewInv, WorkIs, Queued
<1>7. /\ node \in Stores /\ wip \in Fibers /\ wip.baseQueue \in Nodes \cup {Null} /\ pending \in Nodes \cup {Null}
    BY <1>1 DEF Types, Fibers
<1>8. /\ p \in Seq(Nodes) /\ ToSet(p) \subseteq Nodes /\ q \in Seq(Nodes) /\ ToSet(q) \subseteq Nodes
    BY <1>6, RingType
<1>9. called = ToSet(wip.effects)
    BY <1>6 DEF Sound
<1> HIDE DEF called
<1>10. /\ store1 \in Stores /\ \A m \in Nodes : store1[m].next = node[m].next
       /\ \A m \in Nodes \ called : store1[m] = node[m]
  <2>1. \A m \in Nodes : node[m] \in Updated
      BY <1>7 DEF Stores, Updated
  <2>2. \A m \in Nodes : LET r == [node[m] EXCEPT !.callback = FALSE]
                         IN  r \in Updated /\ r.next = node[m].next
      BY <2>1 DEF Updated
  <2>3. \A m \in Nodes : store1[m] \in Updated /\ store1[m].next = node[m].next
      BY <2>1, <2>2
  <2>4. store1 \in Stores
      BY <2>3 DEF Stores, Updated
  <2> QED BY <2>3, <2>4
<1> HIDE DEF store1
<1>11. Ring(store1, wip.baseQueue, q) /\ Ring(store1, pending, p)
    BY <1>6, <1>8, <1>10, RingFrame
<1>12. /\ node' \in Stores /\ Same(store1, node', ToSet(q) \cup ToSet(p))
       /\ Kept(store1, node', ToSet(q) \cup ToSet(p))
    BY <1>2, <1>7, <1>10, <1>11, CollectIs
<1>13. /\ Same(node, node', ToSet(q) \cup ToSet(p)) /\ Kept(node, node', ToSet(q) \cup ToSet(p))
  <2>1. \A m \in ToSet(q) \cup ToSet(p) : store1[m] = node[m]
      BY <1>6, <1>8, <1>9, <1>10
  <2> QED BY <1>12, <2>1 DEF Same, Kept
<1>14. Same(node, node', ToSet(p)) /\ Kept(node, node', ToSet(q)) /\ Kept(node, node', ToSet(p))
    BY <1>13 DEF Same, Kept
<1>15. /\ Queued(node', wip.baseState, wip.baseQueue, Seen(node, wip.effects), q, p, inserted)
       /\ Due(node', q, p, wip.expirationTime)
  <2> DEFINE seen == Seen(node, wip.effects)
             S == ToSet(q) \cup ToSet(p)
  <2>1. /\ Queued(node, wip.baseState, wip.baseQueue, seen, q, p, inserted) /\ p \in Seq(Nodes)
        /\ Same(node, node', S) /\ Kept(node, node', ToSet(q)) /\ Due(node, q, p, wip.expirationTime)
      BY <1>6, <1>8, <1>13, <1>14
  <2> HIDE DEF seen
  <2>2. /\ Queued(node', wip.baseState, wip.baseQueue, seen, q, p, inserted)
        /\ \A t : Due(node, q, p, t) => Due(node', q, p, t)
      BY <2>1, QueuedFrame
  <2> QED BY <2>1, <2>2 DEF seen
<1>16. /\ current' \in Fibers /\ current'.effects = <<>> /\ current'.baseState = wip.baseState
       /\ current'.baseQueue = wip.baseQueue /\ current'.memoizedState = wip.memoizedState
       /\ current'.expirationTime = wip.expirationTime
  <2>1. <<>> \in Seq(Nodes)
      OBVIOUS
  <2> QED BY <1>2, <1>7, <2>1 DEF Fibers
<1>17. NewInv(p)'
  <2>1. Ring(node', pending, p)
      BY <1>6, <1>14, RingFrame DEF Kept
  <2>2. Sound(node', ToSet(p))
      BY <1>6, <1>14, SameOf
  <2> QED BY <1>2, <2>1, <2>2 DEF NewInv
<1>18. CurrentIs(node, p)'
  <2>1. Queued(node', current'.baseState, current'.baseQueue, MadeIn(current'.memoizedState), q, p, inserted')
      BY <1>2, <1>6, <1>15, <1>16
  <2>2. Due(node', q, p, current'.expirationTime)
      BY <1>15, <1>16
  <2> QED BY <2>1, <2>2 DEF CurrentIs
<1>19. ListsInv'
    BY <1>2, <1>17, <1>18 DEF ListsInv
<1>20. calls' \in [1 .. MaxUpdates -> Nat]
       /\ \A u \in 1 .. MaxUpdates : calls'[u] > 0 <=> u \in Seen(node, wip.effects)
    BY <1>1, <1>3, <1>9, CallsAre
<1>21. ShownInv'
  <2>1. Seen(node, wip.effects) \subseteq 1 .. inserted
    <3>1. Synced(node, ToSet(q)) \subseteq Of(node, ToSet(q))
        BY SyncedIn
    <3> QED BY <1>6, <3>1 DEF Queued, Account
  <2>2. Increasing(current'.memoizedState) /\ MadeIn(current'.memoizedState) \subseteq 1 .. inserted'
      BY <1>2, <1>6, <1>16, <2>1
  <2>3. \A u \in 1 .. MaxUpdates : calls'[u] > 0 <=> u \in MadeIn(current'.memoizedState)
      BY <1>6, <1>16, <1>20
  <2> QED BY <2>2, <2>3 DEF ShownInv
<1>22. Types'
  <2>1. wip' \in Fibers
    <3>1. <<>> \in Seq(Nat) /\ <<>> \in Seq(Nodes)
        OBVIOUS
    <3> QED BY <1>2, <3>1 DEF EmptyFiber, Fibers
  <2> QED BY <1>1, <1>2, <1>12, <1>16, <1>20, <2>1 DEF Types, Phases, Lists
<1>23. PhaseInv'
    BY <1>2 DEF PhaseInv
<1> QED BY <1>19, <1>21, <1>22, <1>23 DEF IInv

\* discard keeps the invariant: the list of current was not touched, or it is spoilt.
LEMMA DiscardKeeps ==
    ASSUME IInv, list # "spoilt", discard
    PROVE  IInv'
<1> SUFFICES ASSUME list' # "spoilt" PROVE IInv'
    BY DEF IInv
<1>1. Types /\ PhaseInv /\ ShownInv /\ ListsInv
    BY DEF IInv
<1>2. /\ pc' = "idle" /\ renderTime' = NoWork /\ node' = Collect(node, current.baseQueue)
      /\ wip' = EmptyFiber /\ loop' = NoLoop
      /\ list' = IF list = "touched" THEN "spoilt" ELSE list
      /\ pending' = pending /\ current' = current /\ inserted' = inserted /\ captured' = captured
      /\ calls' = calls
    BY DEF discard
<1>3. list = "clean" /\ list' = "clean"
    BY <1>1, <1>2 DEF Types, Lists
<1>4. PICK p : NewInv(p) /\ CurrentIs(node, p)
    BY <1>1 DEF ListsInv
<1>5. PICK c : /\ Queued(node, current.baseState, current.baseQueue, MadeIn(current.memoizedState), c, p, inserted)
               /\ Due(node, c, p, current.expirationTime)
    BY <1>3, <1>4 DEF CurrentIs
<1>6. /\ Ring(node, pending, p) /\ Sound(node, ToSet(p)) /\ Ring(node, current.baseQueue, c)
      /\ p \in Seq(Nodes)
    BY <1>4, <1>5, RingType DEF NewInv, Queued
<1>7. /\ node \in Stores /\ current.baseQueue \in Nodes \cup {Null} /\ pending \in Nodes \cup {Null}
    BY <1>1 DEF Types, Fibers
<1>8. /\ node' \in Stores /\ Same(node, node', ToSet(c) \cup ToSet(p)) /\ Kept(node, node', ToSet(c) \cup ToSet(p))
    BY <1>2, <1>6, <1>7, CollectIs
<1>9. Same(node, node', ToSet(p)) /\ Kept(node, node', ToSet(c)) /\ Kept(node, node', ToSet(p))
    BY <1>8 DEF Same, Kept
<1>10. CurrentIs(node, p)'
  <2>1. /\ Queued(node', current.baseState, current.baseQueue, MadeIn(current.memoizedState), c, p, inserted)
        /\ Due(node', c, p, current.expirationTime)
      BY <1>5, <1>6, <1>8, <1>9, QueuedFrame
  <2> QED BY <1>2, <2>1 DEF CurrentIs
<1>11. NewInv(p)'
  <2>1. Ring(node', pending, p)
      BY <1>6, <1>9, RingFrame DEF Kept
  <2>2. Sound(node', ToSet(p))
      BY <1>6, <1>9, SameOf
  <2> QED BY <1>2, <2>1, <2>2 DEF NewInv
<1>12. ListsInv'
    BY <1>2, <1>10, <1>11 DEF ListsInv
<1>13. Types'
  <2>1. wip' \in Fibers /\ loop' \in Loops
    <3>1. <<>> \in Seq(Nat) /\ <<>> \in Seq(Nodes)
        OBVIOUS
    <3> QED BY <1>2, <3>1 DEF EmptyFiber, Fibers, NoLoop, Loops
  <2> QED BY <1>1, <1>2, <1>3, <1>8, <2>1 DEF Types, Phases
<1>14. PhaseInv' /\ ShownInv'
    BY <1>1, <1>2, <1>3 DEF PhaseInv, ShownInv
<1> QED BY <1>12, <1>13, <1>14 DEF IInv

-----------------------------------------------------------------------------
(* The invariant holds *)

\* The invariant holds at first.
LEMMA Starts == Init => IInv
<1> SUFFICES ASSUME Init PROVE IInv
    OBVIOUS
<1> USE DEF Init
<1>1. /\ <<>> \in Seq(Nat) /\ <<>> \in Seq(Nodes) /\ MadeIn(<<>>) = {} /\ Increasing(<<>>)
      /\ ToSet(<<>>) = {} /\ 1 .. 0 = {}
    BY MadeNone, EmptyPath
<1>2. node \in Stores
    BY BoundsAssumption DEF Stores, Blank, Capture, NoWork, Null
<1>3. EmptyFiber \in Fibers /\ NoLoop \in Loops /\ EmptyFiber.effects = <<>>
    BY <1>1 DEF EmptyFiber, Fibers, NoLoop, Loops
<1>4. Types
    BY <1>2, <1>3 DEF Types, Phases, Lists
<1>5. PhaseInv
    BY DEF PhaseInv
<1>6. ShownInv
    BY <1>1 DEF ShownInv, EmptyFiber
<1>7. Ring(node, Null, <<>>) /\ Sound(node, ToSet(<<>>))
    BY EmptyPath DEF Ring, Sound
<1>8. NewInv(<<>>)
    BY <1>7 DEF NewInv
<1>9. CurrentIs(node, <<>>)
  <2>1. Of(node, {}) = {} /\ Synced(node, {}) = {} /\ Ordered(node, <<>>) /\ \A t : Marked(node, <<>>, t)
      BY OfNone, OrderedNone
  <2>2. Account(node, <<>>, <<>>, <<>>, 0)
      BY <1>1, <2>1 DEF Account, Before
  <2>3. Queued(node, <<>>, Null, MadeIn(<<>>), <<>>, <<>>, 0)
      BY <1>1, <1>7, <2>1, <2>2 DEF Queued
  <2>4. Due(node, <<>>, <<>>, NoWork)
      BY <1>1, <2>1 DEF Due, AllMarked
  <2> QED BY <2>3, <2>4 DEF CurrentIs, EmptyFiber
<1>10. ListsInv
    BY <1>8, <1>9 DEF ListsInv
<1> QED BY <1>4, <1>5, <1>6, <1>10 DEF IInv

\* What was spoilt stays so.
LEMMA SpoiltStays ==
    ASSUME [Next]_vars, list = "spoilt"
    PROVE  list' = "spoilt"
BY DEF Next, vars, enqueueUpdate, Touched, createWorkInProgress, RenderStep, bailout, processUpdateQueue,
       skipUpdate, applyUpdate, reducerReturns, enqueueCapturedUpdate, commitUpdateQueue, discard

\* Every step keeps the invariant.
LEMMA IInvStep ==
    ASSUME IInv, [Next]_vars
    PROVE  IInv'
<1>1. CASE list = "spoilt"
    BY <1>1, SpoiltStays DEF IInv
<1>2. CASE list # "spoilt"
  <2>1. ASSUME NEW time \in Times, enqueueUpdate(time) PROVE IInv'
      BY <1>2, <2>1, EnqueueKeeps
  <2>2. ASSUME NEW time \in Times, createWorkInProgress(time) PROVE IInv'
      BY <1>2, <2>2, CreateKeeps
  <2>3. CASE bailout
      BY <1>2, <2>3, BailoutKeeps
  <2>4. CASE processUpdateQueue
      BY <1>2, <2>4, ProcessKeeps
  <2>5. CASE skipUpdate
      BY <1>2, <2>5, SkipStepKeeps
  <2>6. CASE applyUpdate
      BY <1>2, <2>6, ApplyStepKeeps
  <2>7. CASE reducerReturns
      BY <1>2, <2>7, ReturnKeeps
  <2>8. CASE enqueueCapturedUpdate
      BY <1>2, <2>8, CaptureKeeps
  <2>9. CASE commitUpdateQueue
      BY <1>2, <2>9, CommitKeeps
  <2>10. CASE discard
      BY <1>2, <2>10, DiscardKeeps
  <2>11. CASE UNCHANGED vars
      BY <2>11 DEF vars, IInv, Types, PhaseInv, ShownInv, ListsInv, NewInv, CurrentIs, WorkIs, LoopIs, Seen
  <2> QED BY <2>1, <2>2, <2>3, <2>4, <2>5, <2>6, <2>7, <2>8, <2>9, <2>10, <2>11 DEF Next, RenderStep
<1> QED BY <1>1, <1>2

\* The invariant.
THEOREM InvariantHolds == Spec => []IInv
<1>1. Init => IInv
    BY Starts
<1>2. IInv /\ [Next]_vars => IInv'
    BY IInvStep
<1> QED BY <1>1, <1>2, PTL DEF Spec

-----------------------------------------------------------------------------
(* The updates in a state *)

\* The updates among the first i elements of s.
Upto(s, i) == {s[j] : j \in 1 .. i} \ {Capture}

\* Made goes through the state from its beginning.
LEMMA MadeSteps ==
    ASSUME NEW s \in Seq(Nat)
    PROVE  \E f : /\ f[0] = <<>> /\ Made(s) = f[Len(s)]
                  /\ \A i \in 1 .. Len(s) :
                        f[i] = IF s[i] = Capture THEN f[i - 1] ELSE Append(f[i - 1], s[i])
<1> DEFINE Step(a, u) == IF u = Capture THEN a ELSE Append(a, u)
           Is(f, n) == f = [i \in 0 .. n |-> IF i = 0 THEN <<>> ELSE Step(f[i - 1], s[i])]
           Bad == {n \in Nat : n <= Len(s) /\ ~ \E f : Is(f, n)}
           after == CHOOSE f : Is(f, Len(s))
<1>1. Len(s) \in Nat
    OBVIOUS
<1>2. ASSUME NEW n \in Bad PROVE \E m \in Bad : m < n
  <2>1. n # 0
    <3>1. Is([i \in 0 .. 0 |-> <<>>], 0)
        OBVIOUS
    <3> QED BY <1>1, <3>1
  <2>2. n - 1 \in Nat /\ n - 1 < n /\ n - 1 <= Len(s)
      BY <1>1, <2>1
  <2>3. SUFFICES ASSUME NEW f, Is(f, n - 1) PROVE \E h : Is(h, n)
    <3> HIDE DEF Is
    <3> QED BY <2>2
  <2> HIDE DEF Step
  <2> DEFINE g == [i \in 0 .. n |-> IF i = n THEN Step(f[n - 1], s[n]) ELSE f[i]]
  <2>4. \A i \in 0 .. n : g[i] = IF i = 0 THEN <<>> ELSE Step(g[i - 1], s[i])
    <3> TAKE i \in 0 .. n
    <3>1. CASE i = n
        BY <2>1, <2>2, <3>1
    <3>2. CASE i # n
      <4>1. i \in 0 .. (n - 1) /\ (i = 0 \/ i - 1 \in 0 .. (n - 1))
          BY <2>2, <3>2
      <4>2. f[i] = IF i = 0 THEN <<>> ELSE Step(f[i - 1], s[i])
          BY <2>3, <4>1
      <4>3. g[i] = f[i] /\ (i # 0 => g[i - 1] = f[i - 1])
          BY <3>2, <4>1
      <4> QED BY <4>2, <4>3
    <3> QED BY <3>1, <3>2
  <2>5. Is(g, n)
    <3> HIDE DEF g
    <3>1. g = [i \in 0 .. n |-> g[i]]
        BY DEF g
    <3> QED BY <2>4, <3>1
  <2> QED BY <2>5
<1>3. \E f : Is(f, Len(s))
  <2> HIDE DEF Is
  <2>1. Bad \in SUBSET Nat /\ \A n \in Bad : \E m \in Bad : m < n
      BY <1>2
  <2>2. Bad = {}
    <3> HIDE DEF Bad
    <3> QED BY <2>1, NoSmallest
  <2> QED BY <1>1, <2>2
<1>4. Is(after, Len(s))
  <2> HIDE DEF Is
  <2> QED BY <1>3
<1>5. Made(s) = after[Len(s)]
  <2>1. ASSUME NEW g, NEW i
        PROVE  With(g[i - 1], LAMBDA a : IF s[i] = Capture THEN a ELSE Append(a, s[i]))
                 = IF s[i] = Capture THEN g[i - 1] ELSE Append(g[i - 1], s[i])
    <3> DEFINE v == g[i - 1]
               E == IF s[i] = Capture THEN v ELSE Append(v, s[i])
    <3>1. {IF s[i] = Capture THEN a ELSE Append(a, s[i]) : a \in {v}} = {E}
        OBVIOUS
    <3>2. (CHOOSE y \in {IF s[i] = Capture THEN a ELSE Append(a, s[i]) : a \in {v}} : TRUE) = E
      <4> HIDE DEF E
      <4>1. (CHOOSE y \in {E} : TRUE) = E
          OBVIOUS
      <4> QED BY <3>1, <4>1
    <3> QED BY <3>2 DEF With
  <2>2. \A g : [i \in 0 .. Len(s) |->
                 IF i = 0 THEN <<>>
                 ELSE With(g[i - 1], LAMBDA a : IF s[i] = Capture THEN a ELSE Append(a, s[i]))]
             = [i \in 0 .. Len(s) |->
                 IF i = 0 THEN <<>>
                 ELSE IF s[i] = Capture THEN g[i - 1] ELSE Append(g[i - 1], s[i])]
      BY <2>1
  <2> QED BY <2>2 DEF Made, Fold, Stages
<1> HIDE DEF after
<1>6. after[0] = <<>> /\ \A i \in 1 .. Len(s) : after[i] = Step(after[i - 1], s[i])
  <2> HIDE DEF Step
  <2>1. after = [i \in 0 .. Len(s) |-> IF i = 0 THEN <<>> ELSE Step(after[i - 1], s[i])]
      BY <1>4
  <2>2. 0 \in 0 .. Len(s) /\ \A i \in 1 .. Len(s) : i \in 0 .. Len(s) /\ i # 0
      BY <1>1
  <2> QED BY <2>1, <2>2
<1> QED BY <1>5, <1>6

\* Made keeps the updates, in their order.
LEMMA MadeIs ==
    ASSUME NEW s \in Seq(Nat)
    PROVE  /\ Made(s) \in Seq(Nat \ {Capture}) /\ MadeIn(Made(s)) = MadeIn(s)
           /\ Increasing(s) => Increasing(Made(s))
<1>1. PICK f : /\ f[0] = <<>> /\ Made(s) = f[Len(s)]
               /\ \A i \in 1 .. Len(s) :
                     f[i] = IF s[i] = Capture THEN f[i - 1] ELSE Append(f[i - 1], s[i])
    BY MadeSteps
<1>2. Len(s) \in Nat /\ \A i \in 1 .. Len(s) : s[i] \in Nat
    OBVIOUS
<1> DEFINE Good(i) == /\ f[i] \in Seq(Nat \ {Capture}) /\ MadeIn(f[i]) = Upto(s, i)
                      /\ Increasing(s) => Increasing(f[i])
           Bad == {i \in 0 .. Len(s) : ~ Good(i)}
<1>3. Good(0)
  <2>1. Upto(s, 0) = {} /\ <<>> \in Seq(Nat \ {Capture})
      BY DEF Upto
  <2> QED BY <1>1, <2>1, MadeNone
<1>4. ASSUME NEW i \in 1 .. Len(s), Good(i - 1) PROVE Good(i)
  <2> DEFINE t == f[i - 1]
             u == s[i]
             U == Upto(s, i - 1)
  <2>1. u \in Nat /\ f[i] = IF u = Capture THEN t ELSE Append(t, u)
      BY <1>1, <1>2
  <2>2. t \in Seq(Nat \ {Capture}) /\ t \in Seq(Nat) /\ MadeIn(t) = U /\ (Increasing(s) => Increasing(t))
      BY <1>4
  <2>3. Upto(s, i) = U \cup One(u)
    <3>1. \A j : j \in 1 .. i <=> j \in 1 .. (i - 1) \/ j = i
        OBVIOUS
    <3> QED BY <3>1 DEF Upto, One
  <2>4. Increasing(s) => Before(U, One(u))
    <3> SUFFICES ASSUME Increasing(s), NEW a \in U, NEW b \in One(u) PROVE a < b
        BY DEF Before
    <3>1. PICK j \in 1 .. (i - 1) : a = s[j] /\ a # Capture
        BY DEF Upto
    <3>2. b = s[i] /\ s[i] # Capture
        BY DEF One
    <3>3. j \in 1 .. Len(s) /\ j < i
        OBVIOUS
    <3> QED BY <3>1, <3>2, <3>3 DEF Increasing
  <2> HIDE DEF t, u, U
  <2>5. CASE u = Capture
    <3>1. One(u) = {}
        BY <2>5 DEF One
    <3> QED BY <2>1, <2>2, <2>3, <2>5, <3>1
  <2>6. CASE u # Capture
    <3>1. f[i] = Append(t, u) /\ u \in Nat \ {Capture}
        BY <2>1, <2>6
    <3>2. Append(t, u) \in Seq(Nat \ {Capture})
        BY <2>2, <3>1
    <3>3. /\ MadeIn(Append(t, u)) = MadeIn(t) \cup One(u)
          /\ Increasing(t) /\ Before(MadeIn(t), One(u)) => Increasing(Append(t, u))
        BY <2>1, <2>2, MadeAppend
    <3> QED BY <2>2, <2>3, <2>4, <3>1, <3>2, <3>3
  <2> QED BY <2>5, <2>6
<1>5. ASSUME NEW i \in Bad PROVE \E m \in Bad : m < i
  <2>1. i # 0
      BY <1>3
  <2>2. i \in 1 .. Len(s) /\ i - 1 \in 0 .. Len(s) /\ i - 1 < i
      BY <1>2, <2>1
  <2>3. ~ Good(i - 1)
      BY <1>4, <2>2
  <2> HIDE DEF Good
  <2> QED BY <2>2, <2>3
<1> HIDE DEF Good
<1>6. Bad = {}
  <2>1. Bad \in SUBSET Nat /\ \A i \in Bad : \E m \in Bad : m < i
      BY <1>2, <1>5
  <2> HIDE DEF Bad
  <2> QED BY <2>1, NoSmallest
<1>7. Good(Len(s))
    BY <1>2, <1>6
<1>8. Upto(s, Len(s)) = MadeIn(s)
    BY DEF Upto, MadeIn
<1> QED BY <1>1, <1>7, <1>8 DEF Good

\* Numbers that rise and are all those up to top are counted out one by one.
LEMMA Counted ==
    ASSUME NEW s \in Seq(Nat \ {Capture}), NEW top \in Nat, Increasing(s), MadeIn(s) = 1 .. top
    PROVE  s = [u \in 1 .. top |-> u]
<1>1. Len(s) \in Nat /\ DOMAIN s = 1 .. Len(s) /\ \A i \in 1 .. Len(s) : s[i] \in Nat /\ s[i] # Capture
    OBVIOUS
<1>2. \A i \in 1 .. Len(s) : s[i] \in 1 .. top
    BY <1>1 DEF MadeIn
<1>3. \A u \in 1 .. top : \E i \in 1 .. Len(s) : s[i] = u
    BY DEF MadeIn
<1>4. \A i, k \in 1 .. Len(s) : i < k => s[i] < s[k]
    BY <1>1 DEF Increasing
<1> DEFINE Bad == {i \in 1 .. Len(s) : s[i] # i}
<1>5. ASSUME NEW i \in Bad PROVE \E m \in Bad : m < i
  <2>1. SUFFICES ASSUME \A m \in 1 .. Len(s) : m < i => s[m] = m PROVE FALSE
      OBVIOUS
  <2>2. s[i] > i
    <3>1. i \in Nat /\ s[i] \in Nat /\ s[i] # 0
        BY <1>2
    <3>2. CASE i = 1
        BY <3>1, <3>2
    <3>3. CASE i # 1
      <4>1. i - 1 \in 1 .. Len(s) /\ i - 1 < i
          BY <1>1, <3>3
      <4>2. s[i - 1] = i - 1 /\ s[i - 1] < s[i]
          BY <1>4, <2>1, <4>1
      <4> QED BY <3>1, <4>2
    <3> QED BY <3>2, <3>3
  <2>3. i \in 1 .. top
      BY <1>2, <2>2
  <2>4. PICK j \in 1 .. Len(s) : s[j] = i
      BY <1>3, <2>3
  <2>5. ~(j < i)
      BY <2>1, <2>4
  <2>6. j = i \/ i < j
      BY <1>1, <2>5
  <2> QED BY <1>1, <1>4, <2>2, <2>4, <2>6
<1>6. Bad = {}
  <2>1. Bad \in SUBSET Nat /\ \A i \in Bad : \E m \in Bad : m < i
      BY <1>1, <1>5
  <2> HIDE DEF Bad
  <2> QED BY <2>1, NoSmallest
<1>7. \A i \in 1 .. Len(s) : s[i] = i
    BY <1>6
<1>8. 1 .. Len(s) = 1 .. top
    BY <1>2, <1>3, <1>7
<1>9. s = [u \in 1 .. Len(s) |-> s[u]]
    BY <1>1
<1> QED BY <1>7, <1>8, <1>9

\* Two states, one behind the other.
LEMMA MadeJoin ==
    ASSUME NEW s \in Seq(Nat), NEW t \in Seq(Nat)
    PROVE  /\ MadeIn(s \o t) = MadeIn(s) \cup MadeIn(t) /\ s \o t \in Seq(Nat)
           /\ Increasing(s) /\ Increasing(t) /\ Before(MadeIn(s), MadeIn(t)) => Increasing(s \o t)
<1> DEFINE r == s \o t
<1>1. /\ Len(s) \in Nat /\ Len(t) \in Nat /\ r \in Seq(Nat) /\ Len(r) = Len(s) + Len(t)
      /\ \A i \in 1 .. Len(s) : r[i] = s[i]
      /\ \A i \in 1 .. Len(t) : r[Len(s) + i] = t[i]
    OBVIOUS
<1> HIDE DEF r
<1>2. \A i \in 1 .. Len(r) :
         i \in 1 .. Len(s) \/ (i - Len(s) \in 1 .. Len(t) /\ Len(s) + (i - Len(s)) = i)
    BY <1>1
<1>3. /\ \A i \in 1 .. Len(s) : i \in 1 .. Len(r)
      /\ \A i \in 1 .. Len(t) : Len(s) + i \in 1 .. Len(r)
    BY <1>1
<1>4. MadeIn(r) = MadeIn(s) \cup MadeIn(t)
  <2>1. MadeIn(r) \subseteq MadeIn(s) \cup MadeIn(t)
    <3> SUFFICES ASSUME NEW i \in 1 .. Len(r), r[i] # Capture PROVE r[i] \in MadeIn(s) \cup MadeIn(t)
        BY DEF MadeIn
    <3>1. CASE i \in 1 .. Len(s)
        BY <1>1, <3>1 DEF MadeIn
    <3>2. CASE i \notin 1 .. Len(s)
      <4>1. i - Len(s) \in 1 .. Len(t) /\ r[i] = t[i - Len(s)]
          BY <1>1, <1>2, <3>2
      <4> QED BY <4>1 DEF MadeIn
    <3> QED BY <3>1, <3>2
  <2>2. MadeIn(s) \subseteq MadeIn(r)
      BY <1>1, <1>3 DEF MadeIn
  <2>3. MadeIn(t) \subseteq MadeIn(r)
      BY <1>1, <1>3 DEF MadeIn
  <2> QED BY <2>1, <2>2, <2>3
<1>5. ASSUME Increasing(s), Increasing(t), Before(MadeIn(s), MadeIn(t)) PROVE Increasing(r)
  <2> SUFFICES ASSUME NEW i \in 1 .. Len(r), NEW k \in 1 .. Len(r), i < k, r[i] # Capture, r[k] # Capture
               PROVE  r[i] < r[k]
      BY DEF Increasing
  <2>1. CASE k \in 1 .. Len(s)
    <3>1. i \in 1 .. Len(s)
        BY <1>1, <2>1
    <3>2. r[i] = s[i] /\ r[k] = s[k]
        BY <1>1, <2>1, <3>1
    <3>3. s[i] # Capture /\ s[k] # Capture
        BY <3>2
    <3>4. s[i] < s[k]
        BY <1>5, <2>1, <3>1, <3>3 DEF Increasing
    <3> QED BY <3>2, <3>4
  <2>2. CASE k \notin 1 .. Len(s) /\ i \in 1 .. Len(s)
    <3>1. r[i] = s[i] /\ k - Len(s) \in 1 .. Len(t) /\ r[k] = t[k - Len(s)]
        BY <1>1, <1>2, <2>2
    <3>2. r[i] \in MadeIn(s) /\ r[k] \in MadeIn(t)
        BY <2>2, <3>1 DEF MadeIn
    <3> QED BY <1>5, <3>2 DEF Before
  <2>3. CASE k \notin 1 .. Len(s) /\ i \notin 1 .. Len(s)
    <3>1. /\ i - Len(s) \in 1 .. Len(t) /\ r[i] = t[i - Len(s)]
          /\ k - Len(s) \in 1 .. Len(t) /\ r[k] = t[k - Len(s)]
        BY <1>1, <1>2, <2>3
    <3>2. i - Len(s) < k - Len(s)
        BY <1>1
    <3> QED BY <1>5, <3>1, <3>2 DEF Increasing
  <2> QED BY <2>1, <2>2, <2>3
<1> QED BY <1>1, <1>4, <1>5 DEF r

\* The updates of a list.
LEMMA UpdatesAre ==
    ASSUME node \in Stores, NEW last \in Nodes \cup {Null}, NEW q, Ring(node, last, q)
    PROVE  /\ Updates(last) \in Seq(Nat) /\ MadeIn(Updates(last)) = Of(node, ToSet(q))
           /\ Ordered(node, q) => Increasing(Updates(last))
<1>1. q \in Seq(Nodes) /\ List(node, last) = q /\ Len(q) \in Nat /\ DOMAIN q = 1 .. Len(q)
    BY RingType, ListIs
<1> DEFINE s == Updates(last)
<1>2. s = [i \in 1 .. Len(q) |-> node[q[i]].of]
    BY <1>1 DEF Updates
<1> HIDE DEF s
<1>3. \A i \in 1 .. Len(q) : node[q[i]].of \in Nat
    BY <1>1, BoundsAssumption DEF Stores
<1>4. s \in Seq(Nat) /\ Len(s) = Len(q) /\ \A i \in 1 .. Len(q) : s[i] = node[q[i]].of
    BY <1>1, <1>2, <1>3
<1>5. MadeIn(s) = Of(node, ToSet(q))
  <2>1. \A x : x \in ToSet(q) <=> \E i \in 1 .. Len(q) : x = q[i]
      BY <1>1 DEF ToSet
  <2>2. \A x : x \in MadeIn(s) <=> x # Capture /\ \E i \in 1 .. Len(q) : x = s[i]
      BY <1>4 DEF MadeIn
  <2>3. \A x : x \in Of(node, ToSet(q)) <=> x # Capture /\ \E m \in ToSet(q) : x = node[m].of
      BY DEF Of
  <2>4. \A x : x \in MadeIn(s) => x \in Of(node, ToSet(q))
    <3> TAKE x
    <3> HAVE x \in MadeIn(s)
    <3>1. PICK i \in 1 .. Len(q) : x = s[i]
        BY <2>2
    <3>2. q[i] \in ToSet(q) /\ x = node[q[i]].of /\ x # Capture
        BY <1>4, <2>1, <2>2, <3>1
    <3> QED BY <2>3, <3>2
  <2>5. \A x : x \in Of(node, ToSet(q)) => x \in MadeIn(s)
    <3> TAKE x
    <3> HAVE x \in Of(node, ToSet(q))
    <3>1. PICK m \in ToSet(q) : x = node[m].of
        BY <2>3
    <3>2. PICK i \in 1 .. Len(q) : m = q[i]
        BY <2>1
    <3>3. x = s[i] /\ x # Capture
        BY <1>4, <2>3, <3>1, <3>2
    <3> QED BY <2>2, <3>3
  <2> QED BY <2>4, <2>5
<1>6. Ordered(node, q) => Increasing(s)
    BY <1>4 DEF Ordered, Increasing
<1> QED BY <1>4, <1>5, <1>6 DEF s

\* A queue in which every update is, in its order, is complete.
LEMMA QueuedIsComplete ==
    ASSUME node \in Stores, pending \in Nodes \cup {Null}, inserted \in Nat, NEW fiber \in Fibers, NEW seen, NEW q, NEW p,
           Queued(node, fiber.baseState, fiber.baseQueue, seen, q, p, inserted), Ring(node, pending, p)
    PROVE  Complete(fiber)
<1> DEFINE a == fiber.baseState
           b == Updates(fiber.baseQueue)
           c == Updates(pending)
<1>1. a \in Seq(Nat) /\ fiber.baseQueue \in Nodes \cup {Null}
    BY DEF Fibers
<1>2. /\ Ring(node, fiber.baseQueue, q) /\ Increasing(a) /\ Ordered(node, q) /\ Ordered(node, p)
      /\ Before(MadeIn(a), Of(node, ToSet(q)) \cup Of(node, ToSet(p)))
      /\ Before(Of(node, ToSet(q)), Of(node, ToSet(p)))
      /\ MadeIn(a) \cup Of(node, ToSet(q)) \cup Of(node, ToSet(p)) = 1 .. inserted
    BY DEF Queued, Account
<1>3. b \in Seq(Nat) /\ MadeIn(b) = Of(node, ToSet(q)) /\ Increasing(b)
    BY <1>1, <1>2, UpdatesAre
<1>4. c \in Seq(Nat) /\ MadeIn(c) = Of(node, ToSet(p)) /\ Increasing(c)
    BY <1>2, UpdatesAre
<1>5. Complete(fiber) <=> Made(a \o b \o c) = [u \in 1 .. inserted |-> u]
    BY DEF Complete
<1> HIDE DEF a, b, c
<1>6. a \o b \in Seq(Nat) /\ MadeIn(a \o b) = MadeIn(a) \cup MadeIn(b) /\ Increasing(a \o b)
  <2>1. Before(MadeIn(a), MadeIn(b))
      BY <1>2, <1>3 DEF Before
  <2> QED BY <1>1, <1>2, <1>3, <2>1, MadeJoin DEF a
<1> DEFINE ab == a \o b
<1>7. ab \in Seq(Nat) /\ Before(MadeIn(ab), MadeIn(c)) /\ MadeIn(ab) \cup MadeIn(c) = 1 .. inserted /\ Increasing(ab)
    BY <1>2, <1>3, <1>4, <1>6 DEF Before
<1>8. Made(a \o b \o c) = Made(ab \o c)
    OBVIOUS
<1> HIDE DEF ab
<1>9. ab \o c \in Seq(Nat) /\ MadeIn(ab \o c) = 1 .. inserted /\ Increasing(ab \o c)
    BY <1>4, <1>7, MadeJoin
<1>10. /\ Made(ab \o c) \in Seq(Nat \ {Capture}) /\ MadeIn(Made(ab \o c)) = 1 .. inserted
       /\ Increasing(Made(ab \o c))
    BY <1>9, MadeIs
<1>11. Made(ab \o c) = [u \in 1 .. inserted |-> u]
    BY <1>10, Counted
<1> QED BY <1>5, <1>8, <1>11

-----------------------------------------------------------------------------
(* The properties *)

\* What a state shows is what Made lists, and it is a state of the log.
LEMMA MadeShown ==
    ASSUME NEW s \in Seq(Nat), NEW top \in Nat, Increasing(s), MadeIn(s) \subseteq 1 .. top
    PROVE  /\ Made(s) \in Seq(1 .. top) /\ Log!InOrder(Made(s))
           /\ Log!ToSet(Made(s)) = MadeIn(s)
<1> DEFINE m == Made(s)
<1>1. m \in Seq(Nat \ {Capture}) /\ MadeIn(m) = MadeIn(s) /\ Increasing(m)
    BY MadeIs
<1> HIDE DEF m
<1>2. /\ Len(m) \in Nat /\ DOMAIN m = 1 .. Len(m) /\ \A i \in 1 .. Len(m) : m[i] \in Nat /\ m[i] # Capture
    BY <1>1
<1>3. \A i \in 1 .. Len(m) : m[i] \in MadeIn(m)
    BY <1>2 DEF MadeIn
<1>4. m \in Seq(1 .. top)
  <2>1. \A i \in 1 .. Len(m) : m[i] \in 1 .. top
      BY <1>1, <1>3
  <2>2. m = [i \in 1 .. Len(m) |-> m[i]]
      BY <1>1
  <2> QED BY <1>2, <2>1, <2>2
<1>5. Log!InOrder(m)
  <2>1. \A i, k \in 1 .. Len(m) : i < k => m[i] < m[k]
      BY <1>1, <1>2 DEF Increasing
  <2> QED BY <1>2, <2>1 DEF Log!InOrder
<1>6. Log!ToSet(m) = MadeIn(m)
  <2>1. \A x : x \in Log!ToSet(m) <=> \E i \in 1 .. Len(m) : x = m[i]
      BY <1>2 DEF Log!ToSet
  <2>2. \A x : x \in MadeIn(m) <=> x # Capture /\ \E i \in 1 .. Len(m) : x = m[i]
      BY DEF MadeIn
  <2> QED BY <1>2, <2>1, <2>2
<1> QED BY <1>1, <1>4, <1>5, <1>6 DEF m

\* Every queue that is looked at holds all updates, in their order.
LEMMA KeptIn == IInv => AllUpdatesKept
<1> SUFFICES ASSUME IInv, list # "spoilt"
             PROVE  (list = "clean" => Complete(current)) /\ (pc = "rendered" => Complete(wip))
    BY DEF AllUpdatesKept
<1>1. /\ node \in Stores /\ pending \in Nodes \cup {Null} /\ inserted \in Nat
      /\ current \in Fibers /\ wip \in Fibers
    BY DEF IInv, Types
<1>2. PICK p : /\ NewInv(p) /\ CurrentIs(node, p)
               /\ pc \in {"begin", "rendered"} => \E q : WorkIs(q, p)
    BY DEF IInv, ListsInv
<1>3. Ring(node, pending, p)
    BY <1>2 DEF NewInv
<1>4. ASSUME list = "clean" PROVE Complete(current)
  <2> DEFINE seen == MadeIn(current.memoizedState)
  <2>1. PICK c : Queued(node, current.baseState, current.baseQueue, seen, c, p, inserted)
      BY <1>2, <1>4 DEF CurrentIs
  <2> HIDE DEF seen
  <2> QED BY <1>1, <1>3, <2>1, QueuedIsComplete
<1>5. ASSUME pc = "rendered" PROVE Complete(wip)
  <2> DEFINE seen == Seen(node, wip.effects)
  <2>1. PICK q : Queued(node, wip.baseState, wip.baseQueue, seen, q, p, inserted)
      BY <1>2, <1>5 DEF WorkIs
  <2> HIDE DEF seen
  <2> QED BY <1>1, <1>3, <2>1, QueuedIsComplete
<1> QED BY <1>4, <1>5

\* No update is dropped, doubled or moved in the queue of current, from which the
\* next render may start at any time, nor in that of a render that commits:
\* whatever processUpdateQueue skipped, copied, joined and closed before.
THEOREM UpdatesKept == Spec => []AllUpdatesKept
BY InvariantHolds, KeptIn, PTL

\* What waits in the lists is no more urgent than the fiber says.
LEMMA MarkedIn == IInv => RemainingWorkIsMarked
<1> SUFFICES ASSUME IInv, list = "clean"
             PROVE  LET base == List(node, current.baseQueue)
                        new  == List(node, pending)
                    IN  /\ \A i \in DOMAIN new : node[new[i]].time <= current.expirationTime
                        /\ \A i \in DOMAIN base :
                              node[base[i]].time <= current.expirationTime \/ (i > 1 /\ node[base[i]].time = Sync)
    BY DEF RemainingWorkIsMarked
<1>1. /\ node \in Stores /\ pending \in Nodes \cup {Null} /\ current.baseQueue \in Nodes \cup {Null}
    BY DEF IInv, Types, Fibers
<1>2. PICK p : NewInv(p) /\ CurrentIs(node, p)
    BY DEF IInv, ListsInv
<1>3. PICK c : /\ Queued(node, current.baseState, current.baseQueue, MadeIn(current.memoizedState), c, p, inserted)
               /\ Due(node, c, p, current.expirationTime)
    BY <1>2 DEF CurrentIs
<1>4. Ring(node, pending, p) /\ Ring(node, current.baseQueue, c)
    BY <1>2, <1>3 DEF NewInv, Queued
<1>5. List(node, pending) = p /\ List(node, current.baseQueue) = c
    BY <1>1, <1>4, ListIs
<1>6. p \in Seq(Nodes) /\ c \in Seq(Nodes) /\ DOMAIN p = 1 .. Len(p) /\ DOMAIN c = 1 .. Len(c)
    BY <1>4, RingType
<1>7. /\ \A i \in DOMAIN p : node[p[i]].time <= current.expirationTime
      /\ \A i \in DOMAIN c :
            node[c[i]].time <= current.expirationTime \/ (i > 1 /\ node[c[i]].time = Sync)
  <2>1. \A i \in DOMAIN p : p[i] \in ToSet(p)
      BY DEF ToSet
  <2> QED BY <1>3, <1>6, <2>1 DEF Due, Marked, AllMarked
<1> QED BY <1>5, <1>7

\* What waits in the queue is known to the fiber: the expiration time that
\* processUpdateQueue leaves and enqueueUpdate raises covers every update there.
THEOREM WorkIsMarked == Spec => []RemainingWorkIsMarked
BY InvariantHolds, MarkedIn, PTL

\* Callbacks were called for what is on the screen.
LEMMA CallbacksIn == IInv => CallbacksWithTheirUpdate
<1> SUFFICES ASSUME IInv, list # "spoilt", NEW u \in 1 .. MaxUpdates
             PROVE  (calls[u] > 0) <=> (u \in ToSet(current.memoizedState))
    BY DEF CallbacksWithTheirUpdate
<1> DEFINE s == current.memoizedState
<1>1. s \in Seq(Nat) /\ (calls[u] > 0 <=> u \in MadeIn(s))
    BY DEF IInv, Types, Fibers, ShownInv
<1> HIDE DEF s
<1>2. u # Capture
    BY DEF Capture
<1>3. DOMAIN s = 1 .. Len(s)
    BY <1>1
<1>4. u \in MadeIn(s) <=> u \in ToSet(s)
    BY <1>2, <1>3 DEF MadeIn, ToSet
<1> QED BY <1>1, <1>4 DEF s

\* A callback of an update is called by the commit that shows the update first,
\* however often renders collected it as an effect before.
THEOREM CallbacksFollow == Spec => []CallbacksWithTheirUpdate
BY InvariantHolds, CallbacksIn, PTL

\* The log begins empty.
LEMMA LogStarts == Init => Log!LogInit
<1> SUFFICES ASSUME Init PROVE Log!LogInit
    OBVIOUS
<1>1. current.memoizedState = <<>> /\ inserted = 0
    BY DEF Init, EmptyFiber
<1>2. Made(<<>>) = <<>>
  <2>1. <<>> \in Seq(Nat) /\ Len(<<>>) = 0
      OBVIOUS
  <2> QED BY <2>1, MadeSteps
<1> QED BY <1>1, <1>2 DEF Log!LogInit

\* Every step is one of the log's, or leaves it as it is.
LEMMA LogSteps ==
    ASSUME IInv, IInv', [Next]_vars
    PROVE  [list' # "spoilt" => Log!Insert \/ Log!Commit]_(Log!logVars)
<1> DEFINE same == inserted' = inserted /\ current'.memoizedState = current.memoizedState
<1> SUFFICES ASSUME list' # "spoilt" PROVE Log!Insert \/ Log!Commit \/ same
    BY DEF Log!logVars
<1>1. list # "spoilt"
    BY SpoiltStays
<1>2. Types /\ current \in Fibers /\ DOMAIN current = {"baseState", "baseQueue", "effects", "memoizedState", "expirationTime"}
    BY <1>1 DEF IInv, Types, Fibers
<1>3. ASSUME NEW time \in Times, enqueueUpdate(time) PROVE Log!Insert
  <2>1. inserted' = inserted + 1 /\ current' = [current EXCEPT !.expirationTime = Later(@, time)]
      BY <1>3 DEF enqueueUpdate
  <2>2. current'.memoizedState = current.memoizedState
      BY <1>2, <2>1
  <2> QED BY <2>1, <2>2 DEF Log!Insert
<1>4. CASE commitUpdateQueue
  <2>1. /\ inserted' = inserted /\ inserted \in Nat /\ current' = [wip EXCEPT !.effects = <<>>]
        /\ wip \in Fibers /\ pc = "rendered"
      BY <1>2, <1>4 DEF commitUpdateQueue, Types
  <2> DEFINE s == current.memoizedState
             t == current'.memoizedState
  <2>2. t = wip.memoizedState /\ s \in Seq(Nat) /\ t \in Seq(Nat)
      BY <1>2, <2>1 DEF Fibers
  <2>3. Increasing(s) /\ MadeIn(s) \subseteq 1 .. inserted
      BY <1>1 DEF IInv, ShownInv
  <2>4. Increasing(t) /\ MadeIn(t) \subseteq 1 .. inserted
      BY <2>1 DEF IInv, ShownInv
  <2>5. MadeIn(s) \subseteq MadeIn(t)
    <3>1. PICK q, p : WorkIs(q, p)
        BY <1>1, <2>1 DEF IInv, ListsInv
    <3>2. MadeIn(wip.memoizedState) = Seen(node, wip.effects)
        BY <2>1, <3>1 DEF WorkIs
    <3> QED BY <2>2, <3>2 DEF Seen
  <2>6. /\ Made(t) \in Seq(1 .. inserted) /\ Log!InOrder(Made(t)) /\ Log!ToSet(Made(s)) = MadeIn(s)
        /\ Log!ToSet(Made(t)) = MadeIn(t)
    <3> HIDE DEF s, t
    <3> QED BY <2>1, <2>2, <2>3, <2>4, MadeShown
  <2>7. Made(current.memoizedState)' = Made(t)
      BY DEF Made, Fold, Stages, With
  <2> QED BY <2>1, <2>5, <2>6, <2>7 DEF Log!Commit
<1>5. ASSUME NEW time \in Times, createWorkInProgress(time) PROVE same
    BY <1>5 DEF createWorkInProgress
<1>6. CASE bailout
    BY <1>6 DEF bailout
<1>7. CASE processUpdateQueue
  <2>1. inserted' = inserted /\ TransferToCurrent
      BY <1>7 DEF processUpdateQueue
  <2> QED BY <1>2, <2>1 DEF TransferToCurrent
<1>8. CASE skipUpdate
    BY <1>8 DEF skipUpdate
<1>9. CASE applyUpdate
    BY <1>9 DEF applyUpdate
<1>10. CASE reducerReturns
    BY <1>10 DEF reducerReturns
<1>11. CASE enqueueCapturedUpdate
    BY <1>11 DEF enqueueCapturedUpdate
<1>12. CASE discard
    BY <1>12 DEF discard
<1>13. CASE UNCHANGED vars
    BY <1>13 DEF vars
<1> QED BY <1>3, <1>4, <1>5, <1>6, <1>7, <1>8, <1>9, <1>10, <1>11, <1>12, <1>13 DEF Next, RenderStep

\* The queue implements the log of updates: commits show updates in the order they
\* were made, once each, and take none back.
THEOREM ImplementsLog == Spec => ImplementsUpdateLog
<1>1. Init => Log!LogInit
    BY LogStarts
<1>2. IInv /\ IInv' /\ [Next]_vars => [list' # "spoilt" => Log!Insert \/ Log!Commit]_(Log!logVars)
    BY LogSteps
<1> QED BY <1>1, <1>2, InvariantHolds, PTL DEF Spec, ImplementsUpdateLog
=============================================================================
